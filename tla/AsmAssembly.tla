----------------------------- MODULE AsmAssembly -----------------------------
(***************************************************************************)
(* Assembly: how its optimisers are combined, how constants are replaced   *)
(* by cheaper code, and how bytecode is made of it.                        *)
(*                                                                         *)
(* An assembly has items; data, a map from words to their bytes; and subs, *)
(* the assemblies it creates or deploys.  Strings, libraries and jumps     *)
(* into sub-assemblies are left out.                                       *)
(***************************************************************************)
EXTENDS AsmCse

Assembly(items) == [items |-> items, data |-> <<>>, subs |-> <<>>]
-----------------------------------------------------------------------------
(***************************************************************************)
(* ConstantOptimiser.  params: runs, multiplicity, isCreation, and shl:    *)
(* whether the machine has shifts.                                         *)
(***************************************************************************)
TierGas == [zero |-> 0, base |-> 2, verylow |-> 3, low |-> 5, mid |-> 8, high |-> 10, ext |-> 20]

expGas == 10
expByteGas == 50
createDataGas == 200
txDataZeroGas == 4
txDataNonZeroGas == 68
copyGas == 3

runGas(op) == IF op = "jumpdest" THEN 1 ELSE TierGas[gasPriceTier(op)]

simpleRunGas(items) ==
    FoldAlong(LAMBDA n, i : n + CASE i.k \in {"push", "dup", "swap"} -> TierGas["verylow"]
                                  [] i.k = "op" -> IF i.op = "exp" THEN expGas ELSE runGas(i.op)
                                  [] OTHER -> 0,
              0, items)

dataGas(bs, isCreation) ==
    FoldAlong(LAMBDA n, b : n + IF ~ isCreation THEN createDataGas
                                ELSE IF b = 0 THEN txDataZeroGas ELSE txDataNonZeroGas,
              0, bs)

combineGas(params, run, repeated, unique) ==
    params.runs * run + params.multiplicity * repeated + unique

ByteGas(params) == IF params.isCreation THEN txDataNonZeroGas ELSE createDataGas

\* The bytes of a number, the most significant one first.
toBigEndian(n, size) == [i \in 1 .. size |-> (n \div ((ByteMask + 1) ^ (size - i))) % (ByteMask + 1)]

LiteralGas(params, v) ==
    combineGas(params, simpleRunGas(<<Push(0)>>),
               ByteGas(params) + dataGas(toBigEndian(v, LiteralBytes(v)), params.isCreation), 0)

\* Mutant: the memory that is overwritten is not saved.
copyRoutine_unsaved(v) ==
    <<Push(0), DupItem(1), Push(WordBytes), Item("pushdata", "", v), DupItem(3), Op("codecopy"),
      Op("mload"), SwapItem(1), PopItem>>

\* The constant is read from the data of the code, by way of memory.
copyRoutine(v) ==
    <<Push(0), DupItem(1), Op("mload"), Push(WordBytes), Item("pushdata", "", v), DupItem(4),
      Op("codecopy"), DupItem(2), Op("mload"), SwapItem(2), Op("mstore")>>

CodeCopyGas(params, v) ==
    combineGas(params, simpleRunGas(copyRoutine(v)) + copyGas,
               bytesRequiredAll(copyRoutine(v), 3) * ByteGas(params),
               dataGas(toBigEndian(v, WordBytes), params.isCreation))

ComputeGas(params, items) ==
    LET exps == Len(SelectSeq(items, LAMBDA i : i = Op("exp")))
    IN  combineGas(params, simpleRunGas(items) + exps * (expGas + expByteGas),
                   bytesRequiredAll(items, 3) * ByteGas(params), 0)

\* v as upper * 2^bits + lower, or <<>> if there is no gap at that bit.
Decomposition(v, bits) ==
    LET gap == (v \div 2 ^ (bits - ByteBits)) % 2 ^ (ByteBits + 1)
        up == v \div 2 ^ bits
        low == v % 2 ^ bits
        near == 2 ^ bits - low < low
        upper == IF near THEN (up + 1) % Modulus ELSE up
        lower == IF near THEN low - 2 ^ bits ELSE low
    IN  IF gap \notin {2 ^ ByteBits - 1, 2 ^ ByteBits} THEN <<>>
        ELSE IF upper = 0 THEN <<>>
        ELSE IF (IF lower < 0 THEN - lower ELSE lower) >= 2 ^ bits \div 2 ^ ByteBits THEN <<>>
        ELSE <<[upper |-> upper, lower |-> lower]>>

\* The cheapest routine that was found; the limit of 10000 steps is out of reach.
RECURSIVE findRepresentation(_, _)

Routine(params, d, bits) ==
    (IF d.lower = 0 THEN <<>> ELSE findRepresentation(params, IF d.lower < 0 THEN - d.lower ELSE d.lower))
      \o (IF params.shl THEN <<Push(1), Push(bits), Op("shl")>> ELSE <<Push(bits), Push(2), Op("exp")>>)
      \o (IF d.upper = 1 THEN <<>> ELSE Append(findRepresentation(params, d.upper), Op("mul")))
      \o (IF d.lower > 0 THEN <<Op("add")>> ELSE IF d.lower < 0 THEN <<Op("sub")>> ELSE <<>>)

findRepresentation(params, v) ==
    LET Cheaper(routine, bits) ==
            LET d == Decomposition(v, bits)
                new == Routine(params, d[1], bits)
            IN  IF d /= <<>> /\ ComputeGas(params, new) < ComputeGas(params, routine) THEN new ELSE routine
        candidates == [i \in 1 .. (WordBits - 1 - ByteBits) |-> WordBits - i]
    IN  IF v < 2 ^ (2 * ByteBits) THEN <<Push(v)>>
        ELSE IF bytesOf(MaxWord - v) < bytesOf(v)
             THEN Append(findRepresentation(params, MaxWord - v), Op("not"))
        ELSE FoldAlong(Cheaper, <<Push(v)>>, candidates)

\* Literals below 0x100 stay.
CheaperCode(params, v) ==
    LET lit == LiteralGas(params, v)
        copy == CodeCopyGas(params, v)
        routine == findRepresentation(params, v)
        compute == ComputeGas(params, routine)
    IN  IF v < 2 ^ ByteBits THEN <<>>
        ELSE IF copy < lit /\ copy < compute THEN copyRoutine(v)
        ELSE IF compute < lit /\ compute <= copy THEN routine
        ELSE <<>>

optimiseConstants(a, params) ==
    LET words == {a.items[i].n : i \in {j \in DOMAIN a.items : a.items[j].k = "push"}}
        Times(v) == Len(SelectSeq(a.items, LAMBDA i : i = Push(v)))
        new == [v \in words |-> CheaperCode([params EXCEPT !.multiplicity = Times(v)], v)] @@ <<>>
        items == Replacing(a.items, LAMBDA i : IF i.k = "push" /\ new[i.n] /= <<>> THEN new[i.n] ELSE <<i>>)
        copied == {v \in words : \E i \in DOMAIN items : items[i] = Item("pushdata", "", v)}
    IN  [a EXCEPT !.items = items, !.data = @ @@ [v \in copied |-> toBigEndian(v, WordBytes)]]
-----------------------------------------------------------------------------
(***************************************************************************)
(* Assembly::optimiseInternal.  The state of the loop: items, outside (the *)
(* tags that are referenced from outside), replaced, count and err.        *)
(***************************************************************************)
RunJumpdestRemover(st) ==
    LET new == JumpdestRemover(st.items, st.outside)
    IN  [st EXCEPT !.items = new, !.count = IF new = st.items THEN @ ELSE @ + 1]

RunPeephole(st) ==
    LET new == PeepholeAll(st.items)
    IN  [st EXCEPT !.items = new, !.count = IF new = st.items THEN @ ELSE @ + 1]

\* A tag that was replaced before is gone when the next round starts.
RunDeduplicate(st) ==
    LET d == BlockDeduplicator(st.items)
    IN  IF d.items = st.items THEN st
        ELSE [st EXCEPT !.items = d.items, !.count = @ + 1,
                        !.replaced = d.replaced @@ @,
                        !.err = IF DOMAIN d.replaced \cap DOMAIN st.replaced /= {} THEN "assertion" ELSE @,
                        !.outside = {IF t \in DOMAIN d.replaced THEN d.replaced[t] ELSE t : t \in @}]

\* One chunk and the item that breaks it, from p on.
RunCSEChunk(st, usesMSize) ==
    LET stop == SelectInSubSeq(st.items, st.pc, Len(st.items), LAMBDA i : breaksCSEAnalysisBlock(i, usesMSize))
        next == IF stop = 0 THEN Len(st.items) + 1 ELSE stop + 1
        chunk == SubSeq(st.items, st.pc, IF stop = 0 THEN Len(st.items) ELSE stop - 1)
        new == getOptimizedItems(chunk, IF stop = 0 THEN <<>> ELSE <<st.items[stop]>>)
        replace == new.err = "" /\ Len(new.items) < next - st.pc
    IN  IF st.pc > Len(st.items) THEN st
        ELSE [st EXCEPT !.pc = next, !.count = IF replace THEN @ + 1 ELSE @,
                        !.err = IF new.err = "assertion" THEN "assertion" ELSE @,
                        !.out = @ \o (IF replace THEN new.items ELSE SubSeq(st.items, st.pc, next - 1))]

RunCSE(st) ==
    LET usesMSize == \E i \in DOMAIN st.items : st.items[i] = Op("msize")
        r == FoldAlong(LAMBDA acc, i : RunCSEChunk(acc, usesMSize), [st EXCEPT !.pc = 1, !.out = <<>>], st.items)
    IN  [r EXCEPT !.items = IF Len(r.out) < Len(@) THEN r.out ELSE @]

OptimiseRound(st, settings) ==
    LET When(on, Step(_), x) == IF on /\ x.err = "" THEN Step(x) ELSE x
        a == When(settings.jumpdest, RunJumpdestRemover, [st EXCEPT !.count = 0])
        b == When(settings.peephole, RunPeephole, a)
        c == When(settings.deduplicate, RunDeduplicate, b)
    IN  When(settings.cse, RunCSE, c)

RECURSIVE OptimiseLoop(_, _)
OptimiseLoop(st, settings) ==
    LET r == OptimiseRound(st, settings)
    IN  IF r.count = 0 \/ r.err /= "" THEN r ELSE OptimiseLoop(r, settings)

optimiseItems(items, outside, settings) ==
    OptimiseLoop([items |-> items, outside |-> outside, replaced |-> <<>>, count |-> 0, err |-> "",
                  pc |-> 1, out |-> <<>>], settings)

\* Sub-assemblies first; they are not run as creation code.
RECURSIVE optimise(_, _)
optimise(a, settings) ==
    LET subs == Each(a.subs, LAMBDA s : optimise(s, [settings EXCEPT !.isCreation = FALSE]))
        r == optimiseItems(a.items, {}, settings)
        new == [a EXCEPT !.items = r.items, !.subs = subs]
    IN  IF settings.constants
        THEN optimiseConstants(new, [runs |-> IF settings.isCreation THEN 1 ELSE settings.runs,
                                     multiplicity |-> 1, isCreation |-> settings.isCreation, shl |-> settings.shl])
        ELSE new
-----------------------------------------------------------------------------
(***************************************************************************)
(* Assembly::assemble.  A byte of the code is an operation, or data n.     *)
(***************************************************************************)
Code(op, n) == [op |-> op, n |-> n]

DataByte(b) == Code("data", b)

DataBytes(bs) == [i \in DOMAIN bs |-> DataByte(bs[i])]

\* Assembly::bytesRequired: the first size of tags that is large enough.
RECURSIVE bytesRequiredForCode(_, _)
bytesRequiredForCode(a, tagSize) ==
    LET n == 1 + Len(Replacing(InOrder(DOMAIN a.data, <), LAMBDA d : a.data[d])) + bytesRequiredAll(a.items, tagSize)
    IN  IF bytesOf(n) <= tagSize THEN n ELSE bytesRequiredForCode(a, tagSize + 1)

PushBytes(n, size) == <<Code("push", size)>> \o DataBytes(toBigEndian(n, size))

\* Mutant: positions of tags are counted behind the jump destination.
TagPosition_behind(sizes, items, t) ==
    LET p == SelectInSeq(items, LAMBDA i : i = Tag(t)) IN IF p = 0 THEN 0 ELSE sizes[p] + 1

\* The number of bytes before the tag, 0 if it is nowhere.
TagPosition(sizes, items, t) ==
    LET p == SelectInSeq(items, LAMBDA i : i = Tag(t)) IN IF p = 0 THEN 0 ELSE sizes[p]

\* ok: no reference is without a position, or too large for its space.
RECURSIVE assemble(_)
assemble(a) ==
    LET subs == Each(a.subs, assemble)
        subTag == Max({1} \cup UNION {subs[i].tags : i \in DOMAIN subs})
        forCode == bytesRequiredForCode(a, subTag)
        tagBytes == bytesOf(forCode)
        subBytes == FoldAlong(LAMBDA n, s : n + Len(s.code), 0, subs)
        refBytes == bytesOf(forCode + 1 + subBytes)
        Size(i) == CASE i.k = "push" -> 1 + LiteralBytes(i.n)
                     [] i.k = "pushtag" -> 1 + tagBytes
                     [] i.k \in {"pushdata", "pushsub"} -> 1 + refBytes
                     [] i.k = "pushsubsize" -> 1 + LiteralBytes(Len(subs[i.n].code))
                     [] OTHER -> 1
        sizes == FoldAlong(LAMBDA acc, i : Append(acc, Last(acc) + Size(i)), <<0>>, a.items)
        usedSubs == {a.items[i].n : i \in {j \in DOMAIN a.items : a.items[j].k = "pushsub"}}
        usedData == {a.items[i].n : i \in {j \in DOMAIN a.items : a.items[j].k = "pushdata"}}
        marker == IF a.subs /= <<>> \/ a.data /= <<>> THEN <<Code("invalid", 0)>> ELSE <<>>
        start == Last(sizes) + Len(marker)
        SubStart(n) == start + FoldAlong(LAMBDA s, i : IF i < n /\ i \in usedSubs THEN s + Len(subs[i].code) ELSE s,
                                         0, [i \in DOMAIN subs |-> i])
        dataSeq == InOrder(DOMAIN a.data \cap usedData, <)
        DataStart(v) == SubStart(Len(subs) + 1)
                          + WordBytes * (SelectInSeq(dataSeq, LAMBDA d : d = v) - 1)
        Bytes(i) == CASE i.k = "op" -> <<Code(i.op, 0)>>
                      [] i.k = "tag" -> <<Code("jumpdest", 0)>>
                      [] i.k \in {"dup", "swap"} -> <<Code(i.k, i.n)>>
                      [] i.k = "push" -> PushBytes(i.n, LiteralBytes(i.n))
                      [] i.k = "pushtag" -> PushBytes(TagPosition(sizes, a.items, i.n), tagBytes)
                      [] i.k = "pushdata" -> PushBytes(DataStart(i.n), refBytes)
                      [] i.k = "pushsub" -> PushBytes(SubStart(i.n), refBytes)
                      [] i.k = "pushsubsize" -> PushBytes(Len(subs[i.n].code), LiteralBytes(Len(subs[i.n].code)))
        subCode == Replacing([i \in DOMAIN subs |-> i], LAMBDA i : IF i \in usedSubs THEN subs[i].code ELSE <<>>)
    IN  [code |-> Replacing(a.items, Bytes) \o marker \o subCode
                    \o Replacing(dataSeq, LAMBDA v : DataBytes(a.data[v])),
         ok |-> \A i \in DOMAIN a.items : a.items[i].k = "pushtag" =>
                    /\ Tag(a.items[i].n) \in Range(a.items)
                    /\ bytesOf(TagPosition(sizes, a.items, a.items[i].n)) <= tagBytes,
         tags |-> {sizes[i] : i \in {j \in DOMAIN a.items : a.items[j].k = "tag"}}]
-----------------------------------------------------------------------------
(***************************************************************************)
(* The machine on bytecode.  pc counts bytes from 1; the address of a      *)
(* byte is pc - 1.                                                         *)
(***************************************************************************)
ItemAt(code, pc) ==
    LET b == code[pc]
    IN  CASE b.op = "push" -> Push(FoldAlong(LAMBDA n, i : n * (ByteMask + 1) + code[pc + i].n,
                                             0, [i \in 1 .. b.n |-> i]))
          [] b.op \in {"dup", "swap"} -> Item(b.op, "", b.n)
          [] OTHER -> Op(b.op)

JumpToByte(c, code, a) ==
    IF a < Len(code) /\ code[a + 1].op = "jumpdest" THEN [c EXCEPT !.pc = a + 1] ELSE Fault(c)

CodeBytes(code, from, size) ==
    [i \in 1 .. size |-> IF from + i <= Len(code) THEN code[from + i].n ELSE 0]

StepByte(code, c) ==
    LET i == ItemAt(code, c.pc)
        a == TopN(c.stk, arguments(i))
        under == [c EXCEPT !.stk = PopN(@, arguments(i)), !.pc = @ + 1]
    IN  IF code[c.pc].op = "data" \/ Len(c.stk) < arguments(i) THEN Fault(c)
        ELSE
          CASE i = Op("jump") -> JumpToByte(under, code, a[1])
          [] i = Op("jumpi") -> IF a[2] = 0 THEN under ELSE JumpToByte(under, code, a[1])
          [] i = Op("codecopy") -> [under EXCEPT !.w = Store(@, a[1], CodeBytes(code, a[2], a[3]))]
          [] i.k = "push" -> [StepItem(i, <<>>, c) EXCEPT !.pc = c.pc + 1 + code[c.pc].n]
          [] OTHER -> StepItem(i, <<>>, c)

RECURSIVE RunBytes(_, _, _)
RunBytes(code, c, k) ==
    CASE c.w.halt /= "" \/ c.pc > Len(code) -> c
      [] c.w.halt = "" /\ c.pc <= Len(code) /\ k = 0 -> StepByte(code, c)
      [] OTHER -> RunBytes(code, RunBytes(code, c, k - 1), k - 1)

ExecuteCode(code, calldata) ==
    LET r == RunBytes(code, [pc |-> 1, stk |-> <<>>, w |-> World(calldata)], MaxSteps2)
    IN  Outcome(IF r.w.halt = "" /\ r.pc <= Len(code) THEN [r.w EXCEPT !.halt = "limit"] ELSE r.w)
=============================================================================
