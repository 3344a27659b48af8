---------------------------- MODULE AssemblyItems ----------------------------
(***************************************************************************)
(* Assembly items (AssemblyItem.h), and the machine that runs them.        *)
(*                                                                         *)
(* The kinds are those of the code: op (Operation), push, pushtag, tag,    *)
(* pushdata, pushsub and pushsubsize; duplications and swaps are           *)
(* operations, too, with a depth n.  The addresses of tags are numbers     *)
(* beyond the words.                                                       *)
(***************************************************************************)
EXTENDS YulAst

CONSTANT MaxSteps2  \* the logarithm of the steps after which a run is given up

Item(k, op, n) == [k |-> k, op |-> op, n |-> n]

Op(op) == Item("op", op, 0)
DupItem(n) == Item("dup", "", n)
SwapItem(n) == Item("swap", "", n)
Push(n) == Item("push", "", n)
PushTag(t) == Item("pushtag", "", t)
Tag(t) == Item("tag", "", t)

arguments(i) ==
    CASE i.k = "op" -> args(i.op)
      [] i.k = "dup" -> i.n
      [] i.k = "swap" -> i.n + 1
      [] OTHER -> 0

returnValues(i) ==
    CASE i.k = "op" -> ret(i.op)
      [] i.k \in {"dup", "swap"} -> i.n + 1
      [] i.k = "tag" -> 0
      [] OTHER -> 1

deposit(i) == returnValues(i) - arguments(i)

\* dev::bytesRequired: the bytes that a number needs.
RECURSIVE bytesOf(_)
bytesOf(n) == IF n = 0 THEN 0 ELSE 1 + bytesOf(n \div (ByteMask + 1))

LiteralBytes(n) == IF n = 0 THEN 1 ELSE bytesOf(n)

\* AssemblyItem::bytesRequired, for addresses of a bytes.
bytesRequired(i, a) ==
    CASE i.k = "push" -> 1 + LiteralBytes(i.n)
      [] i.k \in {"pushtag", "pushdata", "pushsub"} -> 1 + a
      [] i.k = "pushsubsize" -> 1 + 4
      [] OTHER -> 1

isJumpInstruction(i) == i \in {Op("jump"), Op("jumpi")}
-----------------------------------------------------------------------------
(***************************************************************************)
(* The machine.  c: pc, stk with the top at the end, and the world w.  *)
(* A jump goes to a tag; reaching the end stops.                           *)
(***************************************************************************)
TagAddress(t) == Modulus + t

PopN(stk, n) == SubSeq(stk, 1, Len(stk) - n)

\* The n topmost elements, the top first.
TopN(stk, n) == [i \in 1 .. n |-> stk[Len(stk) + 1 - i]]

Fault(c) == [c EXCEPT !.w.halt = "invalid"]

JumpTo(c, items, a) ==
    LET p == SelectInSeq(items, LAMBDA i : i.k = "tag" /\ TagAddress(i.n) = a)
    IN  IF p = 0 THEN Fault(c) ELSE [c EXCEPT !.pc = p]

StepItem(i, items, c) ==
    LET next == [c EXCEPT !.pc = @ + 1]
        n == arguments(i)
        a == TopN(c.stk, n)
        under == [next EXCEPT !.stk = PopN(@, n)]
        Pushed(d, v) == [d EXCEPT !.stk = Append(@, v)]
    IN  IF Len(c.stk) < n THEN Fault(c)
        ELSE CASE i.k = "push" -> Pushed(next, i.n)
               [] i.k = "pushtag" -> Pushed(next, TagAddress(i.n))
               [] i.k = "tag" -> next
               [] i.k = "dup" -> Pushed(next, a[i.n])
               [] i.k = "swap" -> [next EXCEPT !.stk = [@ EXCEPT ![Len(@)] = a[n], ![Len(@) - i.n] = a[1]]]
               [] i = Op("jumpdest") -> next
               [] i = Op("jump") -> JumpTo(under, items, a[1])
               [] i = Op("jumpi") -> IF a[2] = 0 THEN under ELSE JumpTo(under, items, a[1])
               [] OTHER -> LET r == EvalInstruction(i.op, a, c.w)
                               d == [under EXCEPT !.w = r.w]
                           IN  IF ret(i.op) = 1 THEN Pushed(d, r.v) ELSE d

\* 2^k steps.
RECURSIVE RunItems(_, _, _)
RunItems(items, c, k) ==
    CASE c.w.halt /= "" \/ c.pc > Len(items) -> c
      [] c.w.halt = "" /\ c.pc <= Len(items) /\ k = 0 -> StepItem(items[c.pc], items, c)
      [] OTHER -> RunItems(items, RunItems(items, c, k - 1), k - 1)

Execute(items, calldata) ==
    LET r == RunItems(items, [pc |-> 1, stk |-> <<>>, w |-> World(calldata)], MaxSteps2)
    IN  Outcome(IF r.w.halt = "" /\ r.pc <= Len(items) THEN [r.w EXCEPT !.halt = "limit"] ELSE r.w)

-----------------------------------------------------------------------------
(***************************************************************************)
(* The optimisers of libevmasm that look at the list of items only:        *)
(* JumpdestRemover, PeepholeOptimiser and BlockDeduplicator.               *)
(***************************************************************************)

\* JumpdestRemover: tags that are never pushed go.
referencedTags(items) == {items[i].n : i \in {j \in DOMAIN items : items[j].k = "pushtag"}}

JumpdestRemover(items, outside) ==
    SelectSeq(items, LAMBDA i : i.k = "tag" => i.n \in referencedTags(items) \cup outside)
-----------------------------------------------------------------------------
(***************************************************************************)
(* PeepholeOptimiser: at each position the first method that applies to    *)
(* the window w replaces the items it takes.  A window that reaches beyond *)
(* the end has items there that no method matches.                         *)
(***************************************************************************)
NoItem == Item("none", "", 0)

Method(applies, takes, out) == [applies |-> applies, takes |-> takes, out |-> out]

PopItem == Op("pop")

Swapped == [lt |-> "gt", gt |-> "lt", slt |-> "sgt", sgt |-> "slt"]

PushPop(w) == Method(w[2] = PopItem /\ w[1].k \in {"dup", "push", "pushtag", "pushdata", "pushsub"}, 2, <<>>)

OpPop(w) ==
    Method(w[2] = PopItem /\ w[1].k = "op" /\ ret(w[1].op) = 1 /\ ~ sideEffects(w[1].op),
           2, [j \in 1 .. arguments(w[1]) |-> PopItem])

DoublePush(w) == Method(w[1].k = "push" /\ w[2] = w[1], 2, <<w[1], DupItem(1)>>)

DoubleSwap(w) == Method(w[1].k = "swap" /\ w[2] = w[1], 2, <<>>)

CommutativeSwap(w) ==
    Method(w[1] = SwapItem(1) /\ w[2].k = "op" /\ isCommutativeOperation(w[2].op), 2, <<w[2]>>)

SwapComparison(w) ==
    LET applies == w[1] = SwapItem(1) /\ w[2].k = "op" /\ w[2].op \in DOMAIN Swapped
    IN  Method(applies, 2, IF applies THEN <<Op(Swapped[w[2].op])>> ELSE <<>>)

IsZeroIsZeroJumpI(w) ==
    Method(w[1] = Op("iszero") /\ w[2] = w[1] /\ w[3].k = "pushtag" /\ w[4] = Op("jumpi"),
           4, <<w[3], w[4]>>)

JumpToNext(w) ==
    Method(w[1].k = "pushtag" /\ isJumpInstruction(w[2]) /\ w[3] = Tag(w[1].n),
           3, IF w[2] = Op("jumpi") THEN <<PopItem, w[3]>> ELSE <<w[3]>>)

\* Everything up to the next tag; after counts the items of it.
UnreachableCode(w, after) ==
    Method(after > 0 /\ w[1].k = "op" /\ altersControlFlow(w[1].op) /\ w[1].op /= "jumpi",
           1 + after, <<w[1]>>)

\* Addresses of tags have 32 of the 256 bits; here, they are smaller than the mask.
TagConjunctions(w) ==
    Method(w[1].k = "pushtag" /\ w[2] = Push(MaxWord) /\ w[3] = Op("and"), 3, <<w[1]>>)

TruthyAnd(w) == Method(w[1] = Push(0) /\ w[2] = Op("not") /\ w[3] = Op("and"), 3, <<>>)

Identity(w) == Method(TRUE, 1, <<w[1]>>)

\* The methods in the order in which they are tried.
applyMethods(w, after) ==
    LET ms == <<PushPop(w), OpPop(w), DoublePush(w), DoubleSwap(w), CommutativeSwap(w),
                SwapComparison(w), IsZeroIsZeroJumpI(w), JumpToNext(w),
                UnreachableCode(w, after), TagConjunctions(w), TruthyAnd(w), Identity(w)>>
    IN  ms[SelectInSeq(ms, LAMBDA m : m.applies)]

\* How many items there are before the next tag, from i on.
UntilTag(items, i) ==
    LET p == SelectInSubSeq(items, i, Len(items), LAMBDA x : x.k = "tag")
    IN  (IF p = 0 THEN Len(items) + 1 ELSE p) - i

PeepholeStep(items, st) ==
    LET w == [j \in 1 .. 4 |-> IF st.i + j - 1 <= Len(items) THEN items[st.i + j - 1] ELSE NoItem]
        m == applyMethods(w, UntilTag(items, st.i + 1))
    IN  IF st.i > Len(items) THEN st ELSE [i |-> st.i + m.takes, out |-> st.out \o m.out]

\* m_optimisedItems after the whole list; one step for each position is enough.
Peephole(items) ==
    FoldAlong(LAMBDA st, j : PeepholeStep(items, st), [i |-> 1, out |-> <<>>], items).out

bytesRequiredAll(items, a) == FoldAlong(LAMBDA n, i : n + bytesRequired(i, a), 0, items)

numberOfPops(items) == Len(SelectSeq(items, LAMBDA i : i = PopItem))

\* What the optimiser keeps of it.
PeepholeOptimiser(items) ==
    LET new == Peephole(items)
    IN  IF \/ Len(new) < Len(items)
           \/ /\ Len(new) = Len(items)
              /\ \/ bytesRequiredAll(new, 3) < bytesRequiredAll(items, 3)
                 \/ numberOfPops(new) > numberOfPops(items)
        THEN new ELSE items

RECURSIVE PeepholeAll(_)
PeepholeAll(items) ==
    LET new == PeepholeOptimiser(items) IN IF new = items THEN items ELSE PeepholeAll(new)
-----------------------------------------------------------------------------
(***************************************************************************)
(* BlockDeduplicator: tags of blocks that are the same are replaced by the *)
(* tag of the first one.                                                   *)
(***************************************************************************)
PushSelf == PushTag(0)

StopsBlock(i) == i.k = "op" /\ altersControlFlow(i.op) /\ i.op /= "jumpi"

\* What BlockIterator runs over, from the tag at i: tags are left out, and
\* the tag of the block itself is unified.
BlockOf(items, i) ==
    LET rest == SelectSeq(SubSeq(items, i, Len(items)), LAMBDA x : x.k /= "tag")
        stop == SelectInSeq(rest, StopsBlock)
        block == SubSeq(rest, 1, IF stop = 0 THEN Len(rest) ELSE stop)
    IN  [j \in DOMAIN block |-> IF block[j] = PushTag(items[i].n) THEN PushSelf ELSE block[j]]

\* m_replacedTags of one iteration.
DuplicateTags(items) ==
    LET tags == {i \in DOMAIN items : items[i].k = "tag"}
        block == [i \in tags |-> BlockOf(items, i)] @@ <<>>
        First(i) == CHOOSE j \in tags : block[j] = block[i] /\ \A k \in tags : block[k] = block[i] => j <= k
        again == {i \in tags : First(i) /= i}
    IN  [t \in {items[i].n : i \in again} |-> LET i == CHOOSE j \in again : items[j].n = t
                                              IN  items[First(i)].n]

applyTagReplacement(items, r) ==
    [i \in DOMAIN items |-> IF items[i].k = "pushtag" /\ items[i].n \in DOMAIN r
                            THEN PushTag(r[items[i].n]) ELSE items[i]]

RECURSIVE Deduplicate(_, _)
Deduplicate(items, replaced) ==
    LET r == DuplicateTags(items) @@ replaced
    IN  IF referencedTags(items) \cap DOMAIN r = {} THEN [items |-> items, replaced |-> r]
        ELSE Deduplicate(applyTagReplacement(items, r), r)

\* The items, and m_replacedTags.
BlockDeduplicator(items) == Deduplicate(items, <<>>)
=============================================================================
