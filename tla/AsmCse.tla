-------------------------------- MODULE AsmCse --------------------------------
(***************************************************************************)
(* ExpressionClasses and KnownState: what the optimiser knows about the    *)
(* values of the stack, the storage and the memory.                        *)
(*                                                                         *)
(* cl: reps, the representative of each class, and ids, the class of every *)
(* expression ever looked up.  An expression has an item, the classes of   *)
(* its arguments, and a sequence number if storage or memory matters.      *)
(* Undefined items stand for the initial contents of the stack.            *)
(***************************************************************************)
EXTENDS AssemblyItems

NoClasses == [reps |-> <<>>, ids |-> <<>>]

Undefined(height) == Item("undefined", "", height)

Expr(item, as, seq) == [item |-> item, args |-> as, seq |-> seq]

Found(cl, id) == [cl |-> cl, id |-> id]

deterministic(item) == item.k = "op" => isDeterministic(item.op)

commutative(item) == item.k = "op" /\ isCommutativeOperation(item.op)
-----------------------------------------------------------------------------
(***************************************************************************)
(* Pattern::matches on the representatives; the groups that are matched    *)
(* map placeholders to classes.                                            *)
(***************************************************************************)
RECURSIVE MatchesClass(_, _, _, _)
MatchesClass(p, cl, id, m) ==
    LET e == cl.reps[id]
        grouped == IF p.g \in DOMAIN m.g THEN [m EXCEPT !.ok = m.g[p.g] = id]
                   ELSE [m EXCEPT !.g = (p.g :> id) @@ @]
    IN  CASE p.k = "any" -> grouped
          [] p.k = "const" -> IF e.item.k = "push" THEN grouped ELSE [m EXCEPT !.ok = FALSE]
          [] p.k = "num" -> [m EXCEPT !.ok = e.item = Push(p.n)]
          [] p.k = "ins" ->
                IF e.item /= Op(p.op) THEN [m EXCEPT !.ok = FALSE]
                ELSE FoldAlong(LAMBDA acc, i : IF acc.ok THEN MatchesClass(p.args[i], cl, e.args[i], acc) ELSE acc,
                               m, [i \in DOMAIN p.args |-> i])

\* The arguments of an expression that has no class yet.
MatchesExpr(p, cl, e) ==
    FoldAlong(LAMBDA acc, i : IF acc.ok THEN MatchesClass(p.args[i], cl, e.args[i], acc) ELSE acc,
              [ok |-> TRUE, g |-> <<>>], [i \in DOMAIN p.args |-> i])

ClassConstants(cl, m) ==
    [g \in DOMAIN m.g \cap {"A", "B", "C"} |-> cl.reps[m.g[g]].item.n]

\* The matches of the first rule that applies: a sequence of at most one.
findFirstRule(e, cl) ==
    LET rules == IF e.item.op \in DOMAIN RulesFor THEN RulesFor[e.item.op] ELSE <<>>
        Fits(r) == LET m == MatchesExpr(r.pattern, cl, e)
                   IN  m.ok /\ CalcValue(r.feasible, ClassConstants(cl, m)) /= 0
        i == SelectInSeq(rules, Fits)
    IN  IF i = 0 THEN <<>> ELSE <<[action |-> rules[i].action, m |-> MatchesExpr(rules[i].pattern, cl, e)]>>

RECURSIVE find(_, _, _, _), rebuildExpression(_, _, _)

rebuildExpression(cl, p, m) ==
    CASE p.k \in {"any", "const"} -> Found(cl, m.g[p.g])
      [] p.k = "ins" ->
            LET as == FoldAlong(LAMBDA acc, a : LET r == rebuildExpression(acc.cl, a, m)
                                                IN  [cl |-> r.cl, ids |-> Append(acc.ids, r.id)],
                                [cl |-> cl, ids |-> <<>>], p.args)
            IN  find(as.cl, Op(p.op), as.ids, 0)
      [] OTHER -> find(cl, Push(CalcValue(p, ClassConstants(cl, m))), <<>>, 0)

Sorted2(as) == IF as[1] <= as[2] THEN as ELSE <<as[2], as[1]>>

\* The class of an expression, simplified if a rule applies.
find(cl, item, as, seq) ==
    LET e == Expr(item, IF commutative(item) THEN Sorted2(as) ELSE as, seq)
        match == IF item.k = "op" /\ deterministic(item) THEN findFirstRule(e, cl) ELSE <<>>
    IN  IF deterministic(item) /\ e \in DOMAIN cl.ids THEN Found(cl, cl.ids[e])
        ELSE IF match /= <<>>
             THEN LET r == rebuildExpression(cl, match[1].action, match[1].m)
                  IN  Found([r.cl EXCEPT !.ids = @ @@ (e :> r.id)], r.id)
        ELSE LET id == Len(cl.reps) + 1
             IN  Found([reps |-> Append(cl.reps, e), ids |-> cl.ids @@ (e :> id)], id)

\* A constant is a sequence of at most one word.
knownConstant(cl, id) == LET i == cl.reps[id].item IN IF i.k = "push" THEN <<i.n>> ELSE <<>>

knownZero(cl, id) == knownConstant(cl, id) = <<0>>

\* These queries create classes themselves: [cl, ok].
Answer(cl, ok) == [cl |-> cl, ok |-> ok]

knownNonZero(cl, id) == LET z == find(cl, Op("iszero"), <<id>>, 0) IN Answer(z.cl, knownZero(z.cl, z.id))

knownToBeDifferent(cl, a, b) ==
    LET d == find(cl, Op("sub"), <<a, b>>, 0) IN knownNonZero(d.cl, d.id)

\* Mutant: it suffices that the addresses differ.
knownToBeDifferentBy32_any(cl, a, b) ==
    LET d == find(cl, Op("sub"), <<a, b>>, 0)
        v == knownConstant(d.cl, d.id)
    IN  Answer(d.cl, v /= <<>> /\ v[1] /= 0)

\* At least a word away from each other.
knownToBeDifferentBy32(cl, a, b) ==
    LET d == find(cl, Op("sub"), <<a, b>>, 0)
        v == knownConstant(d.cl, d.id)
    IN  Answer(d.cl, v /= <<>> /\ (v[1] + WordBytes - 1) % Modulus > 2 * (WordBytes - 1))
-----------------------------------------------------------------------------
(***************************************************************************)
(* KnownState.  h: the stack height relative to the start; stk: classes by *)
(* height; sto and mem: classes by the class of the slot; seq: the number  *)
(* of the next operation on storage or memory; hashes: known hashes by the *)
(* classes of the words.  Stores are collected in ops.                     *)
(***************************************************************************)
EmptyState ==
    [cl |-> NoClasses, h |-> 0, stk |-> <<>>, sto |-> <<>>, mem |-> <<>>, seq |-> 1, hashes |-> <<>>,
     ops |-> <<>>]

\* A state and a class: of the element at a height, which may be new.
stackElement(s, height) ==
    IF height \in DOMAIN s.stk THEN [s |-> s, id |-> s.stk[height]]
    ELSE LET f == find(s.cl, Undefined(height), <<>>, 0)
         IN  [s |-> [s EXCEPT !.cl = f.cl, !.stk = (height :> f.id) @@ @], id |-> f.id]

setStackElement(s, height, id) == [s EXCEPT !.stk = (height :> id) @@ @]

\* Keep the entries of a map of slots for which Keeps answers yes.
KeepSlots(s, map, Keeps(_, _)) ==
    FoldAlong(LAMBDA acc, slot : LET a == Keeps(acc.cl, slot)
                                 IN  [cl |-> a.cl, map |-> IF a.ok THEN (slot :> map[slot]) @@ acc.map ELSE acc.map],
              [cl |-> s.cl, map |-> <<>>], InOrder(DOMAIN map, <))

StoreOperation(target, slot, seq, id) == [target |-> target, slot |-> slot, seq |-> seq, id |-> id]

\* Knowledge of a store of value at slot; kept is what survives of the map.
Stored(s, target, op, slot, value, kept) ==
    LET f == find(kept.cl, Op(op), <<slot, value>>, s.seq + 1)
    IN  [s EXCEPT !.cl = f.cl, !.seq = @ + 2,
                  !.ops = Append(@, StoreOperation(target, slot, s.seq + 1, f.id))]

storeInStorage(s, slot, value) ==
    LET kept == KeepSlots(s, s.sto, LAMBDA cl, x : LET a == knownToBeDifferent(cl, x, slot)
                                                   IN  Answer(a.cl, a.ok \/ s.sto[x] = value))
    IN  IF slot \in DOMAIN s.sto /\ s.sto[slot] = value THEN s
        ELSE [Stored(s, "storage", "sstore", slot, value, kept) EXCEPT !.sto = (slot :> value) @@ kept.map]

storeInMemory(s, slot, value) ==
    LET kept == KeepSlots(s, s.mem, LAMBDA cl, x : knownToBeDifferentBy32(cl, x, slot))
    IN  IF slot \in DOMAIN s.mem /\ s.mem[slot] = value THEN s
        ELSE [Stored(s, "memory", "mstore", slot, value, kept) EXCEPT !.mem = (slot :> value) @@ kept.map]

loadFromStorage(s, slot) ==
    LET f == find(s.cl, Op("sload"), <<slot>>, s.seq)
    IN  IF slot \in DOMAIN s.sto THEN [s |-> s, id |-> s.sto[slot]]
        ELSE [s |-> [s EXCEPT !.cl = f.cl, !.sto = (slot :> f.id) @@ @], id |-> f.id]

loadFromMemory(s, slot) ==
    LET f == find(s.cl, Op("mload"), <<slot>>, s.seq)
    IN  IF slot \in DOMAIN s.mem THEN [s |-> s, id |-> s.mem[slot]]
        ELSE [s |-> [s EXCEPT !.cl = f.cl, !.mem = (slot :> f.id) @@ @], id |-> f.id]

\* The classes of the words that are hashed.
HashedWords(s, start, len) ==
    FoldAlong(LAMBDA acc, i :
                LET off == find(acc.s.cl, Push(i * WordBytes), <<>>, 0)
                    slot == find(off.cl, Op("add"), <<start, off.id>>, 0)
                    v == loadFromMemory([acc.s EXCEPT !.cl = slot.cl], slot.id)
                IN  [s |-> v.s, ids |-> Append(acc.ids, v.id)],
              [s |-> s, ids |-> <<>>], [i \in 1 .. ((len + WordBytes - 1) \div WordBytes) |-> i - 1])

\* Hashes of up to four words are remembered by the classes of the words.
applyKeccak256(s, start, length) ==
    LET l == knownConstant(s.cl, length)
        Plain(t) == LET f == find(t.cl, Op("keccak256"), <<start, length>>, t.seq)
                    IN  [s |-> [t EXCEPT !.cl = f.cl], id |-> f.id]
        w == HashedWords(s, start, l[1])
        constants == \A i \in DOMAIN w.ids : knownConstant(w.s.cl, w.ids[i]) /= <<>>
        bs == [i \in 1 .. l[1] |-> ByteOf(knownConstant(w.s.cl, w.ids[((i - 1) \div WordBytes) + 1])[1],
                                          ((i - 1) % WordBytes) + 1)]
        f == find(w.s.cl, Push(Hash(bs)), <<>>, 0)
        r == IF constants THEN [s |-> [w.s EXCEPT !.cl = f.cl], id |-> f.id] ELSE Plain(w.s)
    IN  IF l = <<>> \/ (l /= <<>> /\ l[1] > 4 * WordBytes) THEN Plain(s)
        ELSE IF w.ids \in DOMAIN w.s.hashes THEN [s |-> w.s, id |-> w.s.hashes[w.ids]]
        ELSE [s |-> [r.s EXCEPT !.hashes = (w.ids :> r.id) @@ @], id |-> r.id]

\* The classes of the n topmost elements, the top first.
TopClasses(s, n) ==
    FoldAlong(LAMBDA acc, i : LET e == stackElement(acc.s, s.h - i)
                              IN  [s |-> e.s, ids |-> Append(acc.ids, e.id)],
              [s |-> s, ids |-> <<>>], [i \in 1 .. n |-> i - 1])

\* The result of an instruction, if there is one: [s, ids].
Result(r) == [s |-> r.s, ids |-> <<r.id>>]

FeedOperation(s, op, as) ==
    LET cleared == [s EXCEPT !.mem = IF invalidatesMemory(op) THEN <<>> ELSE @,
                             !.sto = IF invalidatesStorage(op) THEN <<>> ELSE @,
                             !.seq = IF invalidatesMemory(op) \/ invalidatesStorage(op) THEN @ + 2 ELSE @]
        f == find(cleared.cl, Op(op), as, 0)
    IN  CASE op = "sstore" -> [s |-> storeInStorage(s, as[1], as[2]), ids |-> <<>>]
          [] op = "mstore" -> [s |-> storeInMemory(s, as[1], as[2]), ids |-> <<>>]
          [] op = "sload" -> Result(loadFromStorage(s, as[1]))
          [] op = "mload" -> Result(loadFromMemory(s, as[1]))
          [] op = "keccak256" -> Result(applyKeccak256(s, as[1], as[2]))
          [] OTHER -> IF ret(op) = 1 THEN [s |-> [cleared EXCEPT !.cl = f.cl], ids |-> <<f.id>>]
                      ELSE [s |-> cleared, ids |-> <<>>]

\* Elements above the new height are forgotten.
AtHeight(s, h) == [s EXCEPT !.h = h, !.stk = Restrict(@, {x \in DOMAIN @ : x <= h})]

feedItem(s, i) ==
    LET h == s.h + deposit(i)
        constant == find(s.cl, i, <<>>, 0)
        dupped == stackElement(s, s.h - i.n + 1)
        top == stackElement(s, s.h)
        below == stackElement(top.s, s.h - i.n)
        as == TopClasses(s, arguments(i))
        r == FeedOperation(as.s, i.op, as.ids)
    IN  CASE i.k = "tag" -> s
          [] i.k = "dup" -> AtHeight(setStackElement(dupped.s, h, dupped.id), h)
          [] i.k = "swap" -> AtHeight(setStackElement(setStackElement(below.s, s.h, below.id), s.h - i.n, top.id), h)
          [] i = PopItem -> AtHeight(s, h)
          [] i.k = "op" /\ i /= PopItem ->
                AtHeight(IF r.ids = <<>> THEN r.s ELSE setStackElement(r.s, h, r.ids[1]), h)
          [] OTHER -> AtHeight(setStackElement([s EXCEPT !.cl = constant.cl], h, constant.id), h)

feedItems(s, items) == FoldAlong(feedItem, s, items)
-----------------------------------------------------------------------------
(***************************************************************************)
(* CommonSubexpressionEliminator: a chunk of items is fed to a KnownState, *)
(* and code is generated anew from what is known at its end.               *)
(*                                                                         *)
(* The state of the generator g: cl, the classes; ops, the stores; stk,    *)
(* the class at each height, and h, the height; pos, the heights at which  *)
(* a class is found, also for classes whose elements are gone; needed,     *)
(* pairs of a class and one that needs it; target and final, the stack to  *)
(* reach and its classes; items, the code; err, the exception if any.      *)
(***************************************************************************)
CONSTANT StackReach     \* 16: how deep dup and swap reach

\* SemanticInformation::breaksCSEAnalysisBlock.
breaksCSEAnalysisBlock(i, usesMSize) ==
    \/ i.k = "tag"
    \/ /\ i.k = "op"
       /\ i.op \notin {"sstore", "mstore"}
       /\ ~ usesMSize => i.op \notin {"mload", "keccak256"}
       /\ \/ i.op \in {"gas", "pc", "msize"}
          \/ sideEffects(i.op)
          \/ args(i.op) > 2

Fails(g, err) == [g EXCEPT !.err = IF @ = "" THEN err ELSE @]

Asserted(g, ok) == IF ok THEN g ELSE Fails(g, "assertion")
-----------------------------------------------------------------------------
\* Positions and code.
classElementPosition(g, id) == Max(g.pos[id])

At(g, id) == IF id \in DOMAIN g.pos THEN g.pos[id] ELSE {}

WithPos(g, id, ps) == [g EXCEPT !.pos = (id :> ps) @@ @]

appendItem(g, i) == [g EXCEPT !.items = Append(@, i), !.h = @ + deposit(i)]

\* An element of the class at the top.
PutTop(g, id) == WithPos([g EXCEPT !.stk = (g.h :> id) @@ @], id, At(g, id) \cup {g.h})

\* The element at a height is gone.
Removed(g, height) ==
    LET id == g.stk[height]
    IN  WithPos([g EXCEPT !.stk = Restrict(@, DOMAIN @ \ {height})], id, g.pos[id] \ {height})

appendDup(g, from) ==
    LET n == 1 + g.h - from
    IN  IF n > StackReach THEN Fails(g, "toodeep") ELSE PutTop(appendItem(g, DupItem(n)), g.stk[from])

\* Two equal swaps in a row vanish.
CancelSwaps(items) ==
    LET n == Len(items)
    IN  IF n >= 2 /\ items[n].k = "swap" /\ items[n - 1] = items[n] THEN SubSeq(items, 1, n - 2) ELSE items

appendOrRemoveSwap(g, from) ==
    LET n == g.h - from
        a == g.stk[g.h]
        b == g.stk[from]
        added == appendItem(g, SwapItem(n))
        swapped == IF a = b THEN added
                   ELSE [added EXCEPT !.stk = (g.h :> b) @@ (from :> a) @@ @,
                                      !.pos = (a :> (g.pos[a] \ {g.h}) \cup {from})
                                                @@ (b :> (g.pos[b] \ {from}) \cup {g.h}) @@ @]
    IN  CASE from = g.h -> g
          [] n > StackReach -> Fails(g, "toodeep")
          [] OTHER -> [swapped EXCEPT !.items = CancelSwaps(@)]

\* An element can go if it is a copy, or if nothing needs it any more.
canBeRemoved(g, id, result, from) ==
    LET haveCopy == Cardinality(g.pos[id]) > 1
    IN  IF id \in g.final
        THEN haveCopy /\ (from \notin DOMAIN g.target \/ g.target[from] /= id)
        ELSE haveCopy \/ \A p \in g.needed : p[1] = id => p[2] = result \/ p[2] \in DOMAIN g.pos

NoResultClass == 0

TopRemovable(g) == g.err = "" /\ g.stk /= <<>> /\ canBeRemoved(g, g.stk[g.h], NoResultClass, g.h)

removeStackTopIfPossible(g) == IF TopRemovable(g) THEN appendItem(Removed(g, g.h), PopItem) ELSE g

RECURSIVE RemoveSurplus(_)
RemoveSurplus(g) == IF TopRemovable(g) THEN RemoveSurplus(removeStackTopIfPossible(g)) ELSE g
-----------------------------------------------------------------------------
(***************************************************************************)
(* addDependencies.  A load depends on the stores before it, unless their  *)
(* slots are known to be different.                                        *)
(***************************************************************************)
StoresTo(g, target, slot) == SelectSeq(g.ops, LAMBDA o : o.target = target /\ o.slot = slot)

\* Is the load e of the class independent of stores to slot?
Independent(cl, e, slot) ==
    LET from == e.args[1]
        off == find(cl, Op("sub"), <<slot, from>>, 0)
        o == knownConstant(off.cl, off.id)
        l == knownConstant(off.cl, e.args[2])
    IN  CASE e.item.op = "sload" -> knownToBeDifferent(cl, slot, from)
          [] e.item.op = "mload" -> knownToBeDifferentBy32(cl, slot, from)
          [] e.item.op = "keccak256" ->
                Answer(off.cl, \/ l = <<0>>
                               \/ o /= <<>> /\ u2s(o[1]) <= - WordBytes
                               \/ o /= <<>> /\ l /= <<>> /\ u2s(o[1]) >= 0 /\ o[1] >= l[1])

RECURSIVE addDependencies(_, _)

Needs(g, id, by) ==
    LET d == addDependencies(g, id) IN [d EXCEPT !.needed = @ \cup {<<id, by>>}]

StoreDependencies(g, id, slot, target) ==
    LET e == g.cl.reps[id]
        stores == StoresTo(g, target, slot)
        before == SelectSeq(stores, LAMBDA o : o.seq < e.seq)
        ind == Independent(g.cl, e, slot)
        latest == IF before = <<>> THEN stores[1] ELSE Last(before)
    IN  IF stores[1].seq > e.seq THEN g
        ELSE IF ind.ok THEN [g EXCEPT !.cl = ind.cl]
        ELSE Needs([g EXCEPT !.cl = ind.cl], latest.id, id)

LoadDependencies(g, id) ==
    LET op == g.cl.reps[id].item.op
        target == IF op = "sload" THEN "storage" ELSE "memory"
        slots == {g.ops[i].slot : i \in {j \in DOMAIN g.ops : g.ops[j].target = target}}
    IN  IF op \notin {"sload", "mload", "keccak256"} THEN g
        ELSE FoldAlong(LAMBDA acc, slot : StoreDependencies(acc, id, slot, target), g, InOrder(slots, <))

addDependencies(g, id) ==
    LET e == g.cl.reps[id]
    IN  CASE g.err /= "" \/ id \in DOMAIN g.pos \/ (\E p \in g.needed : p[1] = id) -> g
          [] e.item.k = "undefined" -> Fails(g, "notavailable")
          [] OTHER -> LoadDependencies(FoldAlong(LAMBDA acc, a : Needs(acc, a, id), g, e.args), id)
-----------------------------------------------------------------------------
(***************************************************************************)
(* generateClassElement: first the arguments are brought on the stack      *)
(* somewhere, then to the top, moved or copied, then the item is appended. *)
(***************************************************************************)
Move(g, id) == appendOrRemoveSwap(g, classElementPosition(g, id))

Copy(g, id) == appendDup(g, classElementPosition(g, id))

Free(g, id, for) == canBeRemoved(g, id, for, classElementPosition(g, id))

OneArgument(g, a, c) == IF Free(g, a, c) THEN Move(g, a) ELSE Copy(g, a)

\* The first argument a ends at the top, the second one b below it.
TwoArguments(g, a, b, c) ==
    LET m == Move(g, b)
    IN  IF Free(g, b, c)
        THEN IF a = b THEN appendDup(m, m.h)
             ELSE IF Free(m, a, c) THEN LET d == appendOrRemoveSwap(m, m.h - 1) IN Move(d, a)
             ELSE Copy(m, a)
        ELSE IF a = b THEN LET d == Copy(g, a) IN appendDup(d, d.h)
        ELSE IF Free(g, a, c)
             THEN LET d == Copy(Move(g, a), b) IN appendOrRemoveSwap(d, d.h - 1)
        ELSE Copy(Copy(g, b), a)

Arguments(g, as, c) ==
    CASE g.err /= "" \/ as = <<>> -> g
      [] g.err = "" /\ Len(as) = 1 -> OneArgument(g, as[1], c)
      [] g.err = "" /\ Len(as) = 2 -> TwoArguments(g, as[1], as[2], c)
      [] OTHER -> Fails(g, "assertion")

\* A swap just before a commutative operation is superfluous.
DropSwap(g, item) ==
    IF commutative(item) /\ g.items /= <<>> /\ Last(g.items) = SwapItem(1)
    THEN appendOrRemoveSwap(g, g.h - 1) ELSE g

\* The arguments are consumed, and the result, if any, is at the top.
AppendElement(g, e, id) ==
    LET placed == Asserted(g, \A i \in DOMAIN e.args : g.stk[g.h - i + 1] = e.args[i])
        dropped == DropSwap(placed, e.item)
        taken == FoldAlong(LAMBDA acc, i : Removed(acc, acc.h - i + 1), dropped, [i \in DOMAIN e.args |-> i])
        done == appendItem(taken, e.item)
    IN  IF returnValues(e.item) = 1 THEN PutTop(done, id) ELSE WithPos(done, id, At(done, id))

RECURSIVE generateClassElement(_, _, _)
generateClassElement(g0, id, allowSequenced) ==
    LET g == removeStackTopIfPossible(g0)
        e == g.cl.reps[id]
        ready == FoldRight(LAMBDA a, acc : generateClassElement(acc, a, FALSE), e.args, g)
        placed == Arguments(ready, e.args, id)
    IN  CASE g0.err /= "" -> g0
          [] g0.err = "" /\ id \in DOMAIN g.pos -> Asserted(g, g.pos[id] /= {})
          [] g0.err = "" /\ id \notin DOMAIN g.pos /\ ((e.seq /= 0 /\ ~ allowSequenced) \/ e.item.k = "undefined") ->
                Fails(g, "assertion")
          [] OTHER -> IF placed.err /= "" THEN placed ELSE AppendElement(placed, e, id)
-----------------------------------------------------------------------------
\* An element of the target stack is brought to its height.
GenerateTarget(g, height) ==
    LET id == g.target[height]
        made == generateClassElement(g, id, FALSE)
        p == classElementPosition(made, id)
        moved == IF p < height THEN appendDup(made, p) ELSE appendOrRemoveSwap(made, p)
    IN  IF g.err /= "" \/ (height \in DOMAIN g.stk /\ g.stk[height] = id) THEN g
        ELSE IF made.err /= "" \/ height \in made.pos[id] THEN made
        ELSE IF moved.err /= "" THEN moved
        ELSE appendOrRemoveSwap(moved, height)

\* Pairs of sequence number and class, in their order.
Before(a, b) == a[1] < b[1] \/ (a[1] = b[1] /\ a[2] < b[2])

SequencedExpressions(g) ==
    LET ids == UNION {{p[1], p[2]} : p \in g.needed}
    IN  InOrder({<<g.cl.reps[i].seq, i>> : i \in {j \in ids : g.cl.reps[j].seq > 0}}, Before)

\* initial and target map heights to classes.
generateCode(cl, ops, initial, target, height) ==
    LET start == [cl |-> cl, ops |-> ops, stk |-> initial, h |-> height, target |-> target,
                  pos |-> [id \in Range(initial) |-> {x \in DOMAIN initial : initial[x] = id}],
                  needed |-> {}, final |-> {}, items |-> <<>>, err |-> ""]
        lastStores == SelectSeq(ops, LAMBDA o : \A i \in DOMAIN ops :
                          ops[i].target = o.target /\ ops[i].slot = o.slot => ops[i].seq <= o.seq)
        heights == InOrder(DOMAIN target, <)
        stored == FoldAlong(LAMBDA acc, o : addDependencies(acc, o.id), start, lastStores)
        known == FoldAlong(LAMBDA acc, x : addDependencies([acc EXCEPT !.final = @ \cup {target[x]}], target[x]),
                           stored, heights)
        sequenced == FoldAlong(LAMBDA acc, p : IF p[2] \in DOMAIN acc.pos THEN acc
                                               ELSE generateClassElement(acc, p[2], TRUE),
                               known, SequencedExpressions(known))
        reached == RemoveSurplus(FoldAlong(GenerateTarget, sequenced, heights))
        finalHeight == CASE target /= <<>> -> Max(DOMAIN target)
                         [] target = <<>> /\ initial /= <<>> -> Min(DOMAIN initial) - 1
                         [] OTHER -> height
    IN  IF reached.err /= "" THEN reached ELSE Asserted(reached, reached.h = finalHeight)

\* The state and the breaking item, a sequence of at most one, afterwards.
optimizeBreakingItem(s, breaking) ==
    LET cond == stackElement(s, s.h - 1)
        nonZero == knownNonZero(cond.s.cl, cond.id)
        queried == [cond.s EXCEPT !.cl = nonZero.cl]
    IN  IF breaking = <<Op("jumpi")>>
        THEN IF nonZero.ok THEN [s |-> feedItems(queried, <<SwapItem(1), PopItem>>), breaking |-> <<Op("jump")>>]
             ELSE IF knownZero(queried.cl, cond.id) THEN [s |-> feedItems(queried, <<PopItem, PopItem>>), breaking |-> <<>>]
             ELSE [s |-> queried, breaking |-> breaking]
        ELSE IF breaking = <<Op("return")>>
        THEN IF knownZero(cond.s.cl, cond.id) THEN [s |-> feedItems(cond.s, <<PopItem, PopItem>>), breaking |-> <<Op("stop")>>]
             ELSE [s |-> cond.s, breaking |-> breaking]
        ELSE [s |-> s, breaking |-> breaking]

\* The classes of the elements from lo to hi.
Elements(s, lo, hi) ==
    FoldAlong(LAMBDA acc, x : LET e == stackElement(acc.s, x)
                              IN  [s |-> e.s, map |-> (x :> e.id) @@ acc.map],
              [s |-> s, map |-> <<>>], [i \in 1 .. (hi - lo + 1) |-> lo + i - 1])

\* The optimised chunk, [items, err]; it is fed to an empty state.
getOptimizedItems(chunk, breaking) ==
    LET o == optimizeBreakingItem(feedItems(EmptyState, chunk), breaking)
        s == o.s
        low == Min({s.h + 1} \cup DOMAIN s.stk)
        initial == Elements([EmptyState EXCEPT !.cl = s.cl], low, 0)
        target == Elements([s EXCEPT !.cl = initial.s.cl], low, s.h)
        g == generateCode(target.s.cl, s.ops, initial.map, target.map, 0)
    IN  [items |-> g.items \o o.breaking, err |-> g.err]
=============================================================================
