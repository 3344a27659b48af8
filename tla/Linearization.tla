---------------------------- MODULE Linearization ----------------------------
(***************************************************************************)
(* The linearisation of the bases of a contract                            *)
(* (NameAndTypeResolver::linearizeBaseContracts and cThreeMerge), apart    *)
(* from syntax trees: lists are merged to one that keeps the order of each *)
(* of them.  A list that has become empty stays where it is and is         *)
(* skipped; the code erases it.                                            *)
(***************************************************************************)
EXTENDS Naturals, Sequences, FiniteSets

\* The contracts that occur in the lists.
Elements(lists) == UNION {{lists[i][j] : j \in DOMAIN lists[i]} : i \in DOMAIN lists}

\* No list has x behind its head.
appearsOnlyAtHead(x, lists) ==
    \A i \in DOMAIN lists : \A j \in DOMAIN lists[i] : lists[i][j] = x => j = 1

\* The lists whose heads may come next.
Candidates(lists) ==
    {i \in DOMAIN lists : lists[i] /= <<>> /\ appearsOnlyAtHead(lists[i][1], lists)}

\* The first of them decides.
nextCandidate(lists) ==
    LET first == CHOOSE i \in Candidates(lists) : \A j \in Candidates(lists) : i <= j
    IN  lists[first][1]

\* list::remove takes x out wherever it is, and a candidate is only at heads.
Without(x, list) == IF list /= <<>> /\ list[1] = x THEN Tail(list) ELSE list

removeCandidate(x, lists) == [i \in DOMAIN lists |-> Without(x, lists[i])]

\* Mutant: the first list that is left decides alone.
MergeRound_greedy(m) ==
    IF m.failed \/ Elements(m.lists) = {} THEN m
    ELSE LET first == CHOOSE i \in DOMAIN m.lists :
                          m.lists[i] /= <<>> /\ \A j \in 1 .. (i - 1) : m.lists[j] = <<>>
             next  == m.lists[first][1]
         IN  [lists |-> [i \in DOMAIN m.lists |-> SelectSeq(m.lists[i], LAMBDA x : x /= next)],
              result |-> Append(m.result, next), failed |-> FALSE]

\* One round of the loop, which ends without lists or without a candidate.
MergeRound(m) ==
    IF m.failed \/ Elements(m.lists) = {} THEN m
    ELSE IF Candidates(m.lists) = {} THEN [m EXCEPT !.failed = TRUE]
    ELSE LET next == nextCandidate(m.lists)
         IN  [lists |-> removeCandidate(next, m.lists), result |-> Append(m.result, next), failed |-> FALSE]

\* The state of the loop after every number of rounds.
Rounds(toMerge) ==
    LET round[n \in Nat] ==
            IF n = 0 THEN [lists |-> toMerge, result |-> <<>>, failed |-> FALSE] ELSE MergeRound(round[n - 1])
    IN  round

\* The merged list, <<>> if there is none.  Each round takes one element out.
cThreeMerge(toMerge) ==
    LET end == Rounds(toMerge)[Cardinality(Elements(toMerge))]
    IN  IF end.failed THEN <<>> ELSE end.result

\* The lists that are merged for c, whose direct bases are given from the last
\* one named to the first: their linearisations, and c in front of them.
LinearizationInput(c, bases, lins) == [i \in DOMAIN bases |-> lins[bases[i]]] \o <<<<c>> \o bases>>

-----------------------------------------------------------------------------
(***************************************************************************)
(* What a merged list should be.                                           *)
(***************************************************************************)

\* Whatever comes earlier in the list comes earlier in the order.
Keeps(order, list) ==
    \A i, j \in DOMAIN list : i < j =>
        \E k, l \in DOMAIN order : k < l /\ order[k] = list[i] /\ order[l] = list[j]

\* The elements of all lists, each once, in an order that keeps that of each list.
Merges(order, lists) ==
    /\ {order[k] : k \in DOMAIN order} = Elements(lists)
    /\ \A k, l \in DOMAIN order : order[k] = order[l] => k = l
    /\ \A i \in DOMAIN lists : Keeps(order, lists[i])
=============================================================================
