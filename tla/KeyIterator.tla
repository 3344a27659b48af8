----------------------------- MODULE KeyIterator -----------------------------
(***************************************************************************)
(* KeyIterator: the enumeration of the key tuples of a mapping.  The       *)
(* generators run it as                                                    *)
(*     do { if (is_full()) use(view()); } while (next());                  *)
(* to declare, to initialise and to instrument the entries of a mapping.   *)
(***************************************************************************)
EXTENDS Integers, Sequences

CONSTANTS MaxWidth, MaxDepth   \* bounds on the instances that are explored

ASSUME BoundAssumption == MaxWidth \in Nat /\ MaxDepth \in Nat

VARIABLES
    M_WIDTH, M_DEPTH, M_INCLUDE,   \* as given to the constructor
    m_indices,                     \* the current string
    used,                          \* the strings the loop body has used
    pc

dims == <<M_WIDTH, M_DEPTH, M_INCLUDE>>
vars == <<M_WIDTH, M_DEPTH, M_INCLUDE, m_indices, used, pc>>

\* The constructor.  The two-argument form has _include = 0.
Init ==
    /\ M_WIDTH \in 0 .. MaxWidth
    /\ M_DEPTH \in 0 .. MaxDepth
    /\ M_INCLUDE \in 0 .. MaxWidth
    /\ m_indices = <<>>
    /\ used = <<>>
    /\ pc = "use"

is_at_max == M_DEPTH > 0 /\ Len(m_indices) = M_DEPTH

\* Mutant: off by one at the cut-off.
is_full_strict == is_at_max /\ \E i \in DOMAIN m_indices : m_indices[i] > M_INCLUDE

is_full == is_at_max /\ \E i \in DOMAIN m_indices : m_indices[i] >= M_INCLUDE

\* The body of the loop.
Use ==
    /\ pc = "use"
    /\ used' = IF is_full THEN Append(used, m_indices) ELSE used
    /\ pc' = "next"
    /\ UNCHANGED <<dims, m_indices>>

Back == m_indices[Len(m_indices)]

Bump(s) == [s EXCEPT ![Len(s)] = @ + 1]

Pop(s) == SubSeq(s, 1, Len(s) - 1)

\* next(): a string that is not of maximum length gets another digit.
Extend ==
    /\ pc = "next"
    /\ M_WIDTH /= 0 /\ M_DEPTH /= 0
    /\ ~ is_at_max
    /\ m_indices' = Append(m_indices, 0)
    /\ pc' = "use"
    /\ UNCHANGED <<dims, used>>

\* next(): the last digit of a string of maximum length is incremented.
Increment ==
    /\ pc = "next"
    /\ M_WIDTH /= 0 /\ M_DEPTH /= 0
    /\ is_at_max
    /\ m_indices' = Bump(m_indices)
    /\ pc' = "carry"
    /\ UNCHANGED <<dims, used>>

\* Mutant: a carry is dropped without being added to the digit before it.
Carry_drop ==
    /\ pc = "carry"
    /\ m_indices' = IF Back = M_WIDTH THEN Pop(m_indices) ELSE m_indices
    /\ pc' = IF m_indices' = <<>> THEN "done" ELSE "use"
    /\ UNCHANGED <<dims, used>>

\* next(): one test of the while loop, and its body.
Carry ==
    /\ pc = "carry"
    /\ IF Back /= M_WIDTH
       THEN pc' = "use" /\ UNCHANGED m_indices
       ELSE IF Len(m_indices) = 1
            THEN pc' = "done" /\ m_indices' = <<>>
            ELSE pc' = "carry" /\ m_indices' = Bump(Pop(m_indices))
    /\ UNCHANGED <<dims, used>>

\* Mutant: an empty search space is not noticed.
Stop_ignored ==
    /\ pc = "next"
    /\ M_WIDTH = 0 \/ M_DEPTH = 0
    /\ pc' = "use"
    /\ UNCHANGED <<dims, m_indices, used>>

\* next() on an empty search space.
Stop ==
    /\ pc = "next"
    /\ M_WIDTH = 0 \/ M_DEPTH = 0
    /\ pc' = "done"
    /\ UNCHANGED <<dims, m_indices, used>>

Done == pc = "done" /\ UNCHANGED vars

Next == Use \/ Extend \/ Increment \/ Carry \/ Stop \/ Done

\* The loop is sequential code that nothing interrupts.
Spec == Init /\ [][Next]_vars /\ WF_vars(Next)
-----------------------------------------------------------------------------
(***************************************************************************)
(* Properties.                                                             *)
(***************************************************************************)

\* s comes before t in lexicographic order (for strings of equal length).
Precedes(s, t) ==
    \E i \in DOMAIN s :
        /\ s[i] < t[i]
        /\ \A j \in 1 .. (i - 1) : s[j] = t[j]

\* The keys of the entries that the generators are after.
Wanted ==
    {k \in [1 .. M_DEPTH -> 0 .. (M_WIDTH - 1)] :
        \E i \in 1 .. M_DEPTH : k[i] >= M_INCLUDE}

\* No entry is visited twice: each string is used after all those before it.
UsedInOrder ==
    \A i, j \in DOMAIN used : i < j => Precedes(used[i], used[j])

\* When the loop ends, exactly the wanted entries have been visited: none is
\* left uninitialised or without interference.
UsesAllWanted ==
    pc = "done" => {used[i] : i \in DOMAIN used} = Wanted

\* The loop ends for every width, depth and cut-off, the empty ones included.
Terminates == <>(pc = "done")
=============================================================================
