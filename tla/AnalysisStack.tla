---------------------------- MODULE AnalysisStack ----------------------------
(***************************************************************************)
(* The pipeline of SmartACE: the checks of the Solidity compiler in the    *)
(* order of CompilerStack::analyze, the analyses in the order in which     *)
(* AnalysisStack constructs them, the translation of the model, and one    *)
(* transaction that is executed by the generated C code and by the         *)
(* reference semantics of Solidity.  Every step computes members of the    *)
(* stack from the earlier ones; a check that reports an error or an        *)
(* analysis that throws ends the run.  A program without a model is only   *)
(* compiled and executed.  What a stage computes is defined in modules     *)
(* FrontEnd and Stages and is a parameter here.                            *)
(***************************************************************************)
EXTENDS Integers, Sequences, SequencesExt, TLC

CONSTANTS None,
          Programs,           \* programs, with the bundle (model) of each
          Transactions,       \* the calls for each identity of a program
          Compiled(_, _, _),  \* result of a stage of the compiler
          Results(_, _, _),   \* results of a stage for a program and a stack
          Executions(_, _, _), \* both outcomes of a transaction
          Untainted(_, _, _), \* outcomes with other addresses that are no clients
          Placed(_, _),        \* places and addresses of the instances of a bundle
          Instanced(_, _),       \* its instances, with their contracts
          Primitives(_, _),    \* primitive types that C functions use
          Transacted(_, _),   \* outcome of a transaction of a program without a model
          MeantNames(_, _),   \* what names mean, given the linearisations
          BaseOrders(_, _, _), \* orders of the bases of a contract
          Storages            \* initial storages of such a transaction

VARIABLES prog,         \* the bundle that is compiled
          pc,           \* the stage that comes next, or "done", "ran" or "error"
          stack,        \* the members of AnalysisStack
          tx,           \* the transaction
          ran           \* both executions: c and sol, or that of a program without a model

vars == <<prog, pc, stack, tx, ran>>

Checks == <<"syntax", "names", "levels", "typecheck", "posttypes", "flow", "static", "mutability", "smt">>

Stages == <<"actors", "allocations", "model", "contracts", "calls", "libraries", "environment",
            "bundle", "types", "addresses", "strings",
            "translate", "execute", "done">>

After(stage) ==
    LET all == Checks \o Stages
    IN  IF stage = "smt" /\ prog.model = <<>> THEN "run"
        ELSE all[SelectInSeq(all, LAMBDA s : s = stage) + 1]

\* The next check of the compiler.
Check ==
    /\ pc \in ToSet(Checks)
    /\ LET r == Compiled(pc, prog, stack)
       IN  /\ stack' = r.members @@ stack
           /\ pc' = IF r.ok THEN After(pc) ELSE "error"
    /\ UNCHANGED <<prog, tx, ran>>

\* A transaction of a program that was only compiled.
Run ==
    /\ pc = "run"
    /\ tx' \in Transactions[prog.id]
    /\ ran' = Transacted(prog, tx')
    /\ pc' = "ran"
    /\ UNCHANGED <<prog, stack>>

\* The constructor of the next member.
Construct ==
    /\ pc \in ToSet(Stages) \ {"execute", "done"}
    /\ \E r \in Results(pc, prog, stack) :
           \/ r.ok /\ stack' = r.members @@ stack /\ pc' = After(pc)
           \/ ~ r.ok /\ stack' = stack /\ pc' = "error"
    /\ UNCHANGED <<prog, tx, ran>>

Execute ==
    /\ pc = "execute"
    /\ stack.bundle /= <<>>
    /\ tx' \in Transactions[prog.id]
    /\ ran' = Executions(prog, stack, tx')
    /\ pc' = "done"
    /\ UNCHANGED <<prog, stack>>

\* The end, also for a bundle whose contracts are all abstract and for a program
\* without transactions.
Done ==
    /\ \/ pc \in {"done", "ran", "error"}
       \/ pc = "execute" /\ stack.bundle = <<>>
       \/ pc = "run" /\ Transactions[prog.id] = {}
    /\ UNCHANGED vars

Init ==
    /\ prog \in Programs
    /\ pc = Checks[1]
    /\ stack = <<>>
    /\ tx = None
    /\ ran = None

Next == Check \/ Run \/ Construct \/ Execute \/ Done

Spec == Init /\ [][Next]_vars

-----------------------------------------------------------------------------
(***************************************************************************)
(* Properties.                                                             *)
(***************************************************************************)

\* The generated C code leaves every state variable and every balance as the
\* Solidity program does, returns the same value, and fails in the same way.
TranslationAgrees == (pc = "done") => ran.c = ran.sol

\* The wrapper of every primitive type that the generated functions use is
\* declared, and a structure is defined once and after the structures that are
\* its fields.
DeclarationsSuffice ==
    (pc = "done") =>
        LET adts == stack.adts
        IN  /\ Primitives(prog, stack.defs) \subseteq stack.prims
            /\ \A i \in DOMAIN adts : \A j \in DOMAIN adts :
                   /\ (adts[i].type = adts[j].type => i = j)
                   /\ (adts[j].type \in adts[i].fields => j < i)

\* The contracts that exist after a transaction are those of the bundle, each in
\* its place and of its type; their addresses are 1 to the size of the bundle.
InstancesKnown ==
    (pc = "done" /\ ran.sol.err = "ok") =>
        LET all == Instanced(prog, stack.bundle[1])
            at  == Placed(prog, stack.bundle[1])
        IN  /\ DOMAIN ran.made = DOMAIN at
            /\ \A p \in DOMAIN at : \E i \in DOMAIN all :
                   all[i].contract = ran.made[p] /\ all[i].address = at[p]
            /\ {all[i].address : i \in DOMAIN all} = 1 .. Len(all)

\* An address that is passed to a method and that the analysis does not count as
\* a client has no influence: with another address, the transaction does the same.
TaintSound == (pc = "done") => \A o \in Untainted(prog, stack, tx) : o = ran.sol

\* A function for which the SMT checker reports nothing fails no assertion and
\* divides by zero in no transaction, whatever the storage and the arguments; and
\* the checker itself meets no state that it asserts to be impossible.  It is not
\* so for an assertion that is reached after a return, break or continue and
\* depends on what that skipped, that follows a division in a branch, or that
\* follows a requirement on a variable that ++ or -- took out of its range: the
\* checker ignores the jump, and drops the paths with a zero divisor or such a
\* value.
SmtSound ==
    (pc = "ran" /\ prog.smt) =>
        /\ ~ stack.smt[tx.fn].internal
        /\ (stack.smt[tx.fn].warned \/ ran.err /= "assert")

\* An accepted function that is declared view changes no storage, and one that is
\* declared pure does the same from any storage.
MutabilityKept ==
    (pc = "ran" /\ tx.fn \in DOMAIN prog.mutability) =>
        /\ ~ ran.changed
        /\ (prog.mutability[tx.fn] = 0 => \A m \in Storages : Transacted(prog, [tx EXCEPT !.mem = m]) = ran)

\* A transaction of an accepted program that does not revert uses no storage
\* pointer that was never assigned, and no constant that is defined by itself.
NothingUnassigned == (pc = "ran" /\ ran.err = "ok") => ~ ran.stray

\* Every identifier refers to the innermost declaration of its name that ends
\* before it in a scope around it, also when a name is declared again.
NamesMeanInnermost ==
    (pc \notin {"syntax", "names", "error"}) =>
        LET meant == MeantNames(prog, stack.lins)
        IN  \A c \in DOMAIN meant : \A f \in DOMAIN meant[c] : stack.refs[c][f] = meant[c][f]

\* The linearisation of a contract has each of its bases once and keeps the order
\* of each base's linearisation and of the list of bases; it is refused only if
\* there is no such order.
LinearizationExact ==
    "lins" \in DOMAIN stack =>
        \A c \in DOMAIN stack.lins :
            LET orders == BaseOrders(prog, c, stack.lins)
            IN  IF stack.lins[c] = <<>> THEN orders = {} ELSE stack.lins[c] \in orders

\* The code of an accepted function fails where an index is out of range, a
\* divisor is zero or a number is no member of an enumeration, and nowhere else;
\* what it assigns is the exact value of the expression in the type of the
\* variable, whatever bits the words on the stack had besides.  (For the elements
\* that a smaller length takes from an array, see LayoutDisjoint.)
ExpressionsExact ==
    (pc = "ran" /\ prog.typed /= None) =>
        /\ ran.err = ran.should
        /\ \A h \in ran.held : ran.meant[h[1]] /= ran.before[h[1]] => h[2] = ran.meant[h[1]]

\* Whatever a function assigns, pushes, removes or deletes, every other variable,
\* member and element keeps its value, also those that share its slot, whatever
\* part of a slot the array ends in.  Elements that a greater length adds are zero,
\* except where a smaller length cut the array within a slot before: only whole
\* slots are cleared.
LayoutDisjoint ==
    (pc = "ran" /\ prog.typed /= None) =>
        \A h \in ran.held : ran.meant[h[1]] = ran.before[h[1]] => h[2] = ran.meant[h[1]]
=============================================================================
