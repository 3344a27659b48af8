------------------------------ MODULE Backend ------------------------------
(***************************************************************************)
(* The back end under three loads: whole Yul programs, pieces of assembly  *)
(* that no such program contains, and a probe.                             *)
(*                                                                         *)
(* A program goes through OptimiserSuite::run, the code generation that    *)
(* follows and the passes over the assembly, in their order.  What a step  *)
(* does to a program is Apply; it is a constant here, so that the sequence *)
(* of the steps can be read and checked apart from them.                   *)
(*                                                                         *)
(* A piece grows by an item, or by a phrase of a few items, at a time; at  *)
(* every length Assembly::optimise is applied to it.  The probe counts     *)
(* through the simplification rules and the words, for the algorithms that *)
(* both optimisers share.                                                  *)
(***************************************************************************)
EXTENDS Naturals, Sequences

CONSTANTS Sources,         \* the programs to compile
          Apply(_, _, _, _), \* a step, on a program, the names, and with stackOpt
          NewNames(_),     \* NameDispenser of a program
          SizeOf(_),       \* codeSizeIncludingFunctions
          Generate(_, _),  \* CodeTransform, without or with stack optimisation
          Optimise(_),     \* Assembly::optimise
          Assemble(_),     \* Assembly::assemble
          Accepted(_),     \* analyzeStrictAssertCorrect of AsmAnalyzer
          NamesOf(_),      \* the names in a program
          Meaning(_),      \* what a program does, for each input: the interpreter
          Runs(_)          \* what assembly or bytecode does, for each input: the machine

VARIABLES source,   \* the program as written
          meaning,  \* what it does: a history variable
          ast,      \* the program now
          names,    \* the names that are taken, and the next number for a new one
          part,     \* where it is: prepare, rounds, finish, or a later stage
          at,       \* the step of the part that is next
          rounds,   \* the rounds begun
          size,     \* the size at the begin of the round
          stackOpt, \* whether variables leave the stack after their last use
          code      \* the assembly items, then the bytecode

suiteVars == <<source, meaning, ast, names, part, at, rounds, size, stackOpt, code>>

maxRounds == 12

\* None of these can make stack problems worse.
Prepare ==
    <<"Disambiguator", "VarDeclInitializer", "FunctionHoister", "BlockFlattener", "ForLoopInitRewriter",
      "DeadCodeEliminator", "FunctionGrouper", "EquivalentFunctionCombiner", "UnusedPruner",
      "BlockFlattener", "ControlFlowSimplifier", "StructuralSimplifier", "ControlFlowSimplifier",
      "BlockFlattener">>

SSA == <<"SSATransform", "RedundantAssignEliminator", "RedundantAssignEliminator">>

Round ==
    <<"ExpressionSplitter">> \o SSA \o <<"ExpressionSimplifier", "CommonSubexpressionEliminator">>
    \o <<"ControlFlowSimplifier", "StructuralSimplifier", "ControlFlowSimplifier", "BlockFlattener",
         "DeadCodeEliminator", "UnusedPruner">>
    \o <<"CommonSubexpressionEliminator", "UnusedPruner">>
    \o <<"SSAReverser", "CommonSubexpressionEliminator", "UnusedPruner", "ExpressionJoiner", "ExpressionJoiner">>
    \o <<"ExpressionInliner", "UnusedPruner">>
    \o <<"ExpressionSplitter">> \o SSA \o <<"CommonSubexpressionEliminator">>
    \o <<"FunctionGrouper", "EquivalentFunctionCombiner", "FullInliner", "BlockFlattener">>
    \o SSA \o <<"ExpressionSimplifier", "StructuralSimplifier", "BlockFlattener", "DeadCodeEliminator",
                "ControlFlowSimplifier", "CommonSubexpressionEliminator">>
    \o SSA \o <<"UnusedPruner", "CommonSubexpressionEliminator">>

\* The source becomes short and pretty, and fits the stack.
Finish ==
    <<"ExpressionJoiner", "Rematerialiser", "UnusedPruner", "ExpressionJoiner", "UnusedPruner",
      "ExpressionJoiner", "UnusedPruner", "SSAReverser", "CommonSubexpressionEliminator", "UnusedPruner",
      "ExpressionJoiner", "Rematerialiser", "UnusedPruner", "FunctionGrouper", "StackCompressor",
      "BlockFlattener", "DeadCodeEliminator", "ControlFlowSimplifier", "FunctionGrouper", "VarNameCleaner">>

StepsOf == [prepare |-> Prepare, rounds |-> Round, finish |-> Finish]

SuiteInit ==
    /\ source \in Sources
    /\ meaning = Meaning(source)
    /\ ast = source
    /\ names = NewNames(source)
    /\ part = "prepare"
    /\ at = 1
    /\ rounds = 0
    /\ size = 0
    /\ stackOpt \in BOOLEAN
    /\ code = <<>>

\* One step of the part that is under way.
Transform ==
    /\ part \in DOMAIN StepsOf
    /\ part = "rounds" => at > 0
    /\ at <= Len(StepsOf[part])
    /\ LET r == Apply(StepsOf[part][at], ast, names, stackOpt)
       IN  ast' = r.b /\ names' = r.st
    /\ at' = at + 1
    /\ UNCHANGED <<source, meaning, part, rounds, size, stackOpt, code>>

\* Mutant: the dispenser sees the source.
Prepared_stale ==
    /\ part = "prepare"
    /\ at > Len(Prepare)
    /\ part' = "rounds"
    /\ at' = 0
    /\ names' = NewNames(source)
    /\ UNCHANGED <<source, meaning, ast, rounds, size, stackOpt, code>>

\* The dispenser of names sees the program as it is before the rounds.
Prepared ==
    /\ part = "prepare"
    /\ at > Len(Prepare)
    /\ part' = "rounds"
    /\ at' = 0
    /\ names' = NewNames(ast)
    /\ UNCHANGED <<source, meaning, ast, rounds, size, stackOpt, code>>

\* A round is begun if the last one has changed the size.
BeginRound ==
    /\ part = "rounds"
    /\ at = 0
    /\ rounds < maxRounds
    /\ SizeOf(ast) /= size
    /\ size' = SizeOf(ast)
    /\ rounds' = rounds + 1
    /\ at' = 1
    /\ UNCHANGED <<source, meaning, ast, names, part, stackOpt, code>>

EndRound ==
    /\ part = "rounds"
    /\ at > Len(Round)
    /\ at' = 0
    /\ UNCHANGED <<source, meaning, ast, names, part, rounds, size, stackOpt, code>>

Simplified ==
    /\ part = "rounds"
    /\ at = 0
    /\ rounds = maxRounds \/ SizeOf(ast) = size
    /\ part' = "finish"
    /\ at' = 1
    /\ UNCHANGED <<source, meaning, ast, names, rounds, size, stackOpt, code>>

\* What the optimiser leaves is compiled.
GenerateCode ==
    /\ part = "finish"
    /\ at > Len(Finish)
    /\ part' = "generated"
    /\ code' = Generate(ast, stackOpt)
    /\ UNCHANGED <<source, meaning, ast, names, at, rounds, size, stackOpt>>

\* The code of a contract, but not that of a Yul source, is optimised again.
OptimiseAssembly ==
    /\ part = "generated"
    /\ part' = "optimised"
    /\ code' = Optimise(code)
    /\ UNCHANGED <<source, meaning, ast, names, at, rounds, size, stackOpt>>

AssembleCode ==
    /\ part \in {"generated", "optimised"}
    /\ part' = "assembled"
    /\ code' = Assemble(code)
    /\ UNCHANGED <<source, meaning, ast, names, at, rounds, size, stackOpt>>

SuiteNext ==
    \/ Transform
    \/ Prepared
    \/ BeginRound
    \/ EndRound
    \/ Simplified
    \/ GenerateCode
    \/ OptimiseAssembly
    \/ AssembleCode
-----------------------------------------------------------------------------
(***************************************************************************)
(* Pieces of assembly, and the probe.                                      *)
(***************************************************************************)
CONSTANTS Phrases,           \* for each kind of piece, what it is made of
          MaxPiece,          \* a bound: the number of phrases of a piece
          MaxProbe,          \* a bound: the last rule, and the last word
          OptimisedPiece(_), \* Assembly::optimise of the piece
          Effect(_),         \* what a piece does to stack, storage and memory
          RuleSound(_),      \* the rule of that number keeps values
          ConstantExact(_)   \* the representations of a constant compute it

VARIABLES piece,    \* a piece of assembly
          probe     \* its number of phrases, or the number of the rule and the word

vars == <<suiteVars, piece, probe>>

NoProgram ==
    /\ source = <<>>
    /\ meaning = <<>>
    /\ ast = <<>>
    /\ names = <<>>
    /\ at = 0
    /\ rounds = 0
    /\ size = 0
    /\ stackOpt = FALSE
    /\ code = <<>>

Init ==
    /\ piece = <<>>
    /\ probe = 0
    /\ \/ SuiteInit
       \/ part \in DOMAIN Phrases \cup {"probe"} /\ NoProgram

Grow ==
    /\ part \in DOMAIN Phrases
    /\ probe < MaxPiece
    /\ probe' = probe + 1
    /\ \E p \in Phrases[part] : piece' = piece \o p
    /\ UNCHANGED suiteVars

Count ==
    /\ part = "probe"
    /\ probe < MaxProbe
    /\ probe' = probe + 1
    /\ UNCHANGED <<suiteVars, piece>>

Next ==
    \/ SuiteNext /\ UNCHANGED <<piece, probe>>
    \/ Grow
    \/ Count

Spec == Init /\ [][Next]_vars
-----------------------------------------------------------------------------
(***************************************************************************)
(* Properties.                                                             *)
(***************************************************************************)

\* Every step leaves a program that does what the source does: for each input
\* it ends in the same way, with the same storage, logs and returned data.
MeaningPreserved == part \in DOMAIN StepsOf => Meaning(ast) = meaning

\* Every step leaves a program that AsmAnalyzer accepts, as the end of
\* OptimiserSuite::run asserts: names are declared once and before their use,
\* and values are neither lost nor missing.
StaysValid == part \in DOMAIN StepsOf => Accepted(ast)

\* During the rounds the dispenser knows every name of the program, also those
\* that one step has made and the next ones copy, so that a new name is new.
NamesKnown == part = "rounds" => NamesOf(ast) \subseteq names.used

\* The items that CodeTransform generates do what the source does, whether or
\* not variables leave the stack early, and so do the optimised ones.
ItemsAgree == part \in {"generated", "optimised"} /\ code.ok => Runs(code) = meaning

\* The bytecode does what the source does: every jump arrives where its tag was.
BytecodeAgrees == part = "assembled" /\ code.ok => Runs(code) = meaning

\* The optimised piece leaves the same stack, storage and memory as the piece,
\* whatever they are before: the eliminator may reorder loads and stores only
\* if they cannot meet, and no assertion of it fails.
PieceEffectKept ==
    part \in DOMAIN Phrases => LET o == OptimisedPiece(piece) IN o.err = "" /\ Effect(o.items) = Effect(piece)

\* Whatever the simplifier makes of an expression that has the form of a rule
\* has the same value, for all values of the variables.
RulesKeepValues == part = "probe" => RuleSound(probe)

\* Every way ConstantOptimisationMethod has to represent a constant leaves the
\* constant on the stack, and memory as it was.
ConstantsExact == part = "probe" => ConstantExact(probe)
=============================================================================
