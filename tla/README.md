# A TLA+ development of SmartACE

SmartACE is a fork of the Solidity compiler. With `--c-model` it translates a
bundle of contracts into a C program whose executions stand for the executions
of the contracts with *arbitrarily many* clients: addresses become a small
finite domain (the neighbourhood), client data outside of it is replaced by
*interference* that is constrained by a compositional invariant, and a model
checker, a symbolic executor or a fuzzer explores the result.

The development has three layers, one for each kind of object that exists while
the program is used:

1. **The harness.** A behaviour is an execution of the *generated* C program; the
   lines behind an action are the lines of the generator that print the
   statement, and the lines of the run-time library (`libverify`).
2. **The pipeline.** A behaviour is one run of the *compiler and translator*: the
   checks of the Solidity front end, the analyses of SmartACE, the translation
   to C, and at the end one transaction that is executed by the generated code
   and by a reference semantics. Each stage is an algorithm on syntax trees,
   written as operators.
3. **The back end.** A behaviour is one run of the *optimiser and assembler* of
   the upstream compiler: the Yul optimiser suite pass by pass, code generation,
   the optimisers of the assembly, and the assembler.

## Inventory

| Component | State | Operations | Talks to | What makes it correct |
|---|---|---|---|---|
| Address domain (`PTGBuilder`, `TightBundle`) | sizes of the regions: zero, contracts, literals, auxiliary users, representatives, reserved client | `implicit_count`, `max_sender`, `count`, ... | everyone who prints an address | every address fits, and distinct addresses of a transaction can be distinct |
| Scheduler (`MainFunction`, `StateGenerator`, `AddressSpace`, `ActorModel`) | clock, literals, contract instances, address variables | declare, map_constants, assign_addresses, initialize, update_global, update_local, transaction loop | domain, invariants, nondeterminism | the order of the steps; literals distinct; clock monotone |
| Compositional invariants (`CompInvarGenerator`) | fields of mappings, roles | check_interference, apply_interference, guard, expand_map | scheduler, key iterator, mapping fields | the neighbourhood conforms before every transaction; distinguished entries are left alone |
| `KeyIterator` | a string of digits | `next`, `is_full` | invariants, mappings | enumerates exactly the wanted keys, once, and ends |
| Mapping generator | fields, sum | zero init, read, write | bodies, interference | it is a Solidity mapping; the sum is the sum |
| Ether, call state, value handlers | balances, `value`, `paid`, the C stack | sol_pay, sol_send, sol_transfer, value handler, constructor | function bodies, fallbacks | ether is conserved, credited once, refunded on failure |
| `libverify` (libFuzzer, KLEE, SeaHorn, interactive) | `RandData`, its size and counter, exception type, options | nd_range, nd_increase, nd_int*, sol_require, sol_assert, longjmp, free | the generated model | buffer freed once, draws in range, every input ends |
| Static analyses (allocation sites, call graph, contract return values, taint, inheritance, structures, strings, primitives) | tables over the AST | one pass each, in the order of `AnalysisStack` | each other and all generators | instances, influence and declarations are those of the program |
| Converters and C code generation | the C program | one visitor per construct | the analyses | the C program does what the Solidity program does |
| Name resolution and static checks | scopes, references, linearisations, control flow graphs | the stages of `CompilerStack::analyze` | the AST that everything else reads | what is accepted keeps what its checks promise |
| Types, expression code, storage layout | types of expressions, slots | type checker, conversions, operators, lvalues, arrays | storage | exact values although cleanup is lazy; no two variables share bytes |
| SMT checker | SSA indices, path conditions, assertions | one visitor per construct, inlined calls, merges | an SMT solver | no warning means no failure |
| Yul optimiser, analysis and code generator | program, names in use | sixty passes, scope filler, analyzer, `CodeTransform` | the assembly | meaning and validity survive every pass |
| Assembly and its optimisers | items, data, sub-assemblies | peephole, jumpdest removal, deduplication, CSE, constants, assemble | bytecode | the effect of the code is unchanged |
| Parser, contract compiler and ABI coding, command line, LLL, wasm | — | — | — | not modelled, see below |

Nothing is concurrent and nothing is persisted. What is hard to test is of
another kind: long sequences of transactions that move clients into and out of
roles; bounds of the finite domain; fields that are changed behind the writer's
back; payments that fail half-way or are re-entered; loops whose end depends on
arithmetic at a boundary; passes whose preconditions an earlier pass has undone;
knowledge about values that is kept a step too long; a check of one function
that another function relies on. `PROJECT.json` lists these hazards with their
lines and the properties about them.

## Modules

### Harness

`AddressDomain` has the sizes and regions of the address space. Its constants
are what the extractors count (literals, roles, arguments) and the command-line
options. `NdRange` keeps the truncation of bounds to a byte;
`ByteAssumption` restricts the theorems to domains that fit.

`RunModel` extends it with `run_model()`. `pc` is the statement about to be
executed: `literals` (`AddressSpace::map_constants`, one literal a step, then
`ActorModel::assign_addresses`), `init_time` and `init_call`
(`ActorModel::initialize`, once per top-level contract), `loop`
(`sol_continue()`), `check` and `apply` (`CompInvarGenerator`), `time`
(`update_global`), `call` (`update_local` and the arguments of one case), and
`body`. A body is any sequence of `AssignRole`, `WriteMap`, a failing
requirement, a failing assertion, and `Return`: it can do to addresses and to an
address-keyed mapping whatever the extractors accept, namely copy addresses that
are in scope. `ecrecover` is the exception that they accept, too
(`UsesCrypto`). `status` records a path that was dropped by an assumption or
reported by an assertion. Assumptions have the semantics of the KLEE and
SeaHorn backends; an empty range therefore drops the path.

`Network` is what `run_model()` stands for: the same bundle on a blockchain with
any set of accounts. `holder` and `book` are its address variables and entries,
`caller` and `params` the transaction. Constructors and transactions come from
any account that is no contract of the bundle and name any accounts; a body can
name the accounts that it can reach, as in `RunModel`; nothing but a transaction
changes an entry, so there is no interference. Between two transactions, `Audit`
compares all entries of the network that are subject to interference with the
invariant, if it is to be checked. Steps without addresses are those of
`RunModel`. The variables of `RunModel` that hold addresses are history
variables: `name` gives an address of the model to the accounts that matter now
(the fixed ones, those in a role, and those in the transaction), and `lit`,
`role`, `data`, `sender` and `args` follow from it. They never restrict the
network: each is determined by the step, and no guard reads them. `NSpec`
therefore has exactly the behaviours of the network, and that it implies `Spec`
of `RunModel` is the cut-off.

`KeyIterator` is the enumeration of keys, one action per branch of `next()`,
inside the do-while loop in which all generators use it. Width, depth and
cut-off are variables that `Init` chooses, so one run covers them all.

`SolMapping` is an abstract specification: a mapping from keys to values,
zero at first, with reads and writes that do not overlap. `MapStore` is the
structure and the accessors that `MapGenerator` emits: the bounds assertion, the
tree of comparisons, and the two-step update of the sum. `InterferedSpec` adds
the interference that assigns fields directly. `MapStore` implements
`SolMapping` (`ImplementsMapping`): before initialisation the abstract mapping is
zero, a key without a field is zero, and a write is complete when its field is
assigned, before the sum is updated.

`EtherFlow` has the balances and an explicit C stack of two kinds of frames:
blocks of a function (a modifier or the body, with `value` and `paid`) and
payments. `EnterBlock` is the value handler, `Placeholder` the statement `_;`,
`InternalCall` and `ExternalCall` the two ways in which
`compute_next_state_for` passes the call state, `Construct` the initializer.
A payment is debited, dispatched and answered in separate steps, because the
fallback runs in the middle. `moved` is a history variable.

`NdSources` says what each of the four backends returns for a draw, a range and
an increase, with the integers of Boost and of `<stdint.h>`. `FuzzHarness` is
the harness around them: the globals of `verify_libfuzzer.cpp` (buffer, counter,
exception), the single run of the other backends, and the places where a model
draws, over all ranges up to `MaxBound`. The powers of a byte and the numbers
that bytes stand for are recursive functions.

### Pipeline

| Module | Code |
|---|---|
| `SolSyntax`, `SolAst` | the annotated syntax tree and the queries on it (`ast/AST.cpp`) |
| `Linearization` | `linearizeBaseContracts` and `cThreeMerge` (the C3 merge), apart from syntax trees |
| `NameResolution` | `DeclarationContainer`, `NameAndTypeResolver` (scopes, imports of inherited names, the order of linearisation), `ReferencesResolver` |
| `ControlFlow` | `ControlFlowBuilder`, `ControlFlowAnalyzer` |
| `StorageLayout` | `StorageOffsets::computeOffsets`, the sizes of arrays and the places of their elements, apart from types |
| `SolTypes` | `Types`, expressions in `TypeChecker`, `ExpressionCompiler`, `CompilerUtils`, `LValue`, `ArrayUtils` |
| `SmtChecker` | `SMTChecker`, `VariableUsage`, symbolic types and variables; a set of models stands for the assertions of the solver |
| `FrontEnd` | the stages of `CompilerStack::analyze` with `SyntaxChecker`, `ContractLevelChecker`, `PostTypeChecker`, `StaticAnalyzer`, `ViewPureChecker`, `ConstantEvaluator` |
| `Allocation` | `InheritanceTree`, `FlatContract`, `FlatModel`; `FunctionCallAnalyzer`, `AllocationGraph`, `TightBundleModel` |
| `CallGraphs` | `ContractRvAnalyzer`, `CallGraph`, `LibrarySummary`, `CallState`, `StringLookup`; `TaintAnalysis` and the extractors of literals, roles and clients |
| `CCode` | the C program that `codegen` prints, and what it does |
| `Converter`, `FunctionConverter` | expressions; statements, modifiers, functions, initializers, and the declarations: primitive wrappers, structures, mappings, the nondeterminism registry |
| `SolSemantics` | the reference: what a Solidity program means |
| `Stages`, `AnalysisStack` | the order of the stages, and the properties |
| `MCAnalysis` | the programs |

`AnalysisStack` is the state machine. Its state is the program, the members
computed so far (`stack`), the stage (`pc`), and what a transaction did (`ran`).
One action per kind of stage: a check of the front end that passes or reports an
error, an analysis that adds a member or throws, the translation, the choice of a
transaction and its execution. The stages are parameters there, so that the order
of construction can be read apart from what the stages compute; `MCAnalysis`
binds them to `Stages` and `FrontEnd`. A program with `model` goes through the
translation; the others are only compiled and executed by `FrontEnd!Transact`,
the evaluation of one contract, which also notes what must not happen (a
storage pointer that was never assigned).

`SolSemantics`, the second half of `FrontEnd`, the interpreter at the end of
`YulAst` and the `Mean` part of `SolTypes` are references. They follow the language and not the code under
test: `SolTypes`, for instance, computes with exact integers, whereas the code it
models leaves dirty bits in words.

### Back end

| Module | Code |
|---|---|
| `YulAst` | `AsmData`, scopes, `AsmAnalyzer`, metrics, semantics, name collectors; the interpreter in `test/tools`, the reference for the meaning of Yul |
| `YulPasses`, `YulDataFlow` | every pass of the suite: the ones without analysis of values, the ones that split, join, inline and rename, and the ones derived from `DataFlowAnalyzer` |
| `YulCodegen` | `CodeTransform`, `EVMDialect`, `StackCompressor` |
| `Instructions`, `RuleList` | the table of instructions, the simplification rules |
| `AssemblyItems`, `AsmCse`, `AsmAssembly` | items and the machine that runs them; `ExpressionClasses`, `KnownState`, the subexpression eliminator; peephole, deduplication, constants, assembling |
| `Backend` | the state machine: `OptimiserSuite::run` with its loop, code generation, `Assembly::optimise`, `assemble`; pieces of assembly and probes of rules and constants |
| `MCBackend` | its instance: the programs, the phrases, the words |

`Backend` has one action per step of the suite; a step is the application of a
pass to the program of the moment, with the names in use. The passes are
parameters there; `MCBackend` binds them. Besides, there are pieces of assembly
that grow item by item and are optimised at every length, and a probe that
counts through the simplification rules and the constants.

### Proofs

`RunModelProofs`, `NetworkProofs`, `KeyIteratorProofs`, `MapStoreProofs`,
`EtherFlowProofs` and `FuzzHarnessProofs` hold the theorems about the module they
are named after, `FrontEndProofs` those about `Linearization` and
`StorageLayout`, `ArithmeticLemmas` what several of them need.

Definitions named `X_y` and marked "Mutant" are wrong variants of `X`; each
shows that a property can fail.

## Runs

Every bound is a constant with a name. Deadlock is checked everywhere but in
`backend`, where a compiled program, a piece of full length and the last probe
end their behaviours.

| Run | Instance | Shows |
|---|---|---|
| `run_model_checked` | one contract, two literals, one role and argument, checked role-based invariant, lockstep time | `AddressesInBounds`, `FootprintFits`, `NeighbourhoodConforms`, `LiteralsDistinct`, `WitnessUntouched`, `ClockAdvances`, `DistinguishedStable` |
| `key_iterator` | widths, depths and cut-offs 0 to 3 | `UsedInOrder`, `UsesAllWanted`, `Terminates` |
| `ether_flow` | two contracts, one modifier, depth 4, modulus 4; programs with and without payments, payable constructors and fallbacks | `EtherConserved`, `NoEtherFromNothing` |
| `map_store` | two keys over two addresses and one address beyond them, modulus 4 | `SumExact`, `ImplementsMapping` |
| `fuzz_harness` | all backends, Boost and `<stdint.h>`, bytes of four values, inputs up to eight bytes, all ranges within four values (`MaxBound` = 3), types that are widened, exact and narrowed | `BufferOwned`, `DrawInRange`, `TimeAdvances`, `EveryInputEnds` |
| `analysis` | 2961 programs and their transactions | see below |
| `backend` | six Yul programs, pieces of four phrases, all rules and words of five bits | see below |

`analysis` checks, of every program and transaction: `TranslationAgrees` (the C
code and the reference leave the same storage and balances, return the same and
fail alike), `InstancesKnown` (the bundle is exactly the contracts that exist,
numbered without gaps), `TaintSound` (an address that is not counted as a client
has no influence: with another address the transaction does the same),
`DeclarationsSuffice`, `SmtSound` (a function without a warning fails no
assertion and divides by zero from no storage and arguments, jumps and divisions
in branches excepted, see below), `MutabilityKept` (view functions
change nothing, pure ones do the same from any storage, through overrides and
modifiers), `NothingUnassigned`, `NamesMeanInnermost`, `LinearizationExact` (the
order is one of those that keep all partial orders, and is refused only if there
is none), `ExpressionsExact` (values are exact whatever dirty bits the words
have), `LayoutDisjoint` (an assignment, push, pop or delete leaves every other
variable, member and element alone, and new elements are zero unless the array
was cut within a slot before).

The programs are families in which a few places vary over all small
alternatives: operands and operators, the order of bases, the branch that assigns
a pointer, the type of a variable and of the value assigned to it. Words have
four bytes of three bits, so that packing, sign extension and the change of a
byte array from one slot to two all occur; the small types that are executed by
the C code have sixteen values, so that arithmetic wraps.

`backend` checks: `NamesKnown` (the dispenser knows every name), `StaysValid`
(every pass leaves a program that the analyzer accepts), `MeaningPreserved`
(the interpreter sees the same trace, storage and end after every pass),
`ItemsAgree` and `BytecodeAgrees` (assembly, and bytecode, do what the program
does), `PieceEffectKept`, `RulesKeepValues` (every rule, for all values of its
variables), `ConstantsExact` (every representation of every word, with memory
restored).

The bounds are small but every case happens in them: a role holds, in turn,
zero, a contract, a literal and a representative; interference meets entries
that are abstract, distinguished and reserved; a sum wraps; a payment is
refused, answered either way, or re-entered; time reaches its maximum; a diamond
is refused; a loop is left by `break` and by `continue`; a function is inlined
twice; a constant is cheaper to compute than to push. Where a theorem covers the
same property it holds for every bound and every option, also for those no run
sets (`--concrete`, universal invariants, no inference).

### Where code and documents disagree

Five runs check what a document or a comment of the repository says, and TLC
finds a counterexample (`findings` in `PROJECT.json` quotes the lines):

- `run_model_two_instances`: roles are counted per contract definition but exist
  per instance, so the neighbourhood can be too small (`FootprintFits`).
- `ether_fallback_twice`: a payment to a payable fallback debits its sender
  twice (`FallbackPaidOnce`).
- `map_store_stale_sum`: interference does not bring the sum up to date
  (`SumExact`).
- `yul_lost_assignment`: in a loop that `break` may leave after an assignment,
  the redundant assign eliminator removes an assignment that the path without the
  break still reads (`MeaningPreserved`).
- `pointer_after_branch`: a storage pointer that is declared behind a branch is
  never checked, because a node that nothing unassigned reaches is never
  traversed (`NothingUnassigned`).

The models also show, without a run of their own. In the harness:

- `ecrecover` becomes any byte (`Expression.cpp:665`), so that an address need
  not be in the domain; hence the hypothesis of `AddressesStayInBounds`.
- The bounds assertion of the mapping accessors, `M_LEN >= key`
  (`Mapping.cpp:231`), lets the first key without a field pass: it reads zero,
  and a write to it is lost but counted in the sum. Hence the hypothesis
  `M_LEN \notin Keys` of `Implementation`, which `AddressesStayInBounds`
  establishes.
- `--concrete` with the default `--aux-users 0` and no literal leaves an empty
  range of senders: every path is dropped at the first constructor.
- `sol_send` that returns false keeps the debit (`Ether.cpp:116-132`), and a
  payable constructor is not credited, since its initializer calls it with
  `paid = 0` (`Function.cpp:437`). With the double debit, this is why
  `EtherConserved` is checked without payments and payable constructors, and why
  `NoEtherFromNothing` is an inequality.
- SeaHorn never draws the upper half of the unsigned types, and its hint for
  ranges is an `int8_t`; under `<stdint.h>` a KLEE draw of `uint24` may exceed
  24 bits; libFuzzer draws no negative number of a width that C has no type for,
  and the signed types of Boost keep their sign apart, so that `int8` may hold
  -255. `DrawInRange` is therefore about the raw type.
- `verify_interactive.cpp:1-6` announces a non-zero result for failed
  requirements; it is 0 there, and -1 for assertions.

In the pipeline (the programs avoid these, so that the properties are about the
rest):

- A super call in a diamond goes to the next base in the declaration's own
  linearisation (`CallGraph.cpp:202-213`, `Expression.cpp:744-757`);
  constructors run in the order of the inheritance tree rather than of the
  linearisation; the initial values of a derived contract come before those of
  its base (`Function.cpp:425-432`).
- Local variables without a value, unnamed results of a function that falls off
  its end, and `return` in a modifier leave C variables uninitialised
  (`Block_general.cpp:232-265`).
- Narrow arithmetic is done in C `int` and casts ignore the width; assignments
  between contract variables are dropped (`Expression.cpp:88-94`); a compound
  assignment evaluates its index twice; the order of C arguments is unspecified;
  a modifier with two `_` shares its parameters in Solidity and not in C.
- Overloaded functions get one C name; a parameter named `rv` collides with the
  result; a structure declared after its user is incomplete when used;
  fixed-width bytes have no wrapper (`Primitives.h:25-28`).
- Arguments of modifier invocations are followed neither by the call graph nor by
  the literal extractor; `s = x = a` does not taint `s`; a private role that only
  the fallback uses is not counted; address literals without a cast are not
  collected.
- The control flow analysis visits the left side of an assignment first, so that
  `r = f(r)` counts as an assignment of `r`. The mutability check looks at the
  modifier that is named and not at the one that overrides it.
- The SMT checker goes on behind `return`, `break` and `continue` as if they were
  not there (`SMTChecker.cpp` has no visit of the last two), so that an assertion
  after `while (p > 0) { p = 0; x = 0; if (q > 1) break; x = 2; }` sees only the 2,
  and one in a modifier behind `_` only what the end of the body leaves. A
  division excludes a zero divisor for good and not only on its path
  (`SMTChecker.cpp:1236`), so that `if (q > 0) x = p / q; assert(q > 0);` passes.
  A value that `++` takes out of range does not wrap, so that a requirement behind
  it drops it. There is no warning in any of these cases, and `SmtSound` fails for
  a program of each, although `docs/security-considerations.rst:378` says that
  what the checker takes for safe "is indeed safe". The programs have
  divisions, `return`, `break` and `continue` where the checker does account for
  them: divisions under a requirement or in a branch of their own, jumps that
  skip nothing an assertion after them depends on.
- `convertType` chops the sign of elements when an array of signed integers is
  copied to storage of another type.
- An array that is cut within a slot by its length and then grows by its length
  shows old values, since only whole slots are cleared (`ArrayUtils.cpp:637-785`),
  although `docs/types/reference-types.rst:219-221` says that increasing the
  length adds zero-initialised elements and that reducing it deletes those that
  it removes. With two elements to a slot and one in the array,
  `x.push(7); x.length = 1; x.length = 2;` is enough for `LayoutDisjoint` to fail.
  The programs assign lengths that end within a slot, before and after every other
  operation, but let no array grow by its length after such a cut.

In the back end: hashes are remembered by the words they are taken of, not by
their length (`KnownState.cpp`); the rules at `RuleList.h:465-489` and the masks
for `CREATE` do not do what the comment at line 562 says; the second rule for
constant `MULMOD` is wrong but never reached; with the jumpdest remover off and
the deduplicator on, two rounds can meet the assertion "Replacement already
known." (`Assembly.cpp`).

## Fairness

The generated code is sequential. `KeyIterator` has weak fairness of `Next`: a
loop in a compiler keeps running. `FuzzHarness` has weak fairness of `Run`, all
steps but the call by libFuzzer: an input that has been started is carried on,
whereas nobody promises a next input. No fairness distinguishes between steps of
a body: `EveryInputEnds` holds even if a body always chooses to draw nothing,
since each transaction takes a time step that draws a number as long as there is
one to choose, and `nd_increase` (whose modulus excludes the maximum) never
leaves the clock where there is none. In lockstep mode `take_step` is a draw of
its own. The pipeline and the back end end by themselves and need no fairness.

## Proofs

All theorems are about the unbounded constants, under the named assumptions
`DomainAssumption`, `ByteAssumption`, `RunAssumption`, `MapAssumption`,
`BoundAssumption`, `EtherAssumption`, `SourcesAssumption` and
`HarnessAssumption`. They say of which kind the constants are; in addition,
addresses fit into a byte, a byte has an even number of values, and the widest
type of Solidity is wider than those of `<stdint.h>`. Every
safety invariant and every action property of the harness that a passing run
checks is a theorem.

`RunModelProofs`:

- `TypeCorrect`. Inductive invariant `TypeInv`: `TypeOK`, and a body runs on
  behalf of a sender (otherwise `msg.sender` could be stored while undefined).
- `LiteralsStayDistinct`, by `LiteralsTyped`: `TypeInv`, and the literals chosen
  *so far* are pairwise distinct, non-zero and implicit. `LiteralsDistinct`
  itself says nothing before the last one is chosen.
- `AddressesStayInBounds` (without `ecrecover`), by `SafeInv`: all the above, and
  after `assign_addresses` every role holds a participant of a transaction. Then
  `InScopeParticipant` shows that a body can name only participants.
- `WitnessAlwaysUntouched` follows from `SafeInv`, because keys are in scope.
- `NeighbourhoodStaysConforming`: `ConformInv` is inductive, since roles and
  fields do not change between `apply` and `call`.
- `DistinguishedAlwaysStable`: only a constructor, a body or
  `ApplyInterference` changes fields (`DataWriters`), and a distinguished entry
  is never abstract (`DistinguishedConcrete`).
- `FootprintAlwaysFits`, if `RoleVarCt <= RoleDefCt` (each definition has one
  instance, and all of its roles are counted): the roles hold at most
  `RoleVarCt` of the `RoleDefCt + client_ct` representatives. The run
  `run_model_two_instances` shows that the hypothesis is needed.
- `ClockAlwaysAdvances`, step by step.

`NetworkProofs`: the finite neighbourhood is enough.

- `NetworkIsModelled`: `NSpec => Spec`, for any set of accounts. What the network
  does to the accounts in a transaction, `run_model()` does to their names; in
  particular, if any account has an entry that violates the invariant to be
  checked, `run_model()` reports it.
- `ModelKnowsEntries`: the fields of the model always have the values of the
  entries of the accounts with names.

The inductive invariant `NInv` is `SafeInv` of `RunModelProofs` together with

- `NetType`, with `NameOK`: names are unique, those of fixed accounts never
  change, all others are representatives;
- `LinkInv`: roles, literals, sender and arguments of the model are the names of
  the accounts in their place;
- `AgreeInv`, the second theorem. It is not inductive on its own: a transaction
  brings accounts that had no name, and the interference has to be able to
  produce their entries. Hence
- `UnseenInv`: what nobody with a name owns is zero until the first constructors
  have returned, and conforms to the invariant once the network has been compared
  with it;
- `TakenInv`: while constructors run, there is no interference that would free
  representatives, and each call takes `1 + CtorArgs` of them at most.

For a transaction, `FreeClients` of `RunModelProofs` (from `FootprintFits`) yields
the representatives for its accounts. The hypotheses, `CutOffMet`, are satisfied
by ordinary settings, and say where the method ends: no `--concrete` domain,
`sol_can_infer()` true (the model needs representatives and interference), no
`ecrecover`, an invariant that is checked and not only assumed (an assumed one
may be false of the network) and that some value satisfies,
`RoleVarCt <= RoleDefCt` (see `run_model_two_instances`), and
`RootCt * (1 + CtorArgs) <= RoleDefCt + client_ct`. The last one is not ensured
by the code: `ClientExtractor` counts the clients of one transaction
(`AbstractAddressDomain.cpp:371-415`), whereas several constructors may bring
different accounts each, which keep their entries because there is no
interference between constructors (`ActorModel.cpp:127-173`).

`MapStoreProofs`: `MapTypeCorrect` by `MapInv` (`TypeOK`, and which call is
pending at which `pc`); `Implementation`, the refinement of `SolMapping`, for every set of keys without `M_LEN`. It needs `KeysTested`: the
call that reaches its field has passed the assertion, so that its keys are at
most `M_LEN`, hence have fields. `SumIsExact`, under the same hypothesis, by
`SumInv`: between the assignment of a field and the last update of the sum, the
sum has lost the old value and lacks the new one, modulo the range of the type. A
write changes one term of a sum over the finite set of fields.

`KeyIteratorProofs`, by `KeyInv`, the conjunction of `TypeInv`, `UsedInOrder` and
`PassedUsed`: the keys that have been used are exactly the wanted ones that the
loop is past: those before the current string, and the string itself once the
body has run. No branch of `next()` moves the string past another wanted key.

- `InOrder` and `AllWantedUsed` follow from `KeyInv`: at the end everything has
  been passed.
- `EnumerationRunsOut`: each step goes to a string that follows the current one
  (`Follows`) or lowers the rank of `pc`, and finitely many strings are ahead, so
  that `3 * Cardinality(Ahead)` and the rank make a natural number that decreases.
  `Terminates` follows from it by fairness, which is left to TLC.

`FuzzHarnessProofs`, by `FuzzInv`, the conjunction of `FuzzType`, `BufferInv`
(there is one buffer while a model draws, none between inputs, on normal and on
exceptional paths, and the counter stays within it) and `DrawInRange`.

- `BufferIsOwned` and `ChoicesInRange` follow. The second rests on lemmas about
  the conversions: powers of a byte are positive and monotone, the number of a
  sequence of bytes is below the power of its length, and wrapping puts it
  between the bounds of the type, for every byte size and width and for all four
  backends.
- `TimeNeverGoesBack`, since the fuzzer adds a remainder to the time it starts
  from, and the other backends drop a number that is not later.
- `ExplorationRunsOut`: bytes left and a rank of `pc` make a number, `Left`, that
  decreases with every step of an exploration. Its premise `ClockRuns` says that
  without lockstep the clock stays below its maximum, because the modulus of
  `nd_increase` excludes it: a step in time always consumes bytes.

`EtherFlowProofs`, by `EtherInv`, the conjunction of `EtherType`, `Covered` and
`Closed`. `NoEtherFromNothing` is not inductive: a payment that has been debited
and not yet answered is in no balance, but counts as sent away once the answer
is yes. `Covered` therefore counts it from the debit on (`Pending`). `Closed`
adds to `EtherConserved` that such a program has no payment on its stack. Each
step changes at most two terms of the sums over the stack, by the lemmas about a
pushed, popped or replaced frame, and at most two balances.

- `EtherIsConserved`: without payments and payable constructors, nothing is lost.
- `NoEtherIsMade`: with them, ether may be lost (see the disagreements above) but is never
  made.

`FrontEndProofs`, of `Linearization`, for all lists of whatever length:

- `MergeIsExact`: `cThreeMerge` returns an order of all elements, each once, that
  keeps the order of every list; it refuses only if no such order exists; and it
  needs as many rounds as there are elements. The loop invariant `MergeInv` says
  that each list is a rest of the one given, that what is gone from it is in the
  result and in its order, and that result and rests share nothing. A refusal is
  justified by `OrderHasCandidate`: in any order that keeps the lists, the first
  of the elements that are left is at the head wherever it occurs.
- `ContractComesFirst`: if each base has a linearisation that begins with it and
  the contract is in none of them, the contract begins its own. All readers of
  `linearizedBaseContracts` rely on this, and it makes the hypothesis true for
  the contracts derived from it.

`LinearizationExact` of the run `analysis` is the same statement for whole
programs, with the reading of the bases from the syntax tree.

Of `StorageLayout`, for every size of a slot, every number of items and every
length (`Items`: a value that takes less than a slot has size 1):

- `LayoutIsDisjoint`: variables and members follow each other without a shared
  byte, none is split across slots unless it has whole slots, all are within the
  size of the layout, and the last slot is used. The loop invariant is that the
  first free byte (`Frontier`) is where the last item ends, up to the padding
  before the next one; `FrontierGrows` makes it a statement about any two items.
- `ElementsAreDisjoint`: the same of the elements of an array. `storageSize` packs
  elements of less than 32 bytes and `accessIndex` those of at most 16; the proof
  shows that in between both have one element per slot (`PerSlot`).
- `SlotsCounted`: `convertLengthToSize` counts the slots of the first `n`
  elements, so that cutting an array clears none that is kept, and all others
  but those in the slot of the last one kept. (The code does not clear these,
  see the disagreements above.)
- `NestedStaysInside`: in a structure or array that is itself placed by such a
  layout, members and elements stay within its slots. Applied level by level, it
  extends the first two to nested types.

`LayoutDisjoint` of the run `analysis` is about the same layout together with the
code that masks, shifts and clears within it.

`ArithmeticLemmas` has remainders, recursion over the natural numbers, and sums
over finite sets. The induction theorems of the library take an operator, which
the installed provers cannot instantiate. Induction is therefore done with sets:
the counterexamples have a least element (`HasMin`, `NatSetInduction`), or a
finite set of them has a minimal member. A function defined by recursion is shown
to exist by gluing together its finite beginnings.

Only model-checked: liveness itself (`Terminates`, `EveryInputEnds`; the variants
behind both are proved); and the pipeline and the back end apart from
`Linearization` and `StorageLayout`, whose algorithms are recursive operators over
syntax trees or use bitwise operators, which the prover does not support.
`Network` is only proved about: it has the variables of `RunModel`, and the
theorem covers every set of accounts.

## Plan

Done: the harness with the proofs of its safety and of its cut-off, the
linearisation of bases and the storage layout with their proofs, the pipeline
from syntax tree to C, the static checks, types and the SMT checker of the front
end, the Yul optimiser and the assembly. Next, in this order:

1. Inferred and stateful invariants and several mappings in `RunModel`, and the
   cut-off for them.
2. Further algorithms of the pipeline in a form that can be proved about, as
   `Linearization` and `StorageLayout` are now: the numbering of contract
   instances, and the simplification rules without bitwise operators.

## Not modelled

- The parser and scanner: a deterministic translation of text; the models start
  from the tree. Printing of C, formatting of names, logs and prompts.
- The contract compiler (dispatch, calls between contracts) and ABI coding, which
  SmartACE replaces by C code.
- Inline assembly in Solidity, which the converters skip; calls of hash and ABI
  functions in `Converter`.
- In `SolTypes`: fixed point, function types, memory and calldata, fractions at
  run time, copies of whole arrays and structures, operands with side effects.
- In the back end: the EVM 1.5 mode, loose assembly (labels, stack assignments),
  tags of other sub-assemblies, strings, libraries and auxiliary data, wasm.
- Inferred and stateful invariants in `RunModel` (`make_body`,
  `m_control_state`), and more than one mapping at a time.
- Option parsing, standard JSON and output files; LLL; import and export of the
  AST.
