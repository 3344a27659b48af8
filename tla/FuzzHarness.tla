----------------------------- MODULE FuzzHarness -----------------------------
(***************************************************************************)
(* The harness in which each backend of libverify runs a model.            *)
(*                                                                         *)
(* libFuzzer: LLVMFuzzerTestOneInput copies the input to RandData, runs    *)
(* the model, which draws its nondeterministic choices from RandData and   *)
(* never returns by itself, and is left by a longjmp when the data is      *)
(* exhausted or a requirement fails.  The globals survive from one input   *)
(* to the next.  The others: main calls sol_setup and run_model once;      *)
(* a failed assumption drops the path (klee, seahorn) or ends the process  *)
(* (interactive).                                                          *)
(***************************************************************************)
EXTENDS NdSources

CONSTANTS
    MaxSize,          \* bound on the size of an input
    MaxBound,         \* largest upper bound that the model passes to nd_range
    Widths,           \* widths of the integer types that the model draws
    MaxTransactions   \* bound on the transactions of an interactive run

ASSUME HarnessAssumption ==
    /\ MaxSize \in Nat
    /\ MaxTransactions \in Nat
    /\ Widths \subseteq 1 .. MaxWidth
    /\ MaxBound \in 0 .. (BYTE - 1)

\* The bounds <<l, u>> of the choices of a model that has something to choose
\* from.  They are passed as bytes.
Ranges == {r \in (0 .. MaxBound) \X (0 .. MaxBound) : r[1] < r[2]}

VARIABLES
    build,               \* the backend and its integers
    lockstep,            \* --lockstep-time, fixed when the model is generated
    g_solZRet,           \* --return-0 of the interactive backend
    pc,
    RandData,            \* what the pointer points to: "null", "live", "freed"
    blocks,              \* heap blocks that have not been freed
    Size,                \* size of the input
    SizeOfRandData,
    CounterOfRandData,
    exception_type,
    g_solTransactionNumber,
    status,              \* the exit status of the process
    draw,                \* the last choice and the bounds it was asked for
    time                 \* the block number; timestamps are treated alike

options == <<build, lockstep, g_solZRet>>
buffer == <<RandData, blocks, SizeOfRandData>>
vars == <<options, pc, buffer, Size, CounterOfRandData, exception_type,
          g_solTransactionNumber, status, draw, time>>

backend == build[1]
ints == build[2]
fuzzing == backend = "libFuzzer"

Nothing == [val |-> 0, l |-> 0, u |-> 1]

Init ==
    /\ build \in Builds
    /\ lockstep \in BOOLEAN
    /\ g_solZRet \in IF backend = "interactive" THEN BOOLEAN ELSE {FALSE}
    /\ pc = "ready"
    /\ RandData = "null"
    /\ blocks = 0
    /\ Size = 0
    /\ SizeOfRandData = 0
    /\ CounterOfRandData = 0
    /\ exception_type = "NONE"
    /\ g_solTransactionNumber = 0
    /\ status = 0
    /\ draw = Nothing
    /\ time = 0

\* libFuzzer calls LLVMFuzzerTestOneInput, which calls setjmp.
Setup ==
    /\ pc = "ready"
    /\ fuzzing
    /\ Size' \in 0 .. MaxSize
    /\ exception_type' = "NONE"
    /\ pc' = "ran"
    /\ UNCHANGED <<options, buffer, CounterOfRandData, g_solTransactionNumber, status, draw, time>>

\* sol_setup: the interactive backend parses its arguments, and stops after
\* printing its help or if they are wrong.
sol_setup ==
    /\ pc = "ready"
    /\ ~ fuzzing
    /\ g_solTransactionNumber' = 0
    /\ \/ pc' = "declare" /\ UNCHANGED status
       \/ /\ backend = "interactive"
          /\ pc' = "exited"
          /\ status' \in {0, -1}
    /\ UNCHANGED <<options, buffer, Size, CounterOfRandData, exception_type, draw, time>>

\* TerminateExploration: longjmp to the switch, and from there to free.
Terminate(e) ==
    /\ exception_type' = e
    /\ pc' = "free"

\* Mutant: the input is tested before the buffer is replaced.
Ran_testfirst ==
    /\ pc = "ran"
    /\ \/ /\ Size = 0
          /\ Terminate("REQUIRE_FAILED")
          /\ UNCHANGED <<buffer, CounterOfRandData>>
       \/ /\ Size > 0
          /\ RandData' = "live"
          /\ blocks' = blocks + 1
          /\ SizeOfRandData' = Size
          /\ CounterOfRandData' = 0
          /\ pc' = "declare"
          /\ UNCHANGED exception_type
    /\ UNCHANGED <<Size, g_solTransactionNumber, status, draw, time>>

\* ran: malloc may fail, also for an empty input.
Ran ==
    /\ pc = "ran"
    /\ \/ /\ RandData' = "null"
          /\ Terminate("REQUIRE_FAILED")
          /\ UNCHANGED <<blocks, SizeOfRandData, CounterOfRandData>>
       \/ /\ RandData' = "live"
          /\ blocks' = blocks + 1
          /\ SizeOfRandData' = Size
          /\ CounterOfRandData' = 0
          /\ pc' = "declare"
          /\ UNCHANGED exception_type
    /\ UNCHANGED <<Size, g_solTransactionNumber, status, draw, time>>

\* sol_assertion_impl: the interactive backend exits.
sol_assertion_impl(code) ==
    /\ pc' = "exited"
    /\ status' = IF g_solZRet THEN 0 ELSE code

\* ll_assume and sol_require of a condition that does not hold.
AssumeFails ==
    CASE fuzzing                   -> Terminate("REQUIRE_FAILED") /\ UNCHANGED status
      [] backend = "interactive"   -> sol_assertion_impl(0) /\ UNCHANGED exception_type
      [] OTHER                     -> pc' = "pruned" /\ UNCHANGED <<exception_type, status>>

\* There are n bytes left, or they come from elsewhere.
HasData(n) == fuzzing => CounterOfRandData + n <= SizeOfRandData

NextBytes(n) ==
    /\ HasData(n)
    /\ CounterOfRandData' = IF fuzzing THEN CounterOfRandData + n ELSE CounterOfRandData

\* The value from which the fuzzer's nd_increase starts to count.
Base == IF lockstep THEN time + 1 ELSE time

\* The bytes that the next choice of the model may ask for.
Asked ==
    CASE pc = "declare" -> IF lockstep THEN {MaxWidth} ELSE {}
      [] pc = "loop"    -> IF lockstep THEN {1} ELSE {}
      [] pc = "step"    -> IF Base < UINT256_MAX THEN {MaxWidth} ELSE {}
      [] pc = "body"    -> {1} \cup Widths
      [] OTHER          -> {}

\* tryGetNextRandByte, when the data ends within a choice.
OutOfData ==
    /\ fuzzing
    /\ \E n \in Asked : ~ HasData(n)
    /\ CounterOfRandData' = SizeOfRandData
    /\ Terminate("OUT_OF_DATA")
    /\ UNCHANGED <<buffer, Size, g_solTransactionNumber, status, draw, time>>

\* StateGenerator::declare: time starts anywhere in lockstep mode.
Declare ==
    /\ pc = "declare"
    /\ IF lockstep
       THEN NextBytes(MaxWidth) /\ time' \in nd_int(backend, ints, MaxWidth, FALSE)
       ELSE time' = 0 /\ UNCHANGED CounterOfRandData
    /\ pc' = "loop"
    /\ UNCHANGED <<buffer, Size, exception_type, g_solTransactionNumber, status, draw>>

\* The transaction begins with sol_on_transaction.  Only lockstep mode has the
\* condition take_step.
TakeStep ==
    /\ pc = "loop"
    /\ g_solTransactionNumber' = IF backend = "interactive" THEN g_solTransactionNumber + 1
                                 ELSE g_solTransactionNumber
    /\ IF lockstep
       THEN NextBytes(1) /\ \E c \in nd_range(backend, <<0, 2>>) :
                               pc' = IF c = 1 THEN "step" ELSE "body"
       ELSE pc' = "step" /\ UNCHANGED CounterOfRandData
    /\ UNCHANGED <<buffer, Size, exception_type, status, draw, time>>

\* Mutant: a strict step is taken at the largest value, too, and wraps.
StrictFails_never ==
    /\ pc = "step"
    /\ fuzzing /\ lockstep /\ time >= UINT256_MAX
    /\ time' = 0
    /\ pc' = "body"
    /\ UNCHANGED <<buffer, Size, CounterOfRandData, exception_type, g_solTransactionNumber,
                   status, draw>>

\* nd_increase: the assumption of the fuzzer's strict step.
StrictFails ==
    /\ pc = "step"
    /\ fuzzing /\ lockstep /\ time >= UINT256_MAX
    /\ AssumeFails
    /\ UNCHANGED <<buffer, Size, CounterOfRandData, g_solTransactionNumber, draw, time>>

\* Mutant: the largest value can be reached.
Increased_inclusive(v) == Base + (v % (UINT256_MAX - Base + 1))

Increased(v) == Base + (v % (UINT256_MAX - Base))

\* nd_increase of the fuzzer draws a number only if there is something to choose.
Increase ==
    /\ pc = "step"
    /\ fuzzing
    /\ ~ (lockstep /\ time >= UINT256_MAX)
    /\ IF Base < UINT256_MAX
       THEN /\ NextBytes(MaxWidth)
            /\ \E v \in FuzzInt(ints, MaxWidth, FALSE) : time' = Increased(v)
       ELSE time' = Base /\ UNCHANGED CounterOfRandData
    /\ pc' = "body"
    /\ UNCHANGED <<buffer, Size, exception_type, g_solTransactionNumber, status, draw>>

\* nd_increase of the others draws first and assumes that the number is later.
IncreaseTo ==
    /\ pc = "step"
    /\ ~ fuzzing
    /\ time' \in Later(backend, ints, time, lockstep)
    /\ pc' = "body"
    /\ UNCHANGED <<buffer, Size, CounterOfRandData, exception_type, g_solTransactionNumber,
                   status, draw>>

\* nd_range: selects the next call, a sender or an argument.  A range with a
\* single alternative is a literal, which draws nothing.
DrawRange ==
    /\ pc = "body"
    /\ \E r \in Ranges :
          /\ r[1] + 1 /= r[2]
          /\ NextBytes(1)
          /\ \E v \in nd_range(backend, r) : draw' = [val |-> v, l |-> r[1], u |-> r[2]]
    /\ pc' = "drawn"
    /\ UNCHANGED <<buffer, Size, exception_type, g_solTransactionNumber, status, time>>

\* nd_int..._t and nd_uint..._t: an argument of an integer type.
DrawInt ==
    /\ pc = "body"
    /\ \E w \in Widths, signed \in BOOLEAN :
          /\ NextBytes(w)
          /\ LET bounds == RawBounds(ints, w, signed)
             IN  \E v \in nd_int(backend, ints, w, signed) :
                    draw' = [val |-> v, l |-> bounds[1], u |-> bounds[2] + 1]
    /\ pc' = "drawn"
    /\ UNCHANGED <<buffer, Size, exception_type, g_solTransactionNumber, status, time>>

\* What was drawn has been used.
Use ==
    /\ pc = "drawn"
    /\ draw' = Nothing
    /\ pc' = "body"
    /\ UNCHANGED <<buffer, Size, CounterOfRandData, exception_type, g_solTransactionNumber,
                   status, time>>

\* sol_require or ll_assume of a false condition, or of a byte or a number
\* outside the bounds of a choice.
RequireFails ==
    /\ \/ pc = "body"
       \/ pc = "loop" /\ lockstep /\ ~ fuzzing
       \/ pc = "step" /\ ~ fuzzing
    /\ AssumeFails
    /\ UNCHANGED <<buffer, Size, CounterOfRandData, g_solTransactionNumber, draw, time>>

\* sol_assert of a false condition ends the process.
AssertFails ==
    /\ pc = "body"
    /\ IF backend = "interactive"
       THEN sol_assertion_impl(-1)
       ELSE pc' = "exited" /\ status' = -1
    /\ UNCHANGED <<buffer, Size, CounterOfRandData, exception_type, g_solTransactionNumber,
                   draw, time>>

\* The transaction is over.  sol_continue() asks the user; elsewhere it is true.
NextTransaction ==
    /\ pc = "body"
    /\ \/ pc' = "loop" /\ g_solTransactionNumber < MaxTransactions
       \/ backend = "interactive" /\ pc' = "exited"
    /\ UNCHANGED <<buffer, Size, CounterOfRandData, exception_type, g_solTransactionNumber,
                   status, draw, time>>

\* if (RandData) free(RandData); the pointer itself is not reset.
Free ==
    /\ pc = "free"
    /\ IF RandData = "null"
       THEN UNCHANGED <<RandData, blocks>>
       ELSE RandData' = "freed" /\ blocks' = blocks - 1
    /\ pc' = "ready"
    /\ UNCHANGED <<Size, SizeOfRandData, CounterOfRandData, exception_type,
                   g_solTransactionNumber, status, draw, time>>

Ended == pc \in {"exited", "pruned"} /\ UNCHANGED vars

Run ==
    /\ UNCHANGED options
    /\ \/ Ran \/ OutOfData \/ Declare \/ TakeStep \/ StrictFails \/ Increase \/ IncreaseTo
       \/ DrawRange \/ DrawInt \/ Use \/ RequireFails \/ AssertFails \/ NextTransaction \/ Free

Next == Setup \/ sol_setup \/ Run \/ Ended

\* The harness is sequential: once called, it keeps running.
Spec == Init /\ [][Next]_vars /\ WF_vars(Run)
-----------------------------------------------------------------------------
(***************************************************************************)
(* Properties.                                                             *)
(***************************************************************************)
\* Where the model asks for choices.
Drawing == {"declare", "loop", "step", "body", "drawn"}

\* Between inputs every buffer has been given back exactly once, whichever way
\* the exploration ended; while the fuzzer draws bytes its buffer is live, and
\* no byte outside it is read.
BufferOwned ==
    /\ pc = "ready" => blocks = 0 /\ RandData /= "live"
    /\ pc \in Drawing /\ fuzzing => blocks = 1 /\ RandData = "live"
    /\ pc = "free" => RandData /= "freed"
    /\ CounterOfRandData <= SizeOfRandData

\* A choice is one of the alternatives it was asked for; a number is one that
\* the raw type of its width can hold.
DrawInRange == draw.val \in draw.l .. (draw.u - 1)

\* Within one run of the model time never goes back and never wraps; where the
\* model asks for a strict step, every backend makes one or gives the run up.
TimeAdvances ==
    [][(pc \in {"loop", "step", "body"}) =>
         /\ time' >= time
         /\ (pc = "step" /\ lockstep /\ pc' = "body") => time' > time]_vars

\* Every input to the fuzzer ends, although the transaction loop has no other
\* exit than the end of the data, and a transaction may draw nothing but its time
\* step: what nd_increase returns never leaves the next nd_increase without a
\* choice.
EveryInputEnds == (pc = "ran") ~> (pc \in {"ready", "exited"})
=============================================================================
