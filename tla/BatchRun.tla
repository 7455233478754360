------------------------------ MODULE BatchRun ------------------------------
(***************************************************************************)
(* A batch run of a loaded program: ProgramSession::run with no            *)
(* breakpoints, as run_program of the command line program and the         *)
(* architectural-test runner call it.                                      *)
(*                                                                         *)
(* It is also the abstract specification of the interactive debugger,      *)
(* which must never let the guest do anything that a batch run with the    *)
(* same step limit would not do.                                           *)
(***************************************************************************)
EXTENDS ProgramSession

VARIABLES
    step_limit,            \* the argument of run
    statistics,            \* the local SessionStatistics of run
    run_result             \* "Running" until run returns

run_vars == <<step_limit, statistics, run_result>>
batch_vars == <<registers, program_counter, bytes, step_result, environment,
                session_result, output, step_limit, statistics, run_result>>

\* The result run returns for the step result that ends it.
TerminalResult(result) ==
    CASE result.kind = "Exited" -> "Exited"
      [] result.kind = "UnhandledEnvironmentCall" -> "UnhandledEnvironmentCall"
      [] result.kind = "Trap" -> "Trapped"
      [] OTHER -> "Running"

BatchInit ==
    /\ SessionInit
    /\ step_limit \in Nat
    /\ statistics = ZeroStatistics
    /\ run_result = "Running"

BatchStep ==
    /\ run_result = "Running"
    /\ RunStep(statistics, step_limit, {})
    /\ statistics' = CountStep(statistics, session_result')
    /\ run_result' = TerminalResult(session_result')
    /\ UNCHANGED step_limit

BatchStepLimitReached ==
    /\ run_result = "Running"
    /\ RunAtLimit(statistics, step_limit)
    /\ run_result' = "StepLimitReached"
    /\ UNCHANGED <<session_vars, step_limit, statistics>>

BatchFinished == run_result # "Running" /\ UNCHANGED batch_vars

BatchNext == BatchStep \/ BatchStepLimitReached \/ BatchFinished

BatchSpec == BatchInit /\ [][BatchNext]_batch_vars

-----------------------------------------------------------------------------
BatchTypeOK ==
    /\ SessionTypeOK
    /\ step_limit \in Nat
    /\ statistics \in Statistics
    /\ run_result \in {"Running", "StepLimitReached", "Exited",
                       "UnhandledEnvironmentCall", "Trapped"}

(***************************************************************************)
(* The step limit is strict and the counters explain each other: a run     *)
(* never makes more guest steps than the limit, reports the limit only     *)
(* when it has made exactly that many, and every guest step is a retired   *)
(* instruction or a handled call (a trap and an unhandled call are         *)
(* neither).                                                               *)
(***************************************************************************)
StrictLimit ==
    /\ statistics.guest_steps <= step_limit
    /\ run_result = "StepLimitReached" => statistics.guest_steps = step_limit
    /\ statistics.guest_steps
          = statistics.instructions_retired + statistics.environment_calls_handled
=============================================================================
