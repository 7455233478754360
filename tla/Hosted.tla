------------------------------- MODULE Hosted -------------------------------
(***************************************************************************)
(* The two host programs from the file to the exit status: rvemu, in batch *)
(* and in debugger mode, and the architectural-test runner.  It composes   *)
(* Boot, which loads the guest, with BatchRun, which runs it.              *)
(*                                                                         *)
(* In debugger mode the user decides when the guest goes on and may leave  *)
(* at any time.  Module Debugger shows that whatever the user does the     *)
(* guest goes through the steps of a batch run, so they are taken here     *)
(* from BatchRun, and what remains of the user is the choice to quit.      *)
(***************************************************************************)
EXTENDS Boot, BatchRun

VARIABLE exit_status           \* of the process, {} while it runs

hosted_vars == <<session_vars, run_vars, loader_vars, exit_status>>

HostedInit ==
    /\ BootInit
    /\ environment = IF caller = "rvemu" THEN "LinuxSyscallEnvironment"
                     ELSE "ExitEnvironment"
    /\ session_result = NoSessionResult
    /\ output = [s \in OutputStreams |-> << >>]
    /\ step_limit = 0
    /\ statistics = ZeroStatistics
    /\ run_result = "None"
    /\ exit_status = {}

LoadProgram ==
    /\ BootStep
    /\ UNCHANGED <<environment, session_result, output, run_vars, exit_status>>

\* The session is constructed and run with the limit that was asked for.
StartSession ==
    /\ phase = "ready"
    /\ phase' = "executing"
    /\ step_limit' = options.maximum_steps
    /\ run_result' = "Running"
    /\ UNCHANGED <<session_vars, inputs, index, written, validation, totals,
                   boot_result, statistics, exit_status>>

RunGuest ==
    /\ BatchStep \/ BatchStepLimitReached
    /\ UNCHANGED <<loader_vars, exit_status>>

Debugging == caller = "rvemu" /\ options.debug

(***************************************************************************)
(* In debugger mode the user leaves, or the command loop's strings or the  *)
(* list of breakpoints cannot be allocated.                                *)
(***************************************************************************)
LeaveDebugger ==
    /\ Debugging
    /\ run_result = "Running"
    /\ run_result' \in {"Quit", "HostAllocationFailure"}
    /\ UNCHANGED <<session_vars, step_limit, statistics, loader_vars, exit_status>>

-----------------------------------------------------------------------------
kInfrastructureFailureExitStatus == 125

\* Mutant: a guest that exits is reported like one that traps.
run_cli_status_exit ==
    CASE run_result = "Quit" -> 0
      [] OTHER -> kInfrastructureFailureExitStatus

(***************************************************************************)
(* The status run_cli returns: the guest's own when it exited, 0 when the  *)
(* user left the debugger, and 125 for a program that could not be set up, *)
(* a trap, an unhandled call and the step limit.  main returns 125 for the *)
(* exceptions that with_loaded_program does not catch.                     *)
(***************************************************************************)
run_cli_status ==
    CASE run_result = "Quit" -> 0
      [] run_result = "Exited" -> session_result.exit_code
      [] OTHER -> kInfrastructureFailureExitStatus

kTestFailedExitStatus == 1
kRunnerFailureExitStatus == 2
kAbortStatus == 134        \* 128 + SIGABRT, as a shell reports it

(***************************************************************************)
(* The status of the test runner.  Nothing there catches an exception, so  *)
(* one that the host's allocator throws ends in std::terminate.            *)
(***************************************************************************)
report_result_status ==
    CASE run_result = "Exited" ->
             IF session_result.exit_code = 0 THEN 0 ELSE kTestFailedExitStatus
      [] phase = "failed" /\ boot_result.code \in {"HostAllocationFailure",
                                                   "MemoryOutOfBoundsError"} ->
             kAbortStatus
      [] OTHER -> kRunnerFailureExitStatus

ProgramEnded ==
    \/ phase = "failed"
    \/ phase = "executing" /\ run_result # "Running"

ReturnStatus ==
    /\ caller \in {"rvemu", "act_smoke"}
    /\ ProgramEnded
    /\ exit_status = {}
    /\ exit_status' = {IF caller = "rvemu" THEN run_cli_status
                       ELSE report_result_status}
    /\ UNCHANGED <<session_vars, run_vars, loader_vars>>

\* The process has ended, or the library has returned to its caller.
HostedEnds ==
    /\ \/ exit_status # {}
       \/ caller = "library" /\ phase \in {"failed", "loaded"}
    /\ UNCHANGED hosted_vars

HostedNext ==
    \/ LoadProgram
    \/ StartSession
    \/ RunGuest
    \/ LeaveDebugger
    \/ ReturnStatus
    \/ HostedEnds

(***************************************************************************)
(* Every program is one thread that waits for nothing but, in debugger     *)
(* mode, the user: what it does by itself it keeps doing.                  *)
(***************************************************************************)
HostedSpec ==
    /\ HostedInit
    /\ [][HostedNext]_hosted_vars
    /\ WF_hosted_vars(LoadProgram \/ StartSession \/ ReturnStatus)
    /\ WF_hosted_vars(~ Debugging /\ RunGuest)

-----------------------------------------------------------------------------
\* The guest is at an ECALL that asks for the exit of the program.
AtExitCall ==
    /\ AtEnvironmentCall
    /\ read_register(kEnvironmentCallNumberRegister) \in {kExit, kExitGroup}

(***************************************************************************)
(* The exit status says what happened.  A status that comes from the guest *)
(* is found in the final machine state: the program counter is at the exit *)
(* call and the status is the argument register, its low byte for rvemu,   *)
(* zero or not as a whole word for the test runner (256 fails a test).     *)
(* Otherwise 125, or 2, is returned when the program could not be loaded,  *)
(* stopped elsewhere or spent its step limit, and only then.               *)
(***************************************************************************)
ExitStatusExplained ==
    \A status \in exit_status :
        LET a0 == read_register(kReturnValueRegister)
            spent == statistics.guest_steps = options.maximum_steps
        IN CASE caller = "act_smoke" /\ status = 0 -> AtExitCall /\ a0 = 0
             [] caller = "act_smoke" /\ status = kTestFailedExitStatus ->
                    AtExitCall /\ a0 # 0
             [] caller = "rvemu" /\ status # kInfrastructureFailureExitStatus ->
                    \/ AtExitCall /\ status = a0 % ByteValues
                    \/ Debugging /\ status = 0
             [] OTHER -> \/ phase = "failed" \/ spent \/ Debugging \/ ~ AtExitCall
                         \/ caller = "rvemu" /\ status = a0 % ByteValues

(***************************************************************************)
(* Without a user to wait for, both programs end with a status, whatever   *)
(* the file and the guest are: an endless loop stops at the limit.         *)
(***************************************************************************)
HostedTerminates ==
    (caller \in {"rvemu", "act_smoke"} /\ ~ Debugging) ~> exit_status # {}

(***************************************************************************)
(* What the repository's README says of the test runner: 0 for a passing   *)
(* self-check, 1 for a reported test failure, 2 for a failure of the       *)
(* runner or its infrastructure.                                           *)
(***************************************************************************)
RunnerStatusDocumented ==
    caller = "act_smoke" =>
        exit_status \subseteq {0, kTestFailedExitStatus, kRunnerFailureExitStatus}
=============================================================================
