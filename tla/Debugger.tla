------------------------------ MODULE Debugger ------------------------------
(***************************************************************************)
(* InteractiveDebugger: commands typed at a prompt drive the session, one  *)
(* guest step at a time or in runs that stop at breakpoints, under one     *)
(* budget of guest steps for the whole sitting.                            *)
(*                                                                         *)
(* Every command is an action; those that only print share one.            *)
(***************************************************************************)
EXTENDS ProgramSession, SequencesExt

CONSTANTS
    maximum_guest_steps,   \* maximum_guest_steps_
    CommandAddresses       \* the addresses the user may name in a command

ASSUME DebuggerAssumption ==
    /\ maximum_guest_steps \in Nat
    /\ CommandAddresses \subseteq Word

VARIABLES
    statistics,            \* statistics_
    breakpoints,           \* breakpoints_, a sorted vector
    stopped_at_breakpoint, \* stopped_at_breakpoint_
    mode,                  \* where the debugger's own control is
    run_statistics,        \* the statistics of the session's run in progress
    run_limit,             \* remaining_steps of that run
    debugger_result        \* the DebuggerResult, "None" while there is none

command_vars == <<statistics, breakpoints, stopped_at_breakpoint, mode,
                  run_statistics, run_limit, debugger_result>>
debugger_vars == <<registers, program_counter, bytes, step_result, environment,
                   session_result, output, statistics, breakpoints,
                   stopped_at_breakpoint, mode, run_statistics, run_limit,
                   debugger_result>>

(***************************************************************************)
(* mode is "prompt" (waiting for a command), "continuing" (continue has    *)
(* executed the instruction it was stopped at and has not started the      *)
(* run), "running" (inside ProgramSession::run) or "done".                 *)
(***************************************************************************)
DebuggerInit ==
    /\ SessionInit
    /\ statistics = ZeroStatistics
    /\ breakpoints = << >>
    /\ stopped_at_breakpoint = FALSE
    /\ mode = "prompt"
    /\ run_statistics = ZeroStatistics
    /\ run_limit = 0
    /\ debugger_result = "None"

AtBudget == statistics.guest_steps >= maximum_guest_steps

\* The command loop returns.
Return(result) == mode' = "done" /\ debugger_result' = result

\* The result returned for the step result that ends the program.
TerminalResult(result) ==
    CASE result.kind = "Exited" -> "Exited"
      [] result.kind = "UnhandledEnvironmentCall" -> "UnhandledEnvironmentCall"
      [] result.kind = "Trap" -> "Trapped"

-----------------------------------------------------------------------------
(***************************************************************************)
(* execute_one: one session step outside a run.                            *)
(***************************************************************************)
ExecuteOne(next_mode) ==
    /\ SessionStep
    /\ stopped_at_breakpoint' = FALSE
    /\ statistics' = CountStep(statistics, session_result')
    /\ IF session_result'.kind \in ContinuingResults
       THEN mode' = next_mode /\ UNCHANGED debugger_result
       ELSE Return(TerminalResult(session_result'))
    /\ UNCHANGED <<breakpoints, run_statistics, run_limit>>

StepCommand ==
    /\ mode = "prompt"
    /\ ~ AtBudget
    /\ ExecuteOne("prompt")

\* Both step and continue return at once when the budget is spent.
BudgetSpent ==
    /\ mode \in {"prompt", "continuing"}
    /\ AtBudget
    /\ Return("StepLimitReached")
    /\ UNCHANGED <<session_vars, statistics, breakpoints, stopped_at_breakpoint,
                   run_statistics, run_limit>>

\* Mutant: each run gets the whole budget.
remaining_steps_whole == maximum_guest_steps

remaining_steps == maximum_guest_steps - statistics.guest_steps

\* The call of ProgramSession::run at the end of continue_execution.
StartRun ==
    /\ mode' = "running"
    /\ run_limit' = remaining_steps
    /\ run_statistics' = ZeroStatistics
    /\ UNCHANGED <<session_vars, statistics, breakpoints, stopped_at_breakpoint,
                   debugger_result>>

\* Mutant: continue starts the run at the breakpoint it is stopped at.
StepsOver_never == FALSE

\* Whether continue executes one instruction before it starts the run.
StepsOver == stopped_at_breakpoint

\* continue, up to the run: over the instruction at a breakpoint, if stopped there.
ContinueCommand ==
    /\ mode = "prompt"
    /\ ~ AtBudget
    /\ \/ StepsOver /\ ExecuteOne("continuing")
       \/ ~ StepsOver /\ StartRun

ContinueRun ==
    /\ mode = "continuing"
    /\ ~ AtBudget
    /\ StartRun

(***************************************************************************)
(* The iterations of ProgramSession::run, and what continue_execution does *)
(* with each way it can return.                                            *)
(***************************************************************************)
RunningStep ==
    /\ mode = "running"
    /\ RunStep(run_statistics, run_limit, ToSet(breakpoints))
    /\ IF session_result'.kind \in ContinuingResults
       THEN /\ run_statistics' = CountStep(run_statistics, session_result')
            /\ UNCHANGED <<statistics, mode, debugger_result>>
       ELSE /\ statistics' = AddStatistics(
                                 statistics,
                                 CountStep(run_statistics, session_result'))
            /\ run_statistics' = ZeroStatistics
            /\ Return(TerminalResult(session_result'))
    /\ UNCHANGED <<breakpoints, stopped_at_breakpoint, run_limit>>

\* What the guest has done since the debugger started.
TotalStatistics == AddStatistics(statistics, run_statistics)

\* Mutant: a run that returns is not added to the total.
AfterRun_unaccounted == statistics

\* statistics_ after a run that stopped at a breakpoint or at the limit.
AfterRun == TotalStatistics

RunStopsAtBreakpoint ==
    /\ mode = "running"
    /\ RunAtBreakpoint(run_statistics, run_limit, ToSet(breakpoints))
    /\ statistics' = AfterRun
    /\ run_statistics' = ZeroStatistics
    /\ stopped_at_breakpoint' = TRUE
    /\ mode' = "prompt"
    /\ UNCHANGED <<session_vars, breakpoints, run_limit, debugger_result>>

RunReachesLimit ==
    /\ mode = "running"
    /\ RunAtLimit(run_statistics, run_limit)
    /\ statistics' = AfterRun
    /\ run_statistics' = ZeroStatistics
    /\ Return("StepLimitReached")
    /\ UNCHANGED <<session_vars, breakpoints, stopped_at_breakpoint, run_limit>>

-----------------------------------------------------------------------------
(***************************************************************************)
(* Breakpoints.  std::ranges::lower_bound finds the first element that is  *)
(* not less than the address.                                              *)
(***************************************************************************)
lower_bound(address) ==
    CHOOSE k \in 1 .. (Len(breakpoints) + 1) :
        /\ \A j \in 1 .. (k - 1) : breakpoints[j] < address
        /\ k <= Len(breakpoints) => breakpoints[k] >= address

FoundAt(k, address) == k <= Len(breakpoints) /\ breakpoints[k] = address

\* Mutant: the new breakpoint is put at the end.
InsertPosition_end(address) == Len(breakpoints) + 1

\* Where add_breakpoint puts a new breakpoint.
InsertPosition(address) == lower_bound(address)

\* add_breakpoint, when the address is accepted and new.
AddBreakpoint(address) ==
    /\ mode = "prompt"
    /\ address % 4 = 0
    /\ InBounds(address, 4)
    /\ ~ FoundAt(lower_bound(address), address)
    /\ breakpoints' = InsertAt(breakpoints, InsertPosition(address), address)
    /\ UNCHANGED <<session_vars, statistics, stopped_at_breakpoint, mode,
                   run_statistics, run_limit, debugger_result>>

\* Mutant: the stop is not forgotten with its breakpoint.
StopAfterRemoval_kept(address) == stopped_at_breakpoint

\* stopped_at_breakpoint_ after the breakpoint at the address is removed.
StopAfterRemoval(address) == stopped_at_breakpoint /\ address # program_counter

\* remove_breakpoint, when there is one at the address.
RemoveBreakpoint(address) ==
    /\ mode = "prompt"
    /\ FoundAt(lower_bound(address), address)
    /\ breakpoints' = RemoveAt(breakpoints, lower_bound(address))
    /\ stopped_at_breakpoint' = StopAfterRemoval(address)
    /\ UNCHANGED <<session_vars, statistics, mode, run_statistics, run_limit,
                   debugger_result>>

\* delete all
RemoveAllBreakpoints ==
    /\ mode = "prompt"
    /\ breakpoints' = << >>
    /\ stopped_at_breakpoint' = FALSE
    /\ UNCHANGED <<session_vars, statistics, mode, run_statistics, run_limit,
                   debugger_result>>

(***************************************************************************)
(* help, registers, memory and break without an address only print; so do  *)
(* commands that are malformed, unknown, or name an address at which       *)
(* nothing can be added or removed.  The memory they read is const.        *)
(***************************************************************************)
InspectCommand == mode = "prompt" /\ UNCHANGED debugger_vars

\* quit, or the end of the input
Quit ==
    /\ mode = "prompt"
    /\ Return("Quit")
    /\ UNCHANGED <<session_vars, statistics, breakpoints, stopped_at_breakpoint,
                   run_statistics, run_limit>>

Done == mode = "done" /\ UNCHANGED debugger_vars

\* What the debugger does by itself between two commands.
RunNext == ContinueRun \/ RunningStep \/ RunStopsAtBreakpoint \/ RunReachesLimit

DebuggerNext ==
    \/ StepCommand
    \/ BudgetSpent
    \/ ContinueCommand
    \/ RunNext
    \/ \E address \in CommandAddresses : AddBreakpoint(address)
    \/ \E address \in CommandAddresses : RemoveBreakpoint(address)
    \/ RemoveAllBreakpoints
    \/ InspectCommand
    \/ Quit
    \/ Done

\* The debugger's own steps inside a continue command.
ContinueNext == RunNext \/ (mode = "continuing" /\ BudgetSpent)

(***************************************************************************)
(* A continue command runs on the debugger's one thread without waiting    *)
(* for anything, so it keeps taking steps.  Nothing is assumed of the      *)
(* user.                                                                   *)
(***************************************************************************)
DebuggerSpec ==
    DebuggerInit /\ [][DebuggerNext]_debugger_vars /\ WF_debugger_vars(ContinueNext)

-----------------------------------------------------------------------------
(***************************************************************************)
(* stopped_at_breakpoint_ is never stale: while it is set, the guest is    *)
(* still at an address that has a breakpoint.  Otherwise continue would    *)
(* step over an instruction whose breakpoint was added or kept, or treat a *)
(* breakpoint that is gone as passed.                                      *)
(***************************************************************************)
StopIsAtBreakpoint ==
    stopped_at_breakpoint => program_counter \in ToSet(breakpoints)

(***************************************************************************)
(* breakpoints_ is strictly sorted, which lower_bound relies on in both    *)
(* add_breakpoint and remove_breakpoint, and every breakpoint is a mapped, *)
(* aligned word, that is, an address an instruction can be fetched from.   *)
(***************************************************************************)
BreakpointsSorted ==
    /\ \A j, k \in DOMAIN breakpoints : j < k => breakpoints[j] < breakpoints[k]
    /\ \A k \in DOMAIN breakpoints : AccessError(breakpoints[k], 4) = {}

(***************************************************************************)
(* All commands share one strict budget of guest steps: no mix of step,    *)
(* continue and breakpoint stops exceeds it, and the debugger gives up     *)
(* only when the budget is spent to the last step.                         *)
(***************************************************************************)
CumulativeBudget ==
    /\ TotalStatistics.guest_steps <= maximum_guest_steps
    /\ debugger_result = "StepLimitReached" =>
          statistics.guest_steps = maximum_guest_steps

(***************************************************************************)
(* The debugger drives the session that batch runs use: under every        *)
(* sequence of commands the guest, its output and the statistics go        *)
(* through the steps of a batch run with the same limit, none skipped,     *)
(* repeated or added, and a result is the one the batch run returns.       *)
(***************************************************************************)
Batch == INSTANCE BatchRun
         WITH step_limit <- maximum_guest_steps,
              statistics <- TotalStatistics,
              run_result <- IF debugger_result \in {"None", "Quit"}
                            THEN "Running" ELSE debugger_result

RefinesBatchRun == Batch!BatchSpec

(***************************************************************************)
(* Every continue command comes back to the prompt or ends the debugger.   *)
(***************************************************************************)
ContinueReturns ==
    mode \in {"continuing", "running"} ~> mode \in {"prompt", "done"}

(***************************************************************************)
(* Breakpoints cannot hold the guest up: a user who keeps entering         *)
(* continue, and does not delete breakpoints for ever, reaches the end of  *)
(* the program or of the budget, because continue executes the instruction *)
(* it is stopped at before it applies the breakpoints again.               *)
(***************************************************************************)
Deletes == RemoveAllBreakpoints \/ \E a \in CommandAddresses : RemoveBreakpoint(a)

ContinueProgresses ==
    ([]<><<ContinueCommand>>_debugger_vars /\ <>[][~ Deletes]_debugger_vars)
        => <>(mode = "done")
=============================================================================
