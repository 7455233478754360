--------------------------- MODULE ProgramSession ---------------------------
(***************************************************************************)
(* ProgramSession::step: one guest step, an instruction or an environment  *)
(* call.  The session adds to the engine what happens on ECALL: the call   *)
(* is captured from the registers, the environment decides, and only a     *)
(* resume decision changes the guest.                                      *)
(***************************************************************************)
EXTENDS Machine, LinuxSyscalls

CONSTANTS
    kReturnValueRegister,            \* a0, also the first argument: 10
    kEnvironmentCallNumberRegister   \* a7: 17

ArgumentIndices == 0 .. 5

ASSUME SessionAssumption ==
    /\ kReturnValueRegister \in Nat \ {0}
    /\ kReturnValueRegister + 5 \in Registers
    /\ kEnvironmentCallNumberRegister \in Registers

Environments == {"LinuxSyscallEnvironment", "ExitEnvironment"}

VARIABLES
    environment,           \* environment_, the EnvironmentCallHandler installed
    session_result,        \* what the last ProgramSession::step returned
    output                 \* the bytes each host stream has received

session_vars == <<registers, program_counter, bytes, step_result, environment,
                  session_result, output>>

-----------------------------------------------------------------------------
\* capture_environment_call
CapturedCall ==
    [program_counter |-> program_counter,
     number |-> read_register(kEnvironmentCallNumberRegister),
     arguments |-> [k \in ArgumentIndices |->
                        read_register(kReturnValueRegister + k)]]

handle(call) ==
    IF environment = "LinuxSyscallEnvironment"
    THEN LinuxHandle(call, bytes)
    ELSE ActHandle(call, bytes)

(***************************************************************************)
(* The alternatives of SessionStepResult.  A completed instruction's       *)
(* observation and a trap are in step_result.                              *)
(***************************************************************************)
NoSessionResult == [kind |-> "None"]
SessionInstructionCompleted == [kind |-> "InstructionCompleted"]
SessionTrap == [kind |-> "Trap"]
SessionEnvironmentCallResumed(call, return_value, next) ==
    [kind |-> "EnvironmentCallResumed", call |-> call,
     return_value |-> return_value, program_counter |-> next]
SessionExited(call, exit_code) ==
    [kind |-> "Exited", call |-> call, exit_code |-> exit_code]
SessionUnhandledEnvironmentCall(call) ==
    [kind |-> "UnhandledEnvironmentCall", call |-> call]

\* The results after which a run goes on; the others end it.
ContinuingResults == {"InstructionCompleted", "EnvironmentCallResumed"}

-----------------------------------------------------------------------------
(***************************************************************************)
(* The engine completes an instruction, or traps for another reason than   *)
(* an environment call.                                                    *)
(***************************************************************************)
InstructionCompleted ==
    /\ EngineStep
    /\ step_result'.kind = "Completed"
    /\ session_result' = SessionInstructionCompleted
    /\ UNCHANGED <<output, environment>>

InstructionTrapped ==
    /\ EngineStep
    /\ step_result'.kind = "Trap"
    /\ step_result'.cause # "EnvironmentCallFromUserMode"
    /\ session_result' = SessionTrap
    /\ UNCHANGED <<output, environment>>

\* The engine would trap with EnvironmentCallFromUserMode.
AtEnvironmentCall ==
    \E raw \in Fetched : \E i \in Decode(raw) :
        i.opcode = "System" /\ raw = kEcallInstruction

\* The host streams after an outcome of the handler.
Delivered(outcome) == [output EXCEPT ![outcome.stream] = @ \o outcome.delivered]

\* Mutant: the program counter is advanced whatever the decision.
NextAfterCall_always(result) == SequentialProgramCounter

\* Only a resumed call moves the guest past the ECALL.
NextAfterCall(result) ==
    IF result.kind = "Resume" THEN SequentialProgramCounter ELSE program_counter

(***************************************************************************)
(* The session's answer to the handler's outcome: a resume writes a0 and   *)
(* advances the program counter past the ECALL; an exit or an unhandled    *)
(* call leaves the guest as the trap left it.                              *)
(***************************************************************************)
EnvironmentCall(outcome) ==
    LET call == CapturedCall
        result == outcome.result
    IN /\ output' = Delivered(outcome)
       /\ program_counter' = NextAfterCall(result)
       /\ registers' = IF result.kind = "Resume"
                       THEN write_register(kReturnValueRegister, result.return_value)
                       ELSE registers
       /\ session_result' =
              CASE result.kind = "Resume" ->
                       SessionEnvironmentCallResumed(call, result.return_value,
                                                     program_counter')
                [] result.kind = "Exit" -> SessionExited(call, result.exit_code)
                [] result.kind = "NotHandled" -> SessionUnhandledEnvironmentCall(call)

HandleEnvironmentCall ==
    /\ AtEnvironmentCall
    /\ step_result' = Trap("EnvironmentCallFromUserMode", 0)
    /\ \E outcome \in handle(CapturedCall) : EnvironmentCall(outcome)
    /\ UNCHANGED <<bytes, environment>>

\* ProgramSession::step
SessionStep ==
    \/ InstructionCompleted
    \/ InstructionTrapped
    \/ HandleEnvironmentCall

-----------------------------------------------------------------------------
(***************************************************************************)
(* SessionStatistics.                                                      *)
(***************************************************************************)
ZeroStatistics ==
    [guest_steps |-> 0, instructions_retired |-> 0, environment_calls_handled |-> 0]

Statistics ==
    [guest_steps : Nat, instructions_retired : Nat, environment_calls_handled : Nat]

\* Mutant: the loop continues before it counts a completed instruction.
CountStep_uncounted(statistics, result) ==
    IF result.kind \in {"EnvironmentCallResumed", "Exited"}
    THEN [statistics EXCEPT !.guest_steps = @ + 1,
                            !.environment_calls_handled = @ + 1]
    ELSE statistics

(***************************************************************************)
(* How a step's result changes the counters.  A trap and an unhandled call *)
(* are not guest steps; the call that exits is.                            *)
(***************************************************************************)
CountStep(statistics, result) ==
    CASE result.kind = "InstructionCompleted" ->
             [statistics EXCEPT !.guest_steps = @ + 1,
                                !.instructions_retired = @ + 1]
      [] result.kind \in {"EnvironmentCallResumed", "Exited"} ->
             [statistics EXCEPT !.guest_steps = @ + 1,
                                !.environment_calls_handled = @ + 1]
      [] OTHER -> statistics

\* add_statistics
AddStatistics(total, additional) ==
    [f \in DOMAIN total |-> total[f] + additional[f]]

-----------------------------------------------------------------------------
(***************************************************************************)
(* The loop of ProgramSession::run.  statistics are those of the run, and  *)
(* the limit is tested before the breakpoints, both before each step.      *)
(***************************************************************************)
\* Mutant: one step too many.
RunAtLimit_offByOne(statistics, step_limit) == statistics.guest_steps > step_limit

RunAtLimit(statistics, step_limit) == statistics.guest_steps >= step_limit

RunAtBreakpoint(statistics, step_limit, breakpoints) ==
    /\ ~ RunAtLimit(statistics, step_limit)
    /\ program_counter \in breakpoints

RunStep(statistics, step_limit, breakpoints) ==
    /\ ~ RunAtLimit(statistics, step_limit)
    /\ program_counter \notin breakpoints
    /\ SessionStep

-----------------------------------------------------------------------------
SessionInit ==
    /\ MachineInit
    /\ environment \in Environments
    /\ session_result = NoSessionResult
    /\ output = [s \in OutputStreams |-> << >>]

EnvironmentCalls ==
    [program_counter : Word, number : Word, arguments : [ArgumentIndices -> Word]]

SessionResults ==
    {NoSessionResult, SessionInstructionCompleted, SessionTrap}
    \cup [kind : {"EnvironmentCallResumed"}, call : EnvironmentCalls,
          return_value : Word, program_counter : Word]
    \cup [kind : {"Exited"}, call : EnvironmentCalls, exit_code : Word]
    \cup [kind : {"UnhandledEnvironmentCall"}, call : EnvironmentCalls]

SessionTypeOK ==
    /\ TypeOK
    /\ environment \in Environments
    /\ session_result \in SessionResults
    /\ output \in [OutputStreams -> Seq(Byte)]

(***************************************************************************)
(* The environment's influence on the guest is confined.  A resumed call   *)
(* changes a0 and moves the program counter past the ECALL; nothing the    *)
(* handler does changes memory or another register; an exit, an unhandled  *)
(* call and a trap leave the guest exactly where it was, so that the       *)
(* reported state is that of the instruction that stopped the program.     *)
(***************************************************************************)
ConfinedStep ==
    LET kind == session_result'.kind
    IN /\ kind \in {"Exited", "UnhandledEnvironmentCall", "Trap"} =>
             UNCHANGED architecture
       /\ kind = "EnvironmentCallResumed" =>
             /\ \A r \in Registers \ {kReturnValueRegister} :
                   registers'[r] = registers[r]
             /\ program_counter' = SequentialProgramCounter
             /\ bytes' = bytes

EnvironmentConfined == [][ConfinedStep]_session_vars

(***************************************************************************)
(* Output is accounted for, in both directions.  A write call that returns *)
(* a count has delivered exactly that many bytes, those memory holds at    *)
(* the address passed, to the stream of its descriptor; no count exceeds   *)
(* what was asked or what one call may transfer, and only an empty request *)
(* returns zero.  An error names what is wrong (the descriptor, the range, *)
(* then the host) and has delivered nothing, unless the host's buffer      *)
(* threw after it had taken a prefix.  No other step delivers anything.    *)
(***************************************************************************)
AccountedWrite(call, returned) ==
    LET descriptor == call.arguments[0]
        address == call.arguments[1]
        requested == call.arguments[2]
        size == IF requested < kMaximumWriteSize THEN requested
                ELSE kMaximumWriteSize
        Writable == descriptor \in OutputStreams /\ InBounds(address, size)
        Received(count) ==
            output' = [output EXCEPT ![descriptor] =
                           @ \o read_span(bytes, address, count)]
    IN \/ Writable /\ returned \in 1 .. size /\ Received(returned)
       \/ /\ output' = output
          /\ \/ returned = 0 /\ requested = 0
             \/ returned = error_return(kErrorBadFileDescriptor)
                /\ descriptor \notin OutputStreams
             \/ returned = error_return(kErrorFault) /\ ~ InBounds(address, size)
             \/ returned = error_return(kErrorIo) /\ Writable
       \/ /\ returned = error_return(kErrorIo)
          /\ Writable
          /\ descriptor \in ThrowingStreams
          /\ \E taken \in 1 .. size : Received(taken)

AccountedOutput ==
    IF /\ session_result'.kind = "EnvironmentCallResumed"
       /\ session_result'.call.number = kWrite
    THEN AccountedWrite(session_result'.call, session_result'.return_value)
    ELSE output' = output

OutputAccounted == [][AccountedOutput]_session_vars
=============================================================================
