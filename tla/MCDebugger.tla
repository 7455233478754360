----------------------------- MODULE MCDebugger -----------------------------
(***************************************************************************)
(* Debugger on three-word programs: straight lines, loops, a self-loop, a  *)
(* program that overwrites itself, calls and traps.                        *)
(***************************************************************************)
EXTENDS Debugger, MCPrograms

CONSTANT Programs

MCProgramSet ==
    { <<AddA1, SetA0, JumpBack>>, <<SetA0, Loop, Ecall>>,
      <<AddA1, StoreA2, Ebreak>>, <<SetA0, Ecall, JumpBack>>,
      <<Ecall, SetA0, BranchBack>> }

MCDebuggerInit ==
    /\ \E a2 \in {1, 4}, a7 \in {64, 93} :
           registers = RegisterFile(1, 239, a2, a7)
    /\ \E program \in Programs : bytes = Image(program, SizeBytes)
    /\ program_counter = BaseAddress
    /\ environment = "LinuxSyscallEnvironment"
    /\ DebuggerInit

MCDebuggerSpec == MCDebuggerInit /\ [][DebuggerNext]_debugger_vars
                                 /\ WF_debugger_vars(ContinueNext)
=============================================================================
