------------------------------ MODULE Machine ------------------------------
(***************************************************************************)
(* CpuState, Memory and ExecutionEngine: one hart executing RV32IM.        *)
(*                                                                         *)
(* A step of the machine is one call of ExecutionEngine::step.  It fetches *)
(* the word at the program counter, decodes it and executes it, and either *)
(* commits the instruction (a StepCompleted observation) or returns a Trap *)
(* with the architectural state untouched.                                 *)
(*                                                                         *)
(* decode_instruction is the constant operator Decode: a word decodes to   *)
(* at most one record of fields, as an optional.  The encoding itself is   *)
(* not part of this module.                                                *)
(***************************************************************************)
EXTENDS Memory, Alu

CONSTANTS
    RegisterCount,         \* CpuState::kRegisterCount, 32 in the program
    Decode(_),             \* decode_instruction
    kEcallInstruction,     \* 0x00000073
    kEbreakInstruction     \* 0x00100073

Registers == 0 .. (RegisterCount - 1)

Opcodes == {"Lui", "Auipc", "OpImmediate", "Op", "Jal", "Jalr", "Branch",
            "Load", "Store", "MiscMemory", "System"}

DecodedInstruction ==
    [opcode : Opcodes, function3 : 0 .. 7, function7 : 0 .. 127,
     destination : Registers, source1 : Registers, source2 : Registers,
     immediate : Word]

ASSUME RegisterAssumption == RegisterCount \in Nat \ {0}

ASSUME DecodeAssumption ==
    /\ kEcallInstruction \in Word
    /\ kEbreakInstruction \in Word \ {kEcallInstruction}
    /\ \A raw \in Word : Decode(raw) \subseteq DecodedInstruction
    /\ \A raw \in Word : \A i, j \in Decode(raw) : i = j

TrapCauses == {"InstructionAddressMisaligned", "InstructionAccessFault",
               "IllegalInstruction", "Breakpoint", "LoadAddressMisaligned",
               "LoadAccessFault", "StoreAddressMisaligned",
               "StoreAccessFault", "EnvironmentCallFromUserMode"}

VARIABLES
    registers,             \* CpuState::registers_
    program_counter,       \* CpuState::program_counter_
    bytes,                 \* Memory::bytes_
    step_result            \* what the last ExecutionEngine::step returned

architecture == <<registers, program_counter, bytes>>
machine_vars == <<registers, program_counter, bytes, step_result>>

-----------------------------------------------------------------------------
(***************************************************************************)
(* CpuState.                                                               *)
(***************************************************************************)
read_register(index) == IF index = 0 THEN 0 ELSE registers[index]

\* Mutant: x0 is written.
write_register_x0(index, value) == [registers EXCEPT ![index] = value]

\* registers_ after write_register; x0 ignores writes.
write_register(index, value) ==
    IF index = 0 THEN registers ELSE [registers EXCEPT ![index] = value]

(***************************************************************************)
(* The two alternatives of StepResult.                                     *)
(***************************************************************************)
NoResult == [kind |-> "None"]

Trap(cause, value) ==
    [kind |-> "Trap", cause |-> cause, program_counter |-> program_counter,
     value |-> value]

ExecutionObservation(i, next, data_memory_access, control_flow) ==
    [kind |-> "Completed", instruction |-> i,
     program_counter |-> program_counter, next_program_counter |-> next,
     data_memory_access |-> data_memory_access, control_flow |-> control_flow]

DataMemoryAccess == [kind : {"Load", "Store"}, address : Word, width : {1, 2, 4}]
ControlFlow == [kind : {"DirectJump", "IndirectJump", "ConditionalBranch"},
                taken : BOOLEAN]

StepResults ==
    {NoResult}
    \cup [kind : {"Trap"}, cause : TrapCauses, program_counter : Word, value : Word]
    \cup [kind : {"Completed"}, instruction : DecodedInstruction,
          program_counter : Word, next_program_counter : Word,
          data_memory_access : SUBSET DataMemoryAccess,
          control_flow : SUBSET ControlFlow]

(***************************************************************************)
(* ExecutionEngine::instruction_trap: the step ends before anything is     *)
(* committed.                                                              *)
(***************************************************************************)
Trapped(cause, value) ==
    /\ step_result' = Trap(cause, value)
    /\ UNCHANGED architecture

(***************************************************************************)
(* The end of ExecutionEngine::step: the destination register is written   *)
(* if there is a value for it, then the program counter, and the           *)
(* observation is returned (and shown to the observer).  The handler       *)
(* itself says what happens to memory.                                     *)
(***************************************************************************)
Retire(i, destination_value, next, data_memory_access, control_flow) ==
    /\ registers' = IF destination_value = NullOpt THEN registers
                    ELSE write_register(i.destination,
                                        CHOOSE v \in destination_value : TRUE)
    /\ program_counter' = next
    /\ step_result' =
           ExecutionObservation(i, next, data_memory_access, control_flow)

SequentialProgramCounter == WrapAdd(program_counter, 4)

is_instruction_aligned(address) == address % 4 = 0

-----------------------------------------------------------------------------
(***************************************************************************)
(* Fetch and decode.                                                       *)
(***************************************************************************)
FetchMisaligned ==
    /\ ~ is_instruction_aligned(program_counter)
    /\ Trapped("InstructionAddressMisaligned", program_counter)

FetchFault ==
    /\ is_instruction_aligned(program_counter)
    /\ AccessError(program_counter, 4) # {}
    /\ Trapped("InstructionAccessFault", program_counter)

\* The fetched word, {} when the fetch fails.
Fetched ==
    IF is_instruction_aligned(program_counter)
       /\ AccessError(program_counter, 4) = {}
    THEN Some(read32(bytes, program_counter)) ELSE NullOpt

Undecodable ==
    \E raw \in Fetched : Decode(raw) = NullOpt /\ Trapped("IllegalInstruction", raw)

(***************************************************************************)
(* Execution, one action per opcode.  raw is the fetched word and i what   *)
(* it decodes to.                                                          *)
(***************************************************************************)
ExecuteLui(raw, i) ==
    /\ i.opcode = "Lui"
    /\ Retire(i, Some(i.immediate), SequentialProgramCounter, NullOpt, NullOpt)
    /\ UNCHANGED bytes

ExecuteAuipc(raw, i) ==
    /\ i.opcode = "Auipc"
    /\ Retire(i, Some(WrapAdd(program_counter, i.immediate)),
              SequentialProgramCounter, NullOpt, NullOpt)
    /\ UNCHANGED bytes

\* The common end of OP-IMM and OP: an unsupported function is illegal.
RetireResult(raw, i, destination_value) ==
    \/ /\ destination_value = NullOpt
       /\ Trapped("IllegalInstruction", raw)
    \/ /\ destination_value # NullOpt
       /\ Retire(i, destination_value, SequentialProgramCounter, NullOpt, NullOpt)
       /\ UNCHANGED bytes

ExecuteOpImmediate(raw, i) ==
    /\ i.opcode = "OpImmediate"
    /\ RetireResult(raw, i, execute_op_immediate(i, read_register(i.source1)))

ExecuteOp(raw, i) ==
    /\ i.opcode = "Op"
    /\ RetireResult(raw, i, execute_op(i, read_register(i.source1),
                                       read_register(i.source2)))

\* Mutant: a transfer of control is not shown to the observer.
TakenFlow_unobserved(kind) == NullOpt

TakenFlow(kind) == Some([kind |-> kind, taken |-> TRUE])

(***************************************************************************)
(* A transfer of control to target: a misaligned target traps before the   *)
(* link register is written.                                               *)
(***************************************************************************)
\* Mutant: the link register is written before the target is checked.
TransferTo_linkFirst(i, target, link, kind) ==
    \/ /\ ~ is_instruction_aligned(target)
       /\ step_result' = Trap("InstructionAddressMisaligned", target)
       /\ registers' = IF link = NullOpt THEN registers
                       ELSE write_register(i.destination, CHOOSE v \in link : TRUE)
       /\ UNCHANGED <<program_counter, bytes>>
    \/ /\ is_instruction_aligned(target)
       /\ Retire(i, link, target, NullOpt, TakenFlow(kind))
       /\ UNCHANGED bytes

\* Mutant: the target is not checked.
TransferTo_unchecked(i, target, link, kind) ==
    /\ Retire(i, link, target, NullOpt, TakenFlow(kind))
    /\ UNCHANGED bytes

TransferTo(i, target, link, kind) ==
    \/ /\ ~ is_instruction_aligned(target)
       /\ Trapped("InstructionAddressMisaligned", target)
    \/ /\ is_instruction_aligned(target)
       /\ Retire(i, link, target, NullOpt, TakenFlow(kind))
       /\ UNCHANGED bytes

ExecuteJal(raw, i) ==
    /\ i.opcode = "Jal"
    /\ TransferTo(i, WrapAdd(program_counter, i.immediate),
                  Some(SequentialProgramCounter), "DirectJump")

\* address & ~1
ClearLowBit(address) == address - (address % 2)

ExecuteJalr(raw, i) ==
    /\ i.opcode = "Jalr"
    /\ \/ /\ i.function3 # 0
          /\ Trapped("IllegalInstruction", raw)
       \/ /\ i.function3 = 0
          /\ TransferTo(i, ClearLowBit(WrapAdd(read_register(i.source1), i.immediate)),
                        Some(SequentialProgramCounter), "IndirectJump")

ExecuteBranch(raw, i) ==
    LET branch_taken == evaluate_branch(i, read_register(i.source1),
                                        read_register(i.source2))
    IN /\ i.opcode = "Branch"
       /\ \/ /\ branch_taken = NullOpt
             /\ Trapped("IllegalInstruction", raw)
          \/ /\ branch_taken = Some(TRUE)
             /\ TransferTo(i, WrapAdd(program_counter, i.immediate), NullOpt,
                           "ConditionalBranch")
          \/ /\ branch_taken = Some(FALSE)
             /\ Retire(i, NullOpt, SequentialProgramCounter, NullOpt,
                       Some([kind |-> "ConditionalBranch", taken |-> FALSE]))
             /\ UNCHANGED bytes

-----------------------------------------------------------------------------
(***************************************************************************)
(* Loads and stores.                                                       *)
(***************************************************************************)
EffectiveAddress(i) == WrapAdd(read_register(i.source1), i.immediate)

data_access_width(function3) ==
    CASE function3 \in {0, 4} -> 1
      [] function3 \in {1, 5} -> 2
      [] function3 = 2 -> 4
      [] OTHER -> 0

\* The value execute_load returns, for a supported function3 and a valid address.
LoadedValue(function3, address) ==
    CASE function3 = 0 -> sign_extend_byte(read8(bytes, address))
      [] function3 = 1 -> sign_extend_halfword(read16(bytes, address))
      [] function3 = 2 -> read32(bytes, address)
      [] function3 = 4 -> read8(bytes, address)
      [] function3 = 5 -> read16(bytes, address)

\* Mutant: an access that is not aligned is carried out.
LoadError_unaligned(i) ==
    IF InBounds(EffectiveAddress(i), data_access_width(i.function3)) THEN {}
    ELSE {"OutOfBounds"}

\* The exception execute_load catches, for a supported function3.
LoadError(i) == AccessError(EffectiveAddress(i), data_access_width(i.function3))

ExecuteLoad(raw, i) ==
    LET address == EffectiveAddress(i)
        width == data_access_width(i.function3)
    IN /\ i.opcode = "Load"
       /\ \/ /\ i.function3 \notin {0, 1, 2, 4, 5}
             /\ Trapped("IllegalInstruction", raw)
          \/ /\ i.function3 \in {0, 1, 2, 4, 5}
             /\ \/ /\ LoadError(i) = {"Misalignment"}
                   /\ Trapped("LoadAddressMisaligned", address)
                \/ /\ LoadError(i) = {"OutOfBounds"}
                   /\ Trapped("LoadAccessFault", address)
                \/ /\ LoadError(i) = {}
                   /\ Retire(i, Some(LoadedValue(i.function3, address)),
                             SequentialProgramCounter,
                             Some([kind |-> "Load", address |-> address,
                                   width |-> width]),
                             NullOpt)
                   /\ UNCHANGED bytes

\* Memory after a store of the given width.
StoredBytes(width, address, value) ==
    CASE width = 1 -> write8(bytes, address, value)
      [] width = 2 -> write16(bytes, address, value)
      [] width = 4 -> write32(bytes, address, value)

ExecuteStore(raw, i) ==
    LET address == EffectiveAddress(i)
        width == data_access_width(i.function3)
        error == AccessError(address, width)
    IN /\ i.opcode = "Store"
       /\ \/ /\ i.function3 \notin {0, 1, 2}
             /\ Trapped("IllegalInstruction", raw)
          \/ /\ i.function3 \in {0, 1, 2}
             /\ \/ /\ error = {"Misalignment"}
                   /\ Trapped("StoreAddressMisaligned", address)
                \/ /\ error = {"OutOfBounds"}
                   /\ Trapped("StoreAccessFault", address)
                \/ /\ error = {}
                   /\ bytes' = StoredBytes(width, address, read_register(i.source2))
                   /\ Retire(i, NullOpt, SequentialProgramCounter,
                             Some([kind |-> "Store", address |-> address,
                                   width |-> width]),
                             NullOpt)

\* FENCE has no effect on one hart; FENCE.I is not supported.
ExecuteMiscMemory(raw, i) ==
    /\ i.opcode = "MiscMemory"
    /\ \/ /\ i.function3 = 0
          /\ Retire(i, NullOpt, SequentialProgramCounter, NullOpt, NullOpt)
          /\ UNCHANGED bytes
       \/ /\ i.function3 # 0
          /\ Trapped("IllegalInstruction", raw)

\* ECALL and EBREAK are recognised by the whole word.
ExecuteSystem(raw, i) ==
    /\ i.opcode = "System"
    /\ \/ /\ raw = kEcallInstruction
          /\ Trapped("EnvironmentCallFromUserMode", 0)
       \/ /\ raw = kEbreakInstruction
          /\ Trapped("Breakpoint", 0)
       \/ /\ raw \notin {kEcallInstruction, kEbreakInstruction}
          /\ Trapped("IllegalInstruction", raw)

Execute(raw, i) ==
    \/ ExecuteLui(raw, i)
    \/ ExecuteAuipc(raw, i)
    \/ ExecuteOpImmediate(raw, i)
    \/ ExecuteOp(raw, i)
    \/ ExecuteJal(raw, i)
    \/ ExecuteJalr(raw, i)
    \/ ExecuteBranch(raw, i)
    \/ ExecuteLoad(raw, i)
    \/ ExecuteStore(raw, i)
    \/ ExecuteMiscMemory(raw, i)
    \/ ExecuteSystem(raw, i)

\* ExecutionEngine::step
EngineStep ==
    \/ FetchMisaligned
    \/ FetchFault
    \/ Undecodable
    \/ \E raw \in Fetched : \E i \in Decode(raw) : Execute(raw, i)

-----------------------------------------------------------------------------
(***************************************************************************)
(* The machine on its own: any state of the registers, the program counter *)
(* and memory that the caller of the constructors can set up.              *)
(***************************************************************************)
MachineInit ==
    /\ registers \in [Registers -> Word]
    /\ registers[0] = 0
    /\ program_counter \in Word
    /\ bytes \in Contents
    /\ step_result = NoResult

MachineSpec == MachineInit /\ [][EngineStep]_machine_vars

-----------------------------------------------------------------------------
(***************************************************************************)
(* Type invariant.  It also says that x0, which the code never writes,     *)
(* still holds the zero it was reset to.                                   *)
(***************************************************************************)
TypeOK ==
    /\ registers \in [Registers -> Word]
    /\ registers[0] = 0
    /\ program_counter \in Word
    /\ bytes \in Contents
    /\ step_result \in StepResults

(***************************************************************************)
(* Traps are precise and observations complete.  A step that returns a     *)
(* trap has changed neither a register, nor the program counter, nor       *)
(* memory, and names the trapping instruction.  A step that completes      *)
(* changes at most the decoded destination register and the bytes of the   *)
(* store that the observation reports.                                     *)
(***************************************************************************)
AccountedStep ==
    LET result == step_result'
    IN /\ result.kind = "Trap" =>
             /\ UNCHANGED architecture
             /\ result.program_counter = program_counter
       /\ result.kind = "Completed" =>
             /\ result.program_counter = program_counter
             /\ result.next_program_counter = program_counter'
             /\ \A r \in Registers : registers'[r] # registers[r] =>
                   /\ r = result.instruction.destination
                   /\ result.instruction.opcode
                         \notin {"Branch", "Store", "MiscMemory", "System"}
             /\ \A o \in Offsets : bytes'[o] # bytes[o] =>
                   \E a \in result.data_memory_access :
                       /\ a.kind = "Store"
                       /\ BaseAddress + o \in a.address .. (a.address + a.width - 1)

PreciseSteps == [][AccountedStep]_machine_vars

(***************************************************************************)
(* Execution is sequential unless the observation says otherwise: whenever *)
(* the program counter moves to another address than the next word's       *)
(* (computed in 32 bits, so that it wraps at the top of the address        *)
(* space), the observer has been shown a taken jump or branch.             *)
(***************************************************************************)
ControlFlowObserved ==
    [][(step_result'.kind = "Completed"
          /\ program_counter' # SequentialProgramCounter)
         => \E c \in step_result'.control_flow : c.taken]_machine_vars

(***************************************************************************)
(* A word-aligned program counter stays word-aligned: every path through   *)
(* JAL, JALR, branches, sequential execution and wrap-around checks or     *)
(* preserves it, so the fetch of a session that starts aligned is never    *)
(* misaligned.                                                             *)
(***************************************************************************)
AlignmentKept ==
    [][is_instruction_aligned(program_counter)
         => is_instruction_aligned(program_counter')]_machine_vars

(***************************************************************************)
(* Every observed load and store lies inside the mapped region and inside  *)
(* one aligned word, so that the cache model, whose lines are at least a   *)
(* word long, is right to look up one line per access.                     *)
(***************************************************************************)
OneLinePerAccess ==
    step_result.kind = "Completed" =>
        \A a \in step_result.data_memory_access :
            /\ a.address >= BaseAddress
            /\ a.address + a.width <= EndAddressExclusive
            /\ a.address \div 4 = (a.address + a.width - 1) \div 4

(***************************************************************************)
(* A load that follows a store to the same address, at the store's width,  *)
(* reads the low bytes of the register that was stored.                    *)
(***************************************************************************)
ReadBack(a) ==
    CASE a.width = 1 -> read8(bytes, a.address)
      [] a.width = 2 -> read16(bytes, a.address)
      [] a.width = 4 -> read32(bytes, a.address)

WidthValues(width) ==
    CASE width = 1 -> ByteValues
      [] width = 2 -> HalfwordValues
      [] width = 4 -> WordValues

StoresReadBack ==
    step_result.kind = "Completed" =>
        \A a \in step_result.data_memory_access :
            a.kind = "Store" =>
                ReadBack(a) = read_register(step_result.instruction.source2)
                                  % WidthValues(a.width)
=============================================================================
