--------------------------- MODULE MachineProofs ---------------------------
(***************************************************************************)
(* Theorems about Machine, for every byte width, memory region, number of  *)
(* registers and decoder.                                                  *)
(***************************************************************************)
EXTENDS Machine, WordTheorems

-----------------------------------------------------------------------------
(***************************************************************************)
(* Memory.  An access that checked_offset and check_alignment let through  *)
(* stays inside the region, and a read returns a value of its width.       *)
(***************************************************************************)
LEMMA NoErrorInBounds ==
    ASSUME NEW address, NEW width, AccessError(address, width) = {}
    PROVE  Aligned(address, width) /\ InBounds(address, width)
<1>1. {"Misalignment"} # {} /\ {"OutOfBounds"} # {}
  OBVIOUS
<1>. QED
  BY <1>1 DEF AccessError

LEMMA InBoundsOffsets ==
    ASSUME NEW address \in Word, NEW width \in Nat \ {0}, InBounds(address, width)
    PROVE  /\ Offset(address) \in Nat
           /\ \A k \in 0 .. (width - 1) : Offset(address) + k \in Offsets
<1>1. address \in Int /\ BaseAddress \in Int /\ SizeBytes \in Nat
  BY RegionAssumption, WordIsInt
<1>. QED
  BY <1>1 DEF InBounds, Offset, Offsets

\* Two digits in a base make a number below the square of the base.
LEMMA TwoDigits ==
    ASSUME NEW n \in Nat \ {0}, NEW low \in 0 .. (n - 1), NEW high \in 0 .. (n - 1)
    PROVE  low + n * high \in 0 .. (n * n - 1)
<1>1. n * high >= 0 /\ n * high <= n * (n - 1) /\ n * high \in Int
  OBVIOUS
<1>2. n * (n - 1) = n * n - n /\ n * n \in Int
  OBVIOUS
<1>. QED
  BY <1>1, <1>2

LEMMA Read8Typed ==
    ASSUME NEW b \in Contents, NEW address \in Word, InBounds(address, 1)
    PROVE  read8(b, address) \in Byte
<1>1. Offset(address) + 0 \in Offsets /\ Offset(address) \in Nat
  BY InBoundsOffsets
<1>. QED
  BY <1>1 DEF read8, Contents

LEMMA Read16Typed ==
    ASSUME NEW b \in Contents, NEW address \in Word, InBounds(address, 2)
    PROVE  read16(b, address) \in Halfword
<1>1. /\ Offset(address) \in Nat
      /\ Offset(address) + 0 \in Offsets
      /\ Offset(address) + 1 \in Offsets
  BY InBoundsOffsets
<1>2. b[Offset(address)] \in Byte /\ b[Offset(address) + 1] \in Byte
  BY <1>1 DEF Contents
<1>. QED
  BY <1>2, TwoDigits, WordSizes DEF read16, Byte, Halfword, HalfwordValues

LEMMA Read32Typed ==
    ASSUME NEW b \in Contents, NEW address \in Word, InBounds(address, 4)
    PROVE  read32(b, address) \in Word
<1>. DEFINE o == Offset(address)
<1>1. /\ o \in Nat /\ o + 0 \in Offsets
      /\ o + 1 \in Offsets /\ o + 2 \in Offsets /\ o + 3 \in Offsets
  BY InBoundsOffsets
<1>2. b[o] \in Byte /\ b[o + 1] \in Byte /\ b[o + 2] \in Byte /\ b[o + 3] \in Byte
  BY <1>1 DEF Contents
<1>. DEFINE low == b[o] + ByteValues * b[o + 1]
            high == b[o + 2] + ByteValues * b[o + 3]
<1>3. low \in Halfword /\ high \in Halfword
  BY <1>2, TwoDigits, WordSizes DEF Byte, Halfword, HalfwordValues
<1>4. low + HalfwordValues * high \in Word
  <2>. HIDE DEF low, high
  <2>. QED
    BY <1>3, TwoDigits, WordSizes DEF Halfword, Word, WordValues
<1>5. HalfwordValues * ByteValues * b[o + 3] = HalfwordValues * (ByteValues * b[o + 3])
  BY <1>2, WordSizes DEF Byte
<1>6. HalfwordValues * (b[o + 2] + ByteValues * b[o + 3])
        = HalfwordValues * b[o + 2] + HalfwordValues * (ByteValues * b[o + 3])
  BY <1>2, WordSizes DEF Byte
<1>. QED
  BY <1>2, <1>4, <1>5, <1>6, WordSizes DEF read32, Byte

\* A write keeps the contents well-typed.
LEMMA DigitTyped ==
    ASSUME NEW i \in Int
    PROVE  i % ByteValues \in Byte
BY WordSizes DEF Byte

LEMMA WritesTyped ==
    ASSUME NEW b \in Contents, NEW address \in Word, NEW value \in Word
    PROVE  /\ InBounds(address, 1) => write8(b, address, value) \in Contents
           /\ InBounds(address, 2) => write16(b, address, value) \in Contents
           /\ InBounds(address, 4) => write32(b, address, value) \in Contents
<1>1. /\ value \in Int
      /\ value \div ByteValues \in Int
      /\ value \div HalfwordValues \in Int
      /\ value \div (HalfwordValues * ByteValues) \in Int
  <2>1. HalfwordValues * ByteValues \in Nat \ {0}
    BY WordSizes
  <2>. QED
    BY <2>1, WordSizes, WordIsInt
<1>2. /\ value % ByteValues \in Byte
      /\ (value \div ByteValues) % ByteValues \in Byte
      /\ (value \div HalfwordValues) % ByteValues \in Byte
      /\ (value \div (HalfwordValues * ByteValues)) % ByteValues \in Byte
  BY <1>1, DigitTyped
<1>. QED
  BY <1>2 DEF write8, write16, write32, Contents

LEMMA ByteIsWord == Byte \subseteq Word /\ Halfword \subseteq Word
BY WordSizes DEF Byte, Halfword, Word

-----------------------------------------------------------------------------
(***************************************************************************)
(* The two ways a step ends keep the type invariant.                       *)
(***************************************************************************)
LEMMA TrappedTypeOK ==
    ASSUME TypeOK, NEW cause \in TrapCauses, NEW value \in Word,
           Trapped(cause, value)
    PROVE  TypeOK'
<1>1. step_result' \in StepResults
  BY DEF Trapped, Trap, StepResults, TypeOK
<1>. QED
  BY <1>1 DEF Trapped, TypeOK, architecture

LEMMA WriteRegisterTyped ==
    ASSUME TypeOK, NEW index \in Registers, NEW value \in Word
    PROVE  /\ write_register(index, value) \in [Registers -> Word]
           /\ write_register(index, value)[0] = 0
BY DEF TypeOK, write_register

LEMMA ReadRegisterTyped ==
    ASSUME TypeOK, NEW index \in Registers
    PROVE  read_register(index) \in Word
BY WordConstants DEF TypeOK, read_register

LEMMA RetireTypeOK ==
    ASSUME TypeOK, NEW i \in DecodedInstruction, NEW value,
           value \subseteq Word, NEW next \in Word,
           NEW access \in SUBSET DataMemoryAccess, NEW flow \in SUBSET ControlFlow,
           Retire(i, value, next, access, flow), bytes' \in Contents
    PROVE  TypeOK'
<1>1. registers' \in [Registers -> Word] /\ registers'[0] = 0
  <2>1. CASE value = NullOpt
    BY <2>1 DEF Retire, TypeOK
  <2>2. CASE value # NullOpt
    <3>1. (CHOOSE v \in value : TRUE) \in Word
      BY <2>2 DEF NullOpt
    <3>2. i.destination \in Registers
      BY DEF DecodedInstruction
    <3>. QED
      BY <2>2, <3>1, <3>2, WriteRegisterTyped DEF Retire
  <2>. QED
    BY <2>1, <2>2
<1>2. step_result' \in StepResults
  BY DEF Retire, ExecutionObservation, StepResults, TypeOK
<1>3. program_counter' \in Word
  BY DEF Retire
<1>. QED
  BY <1>1, <1>2, <1>3 DEF TypeOK

LEMMA SequentialTyped ==
    ASSUME TypeOK
    PROVE  SequentialProgramCounter \in Word
<1>1. program_counter \in Int
  BY WordIsInt DEF TypeOK
<1>. QED
  BY <1>1, AddClosed DEF SequentialProgramCounter

LEMMA FetchedTyped ==
    ASSUME TypeOK, NEW raw \in Fetched
    PROVE  raw \in Word /\ Decode(raw) \subseteq DecodedInstruction
<1>1. AccessError(program_counter, 4) = {} /\ raw = read32(bytes, program_counter)
  BY DEF Fetched, Some, NullOpt
<1>2. InBounds(program_counter, 4)
  BY <1>1, NoErrorInBounds
<1>3. raw \in Word
  BY <1>1, <1>2, Read32Typed DEF TypeOK
<1>. QED
  BY <1>3, DecodeAssumption

LEMMA EffectiveAddressTyped ==
    ASSUME TypeOK, NEW i \in DecodedInstruction
    PROVE  EffectiveAddress(i) \in Word
<1>1. read_register(i.source1) \in Int /\ i.immediate \in Int
  BY ReadRegisterTyped, WordIsInt DEF DecodedInstruction
<1>. QED
  BY <1>1, AddClosed DEF EffectiveAddress

LEMMA ClearLowBitTyped ==
    ASSUME NEW w \in Word
    PROVE  ClearLowBit(w) \in Word
<1>1. w - (w % 2) \in 0 .. w
  BY WordIsInt
<1>. QED
  BY <1>1, WordDownwardClosed DEF ClearLowBit

LEMMA TransferTypeOK ==
    ASSUME TypeOK, NEW i \in DecodedInstruction, NEW target \in Word,
           NEW link, link \subseteq Word,
           NEW kind \in {"DirectJump", "IndirectJump", "ConditionalBranch"},
           TransferTo(i, target, link, kind)
    PROVE  TypeOK'
<1>1. CASE Trapped("InstructionAddressMisaligned", target)
  BY <1>1, TrappedTypeOK DEF TrapCauses
<1>2. CASE /\ Retire(i, link, target, NullOpt, TakenFlow(kind))
           /\ UNCHANGED bytes
  <2>1. /\ TakenFlow(kind) \in SUBSET ControlFlow
        /\ NullOpt \in SUBSET DataMemoryAccess
    BY DEF TakenFlow, Some, NullOpt, ControlFlow
  <2>2. bytes' \in Contents
    BY <1>2 DEF TypeOK
  <2>. QED
    BY <1>2, <2>1, <2>2, RetireTypeOK
<1>. QED
  BY <1>1, <1>2 DEF TransferTo

LEMMA RetireResultTypeOK ==
    ASSUME TypeOK, NEW raw \in Word, NEW i \in DecodedInstruction,
           NEW value, value \subseteq Word, RetireResult(raw, i, value)
    PROVE  TypeOK'
<1>1. CASE Trapped("IllegalInstruction", raw)
  BY <1>1, TrappedTypeOK DEF TrapCauses
<1>2. CASE /\ Retire(i, value, SequentialProgramCounter, NullOpt, NullOpt)
           /\ UNCHANGED bytes
  <2>1. NullOpt \in SUBSET DataMemoryAccess /\ NullOpt \in SUBSET ControlFlow
    BY DEF NullOpt
  <2>2. bytes' \in Contents
    BY <1>2 DEF TypeOK
  <2>. QED
    BY <1>2, <2>1, <2>2, SequentialTyped, RetireTypeOK
<1>. QED
  BY <1>1, <1>2 DEF RetireResult

-----------------------------------------------------------------------------
(***************************************************************************)
(* Every path through ExecutionEngine::step keeps the type invariant.      *)
(***************************************************************************)
LEMMA ExecuteTypeOK ==
    ASSUME TypeOK, NEW raw \in Word, NEW i \in DecodedInstruction, Execute(raw, i)
    PROVE  TypeOK'
<1>. DEFINE seq == SequentialProgramCounter
<1>1. /\ seq \in Word
      /\ i.immediate \in Word /\ i.immediate \in Int
      /\ program_counter \in Word /\ program_counter \in Int
      /\ read_register(i.source1) \in Word
      /\ read_register(i.source2) \in Word
      /\ EffectiveAddress(i) \in Word
  BY SequentialTyped, ReadRegisterTyped, EffectiveAddressTyped, WordIsInt
     DEF TypeOK, DecodedInstruction
<1>2. /\ NullOpt \in SUBSET DataMemoryAccess
      /\ NullOpt \in SUBSET ControlFlow
      /\ NullOpt \subseteq Word
  BY DEF NullOpt
<1>3. /\ WrapAdd(program_counter, i.immediate) \in Word
      /\ \A w \in Word : Some(w) \subseteq Word
  BY <1>1, AddClosed DEF Some
<1>4. ASSUME UNCHANGED bytes
      PROVE  bytes' \in Contents
  BY <1>4 DEF TypeOK
<1>5. Trapped("IllegalInstruction", raw) => TypeOK'
  BY TrappedTypeOK DEF TrapCauses
<1>. HIDE DEF seq
<1>lui. CASE ExecuteLui(raw, i)
  BY <1>lui, <1>1, <1>2, <1>3, <1>4, RetireTypeOK DEF ExecuteLui, seq
<1>auipc. CASE ExecuteAuipc(raw, i)
  BY <1>auipc, <1>1, <1>2, <1>3, <1>4, RetireTypeOK DEF ExecuteAuipc, seq
<1>opi. CASE ExecuteOpImmediate(raw, i)
  BY <1>opi, <1>1, OpImmediateClosed, RetireResultTypeOK DEF ExecuteOpImmediate
<1>op. CASE ExecuteOp(raw, i)
  BY <1>op, <1>1, OpClosed, RetireResultTypeOK DEF ExecuteOp
<1>jal. CASE ExecuteJal(raw, i)
  BY <1>jal, <1>1, <1>3, TransferTypeOK DEF ExecuteJal, seq
<1>jalr. CASE ExecuteJalr(raw, i)
  <2>2. ClearLowBit(WrapAdd(read_register(i.source1), i.immediate)) \in Word
    BY <1>1, ClearLowBitTyped DEF EffectiveAddress
  <2>. QED
    BY <1>jalr, <1>1, <1>3, <1>5, <2>2, TransferTypeOK DEF ExecuteJalr, seq
<1>branch. CASE ExecuteBranch(raw, i)
  <2>1. CASE TransferTo(i, WrapAdd(program_counter, i.immediate), NullOpt,
                        "ConditionalBranch")
    BY <2>1, <1>2, <1>3, TransferTypeOK
  <2>2. CASE /\ Retire(i, NullOpt, seq, NullOpt,
                       Some([kind |-> "ConditionalBranch", taken |-> FALSE]))
             /\ UNCHANGED bytes
    <3>1. Some([kind |-> "ConditionalBranch", taken |-> FALSE])
            \in SUBSET ControlFlow
      BY DEF Some, ControlFlow
    <3>. QED
      BY <2>2, <3>1, <1>1, <1>2, <1>4, RetireTypeOK
  <2>. QED
    BY <1>branch, <1>5, <2>1, <2>2 DEF ExecuteBranch, seq
<1>load. CASE ExecuteLoad(raw, i)
  <2>. DEFINE address == EffectiveAddress(i)
              width == data_access_width(i.function3)
  <2>1. CASE \/ Trapped("LoadAddressMisaligned", address)
             \/ Trapped("LoadAccessFault", address)
    BY <2>1, <1>1, TrappedTypeOK DEF TrapCauses
  <2>2. CASE /\ i.function3 \in {0, 1, 2, 4, 5}
             /\ LoadError(i) = {}
             /\ Retire(i, Some(LoadedValue(i.function3, address)), seq,
                       Some([kind |-> "Load", address |-> address,
                             width |-> width]),
                       NullOpt)
             /\ UNCHANGED bytes
    <3>1. width \in {1, 2, 4} /\ InBounds(address, width)
      <4>1. width \in {1, 2, 4}
        BY <2>2 DEF data_access_width
      <4>2. InBounds(address, width)
        BY <2>2, NoErrorInBounds DEF LoadError
      <4>. QED
        BY <4>1, <4>2
    <3>2. LoadedValue(i.function3, address) \in Word
      <4>1. bytes \in Contents /\ address \in Word
        BY <1>1 DEF TypeOK
      <4>2. CASE i.function3 \in {0, 4}
        <5>1. InBounds(address, 1)
          BY <4>2, <3>1 DEF data_access_width
        <5>2. /\ read8(bytes, address) \in Byte
              /\ read8(bytes, address) \in Word
              /\ sign_extend_byte(read8(bytes, address)) \in Word
          BY <5>1, <4>1, Read8Typed, SignExtendClosed, ByteIsWord
        <5>. QED
          BY <4>2, <5>2 DEF LoadedValue
      <4>3. CASE i.function3 \in {1, 5}
        <5>1. InBounds(address, 2)
          BY <4>3, <3>1 DEF data_access_width
        <5>2. /\ read16(bytes, address) \in Halfword
              /\ read16(bytes, address) \in Word
              /\ sign_extend_halfword(read16(bytes, address)) \in Word
          BY <5>1, <4>1, Read16Typed, SignExtendClosed, ByteIsWord
        <5>. QED
          BY <4>3, <5>2 DEF LoadedValue
      <4>4. CASE i.function3 = 2
        <5>1. InBounds(address, 4)
          BY <4>4, <3>1 DEF data_access_width
        <5>. QED
          BY <4>4, <5>1, <4>1, Read32Typed DEF LoadedValue
      <4>. QED
        BY <2>2, <4>2, <4>3, <4>4
    <3>. HIDE DEF address, width
    <3>3. Some([kind |-> "Load", address |-> address, width |-> width])
            \in SUBSET DataMemoryAccess
      BY <3>1, <1>1 DEF Some, DataMemoryAccess, address
    <3>. QED
      BY <2>2, <3>2, <3>3, <1>1, <1>2, <1>3, <1>4, RetireTypeOK
  <2>. QED
    BY <1>load, <1>5, <2>1, <2>2 DEF ExecuteLoad, seq
<1>store. CASE ExecuteStore(raw, i)
  <2>. DEFINE address == EffectiveAddress(i)
              width == data_access_width(i.function3)
              value == read_register(i.source2)
  <2>1. CASE \/ Trapped("StoreAddressMisaligned", address)
             \/ Trapped("StoreAccessFault", address)
    BY <2>1, <1>1, TrappedTypeOK DEF TrapCauses
  <2>2. CASE /\ i.function3 \in {0, 1, 2}
             /\ AccessError(address, width) = {}
             /\ bytes' = StoredBytes(width, address, value)
             /\ Retire(i, NullOpt, seq,
                       Some([kind |-> "Store", address |-> address,
                             width |-> width]),
                       NullOpt)
    <3>1. width \in {1, 2, 4} /\ InBounds(address, width)
      <4>1. width \in {1, 2, 4}
        BY <2>2 DEF data_access_width
      <4>2. InBounds(address, width)
        BY <2>2, NoErrorInBounds
      <4>. QED
        BY <4>1, <4>2
    <3>. HIDE DEF address, width, value
    <3>2. bytes \in Contents /\ address \in Word /\ value \in Word
      BY <1>1 DEF TypeOK, address, value
    <3>3. bytes' \in Contents
      BY <2>2, <3>1, <3>2, WritesTyped DEF StoredBytes
    <3>4. Some([kind |-> "Store", address |-> address, width |-> width])
            \in SUBSET DataMemoryAccess
      BY <3>1, <3>2 DEF Some, DataMemoryAccess
    <3>. QED
      BY <2>2, <3>3, <3>4, <1>1, <1>2, RetireTypeOK
  <2>. QED
    BY <1>store, <1>5, <2>1, <2>2 DEF ExecuteStore, seq
<1>misc. CASE ExecuteMiscMemory(raw, i)
  BY <1>misc, <1>1, <1>2, <1>4, <1>5, RetireTypeOK DEF ExecuteMiscMemory, seq
<1>system. CASE ExecuteSystem(raw, i)
  BY <1>system, <1>5, WordConstants, TrappedTypeOK DEF ExecuteSystem, TrapCauses
<1>. QED
  BY <1>lui, <1>auipc, <1>opi, <1>op, <1>jal, <1>jalr, <1>branch, <1>load,
     <1>store, <1>misc, <1>system DEF Execute

LEMMA StepTypeOK ==
    ASSUME TypeOK, EngineStep
    PROVE  TypeOK'
<1>1. CASE FetchMisaligned
  BY <1>1, TrappedTypeOK DEF FetchMisaligned, TrapCauses, TypeOK
<1>2. CASE FetchFault
  BY <1>2, TrappedTypeOK DEF FetchFault, TrapCauses, TypeOK
<1>3. CASE Undecodable
  BY <1>3, FetchedTyped, TrappedTypeOK DEF Undecodable, TrapCauses
<1>4. CASE \E raw \in Fetched : \E i \in Decode(raw) : Execute(raw, i)
  <2>1. PICK raw \in Fetched : \E i \in Decode(raw) : Execute(raw, i)
    BY <1>4
  <2>2. PICK i \in Decode(raw) : Execute(raw, i)
    BY <2>1
  <2>3. raw \in Word /\ i \in DecodedInstruction
    BY FetchedTyped
  <2>. QED
    BY <2>2, <2>3, ExecuteTypeOK
<1>. QED
  BY <1>1, <1>2, <1>3, <1>4 DEF EngineStep

(***************************************************************************)
(* The type invariant holds in every state of every machine: whatever the  *)
(* decoder returns, no step of the engine produces a register, a program   *)
(* counter or a byte out of range, reads outside the mapped region, or     *)
(* writes x0.                                                              *)
(***************************************************************************)
THEOREM MachineTypeInvariant == MachineSpec => []TypeOK
<1>1. MachineInit => TypeOK
  BY DEF MachineInit, TypeOK, StepResults
<1>2. TypeOK /\ [EngineStep]_machine_vars => TypeOK'
  <2>1. ASSUME TypeOK, UNCHANGED machine_vars
        PROVE  TypeOK'
    BY <2>1 DEF TypeOK, machine_vars
  <2>. QED
    BY <2>1, StepTypeOK
<1>. QED
  BY <1>1, <1>2, PTL DEF MachineSpec

-----------------------------------------------------------------------------
(***************************************************************************)
(* The shape of a step, from which the remaining theorems follow: it traps *)
(* with nothing committed, or it retires an instruction whose next program *)
(* counter is sequential or an aligned target observed as taken, and whose *)
(* memory access, if any, passed both checks of Memory.                    *)
(***************************************************************************)
Traps == \E cause \in TrapCauses, value \in Word : Trapped(cause, value)

CheckedAccess(a) ==
    /\ a.address \in Word
    /\ a.width \in {1, 2, 4}
    /\ Aligned(a.address, a.width)
    /\ InBounds(a.address, a.width)

RetiresAs(i, value, next, access, flow) ==
    /\ Retire(i, value, next, access, flow)
    /\ \/ next = SequentialProgramCounter
       \/ is_instruction_aligned(next) /\ \E c \in flow : c.taken
    /\ i.opcode \in {"Branch", "Store", "MiscMemory", "System"} => value = NullOpt
    /\ \A a \in access : CheckedAccess(a)
    /\ \/ /\ UNCHANGED bytes
          /\ \A a \in access : a.kind = "Load"
       \/ /\ i.opcode = "Store"
          /\ \E a \in access :
                /\ access = {a}
                /\ a.kind = "Store"
                /\ bytes' = StoredBytes(a.width, a.address,
                                        read_register(i.source2))

Retires ==
    \E i \in DecodedInstruction : \E value, next, access, flow :
        RetiresAs(i, value, next, access, flow)

LEMMA TransferShape ==
    ASSUME NEW i \in DecodedInstruction, NEW target \in Word, NEW link, NEW kind,
           TransferTo(i, target, link, kind),
           i.opcode \in {"Jal", "Jalr", "Branch"},
           i.opcode = "Branch" => link = NullOpt
    PROVE  Traps \/ Retires
<1>1. CASE Trapped("InstructionAddressMisaligned", target)
  BY <1>1 DEF Traps, TrapCauses
<1>2. CASE /\ is_instruction_aligned(target)
           /\ Retire(i, link, target, NullOpt, TakenFlow(kind))
           /\ UNCHANGED bytes
  <2>. DEFINE flow == TakenFlow(kind)
  <2>1. \E c \in flow : c.taken
    BY DEF TakenFlow, Some
  <2>. HIDE DEF flow
  <2>2. RetiresAs(i, link, target, NullOpt, flow)
    BY <1>2, <2>1 DEF RetiresAs, NullOpt, flow
  <2>. QED
    BY <2>2 DEF Retires
<1>. QED
  BY <1>1, <1>2 DEF TransferTo

LEMMA RetireResultShape ==
    ASSUME NEW raw \in Word, NEW i \in DecodedInstruction, NEW value,
           RetireResult(raw, i, value), i.opcode \in {"OpImmediate", "Op"}
    PROVE  Traps \/ Retires
<1>1. CASE Trapped("IllegalInstruction", raw)
  BY <1>1 DEF Traps, TrapCauses
<1>2. CASE /\ Retire(i, value, SequentialProgramCounter, NullOpt, NullOpt)
           /\ UNCHANGED bytes
  <2>1. RetiresAs(i, value, SequentialProgramCounter, NullOpt, NullOpt)
    BY <1>2 DEF RetiresAs, NullOpt
  <2>. QED
    BY <2>1 DEF Retires
<1>. QED
  BY <1>1, <1>2 DEF RetireResult

LEMMA ExecuteShape ==
    ASSUME TypeOK, NEW raw \in Word, NEW i \in DecodedInstruction, Execute(raw, i)
    PROVE  Traps \/ Retires
<1>. DEFINE seq == SequentialProgramCounter
<1>1. /\ i.immediate \in Int /\ program_counter \in Int
      /\ EffectiveAddress(i) \in Word
      /\ WrapAdd(program_counter, i.immediate) \in Word
  BY EffectiveAddressTyped, AddClosed, WordIsInt DEF TypeOK, DecodedInstruction
<1>2. Trapped("IllegalInstruction", raw) => Traps
  BY DEF Traps, TrapCauses
<1>3. ASSUME NEW value, Retire(i, value, seq, NullOpt, NullOpt), UNCHANGED bytes,
             i.opcode \in {"Lui", "Auipc"} \/ value = NullOpt
      PROVE  Retires
  <2>1. RetiresAs(i, value, seq, NullOpt, NullOpt)
    BY <1>3 DEF RetiresAs, NullOpt
  <2>. QED
    BY <2>1 DEF Retires
<1>. HIDE DEF seq
<1>lui. CASE ExecuteLui(raw, i)
  BY <1>lui, <1>3 DEF ExecuteLui, seq
<1>auipc. CASE ExecuteAuipc(raw, i)
  BY <1>auipc, <1>3 DEF ExecuteAuipc, seq
<1>opi. CASE ExecuteOpImmediate(raw, i)
  BY <1>opi, RetireResultShape DEF ExecuteOpImmediate
<1>op. CASE ExecuteOp(raw, i)
  BY <1>op, RetireResultShape DEF ExecuteOp
<1>jal. CASE ExecuteJal(raw, i)
  BY <1>jal, <1>1, TransferShape DEF ExecuteJal
<1>jalr. CASE ExecuteJalr(raw, i)
  <2>2. ClearLowBit(WrapAdd(read_register(i.source1), i.immediate)) \in Word
    BY <1>1, ClearLowBitTyped DEF EffectiveAddress
  <2>. QED
    BY <1>jalr, <1>2, <2>2, TransferShape DEF ExecuteJalr
<1>branch. CASE ExecuteBranch(raw, i)
  <2>1. CASE TransferTo(i, WrapAdd(program_counter, i.immediate), NullOpt,
                        "ConditionalBranch")
    BY <1>branch, <2>1, <1>1, TransferShape DEF ExecuteBranch
  <2>2. CASE /\ Retire(i, NullOpt, seq, NullOpt,
                       Some([kind |-> "ConditionalBranch", taken |-> FALSE]))
             /\ UNCHANGED bytes
    <3>. DEFINE flow == Some([kind |-> "ConditionalBranch", taken |-> FALSE])
    <3>. HIDE DEF flow
    <3>1. RetiresAs(i, NullOpt, seq, NullOpt, flow)
      BY <2>2 DEF RetiresAs, NullOpt, seq, flow
    <3>. QED
      BY <3>1 DEF Retires
  <2>. QED
    BY <1>branch, <1>2, <2>1, <2>2 DEF ExecuteBranch, seq
<1>load. CASE ExecuteLoad(raw, i)
  <2>. DEFINE address == EffectiveAddress(i)
              width == data_access_width(i.function3)
              a == [kind |-> "Load", address |-> address, width |-> width]
  <2>1. CASE \/ Trapped("LoadAddressMisaligned", address)
             \/ Trapped("LoadAccessFault", address)
    BY <2>1, <1>1 DEF Traps, TrapCauses
  <2>2. CASE /\ i.opcode = "Load"
             /\ i.function3 \in {0, 1, 2, 4, 5}
             /\ LoadError(i) = {}
             /\ Retire(i, Some(LoadedValue(i.function3, address)), seq, Some(a),
                       NullOpt)
             /\ UNCHANGED bytes
    <3>1. width \in {1, 2, 4}
      BY <2>2 DEF data_access_width
    <3>2. Aligned(address, width) /\ InBounds(address, width)
      BY <2>2, NoErrorInBounds DEF LoadError
    <3>3. CheckedAccess(a) /\ a.kind = "Load"
      BY <3>1, <3>2, <1>1 DEF CheckedAccess
    <3>. DEFINE v == Some(LoadedValue(i.function3, address))
    <3>. HIDE DEF a, v
    <3>4. RetiresAs(i, v, seq, Some(a), NullOpt)
      BY <2>2, <3>3 DEF RetiresAs, Some, seq, v
    <3>. QED
      BY <3>4 DEF Retires
  <2>. QED
    BY <1>load, <1>2, <2>1, <2>2 DEF ExecuteLoad, seq
<1>store. CASE ExecuteStore(raw, i)
  <2>. DEFINE address == EffectiveAddress(i)
              width == data_access_width(i.function3)
              value == read_register(i.source2)
              a == [kind |-> "Store", address |-> address, width |-> width]
  <2>1. CASE \/ Trapped("StoreAddressMisaligned", address)
             \/ Trapped("StoreAccessFault", address)
    BY <2>1, <1>1 DEF Traps, TrapCauses
  <2>2. CASE /\ i.opcode = "Store"
             /\ i.function3 \in {0, 1, 2}
             /\ AccessError(address, width) = {}
             /\ bytes' = StoredBytes(width, address, value)
             /\ Retire(i, NullOpt, seq, Some(a), NullOpt)
    <3>1. width \in {1, 2, 4}
      BY <2>2 DEF data_access_width
    <3>2. Aligned(address, width) /\ InBounds(address, width)
      BY <2>2, NoErrorInBounds
    <3>3. /\ CheckedAccess(a) /\ a.kind = "Store"
          /\ bytes' = StoredBytes(a.width, a.address, read_register(i.source2))
      BY <2>2, <3>1, <3>2, <1>1 DEF CheckedAccess
    <3>. HIDE DEF a
    <3>4. RetiresAs(i, NullOpt, seq, Some(a), NullOpt)
      BY <2>2, <3>3 DEF RetiresAs, Some, seq
    <3>. QED
      BY <3>4 DEF Retires
  <2>. QED
    BY <1>store, <1>2, <2>1, <2>2 DEF ExecuteStore, seq
<1>misc. CASE ExecuteMiscMemory(raw, i)
  BY <1>misc, <1>2, <1>3 DEF ExecuteMiscMemory, seq
<1>system. CASE ExecuteSystem(raw, i)
  BY <1>system, <1>2, WordConstants DEF ExecuteSystem, Traps, TrapCauses
<1>. QED
  BY <1>lui, <1>auipc, <1>opi, <1>op, <1>jal, <1>jalr, <1>branch, <1>load,
     <1>store, <1>misc, <1>system DEF Execute

LEMMA StepShape ==
    ASSUME TypeOK, EngineStep
    PROVE  Traps \/ Retires
<1>1. CASE FetchMisaligned
  BY <1>1 DEF FetchMisaligned, TrapCauses, TypeOK, Traps
<1>2. CASE FetchFault
  BY <1>2 DEF FetchFault, TrapCauses, TypeOK, Traps
<1>3. CASE Undecodable
  BY <1>3, FetchedTyped DEF Undecodable, TrapCauses, Traps
<1>4. CASE \E raw \in Fetched : \E i \in Decode(raw) : Execute(raw, i)
  <2>1. PICK raw \in Fetched : \E i \in Decode(raw) : Execute(raw, i)
    BY <1>4
  <2>2. PICK i \in Decode(raw) : Execute(raw, i)
    BY <2>1
  <2>3. raw \in Word /\ i \in DecodedInstruction
    BY FetchedTyped
  <2>. QED
    BY <2>2, <2>3, ExecuteShape
<1>. QED
  BY <1>1, <1>2, <1>3, <1>4 DEF EngineStep

-----------------------------------------------------------------------------
(***************************************************************************)
(* Alignment of the program counter.                                       *)
(***************************************************************************)
LEMMA SequentialAligned ==
    ASSUME NEW w \in Word, w % 4 = 0
    PROVE  WrapAdd(w, 4) % 4 = 0
<1>1. WordValues \in Nat /\ WordValues % 4 = 0 /\ WordValues >= 4
  BY WordSizes
<1>2. w \in 0 .. (WordValues - 1)
  BY DEF Word
<1>3. CASE w + 4 < WordValues
  BY <1>1, <1>2, <1>3 DEF WrapAdd
<1>4. CASE w + 4 >= WordValues
  <2>1. (w + 4) % WordValues = w + 4 - WordValues
    BY <1>1, <1>2, <1>4
  <2>. QED
    BY <1>1, <1>2, <1>4, <2>1 DEF WrapAdd
<1>. QED
  BY <1>1, <1>2, <1>3, <1>4

(***************************************************************************)
(* No step misaligns the program counter: JAL, JALR and taken branches     *)
(* check their target and sequential execution wraps on a word boundary.   *)
(***************************************************************************)
THEOREM AlignmentIsKept == MachineSpec => AlignmentKept
<1>1. ASSUME TypeOK, [EngineStep]_machine_vars,
             is_instruction_aligned(program_counter)
      PROVE  is_instruction_aligned(program_counter')
  <2>1. CASE UNCHANGED machine_vars
    BY <1>1, <2>1 DEF machine_vars
  <2>2. CASE Traps
    BY <1>1, <2>2 DEF Traps, Trapped, architecture
  <2>3. CASE Retires
    <3>0. PICK i \in DecodedInstruction : \E value, next, access, flow :
              RetiresAs(i, value, next, access, flow)
      BY <2>3 DEF Retires
    <3>1. PICK value, next, access, flow : RetiresAs(i, value, next, access, flow)
      BY <3>0
    <3>2. program_counter' = next
      BY <3>1 DEF RetiresAs, Retire
    <3>3. is_instruction_aligned(SequentialProgramCounter)
      BY <1>1, SequentialAligned
         DEF is_instruction_aligned, SequentialProgramCounter, TypeOK
    <3>. QED
      BY <3>1, <3>2, <3>3 DEF RetiresAs
  <2>. QED
    BY <1>1, <2>1, <2>2, <2>3, StepShape
<1>2. TypeOK /\ [EngineStep]_machine_vars
        => [is_instruction_aligned(program_counter)
              => is_instruction_aligned(program_counter')]_machine_vars
  BY <1>1
<1>. QED
  BY <1>2, MachineTypeInvariant, PTL DEF MachineSpec, AlignmentKept

(***************************************************************************)
(* Bytes outside a store's window are not changed by it.                   *)
(***************************************************************************)
LEMMA StoreFrame ==
    ASSUME NEW b \in Contents, NEW o \in Offsets, NEW address \in Word,
           NEW value, NEW width \in {1, 2, 4},
           BaseAddress + o \notin address .. (address + width - 1)
    PROVE  /\ width = 1 => write8(b, address, value)[o] = b[o]
           /\ width = 2 => write16(b, address, value)[o] = b[o]
           /\ width = 4 => write32(b, address, value)[o] = b[o]
<1>1. address \in Int /\ BaseAddress \in Int /\ o \in Int
  BY RegionAssumption, WordIsInt DEF Offsets
<1>2. \A k \in 0 .. (width - 1) : o # Offset(address) + k
  BY <1>1 DEF Offset
<1>3. Offset(address) \in Int
  BY <1>1 DEF Offset
<1>4. CASE width = 1
  BY <1>2, <1>3, <1>4 DEF write8, Contents
<1>5. CASE width = 2
  <2>1. o # Offset(address) /\ o # Offset(address) + 1
    BY <1>2, <1>3, <1>5
  <2>. QED
    BY <2>1, <1>5 DEF write16, Contents
<1>6. CASE width = 4
  <2>1. /\ o # Offset(address) /\ o # Offset(address) + 1
        /\ o # Offset(address) + 2 /\ o # Offset(address) + 3
    BY <1>2, <1>3, <1>6
  <2>. QED
    BY <2>1, <1>6 DEF write32, Contents
<1>. QED
  BY <1>4, <1>5, <1>6

(***************************************************************************)
(* Traps are precise and the observation of a completed instruction names  *)
(* every register and every byte it changed.                               *)
(***************************************************************************)
THEOREM StepsArePrecise == MachineSpec => PreciseSteps
<1>1. ASSUME TypeOK, EngineStep
      PROVE  AccountedStep
  <2>1. CASE Traps
    <3>1. PICK cause \in TrapCauses, value \in Word : Trapped(cause, value)
      BY <2>1 DEF Traps
    <3>2. step_result'.kind = "Trap"
      BY <3>1 DEF Trapped, Trap
    <3>. QED
      BY <3>1, <3>2 DEF Trapped, Trap, AccountedStep
  <2>2. CASE Retires
    <3>0. PICK i \in DecodedInstruction : \E value, next, access, flow :
              RetiresAs(i, value, next, access, flow)
      BY <2>2 DEF Retires
    <3>1. PICK value, next, access, flow : RetiresAs(i, value, next, access, flow)
      BY <3>0
    <3>2. /\ step_result'.kind = "Completed"
          /\ step_result'.program_counter = program_counter
          /\ step_result'.next_program_counter = program_counter'
          /\ step_result'.instruction = i
          /\ step_result'.data_memory_access = access
      BY <3>1 DEF RetiresAs, Retire, ExecutionObservation
    <3>3. ASSUME NEW r \in Registers, registers'[r] # registers[r]
          PROVE  /\ r = i.destination
                 /\ i.opcode \notin {"Branch", "Store", "MiscMemory", "System"}
      <4>1. value # NullOpt
        BY <3>1, <3>3 DEF RetiresAs, Retire
      <4>2. registers' = write_register(i.destination, CHOOSE v \in value : TRUE)
        BY <3>1, <4>1 DEF RetiresAs, Retire
      <4>3. r = i.destination
        BY <1>1, <3>3, <4>2 DEF write_register, TypeOK
      <4>. QED
        BY <3>1, <4>1, <4>3 DEF RetiresAs
    <3>4. ASSUME NEW o \in Offsets, bytes'[o] # bytes[o]
          PROVE  \E a \in access :
                     /\ a.kind = "Store"
                     /\ BaseAddress + o \in a.address .. (a.address + a.width - 1)
      <4>1. PICK a \in access :
                /\ a.kind = "Store"
                /\ bytes' = StoredBytes(a.width, a.address, read_register(i.source2))
                /\ CheckedAccess(a)
        BY <3>1, <3>4 DEF RetiresAs
      <4>2. a.address \in Word /\ a.width \in {1, 2, 4} /\ bytes \in Contents
        BY <1>1, <4>1 DEF CheckedAccess, TypeOK
      <4>3. BaseAddress + o \in a.address .. (a.address + a.width - 1)
        <5>1. SUFFICES ASSUME BaseAddress + o
                                \notin a.address .. (a.address + a.width - 1)
                       PROVE  FALSE
          OBVIOUS
        <5>2. bytes'[o] = bytes[o]
          BY <4>1, <4>2, <5>1, StoreFrame DEF StoredBytes
        <5>. QED
          BY <5>2, <3>4
      <4>. QED
        BY <4>1, <4>3
    <3>5. step_result'.kind # "Trap"
      BY <3>2
    <3>. QED
      BY <3>2, <3>3, <3>4, <3>5 DEF AccountedStep
  <2>. QED
    BY <1>1, <2>1, <2>2, StepShape
<1>2. TypeOK /\ [EngineStep]_machine_vars => [AccountedStep]_machine_vars
  BY <1>1
<1>. QED
  BY <1>2, MachineTypeInvariant, PTL DEF MachineSpec, PreciseSteps

(***************************************************************************)
(* The observer learns of every discontinuity: a completed step whose next *)
(* program counter is not the next word's reports taken control flow.      *)
(***************************************************************************)
THEOREM ControlFlowIsObserved == MachineSpec => ControlFlowObserved
<1>. DEFINE P == (step_result'.kind = "Completed"
                    /\ program_counter' # SequentialProgramCounter)
                   => \E c \in step_result'.control_flow : c.taken
<1>1. ASSUME TypeOK, EngineStep
      PROVE  P
  <2>1. CASE Traps
    BY <2>1 DEF Traps, Trapped, Trap
  <2>2. CASE Retires
    <3>0. PICK i \in DecodedInstruction : \E value, next, access, flow :
              RetiresAs(i, value, next, access, flow)
      BY <2>2 DEF Retires
    <3>1. PICK value, next, access, flow : RetiresAs(i, value, next, access, flow)
      BY <3>0
    <3>2. step_result'.control_flow = flow /\ program_counter' = next
      BY <3>1 DEF RetiresAs, Retire, ExecutionObservation
    <3>. QED
      BY <3>1, <3>2 DEF RetiresAs
  <2>. QED
    BY <1>1, <2>1, <2>2, StepShape
<1>2. TypeOK /\ [EngineStep]_machine_vars => [P]_machine_vars
  BY <1>1
<1>. QED
  BY <1>2, MachineTypeInvariant, PTL DEF MachineSpec, ControlFlowObserved

(***************************************************************************)
(* One line per access.                                                    *)
(***************************************************************************)
LEMMA CheckedAccessInOneWord ==
    ASSUME NEW a, CheckedAccess(a)
    PROVE  /\ a.address >= BaseAddress
           /\ a.address + a.width <= EndAddressExclusive
           /\ a.address \div 4 = (a.address + a.width - 1) \div 4
<1>. DEFINE address == a.address
            width == a.width
<1>1. /\ address \in Nat /\ BaseAddress \in Nat /\ SizeBytes \in Nat
      /\ width \in {1, 2, 4}
      /\ address % width = 0
      /\ InBounds(address, width)
  BY RegionAssumption, WordIsInt DEF CheckedAccess, Aligned
<1>. HIDE DEF address, width
<1>2. address >= BaseAddress /\ address + width <= EndAddressExclusive
  BY <1>1 DEF InBounds, EndAddressExclusive
<1>3. address \div 4 = (address + width - 1) \div 4
  BY <1>1
<1>. QED
  BY <1>2, <1>3 DEF address, width

(***************************************************************************)
(* Every observed load and store is mapped and lies in one aligned word,   *)
(* which is what the cache model's one lookup per access relies on.        *)
(***************************************************************************)
THEOREM AccessesAreOneLine == MachineSpec => []OneLinePerAccess
<1>1. MachineInit => OneLinePerAccess
  BY DEF MachineInit, NoResult, OneLinePerAccess
<1>2. ASSUME TypeOK, OneLinePerAccess, [EngineStep]_machine_vars
      PROVE  OneLinePerAccess'
  <2>1. CASE UNCHANGED machine_vars
    BY <1>2, <2>1 DEF machine_vars, OneLinePerAccess
  <2>2. CASE Traps
    BY <2>2 DEF Traps, Trapped, Trap, OneLinePerAccess
  <2>3. CASE Retires
    <3>0. PICK i \in DecodedInstruction : \E value, next, access, flow :
              RetiresAs(i, value, next, access, flow)
      BY <2>3 DEF Retires
    <3>1. PICK value, next, access, flow : RetiresAs(i, value, next, access, flow)
      BY <3>0
    <3>2. step_result'.data_memory_access = access
      BY <3>1 DEF RetiresAs, Retire, ExecutionObservation
    <3>3. \A a \in access : CheckedAccess(a)
      BY <3>1 DEF RetiresAs
    <3>. QED
      BY <3>2, <3>3, CheckedAccessInOneWord DEF OneLinePerAccess
  <2>. QED
    BY <1>2, <2>1, <2>2, <2>3, StepShape
<1>. QED
  BY <1>1, <1>2, MachineTypeInvariant, PTL DEF MachineSpec

(***************************************************************************)
(* A store reads back.                                                     *)
(***************************************************************************)
\* The two low digits of v in base n are v modulo n * n.
LEMMA TwoDigitsOf ==
    ASSUME NEW v \in Nat, NEW n \in Nat \ {0}
    PROVE  (v % n) + n * ((v \div n) % n) = v % (n * n)
<1>. DEFINE q == v \div n
            low == v % n
            q2 == q \div n
            high == q % n
<1>1. q \in Nat /\ low \in 0 .. (n - 1) /\ v = n * q + low
  OBVIOUS
<1>2. q2 \in Nat /\ high \in 0 .. (n - 1) /\ q = n * q2 + high
  BY <1>1
<1>. HIDE DEF q, low, q2, high
<1>3. n * q = (n * n) * q2 + n * high
  BY <1>1, <1>2
<1>4. v = (n * n) * q2 + (low + n * high)
  BY <1>1, <1>2, <1>3
<1>5. low + n * high \in 0 .. (n * n - 1) /\ n * n \in Nat \ {0}
  BY <1>1, <1>2, TwoDigits
<1>6. v % (n * n) = low + n * high
  BY <1>2, <1>4, <1>5, ModUnique
<1>. QED
  BY <1>6 DEF low, high, q

LEMMA WriteThenRead ==
    ASSUME NEW b \in Contents, NEW address \in Word, NEW value \in Word
    PROVE  /\ InBounds(address, 1) =>
                 read8(write8(b, address, value), address) = value % ByteValues
           /\ InBounds(address, 2) =>
                 read16(write16(b, address, value), address) = value % HalfwordValues
           /\ InBounds(address, 4) =>
                 read32(write32(b, address, value), address) = value % WordValues
<1>. DEFINE o == Offset(address)
<1>0. value \in Nat
  BY WordIsInt
<1>1. ASSUME InBounds(address, 1)
      PROVE  read8(write8(b, address, value), address) = value % ByteValues
  <2>1. o \in Nat /\ o + 0 \in Offsets
    BY <1>1, InBoundsOffsets
  <2>2. o \in Offsets
    BY <2>1
  <2>. QED
    BY <2>2 DEF read8, write8, Contents
<1>2. ASSUME InBounds(address, 2)
      PROVE  read16(write16(b, address, value), address) = value % HalfwordValues
  <2>1. o \in Nat /\ o + 0 \in Offsets /\ o + 1 \in Offsets
    BY <1>2, InBoundsOffsets
  <2>2. o \in Offsets /\ o # o + 1
    BY <2>1
  <2>3. read16(write16(b, address, value), address)
          = (value % ByteValues) + ByteValues * ((value \div ByteValues) % ByteValues)
    BY <2>1, <2>2 DEF read16, write16, Contents
  <2>. QED
    BY <1>0, <2>3, TwoDigitsOf, WordSizes DEF HalfwordValues
<1>4. ASSUME InBounds(address, 4)
      PROVE  read32(write32(b, address, value), address) = value % WordValues
  <2>. DEFINE B == ByteValues
              H == HalfwordValues
              d0 == value % B
              d1 == (value \div B) % B
              d2 == (value \div H) % B
              d3 == (value \div (H * B)) % B
  <2>1. /\ o \in Nat /\ o + 0 \in Offsets
        /\ o + 1 \in Offsets /\ o + 2 \in Offsets /\ o + 3 \in Offsets
    BY <1>4, InBoundsOffsets
  <2>2. /\ o \in Offsets
        /\ o # o + 1 /\ o # o + 2 /\ o # o + 3
        /\ o + 1 # o + 2 /\ o + 1 # o + 3 /\ o + 2 # o + 3
    BY <2>1
  <2>3. read32(write32(b, address, value), address)
          = d0 + B * d1 + H * d2 + H * B * d3
    BY <2>1, <2>2 DEF read32, write32, Contents
  <2>4. B \in Nat \ {0} /\ H \in Nat \ {0} /\ H = B * B /\ WordValues = H * H
    BY WordSizes DEF HalfwordValues, WordValues
  <2>5. value \div H \in Nat
    BY <1>0, <2>4
  <2>6. d0 + B * d1 = value % H
    BY <1>0, <2>4, TwoDigitsOf
  <2>7. d2 + B * d3 = (value \div H) % H
    <3>1. (value \div H) \div B = value \div (H * B)
      BY <1>0, <2>4, DivDiv
    <3>. QED
      BY <2>4, <2>5, <3>1, TwoDigitsOf
  <2>8. (value % H) + H * ((value \div H) % H) = value % WordValues
    BY <1>0, <2>4, TwoDigitsOf
  <2>9. /\ d0 \in Int /\ d1 \in Int /\ d2 \in Int /\ d3 \in Int
    <3>1. H * B \in Nat \ {0}
      BY <2>4
    <3>2. value \div B \in Int /\ value \div (H * B) \in Int
      BY <1>0, <2>4, <3>1
    <3>. QED
      BY <1>0, <2>4, <2>5, <3>2
  <2>. HIDE DEF B, H, d0, d1, d2, d3
  <2>10. H * (d2 + B * d3) = H * d2 + H * B * d3
    BY <2>4, <2>9
  <2>11. B * d1 \in Int /\ H * d2 \in Int /\ H * B * d3 \in Int
    BY <2>4, <2>9
  <2>. QED
    BY <2>3, <2>6, <2>7, <2>8, <2>9, <2>10, <2>11
<1>. QED
  BY <1>1, <1>2, <1>4

(***************************************************************************)
(* A load at the address and width of the store just executed returns the  *)
(* low bytes of the stored register: the little-endian split of write16    *)
(* and write32 and the join of read16 and read32 are inverses.             *)
(***************************************************************************)
THEOREM StoresAreReadBack == MachineSpec => []StoresReadBack
<1>1. MachineInit => StoresReadBack
  BY DEF MachineInit, NoResult, StoresReadBack
<1>2. ASSUME TypeOK, StoresReadBack, [EngineStep]_machine_vars
      PROVE  StoresReadBack'
  <2>1. CASE UNCHANGED machine_vars
    BY <1>2, <2>1 DEF machine_vars, StoresReadBack, ReadBack, read_register
  <2>2. CASE Traps
    BY <2>2 DEF Traps, Trapped, Trap, StoresReadBack
  <2>3. CASE Retires
    <3>0. PICK i \in DecodedInstruction : \E value, next, access, flow :
              RetiresAs(i, value, next, access, flow)
      BY <2>3 DEF Retires
    <3>1. PICK value, next, access, flow : RetiresAs(i, value, next, access, flow)
      BY <3>0
    <3>2. /\ step_result'.data_memory_access = access
          /\ step_result'.instruction = i
      BY <3>1 DEF RetiresAs, Retire, ExecutionObservation
    <3>3. ASSUME NEW a \in access, a.kind = "Store"
          PROVE  ReadBack(a)' = read_register(i.source2)' % WidthValues(a.width)
      <4>1. /\ i.opcode = "Store" /\ access = {a} /\ CheckedAccess(a)
            /\ bytes' = StoredBytes(a.width, a.address, read_register(i.source2))
        BY <3>1, <3>3 DEF RetiresAs
      <4>2. registers' = registers
        BY <3>1, <4>1 DEF RetiresAs, Retire
      <4>3. read_register(i.source2)' = read_register(i.source2)
        BY <4>2 DEF read_register
      <4>4. read_register(i.source2) \in Word /\ bytes \in Contents
        BY <1>2, ReadRegisterTyped DEF DecodedInstruction, TypeOK
      <4>5. a.address \in Word /\ a.width \in {1, 2, 4} /\ InBounds(a.address, a.width)
        BY <4>1 DEF CheckedAccess
      <4>6. CASE a.width = 1
        BY <4>1, <4>3, <4>4, <4>5, <4>6, WriteThenRead
           DEF ReadBack, StoredBytes, WidthValues
      <4>7. CASE a.width = 2
        BY <4>1, <4>3, <4>4, <4>5, <4>7, WriteThenRead
           DEF ReadBack, StoredBytes, WidthValues
      <4>8. CASE a.width = 4
        BY <4>1, <4>3, <4>4, <4>5, <4>8, WriteThenRead
           DEF ReadBack, StoredBytes, WidthValues
      <4>. QED
        BY <4>5, <4>6, <4>7, <4>8
    <3>. QED
      BY <3>2, <3>3 DEF StoresReadBack
  <2>. QED
    BY <1>2, <2>1, <2>2, <2>3, StepShape
<1>. QED
  BY <1>1, <1>2, MachineTypeInvariant, PTL DEF MachineSpec
=============================================================================
