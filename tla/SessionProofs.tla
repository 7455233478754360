--------------------------- MODULE SessionProofs ---------------------------
(***************************************************************************)
(* What one ProgramSession::step does, for every program, environment and  *)
(* memory region.  The batch run and the debugger both drive the session   *)
(* through this step, so their theorems rest on these lemmas.              *)
(***************************************************************************)
EXTENDS ProgramSession, MachineProofs, SequenceTheorems

-----------------------------------------------------------------------------
(***************************************************************************)
(* The answers of an environment.                                          *)
(***************************************************************************)
EnvironmentCallResults ==
    [kind : {"Resume"}, return_value : Word]
    \cup [kind : {"Exit"}, exit_code : Word]
    \cup [kind : {"NotHandled"}]

(***************************************************************************)
(* What the outcome of a resumed write may be: AccountedWrite of the       *)
(* handler's answer, before the session has acted on it.                   *)
(***************************************************************************)
Hands(call, outcome, count) ==
    /\ outcome.stream = call.arguments[0]
    /\ outcome.delivered = read_span(bytes, call.arguments[1], count)

WriteSize(call) ==
    IF call.arguments[2] < kMaximumWriteSize THEN call.arguments[2]
    ELSE kMaximumWriteSize

WritableCall(call) ==
    call.arguments[0] \in OutputStreams /\ InBounds(call.arguments[1], WriteSize(call))

WriteAnswer(call, outcome, returned) ==
    \/ /\ WritableCall(call)
       /\ returned \in 1 .. WriteSize(call)
       /\ Hands(call, outcome, returned)
    \/ /\ outcome.delivered = << >>
       /\ \/ returned = 0 /\ call.arguments[2] = 0
          \/ /\ returned = error_return(kErrorBadFileDescriptor)
             /\ call.arguments[0] \notin OutputStreams
          \/ /\ returned = error_return(kErrorFault)
             /\ ~ InBounds(call.arguments[1], WriteSize(call))
          \/ returned = error_return(kErrorIo) /\ WritableCall(call)
    \/ /\ returned = error_return(kErrorIo)
       /\ WritableCall(call)
       /\ call.arguments[0] \in ThrowingStreams
       /\ \E taken \in 1 .. WriteSize(call) : Hands(call, outcome, taken)

ResumesWrite(call, outcome) ==
    call.number = kWrite /\ outcome.result.kind = "Resume"

WellFormedOutcome(call, outcome) ==
    /\ outcome.result \in EnvironmentCallResults
    /\ outcome.stream \in OutputStreams
    /\ outcome.delivered \in Seq(Byte)
    /\ IF ResumesWrite(call, outcome)
       THEN WriteAnswer(call, outcome, outcome.result.return_value)
       ELSE outcome.delivered = << >>

LEMMA ErrorReturnTyped ==
    ASSUME NEW n \in Int
    PROVE  EnvironmentCallResume(error_return(n)) \in EnvironmentCallResults
<1>1. error_return(n) \in Word
  BY AddClosed DEF error_return
<1>. QED
  BY <1>1 DEF EnvironmentCallResume, EnvironmentCallResults

LEMMA SilentIsWellFormed ==
    ASSUME NEW call, NEW result \in EnvironmentCallResults,
           call.number # kWrite \/ result.kind # "Resume"
    PROVE  WellFormedOutcome(call, Silent(result))
BY DEF Silent, WellFormedOutcome, OutputStreams, ResumesWrite

\* A silent answer to a write is an error of its arguments, or an empty write.
LEMMA SilentWrite ==
    ASSUME NEW call, NEW returned,
           EnvironmentCallResume(returned) \in EnvironmentCallResults,
           \/ returned = 0 /\ call.arguments[2] = 0
           \/ /\ returned = error_return(kErrorBadFileDescriptor)
              /\ call.arguments[0] \notin OutputStreams
           \/ /\ returned = error_return(kErrorFault)
              /\ ~ InBounds(call.arguments[1], WriteSize(call))
    PROVE  WellFormedOutcome(call, Silent(EnvironmentCallResume(returned)))
<1>. DEFINE outcome == Silent(EnvironmentCallResume(returned))
<1>1. /\ outcome.result = EnvironmentCallResume(returned)
      /\ outcome.stream \in OutputStreams
      /\ outcome.delivered = << >>
      /\ outcome.delivered \in Seq(Byte)
  BY DEF Silent, OutputStreams
<1>2. outcome.result.kind = "Resume" /\ outcome.result.return_value = returned
  BY <1>1 DEF EnvironmentCallResume
<1>. HIDE DEF outcome
<1>3. WriteAnswer(call, outcome, returned)
  BY <1>1 DEF WriteAnswer
<1>4. WellFormedOutcome(call, outcome)
  BY <1>1, <1>2, <1>3 DEF WellFormedOutcome
<1>. QED
  BY <1>4 DEF outcome

\* A span inside the region is a sequence of bytes.
LEMMA SpanTyped ==
    ASSUME NEW b \in Contents, NEW address \in Word, NEW width \in Nat,
           InBounds(address, width)
    PROVE  /\ read_span(b, address, width) \in Seq(Byte)
           /\ Len(read_span(b, address, width)) = width
<1>1. ASSUME NEW i \in 1 .. width
      PROVE  b[Offset(address) + i - 1] \in Byte
  <2>1. width \in Nat \ {0} /\ i - 1 \in 0 .. (width - 1)
    OBVIOUS
  <2>2. Offset(address) + (i - 1) \in Offsets /\ Offset(address) \in Nat
    BY <2>1, InBoundsOffsets
  <2>3. Offset(address) + (i - 1) = Offset(address) + i - 1
    BY <2>2
  <2>. QED
    BY <2>2, <2>3 DEF Contents
<1>2. read_span(b, address, width) \in [1 .. width -> Byte]
  BY <1>1 DEF read_span
<1>. QED
  BY <1>2

\* A prefix of a span is the shorter span at the same address.
LEMMA SpanPrefix ==
    ASSUME NEW b \in Contents, NEW address \in Word, NEW width \in Nat,
           NEW n \in 0 .. width, InBounds(address, width)
    PROVE  SubSeq(read_span(b, address, width), 1, n) = read_span(b, address, n)
<1>1. InBounds(address, n)
  <2>1. address \in Int /\ BaseAddress \in Int /\ SizeBytes \in Nat
    BY RegionAssumption, WordIsInt
  <2>. QED
    BY <2>1 DEF InBounds
<1>. DEFINE long == read_span(b, address, width)
            short == read_span(b, address, n)
<1>2. long \in Seq(Byte) /\ Len(long) = width /\ short \in Seq(Byte) /\ Len(short) = n
  BY <1>1, SpanTyped
<1>3. \A i \in 1 .. n : long[i] = short[i]
  BY DEF read_span
<1>. HIDE DEF long, short
<1>4. SubSeq(long, 1, n) \in Seq(Byte) /\ Len(SubSeq(long, 1, n)) = n
  BY <1>2
<1>5. \A i \in 1 .. n : SubSeq(long, 1, n)[i] = short[i]
  BY <1>2, <1>3
<1>6. SubSeq(long, 1, n) = short
  BY <1>2, <1>4, <1>5, SeqEqual
<1>. QED
  BY <1>6 DEF long, short

-----------------------------------------------------------------------------
(***************************************************************************)
(* Every outcome of the two environments is well formed: StreamOutputSink  *)
(* hands the host a prefix of the guest's bytes and handle_write returns   *)
(* its length, and every other path through the handlers is silent.        *)
(***************************************************************************)
LEMMA CapturedCallTyped ==
    ASSUME TypeOK
    PROVE  CapturedCall \in EnvironmentCalls
<1>1. kEnvironmentCallNumberRegister \in Registers
  BY SessionAssumption
<1>2. \A k \in ArgumentIndices : kReturnValueRegister + k \in Registers
  BY SessionAssumption, RegisterAssumption DEF Registers, ArgumentIndices
<1>3. \A k \in ArgumentIndices : read_register(kReturnValueRegister + k) \in Word
  BY <1>2, ReadRegisterTyped
<1>4. read_register(kEnvironmentCallNumberRegister) \in Word
  BY <1>1, ReadRegisterTyped
<1>5. program_counter \in Word
  BY DEF TypeOK
<1>. QED
  BY <1>3, <1>4, <1>5 DEF CapturedCall, EnvironmentCalls

\* The sink's answer: a failure took nothing, a success or a throw a prefix.
LEMMA SinkWriteShape ==
    ASSUME NEW stream, NEW size \in Nat, NEW sink \in SinkWrite(stream, size)
    PROVE  /\ sink.bytes_written \in 0 .. size
           /\ sink.kind = "Completed" => sink.bytes_written # 0
           /\ sink.kind # "Completed" /\ stream \notin ThrowingStreams =>
                 sink.bytes_written = 0
<1>1. CASE \E taken \in IF stream \in ThrowingStreams THEN sputn(size) ELSE {0} :
               sink = [kind |-> "Thrown", bytes_written |-> taken]
  BY <1>1 DEF sputn
<1>2. CASE \E written \in sputn(size) :
               sink = IF written <= 0 \/ written > size THEN OutputWriteFailed
                      ELSE OutputWriteCompleted(written)
  BY <1>2 DEF sputn, OutputWriteFailed, OutputWriteCompleted
<1>. QED
  BY <1>1, <1>2 DEF SinkWrite

LEMMA WriteOutcome ==
    ASSUME TypeOK, NEW call \in EnvironmentCalls, call.number = kWrite,
           NEW outcome \in handle_write(call, bytes)
    PROVE  WellFormedOutcome(call, outcome)
<1>. DEFINE descriptor == call.arguments[0]
            address == call.arguments[1]
            requested == call.arguments[2]
            size == WriteSize(call)
            Error(number) == Silent(EnvironmentCallResume(error_return(number)))
<1>1. address \in Word /\ requested \in Word /\ bytes \in Contents
  BY DEF EnvironmentCalls, ArgumentIndices, TypeOK
<1>2. size \in 0 .. requested /\ size \in Nat
  BY <1>1, WordIsInt, WriteSizeAssumption DEF WriteSize
<1>3. CASE descriptor \notin OutputStreams /\ outcome = Error(kErrorBadFileDescriptor)
  BY <1>3, ErrorReturnTyped, SilentWrite DEF kErrorBadFileDescriptor
<1>4. CASE ~ InBounds(address, size) /\ outcome = Error(kErrorFault)
  BY <1>4, ErrorReturnTyped, SilentWrite DEF kErrorFault
<1>5. CASE requested = 0 /\ outcome = Silent(EnvironmentCallResume(0))
  <2>1. EnvironmentCallResume(0) \in EnvironmentCallResults
    BY WordConstants DEF EnvironmentCallResume, EnvironmentCallResults
  <2>. QED
    BY <1>5, <2>1, SilentWrite
<1>6. CASE /\ descriptor \in OutputStreams
           /\ InBounds(address, size)
           /\ \E sink \in SinkWrite(descriptor, size) :
                 outcome = [result |-> WriteResult(sink, size),
                            stream |-> descriptor,
                            delivered |-> SubSeq(read_span(bytes, address, size),
                                                 1, sink.bytes_written)]
  <2>0. WritableCall(call)
    BY <1>6 DEF WritableCall
  <2>. HIDE DEF size
  <2>1. PICK sink \in SinkWrite(descriptor, size) :
            outcome = [result |-> WriteResult(sink, size),
                       stream |-> descriptor,
                       delivered |-> SubSeq(read_span(bytes, address, size),
                                            1, sink.bytes_written)]
    BY <1>6
  <2>2. /\ sink.bytes_written \in 0 .. size
        /\ sink.kind = "Completed" => sink.bytes_written # 0
        /\ sink.kind # "Completed" /\ descriptor \notin ThrowingStreams =>
              sink.bytes_written = 0
    BY <1>2, SinkWriteShape
  <2>3. outcome.delivered = read_span(bytes, address, sink.bytes_written)
    BY <2>1, <2>2, <1>1, <1>2, <1>6, SpanPrefix
  <2>4. outcome.delivered \in Seq(Byte)
    <3>1. InBounds(address, sink.bytes_written)
      <4>1. address \in Int /\ BaseAddress \in Int /\ SizeBytes \in Nat
        BY <1>1, RegionAssumption, WordIsInt
      <4>. QED
        BY <4>1, <1>2, <1>6, <2>2 DEF InBounds
    <3>. QED
      BY <2>2, <2>3, <3>1, <1>1, <1>2, SpanTyped
  <2>5. Hands(call, outcome, sink.bytes_written)
    BY <2>1, <2>3 DEF Hands
  <2>6. outcome.stream \in OutputStreams
    BY <2>1, <1>6
  <2>7. CASE sink.kind = "Completed"
    <3>1. outcome.result = EnvironmentCallResume(sink.bytes_written)
      BY <2>1, <2>2, <2>7, <1>2 DEF WriteResult
    <3>2. sink.bytes_written \in Word
      <4>1. sink.bytes_written \in 0 .. requested
        BY <1>1, <1>2, <2>2, WordIsInt
      <4>. QED
        BY <4>1, <1>1, WordDownwardClosed
    <3>3. outcome.result \in EnvironmentCallResults
      BY <3>1, <3>2 DEF EnvironmentCallResume, EnvironmentCallResults
    <3>4. sink.bytes_written \in 1 .. size
      BY <2>2, <2>7, <1>2
    <3>5. WriteAnswer(call, outcome, sink.bytes_written)
      BY <2>0, <2>5, <3>4 DEF WriteAnswer, size
    <3>6. outcome.result.return_value = sink.bytes_written
      BY <3>1 DEF EnvironmentCallResume
    <3>7. outcome.result.kind = "Resume"
      BY <3>1 DEF EnvironmentCallResume
    <3>8. ResumesWrite(call, outcome)
      BY <3>7 DEF ResumesWrite
    <3>. QED
      BY <2>4, <2>6, <3>3, <3>5, <3>6, <3>8 DEF WellFormedOutcome
  <2>8. CASE sink.kind # "Completed"
    <3>1. outcome.result = EnvironmentCallResume(error_return(kErrorIo))
      BY <2>1, <2>8 DEF WriteResult
    <3>2. outcome.result \in EnvironmentCallResults
      BY <3>1, ErrorReturnTyped DEF kErrorIo
    <3>3. WriteAnswer(call, outcome, error_return(kErrorIo))
      <4>1. CASE sink.bytes_written = 0
        <5>1. outcome.delivered = << >>
          BY <2>3, <4>1 DEF read_span
        <5>. QED
          BY <2>0, <5>1 DEF WriteAnswer
      <4>2. CASE sink.bytes_written # 0
        <5>1. descriptor \in ThrowingStreams /\ sink.bytes_written \in 1 .. size
          BY <2>2, <2>8, <4>2, <1>2
        <5>. QED
          BY <2>0, <2>5, <5>1 DEF WriteAnswer, size
      <4>. QED
        BY <4>1, <4>2
    <3>4. outcome.result.return_value = error_return(kErrorIo)
      BY <3>1 DEF EnvironmentCallResume
    <3>5. outcome.result.kind = "Resume"
      BY <3>1 DEF EnvironmentCallResume
    <3>6. ResumesWrite(call, outcome)
      BY <3>5 DEF ResumesWrite
    <3>. QED
      BY <2>4, <2>6, <3>2, <3>3, <3>4, <3>6 DEF WellFormedOutcome
  <2>. QED
    BY <2>7, <2>8
<1>. QED
  BY <1>3, <1>4, <1>5, <1>6 DEF handle_write, WriteSize

LEMMA HandleOutcome ==
    ASSUME TypeOK, NEW outcome \in handle(CapturedCall)
    PROVE  WellFormedOutcome(CapturedCall, outcome)
<1>. DEFINE call == CapturedCall
<1>1. call \in EnvironmentCalls /\ call.arguments[0] \in Word
  BY CapturedCallTyped DEF EnvironmentCalls, ArgumentIndices
<1>. HIDE DEF call
<1>2. call.arguments[0] % ByteValues \in Word
  BY <1>1, DigitTyped, ByteIsWord, WordIsInt
<1>3. /\ EnvironmentCallExit(call.arguments[0] % ByteValues) \in EnvironmentCallResults
      /\ EnvironmentCallExit(call.arguments[0]) \in EnvironmentCallResults
      /\ EnvironmentCallNotHandled \in EnvironmentCallResults
      /\ EnvironmentCallExit(call.arguments[0] % ByteValues).kind # "Resume"
      /\ EnvironmentCallExit(call.arguments[0]).kind # "Resume"
      /\ EnvironmentCallNotHandled.kind # "Resume"
  BY <1>1, <1>2 DEF EnvironmentCallExit, EnvironmentCallNotHandled,
                    EnvironmentCallResults
<1>4. ASSUME NEW o \in LinuxHandle(call, bytes)
      PROVE  WellFormedOutcome(call, o)
  <2>1. CASE call.number = kWrite
    <3>1. call.number \notin {kExit, kExitGroup}
      BY <2>1 DEF kWrite, kExit, kExitGroup
    <3>. QED
      BY <1>1, <1>4, <2>1, <3>1, WriteOutcome DEF LinuxHandle
  <2>2. CASE call.number # kWrite /\ call.number \in {kExit, kExitGroup}
    BY <1>3, <1>4, <2>2, SilentIsWellFormed DEF LinuxHandle
  <2>3. CASE call.number # kWrite /\ call.number \notin {kExit, kExitGroup}
    BY <1>4, <2>3, ErrorReturnTyped, SilentIsWellFormed
       DEF LinuxHandle, kErrorNotImplemented
  <2>. QED
    BY <2>1, <2>2, <2>3
<1>5. ASSUME NEW o \in ActHandle(call, bytes)
      PROVE  WellFormedOutcome(call, o)
  BY <1>3, <1>5, SilentIsWellFormed DEF ActHandle
<1>. QED
  BY <1>4, <1>5 DEF handle, call

-----------------------------------------------------------------------------
(***************************************************************************)
(* The session's answer to a call.                                         *)
(***************************************************************************)
\* The kinds of result ProgramSession::step returns.
StepKinds == {"InstructionCompleted", "Trap", "EnvironmentCallResumed", "Exited",
              "UnhandledEnvironmentCall"}

LEMMA DeliveredTyped ==
    ASSUME SessionTypeOK, NEW outcome, WellFormedOutcome(CapturedCall, outcome)
    PROVE  /\ Delivered(outcome) \in [OutputStreams -> Seq(Byte)]
           /\ \A s \in OutputStreams :
                 Delivered(outcome)[s] =
                     IF s = outcome.stream THEN output[s] \o outcome.delivered
                     ELSE output[s]
<1>1. /\ outcome.stream \in OutputStreams
      /\ outcome.delivered \in Seq(Byte)
      /\ output \in [OutputStreams -> Seq(Byte)]
  BY DEF WellFormedOutcome, SessionTypeOK
<1>2. output[outcome.stream] \o outcome.delivered \in Seq(Byte)
  BY <1>1, ConcatProperties
<1>. QED
  BY <1>1, <1>2 DEF Delivered

LEMMA ResumeRegister == kReturnValueRegister \in Registers \ {0}
BY SessionAssumption, RegisterAssumption DEF Registers

(***************************************************************************)
(* What each decision of the environment makes of the guest.               *)
(***************************************************************************)
LEMMA EnvironmentCallShape ==
    ASSUME SessionTypeOK, NEW outcome, EnvironmentCall(outcome),
           WellFormedOutcome(CapturedCall, outcome)
    PROVE  \/ /\ outcome.result.kind = "Resume"
              /\ outcome.result.return_value \in Word
              /\ program_counter' = SequentialProgramCounter
              /\ registers' = write_register(kReturnValueRegister,
                                             outcome.result.return_value)
              /\ session_result' =
                     SessionEnvironmentCallResumed(CapturedCall,
                                                   outcome.result.return_value,
                                                   program_counter')
           \/ /\ outcome.result.kind = "Exit"
              /\ outcome.result.exit_code \in Word
              /\ UNCHANGED <<registers, program_counter>>
              /\ session_result' =
                     SessionExited(CapturedCall, outcome.result.exit_code)
           \/ /\ outcome.result.kind = "NotHandled"
              /\ UNCHANGED <<registers, program_counter>>
              /\ session_result' = SessionUnhandledEnvironmentCall(CapturedCall)
<1>. DEFINE result == outcome.result
<1>1. result \in EnvironmentCallResults
  BY DEF WellFormedOutcome
<1>2. CASE result.kind = "Resume"
  <2>1. result.return_value \in Word
    BY <1>1, <1>2 DEF EnvironmentCallResults
  <2>. QED
    BY <1>2, <2>1 DEF EnvironmentCall, NextAfterCall
<1>3. CASE result.kind = "Exit"
  <2>1. result.exit_code \in Word
    BY <1>1, <1>3 DEF EnvironmentCallResults
  <2>. QED
    BY <1>3, <2>1 DEF EnvironmentCall, NextAfterCall
<1>4. CASE result.kind = "NotHandled"
  BY <1>4 DEF EnvironmentCall, NextAfterCall
<1>5. result.kind \in {"Resume", "Exit", "NotHandled"}
  BY <1>1 DEF EnvironmentCallResults
<1>. QED
  BY <1>2, <1>3, <1>4, <1>5

LEMMA EnvironmentCallTypeOK ==
    ASSUME SessionTypeOK, HandleEnvironmentCall
    PROVE  SessionTypeOK' /\ session_result'.kind \in StepKinds
<1>1. PICK outcome \in handle(CapturedCall) : EnvironmentCall(outcome)
  BY DEF HandleEnvironmentCall
<1>. DEFINE call == CapturedCall
            result == outcome.result
<1>2. TypeOK /\ WellFormedOutcome(call, outcome)
  BY HandleOutcome DEF SessionTypeOK
<1>3. output' \in [OutputStreams -> Seq(Byte)]
  BY <1>1, <1>2, DeliveredTyped DEF EnvironmentCall
<1>4. call \in EnvironmentCalls /\ SequentialProgramCounter \in Word
  BY <1>2, CapturedCallTyped, SequentialTyped
<1>. HIDE DEF call
<1>5. step_result' \in StepResults /\ bytes' \in Contents
  BY <1>2, WordConstants
     DEF HandleEnvironmentCall, Trap, TrapCauses, StepResults, TypeOK
<1>6. /\ registers' \in [Registers -> Word]
      /\ registers'[0] = 0
      /\ program_counter' \in Word
      /\ session_result' \in SessionResults
      /\ session_result'.kind \in StepKinds
  <2>1. CASE /\ result.return_value \in Word
             /\ program_counter' = SequentialProgramCounter
             /\ registers' = write_register(kReturnValueRegister, result.return_value)
             /\ session_result' =
                    SessionEnvironmentCallResumed(call, result.return_value,
                                                  program_counter')
    <3>1. program_counter' \in Word
      BY <1>4, <2>1
    <3>2. registers' \in [Registers -> Word] /\ registers'[0] = 0
      BY <1>2, <2>1, ResumeRegister, WriteRegisterTyped
    <3>3. session_result' \in SessionResults /\ session_result'.kind \in StepKinds
      BY <1>4, <2>1, <3>1
         DEF SessionEnvironmentCallResumed, SessionResults, StepKinds
    <3>. QED
      BY <3>1, <3>2, <3>3
  <2>2. CASE /\ result.exit_code \in Word
             /\ UNCHANGED <<registers, program_counter>>
             /\ session_result' = SessionExited(call, result.exit_code)
    BY <1>2, <1>4, <2>2 DEF SessionExited, SessionResults, StepKinds, TypeOK
  <2>3. CASE /\ UNCHANGED <<registers, program_counter>>
             /\ session_result' = SessionUnhandledEnvironmentCall(call)
    BY <1>2, <1>4, <2>3
       DEF SessionUnhandledEnvironmentCall, SessionResults, StepKinds, TypeOK
  <2>. QED
    BY <1>1, <1>2, <2>1, <2>2, <2>3, EnvironmentCallShape DEF call
<1>7. environment' \in Environments
  BY DEF HandleEnvironmentCall, SessionTypeOK
<1>. QED
  BY <1>3, <1>5, <1>6, <1>7 DEF SessionTypeOK, TypeOK

(***************************************************************************)
(* Every path through ProgramSession::step keeps the session's type        *)
(* invariant and returns one of its five results.                          *)
(***************************************************************************)
LEMMA SessionStepTypeOK ==
    ASSUME SessionTypeOK, SessionStep
    PROVE  SessionTypeOK' /\ session_result'.kind \in StepKinds
<1>1. CASE InstructionCompleted
  <2>1. TypeOK'
    BY <1>1, StepTypeOK DEF InstructionCompleted, SessionTypeOK
  <2>. QED
    BY <1>1, <2>1 DEF InstructionCompleted, SessionTypeOK, SessionResults,
                      SessionInstructionCompleted, StepKinds
<1>2. CASE InstructionTrapped
  <2>1. TypeOK'
    BY <1>2, StepTypeOK DEF InstructionTrapped, SessionTypeOK
  <2>. QED
    BY <1>2, <2>1 DEF InstructionTrapped, SessionTypeOK, SessionResults,
                      SessionTrap, StepKinds
<1>3. CASE HandleEnvironmentCall
  BY <1>3, EnvironmentCallTypeOK
<1>. QED
  BY <1>1, <1>2, <1>3 DEF SessionStep

(***************************************************************************)
(* The environment is confined: only a resumed call changes the guest, and *)
(* then only a0 and the program counter.                                   *)
(***************************************************************************)
LEMMA SessionStepConfined ==
    ASSUME SessionTypeOK, SessionStep
    PROVE  ConfinedStep
<1>0. TypeOK
  BY DEF SessionTypeOK
<1>1. CASE InstructionCompleted
  BY <1>1 DEF InstructionCompleted, SessionInstructionCompleted, ConfinedStep
<1>2. CASE InstructionTrapped
  <2>1. ~ Retires
    BY <1>2 DEF InstructionTrapped, Retires, RetiresAs, Retire, ExecutionObservation
  <2>2. UNCHANGED architecture
    BY <1>0, <1>2, <2>1, StepShape DEF InstructionTrapped, Traps, Trapped
  <2>. QED
    BY <1>2, <2>2 DEF InstructionTrapped, SessionTrap, ConfinedStep
<1>3. CASE HandleEnvironmentCall
  <2>1. PICK outcome \in handle(CapturedCall) : EnvironmentCall(outcome)
    BY <1>3 DEF HandleEnvironmentCall
  <2>2. WellFormedOutcome(CapturedCall, outcome)
    BY <1>0, HandleOutcome
  <2>3. bytes' = bytes
    BY <1>3 DEF HandleEnvironmentCall
  <2>4. CASE /\ program_counter' = SequentialProgramCounter
             /\ registers' = write_register(kReturnValueRegister,
                                            outcome.result.return_value)
             /\ session_result'.kind = "EnvironmentCallResumed"
    <3>1. \A r \in Registers \ {kReturnValueRegister} :
              registers'[r] = registers[r]
      BY <1>0, <2>4, ResumeRegister DEF write_register, TypeOK
    <3>. QED
      BY <2>3, <2>4, <3>1 DEF ConfinedStep
  <2>5. CASE /\ UNCHANGED <<registers, program_counter>>
             /\ session_result'.kind \in {"Exited", "UnhandledEnvironmentCall"}
    BY <2>3, <2>5 DEF ConfinedStep, architecture
  <2>. QED
    BY <2>1, <2>2, <2>4, <2>5, EnvironmentCallShape
       DEF SessionEnvironmentCallResumed, SessionExited,
           SessionUnhandledEnvironmentCall
<1>. QED
  BY <1>1, <1>2, <1>3 DEF SessionStep

(***************************************************************************)
(* Output is accounted for: the session appends to the streams what the    *)
(* outcome of the handler says, and nothing else.                          *)
(***************************************************************************)
LEMMA SilentDelivers ==
    ASSUME SessionTypeOK, NEW outcome, WellFormedOutcome(CapturedCall, outcome),
           outcome.delivered = << >>
    PROVE  Delivered(outcome) = output
<1>1. output \in [OutputStreams -> Seq(Byte)]
  BY DEF SessionTypeOK
<1>2. \A s \in OutputStreams : output[s] \o << >> = output[s]
  BY <1>1, ConcatEmptySeq
<1>3. \A s \in OutputStreams : Delivered(outcome)[s] = output[s]
  BY <1>2, DeliveredTyped
<1>. QED
  BY <1>1, <1>3, DeliveredTyped

LEMMA SessionStepAccounted ==
    ASSUME SessionTypeOK, SessionStep
    PROVE  AccountedOutput
<1>0. TypeOK
  BY DEF SessionTypeOK
<1>1. CASE InstructionCompleted \/ InstructionTrapped
  BY <1>1 DEF InstructionCompleted, InstructionTrapped, AccountedOutput,
              SessionInstructionCompleted, SessionTrap
<1>2. CASE HandleEnvironmentCall
  <2>1. PICK outcome \in handle(CapturedCall) : EnvironmentCall(outcome)
    BY <1>2 DEF HandleEnvironmentCall
  <2>. DEFINE call == CapturedCall
              returned == outcome.result.return_value
  <2>2. WellFormedOutcome(call, outcome)
    BY <1>0, HandleOutcome
  <2>3. output' = Delivered(outcome)
    BY <2>1 DEF EnvironmentCall
  <2>4. CASE ResumesWrite(call, outcome)
    <3>1. session_result' = SessionEnvironmentCallResumed(call, returned, program_counter')
      BY <2>1, <2>2, <2>4, EnvironmentCallShape DEF ResumesWrite
    <3>2. /\ session_result'.kind = "EnvironmentCallResumed"
          /\ session_result'.call = call
          /\ session_result'.return_value = returned
      BY <3>1 DEF SessionEnvironmentCallResumed
    <3>3. WriteAnswer(call, outcome, returned)
      BY <2>2, <2>4 DEF WellFormedOutcome
    <3>4. ASSUME NEW count, Hands(call, outcome, count)
          PROVE  output' = [output EXCEPT ![call.arguments[0]] =
                                @ \o read_span(bytes, call.arguments[1], count)]
      BY <2>3, <3>4 DEF Delivered, Hands
    <3>5. outcome.delivered = << >> => output' = output
      BY <2>2, <2>3, SilentDelivers
    <3>. HIDE DEF call, returned
    <3>6. AccountedWrite(call, returned)
      <4>1. CASE /\ WritableCall(call)
                 /\ returned \in 1 .. WriteSize(call)
                 /\ Hands(call, outcome, returned)
        BY <3>4, <4>1 DEF AccountedWrite, WritableCall, WriteSize
      <4>2. CASE /\ outcome.delivered = << >>
                 /\ \/ returned = 0 /\ call.arguments[2] = 0
                    \/ /\ returned = error_return(kErrorBadFileDescriptor)
                       /\ call.arguments[0] \notin OutputStreams
                    \/ /\ returned = error_return(kErrorFault)
                       /\ ~ InBounds(call.arguments[1], WriteSize(call))
                    \/ returned = error_return(kErrorIo) /\ WritableCall(call)
        BY <3>5, <4>2, Zenon DEF AccountedWrite, WritableCall, WriteSize
      <4>3. CASE /\ returned = error_return(kErrorIo)
                 /\ WritableCall(call)
                 /\ call.arguments[0] \in ThrowingStreams
                 /\ \E taken \in 1 .. WriteSize(call) : Hands(call, outcome, taken)
        BY <3>4, <4>3, Zenon DEF AccountedWrite, WritableCall, WriteSize
      <4>. QED
        BY <3>3, <4>1, <4>2, <4>3, Zenon DEF WriteAnswer
    <3>7. call.number = kWrite
      BY <2>4 DEF ResumesWrite
    <3>. QED
      BY <3>2, <3>6, <3>7 DEF AccountedOutput
  <2>5. CASE ~ ResumesWrite(call, outcome)
    <3>1. output' = output
      BY <2>2, <2>3, <2>5, SilentDelivers DEF WellFormedOutcome
    <3>2. session_result'.kind = "EnvironmentCallResumed" =>
              session_result'.call.number # kWrite
      BY <2>1, <2>2, <2>5, EnvironmentCallShape
         DEF ResumesWrite, SessionEnvironmentCallResumed, SessionExited,
             SessionUnhandledEnvironmentCall
    <3>. QED
      BY <3>1, <3>2 DEF AccountedOutput
  <2>. QED
    BY <2>4, <2>5
<1>. QED
  BY <1>1, <1>2 DEF SessionStep

-----------------------------------------------------------------------------
(***************************************************************************)
(* SessionStatistics.  A step counts at most one guest step, and what it   *)
(* counts as a guest step is an instruction or a handled call.             *)
(***************************************************************************)
Balanced(s) ==
    s.guest_steps = s.instructions_retired + s.environment_calls_handled

LEMMA ZeroTyped == ZeroStatistics \in Statistics /\ Balanced(ZeroStatistics)
BY DEF ZeroStatistics, Statistics, Balanced

\* A value of SessionStatistics by its three counters.
Counters(steps, instructions, calls) ==
    [guest_steps |-> steps, instructions_retired |-> instructions,
     environment_calls_handled |-> calls]

LEMMA StatisticsByCounters ==
    ASSUME NEW s \in Statistics
    PROVE  /\ s = Counters(s.guest_steps, s.instructions_retired,
                           s.environment_calls_handled)
           /\ s.guest_steps \in Nat
           /\ s.instructions_retired \in Nat
           /\ s.environment_calls_handled \in Nat
BY DEF Statistics, Counters

LEMMA CountStepOfCounters ==
    ASSUME NEW g \in Nat, NEW i \in Nat, NEW e \in Nat, NEW result
    PROVE  CountStep(Counters(g, i, e), result) =
               CASE result.kind = "InstructionCompleted" -> Counters(g + 1, i + 1, e)
                 [] result.kind \in {"EnvironmentCallResumed", "Exited"} ->
                        Counters(g + 1, i, e + 1)
                 [] OTHER -> Counters(g, i, e)
<1>. DEFINE r == Counters(g, i, e)
<1>1. /\ DOMAIN r = {"guest_steps", "instructions_retired",
                     "environment_calls_handled"}
      /\ r.guest_steps = g
      /\ r.instructions_retired = i
      /\ r.environment_calls_handled = e
  BY DEF Counters
<1>2. [r EXCEPT !.guest_steps = @ + 1, !.instructions_retired = @ + 1]
        = Counters(g + 1, i + 1, e)
  <2>1. [r EXCEPT !.guest_steps = @ + 1, !.instructions_retired = @ + 1]
          = [f \in DOMAIN r |-> IF f = "instructions_retired" THEN r[f] + 1
                                ELSE IF f = "guest_steps" THEN r[f] + 1 ELSE r[f]]
    OBVIOUS
  <2>. QED
    BY <1>1, <2>1 DEF Counters
<1>3. [r EXCEPT !.guest_steps = @ + 1, !.environment_calls_handled = @ + 1]
        = Counters(g + 1, i, e + 1)
  <2>1. [r EXCEPT !.guest_steps = @ + 1, !.environment_calls_handled = @ + 1]
          = [f \in DOMAIN r |-> IF f = "environment_calls_handled" THEN r[f] + 1
                                ELSE IF f = "guest_steps" THEN r[f] + 1 ELSE r[f]]
    OBVIOUS
  <2>. QED
    BY <1>1, <2>1 DEF Counters
<1>. QED
  BY <1>2, <1>3 DEF CountStep

LEMMA CountStepShape ==
    ASSUME NEW s \in Statistics, NEW result, result.kind \in StepKinds
    PROVE  /\ CountStep(s, result) \in Statistics
           /\ CountStep(s, result).guest_steps \in {s.guest_steps, s.guest_steps + 1}
           /\ Balanced(s) => Balanced(CountStep(s, result))
<1>. DEFINE g == s.guest_steps
            i == s.instructions_retired
            e == s.environment_calls_handled
<1>1. s = Counters(g, i, e) /\ g \in Nat /\ i \in Nat /\ e \in Nat
  BY StatisticsByCounters
<1>2. \/ CountStep(s, result) = Counters(g + 1, i + 1, e)
      \/ CountStep(s, result) = Counters(g + 1, i, e + 1)
      \/ CountStep(s, result) = Counters(g, i, e)
  <2>. HIDE DEF g, i, e
  <2>. QED
    BY <1>1, CountStepOfCounters
<1>3. Balanced(s) <=> g = i + e
  BY DEF Balanced
<1>. HIDE DEF g, i, e
<1>. QED
  BY <1>1, <1>2, <1>3 DEF Counters, Statistics, Balanced, g

LEMMA AddStatisticsShape ==
    ASSUME NEW s \in Statistics, NEW t \in Statistics
    PROVE  /\ AddStatistics(s, t) =
                  Counters(s.guest_steps + t.guest_steps,
                           s.instructions_retired + t.instructions_retired,
                           s.environment_calls_handled + t.environment_calls_handled)
           /\ AddStatistics(s, t) \in Statistics
BY DEF AddStatistics, Statistics, Counters

\* Counting a step commutes with adding the statistics of a run to the total.
LEMMA CountThenAdd ==
    ASSUME NEW s \in Statistics, NEW t \in Statistics, NEW result,
           result.kind \in StepKinds
    PROVE  AddStatistics(s, CountStep(t, result))
             = CountStep(AddStatistics(s, t), result)
<1>. DEFINE g == t.guest_steps
            i == t.instructions_retired
            e == t.environment_calls_handled
            sg == s.guest_steps
            si == s.instructions_retired
            se == s.environment_calls_handled
<1>1. /\ t = Counters(g, i, e) /\ g \in Nat /\ i \in Nat /\ e \in Nat
      /\ s = Counters(sg, si, se) /\ sg \in Nat /\ si \in Nat /\ se \in Nat
  BY StatisticsByCounters
<1>. HIDE DEF g, i, e, sg, si, se
<1>2. ASSUME NEW x \in Nat, NEW y \in Nat, NEW z \in Nat
      PROVE  AddStatistics(s, Counters(x, y, z)) = Counters(sg + x, si + y, se + z)
  <2>1. Counters(x, y, z) \in Statistics
    BY DEF Counters, Statistics
  <2>. QED
    BY <2>1, AddStatisticsShape DEF Counters, sg, si, se
<1>3. AddStatistics(s, t) = Counters(sg + g, si + i, se + e)
  BY <1>1, <1>2
<1>4. /\ sg + g \in Nat /\ si + i \in Nat /\ se + e \in Nat
      /\ sg + (g + 1) = sg + g + 1
      /\ si + (i + 1) = si + i + 1
      /\ se + (e + 1) = se + e + 1
      /\ g + 1 \in Nat /\ i + 1 \in Nat /\ e + 1 \in Nat
  BY <1>1
<1>. QED
  BY <1>1, <1>2, <1>3, <1>4, CountStepOfCounters DEF StepKinds

LEMMA AddZero ==
    ASSUME NEW s \in Statistics
    PROVE  AddStatistics(s, ZeroStatistics) = s
<1>1. s = Counters(s.guest_steps, s.instructions_retired, s.environment_calls_handled)
  BY StatisticsByCounters
<1>2. /\ s.guest_steps \in Nat /\ s.instructions_retired \in Nat
      /\ s.environment_calls_handled \in Nat
  BY StatisticsByCounters
<1>3. AddStatistics(s, ZeroStatistics) =
          Counters(s.guest_steps + 0, s.instructions_retired + 0,
                   s.environment_calls_handled + 0)
  BY ZeroTyped, AddStatisticsShape DEF ZeroStatistics
<1>4. Counters(s.guest_steps + 0, s.instructions_retired + 0,
               s.environment_calls_handled + 0)
        = Counters(s.guest_steps, s.instructions_retired, s.environment_calls_handled)
  BY <1>2
<1>. QED
  BY <1>1, <1>3, <1>4

-----------------------------------------------------------------------------
(***************************************************************************)
(* A session starts well-typed.                                            *)
(***************************************************************************)
LEMMA SessionInitTypeOK ==
    ASSUME SessionInit
    PROVE  SessionTypeOK
<1>1. TypeOK
  BY DEF SessionInit, MachineInit, TypeOK, StepResults
<1>2. output \in [OutputStreams -> Seq(Byte)]
  BY DEF SessionInit
<1>. QED
  BY <1>1, <1>2 DEF SessionInit, SessionTypeOK, SessionResults

=============================================================================
