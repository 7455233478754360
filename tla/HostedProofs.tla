---------------------------- MODULE HostedProofs ----------------------------
(***************************************************************************)
(* Theorems about BatchRun, ProgramSession::run without breakpoints, and   *)
(* about Hosted, for every file, option, memory region and guest program:  *)
(* what the loader and the stack leave behind, and what the exit status    *)
(* says.                                                                   *)
(***************************************************************************)
EXTENDS Hosted, SessionProofs, FiniteSetTheorems

-----------------------------------------------------------------------------
(***************************************************************************)
(* BatchRun by itself, for every program, environment, memory region and   *)
(* step limit.  Hosted runs its guest as a batch run.                      *)
(***************************************************************************)
\* A step of a batch run is a session step or leaves the session alone.
LEMMA BatchStepCases ==
    ASSUME [BatchNext]_batch_vars
    PROVE  SessionStep \/ UNCHANGED session_vars
BY DEF BatchNext, BatchStep, BatchStepLimitReached, BatchFinished, RunStep,
       batch_vars, session_vars

(***************************************************************************)
(* Type correctness: every state a run reaches is well-typed, x0 is zero,  *)
(* the streams hold bytes and the counters are natural numbers.            *)
(***************************************************************************)
THEOREM BatchTypeInvariant == BatchSpec => []BatchTypeOK
<1>1. BatchInit => BatchTypeOK
  BY SessionInitTypeOK, ZeroTyped DEF BatchInit, BatchTypeOK
<1>2. ASSUME BatchTypeOK, [BatchNext]_batch_vars
      PROVE  BatchTypeOK'
  <2>1. CASE BatchStep
    <3>1. SessionTypeOK' /\ session_result'.kind \in StepKinds
      BY <1>2, <2>1, SessionStepTypeOK DEF BatchStep, RunStep, BatchTypeOK
    <3>2. statistics' \in Statistics
      BY <1>2, <2>1, <3>1, CountStepShape DEF BatchStep, BatchTypeOK
    <3>3. run_result' \in {"Running", "Exited", "UnhandledEnvironmentCall", "Trapped"}
      BY <2>1, <3>1 DEF BatchStep, TerminalResult, StepKinds
    <3>. QED
      BY <1>2, <2>1, <3>1, <3>2, <3>3 DEF BatchStep, BatchTypeOK
  <2>2. CASE BatchStepLimitReached
    <3>1. SessionTypeOK'
      BY <1>2, <2>2 DEF BatchStepLimitReached, session_vars, BatchTypeOK,
                        SessionTypeOK, TypeOK
    <3>. QED
      BY <1>2, <2>2, <3>1 DEF BatchStepLimitReached, BatchTypeOK
  <2>3. CASE UNCHANGED batch_vars
    BY <1>2, <2>3 DEF batch_vars, BatchTypeOK, SessionTypeOK, TypeOK
  <2>. QED
    BY <1>2, <2>1, <2>2, <2>3 DEF BatchNext, BatchFinished
<1>. QED
  BY <1>1, <1>2, PTL DEF BatchSpec

(***************************************************************************)
(* The step limit is strict: a run makes at most step_limit guest steps,   *)
(* reports the limit only when it made exactly that many, and each of them *)
(* is a retired instruction or a handled call.                             *)
(***************************************************************************)
THEOREM LimitIsStrict == BatchSpec => []StrictLimit
<1>1. BatchInit => StrictLimit
  BY DEF BatchInit, ZeroStatistics, StrictLimit
<1>2. ASSUME BatchTypeOK, StrictLimit, [BatchNext]_batch_vars
      PROVE  StrictLimit'
  <2>0. /\ statistics \in Statistics /\ step_limit \in Nat
        /\ statistics.guest_steps \in Nat
        /\ Balanced(statistics)
    BY <1>2 DEF BatchTypeOK, Statistics, StrictLimit, Balanced
  <2>1. CASE BatchStep
    <3>1. session_result'.kind \in StepKinds
      BY <1>2, <2>1, SessionStepTypeOK DEF BatchStep, RunStep, BatchTypeOK
    <3>2. /\ statistics'.guest_steps
               \in {statistics.guest_steps, statistics.guest_steps + 1}
          /\ Balanced(statistics')
      BY <2>0, <2>1, <3>1, CountStepShape DEF BatchStep
    <3>3. statistics.guest_steps < step_limit /\ step_limit' = step_limit
      BY <2>0, <2>1 DEF BatchStep, RunStep, RunAtLimit
    <3>4. run_result' # "StepLimitReached"
      BY <2>1, <3>1 DEF BatchStep, TerminalResult, StepKinds
    <3>5. statistics'.guest_steps <= step_limit'
      BY <2>0, <3>2, <3>3
    <3>. QED
      BY <3>2, <3>4, <3>5 DEF StrictLimit, Balanced
  <2>2. CASE BatchStepLimitReached
    BY <1>2, <2>0, <2>2 DEF BatchStepLimitReached, RunAtLimit, StrictLimit
  <2>3. CASE UNCHANGED batch_vars
    BY <1>2, <2>3 DEF batch_vars, StrictLimit
  <2>. QED
    BY <1>2, <2>1, <2>2, <2>3 DEF BatchNext, BatchFinished
<1>. QED
  BY <1>1, <1>2, BatchTypeInvariant, PTL DEF BatchSpec

(***************************************************************************)
(* The environment is confined: in every run, a resumed call changes only  *)
(* a0 and the program counter, and an exit, an unhandled call and a trap   *)
(* leave the guest where it was.                                           *)
(***************************************************************************)
THEOREM RunsAreConfined == BatchSpec => EnvironmentConfined
<1>1. ASSUME BatchTypeOK, [BatchNext]_batch_vars
      PROVE  [ConfinedStep]_session_vars
  BY <1>1, BatchStepCases, SessionStepConfined DEF BatchTypeOK
<1>. QED
  BY <1>1, BatchTypeInvariant, PTL DEF BatchSpec, EnvironmentConfined

(***************************************************************************)
(* Output is accounted for: in every run, and whatever the host's streams  *)
(* take of each write, the guest is told exactly how many of its bytes     *)
(* reached the stream.                                                     *)
(***************************************************************************)
THEOREM RunsAreAccounted == BatchSpec => OutputAccounted
<1>1. ASSUME BatchTypeOK, [BatchNext]_batch_vars
      PROVE  [AccountedOutput]_session_vars
  BY <1>1, BatchStepCases, SessionStepAccounted DEF BatchTypeOK
<1>. QED
  BY <1>1, BatchTypeInvariant, PTL DEF BatchSpec, OutputAccounted

-----------------------------------------------------------------------------
(***************************************************************************)
(* Reporting the first check that fails.                                   *)
(***************************************************************************)
IsList(s) == Len(s) \in Nat /\ DOMAIN s = 1 .. Len(s)

\* Some check is reported, and it is one that fails.
LEMMA FirstOfFails ==
    ASSUME NEW checks, IsList(checks), NEW failing \in SUBSET ToSet(checks),
           failing # {}
    PROVE  FirstOf(checks, failing) \in failing
<1> DEFINE I == {i \in 1 .. Len(checks) : checks[i] \in failing}
<1>1. I # {} /\ I \subseteq Nat
  BY DEF ToSet, IsList
<1>2. PICK n \in I : \A m \in I : n <= m
  BY <1>1, LeastNatural
<1>3. Min(I) \in I
  BY <1>2, Zenon DEF Min
<1>4. SelectInSeq(checks, LAMBDA check : check \in failing) = Min(I)
  BY <1>1, Zenon DEF SelectInSeq
<1>5. FirstOf(checks, failing) = checks[Min(I)]
  BY <1>4, Zenon DEF FirstOf
<1>. QED
  BY <1>3, <1>5

\* The checks are sequences.
LEMMA ChecksAreLists ==
    /\ IsList(HeaderChecks)
    /\ IsList(SegmentChecks)
    /\ IsList(EntryChecks)
    /\ IsList(StackChecks)
BY DEF IsList, HeaderChecks, IdentificationChecks, TableChecks, SegmentChecks,
       EntryChecks, StackChecks

\* No failure of the loader has the code of a failure of the stack.
LEMMA LoaderCodes ==
    /\ ToSet(HeaderChecks) \cap StackFailures = {}
    /\ ToSet(SegmentChecks) \cap StackFailures = {}
    /\ ToSet(EntryChecks) \cap StackFailures = {}
<1>1. ToSet(SegmentChecks) \cap StackFailures = {}
  BY DEF ToSet, SegmentChecks, StackFailures
<1>2. ToSet(EntryChecks) \cap StackFailures = {}
  BY DEF ToSet, EntryChecks, StackFailures
<1>3. ToSet(HeaderChecks) \cap StackFailures = {}
  BY DEF ToSet, HeaderChecks, IdentificationChecks, TableChecks, StackFailures
<1>. QED
  BY <1>1, <1>2, <1>3
-----------------------------------------------------------------------------
(***************************************************************************)
(* What the checks of a program header establish.                          *)
(***************************************************************************)
\* A segment that lies in memory and whose bytes lie in the file.
Placed(h) ==
    /\ h \in ProgramHeaders
    /\ h.type = "Load"
    /\ h.file_size <= h.memory_size
    /\ h.file_offset + h.file_size <= image.size
    /\ h.memory_size # 0 =>
          BaseAddress <= h.virtual_address /\ SegmentEnd(h) <= EndAddressExclusive

\* Every check of a loadable segment is made and, when none fails, all passed.
LEMMA SegmentPasses ==
    ASSUME NEW h \in ProgramHeaders, h.type = "Load", image.size \in Nat,
           FailingSegmentChecks(h) = {}
    PROVE  Placed(h) /\ ~ Overlaps(h)
<1>1. /\ "SegmentFileSizeExceedsMemorySize" \in ToSet(SegmentChecks)
      /\ "SegmentFileRangeOutOfBounds" \in ToSet(SegmentChecks)
      /\ "SegmentOutsideMemory" \in ToSet(SegmentChecks)
      /\ "OverlappingLoadSegments" \in ToSet(SegmentChecks)
  BY DEF ToSet, SegmentChecks
<1>2. ~ (h.file_size > h.memory_size)
  BY <1>1 DEF FailingSegmentChecks
<1>3. range_fits(h.file_offset, h.file_size, image.size)
  BY <1>1 DEF FailingSegmentChecks
<1>4. ~ SegmentOutsideMemory(h)
  BY <1>1 DEF FailingSegmentChecks
<1>5. ~ Overlaps(h)
  BY <1>1 DEF FailingSegmentChecks
<1>6. /\ h.file_size \in Nat /\ h.memory_size \in Nat
      /\ h.file_offset \in Nat /\ h.virtual_address \in Nat
      /\ BaseAddress \in Nat /\ SizeBytes \in Nat
  BY RegionAssumption, WordInt DEF ProgramHeaders
<1>. QED
  BY <1>2, <1>3, <1>4, <1>5, <1>6
  DEF Placed, range_fits, SegmentOutsideMemory, SegmentEnd, EndAddressExclusive

-----------------------------------------------------------------------------
(***************************************************************************)
(* The segments accepted so far: each is placed, the ones that occupy      *)
(* memory follow each other without overlapping, and the two ends that the *)
(* loader keeps are those of the first and of the last of them.            *)
(***************************************************************************)
SegmentsPlaced ==
    /\ load_segments \in Seq(ProgramHeaders)
    /\ \A k \in DOMAIN load_segments : Placed(load_segments[k])

SegmentsOrdered ==
    \A j, k \in Nonempty :
        j < k => SegmentEnd(load_segments[j]) <= load_segments[k].virtual_address

EndsAre(f, l) ==
    /\ first_nonempty_address = Some(load_segments[f].virtual_address)
    /\ previous_nonempty_end = Some(SegmentEnd(load_segments[l]))
    /\ \A k \in Nonempty : f <= k /\ k <= l

EndsKnown ==
    \/ /\ Nonempty = {}
       /\ first_nonempty_address = NullOpt
       /\ previous_nonempty_end = NullOpt
    \/ \E f, l \in Nonempty : EndsAre(f, l)

Validated == SegmentsPlaced /\ SegmentsOrdered /\ EndsKnown

LEMMA ValidatedStable ==
    ASSUME Validated, UNCHANGED <<inputs, validation>>
    PROVE  Validated'
BY DEF Validated, SegmentsPlaced, Placed, SegmentsOrdered, EndsKnown, EndsAre,
       Nonempty, SegmentEnd, inputs, validation

\* The numbers of a segment, and where one that occupies memory lies.
LEMMA SegmentNumbers ==
    ASSUME NEW h \in ProgramHeaders
    PROVE  /\ h.virtual_address \in Nat /\ h.memory_size \in Nat
           /\ h.file_size \in Nat /\ h.file_offset \in Nat
           /\ SegmentEnd(h) = h.virtual_address + h.memory_size
           /\ SegmentEnd(h) \in Nat
<1>1. /\ h.virtual_address \in Word /\ h.memory_size \in Word
      /\ h.file_size \in Word /\ h.file_offset \in Word
  BY Zenon DEF ProgramHeaders
<1>2. /\ h.virtual_address \in Nat /\ h.memory_size \in Nat
      /\ h.file_size \in Nat /\ h.file_offset \in Nat
  BY <1>1, WordInt, Zenon
<1>. QED
  BY <1>2 DEF SegmentEnd

\* No segment ends after the last one, or starts before the first.
LEMMA EndsBound ==
    ASSUME Validated, NEW f \in Nonempty, NEW l \in Nonempty, EndsAre(f, l),
           NEW k \in Nonempty
    PROVE  /\ load_segments[f].virtual_address <= load_segments[k].virtual_address
           /\ SegmentEnd(load_segments[k]) <= SegmentEnd(load_segments[l])
<1>1. /\ k \in 1 .. Len(load_segments) /\ load_segments[k] \in ProgramHeaders
      /\ f \in 1 .. Len(load_segments) /\ load_segments[f] \in ProgramHeaders
      /\ l \in 1 .. Len(load_segments) /\ load_segments[l] \in ProgramHeaders
  BY DEF Nonempty, Validated, SegmentsPlaced
<1>2. f <= k /\ k <= l
  BY DEF EndsAre
<1>3. f < k => SegmentEnd(load_segments[f]) <= load_segments[k].virtual_address
  BY DEF Validated, SegmentsOrdered
<1>4. k < l => SegmentEnd(load_segments[k]) <= load_segments[l].virtual_address
  BY DEF Validated, SegmentsOrdered
<1>5. \A h \in ProgramHeaders : /\ h.virtual_address <= SegmentEnd(h)
                                /\ h.virtual_address \in Nat
                                /\ SegmentEnd(h) \in Nat
  BY SegmentNumbers
<1>6. load_segments[f].virtual_address <= load_segments[k].virtual_address
  BY <1>1, <1>2, <1>3, <1>5
<1>7. SegmentEnd(load_segments[k]) <= SegmentEnd(load_segments[l])
  BY <1>1, <1>2, <1>4, <1>5
<1>. QED
  BY <1>6, <1>7

\* A segment that passes the checks keeps the segments accepted valid.
LEMMA AcceptKeepsValid ==
    ASSUME Validated, NEW h \in ProgramHeaders, h.type = "Load", image.size \in Nat,
           FailingSegmentChecks(h) = {}, AcceptSegment(h), UNCHANGED inputs
    PROVE  Validated'
<1>0. PICK n : n = Len(load_segments) + 1
  OBVIOUS
<1>1. /\ load_segments \in Seq(ProgramHeaders)
      /\ load_segments' = Append(load_segments, h)
      /\ image' = image
  BY DEF Validated, SegmentsPlaced, AcceptSegment, inputs
<1>2. /\ load_segments' \in Seq(ProgramHeaders)
      /\ DOMAIN load_segments' = 1 .. n
      /\ DOMAIN load_segments = 1 .. (n - 1)
      /\ load_segments'[n] = h
      /\ \A k \in 1 .. (n - 1) : load_segments'[k] = load_segments[k]
      /\ n \in Nat \ {0}
  BY <1>0, <1>1
<1>3. Placed(h) /\ ~ Overlaps(h)
  BY SegmentPasses
<1>4. SegmentsPlaced'
  <2>1. \A k \in 1 .. n : Placed(load_segments'[k])
    BY <1>2, <1>3 DEF Validated, SegmentsPlaced
  <2>. QED
    BY <1>1, <1>2, <2>1 DEF SegmentsPlaced, Placed, SegmentEnd
<1>5. Nonempty' = IF h.memory_size # 0 THEN Nonempty \cup {n} ELSE Nonempty
  BY <1>2 DEF Nonempty
<1>6. \A k \in Nonempty : /\ k \in 1 .. (n - 1) /\ load_segments'[k] = load_segments[k]
                          /\ load_segments[k] \in ProgramHeaders
  BY <1>1, <1>2 DEF Nonempty
<1>7. h.memory_size # 0 =>
          \A k \in Nonempty : SegmentEnd(load_segments[k]) <= h.virtual_address
  <2>1. SUFFICES ASSUME h.memory_size # 0, NEW k \in Nonempty
                 PROVE  SegmentEnd(load_segments[k]) <= h.virtual_address
    OBVIOUS
  <2>2. PICK f, l \in Nonempty : EndsAre(f, l)
    BY DEF Validated, EndsKnown
  <2>3. ~ (h.virtual_address < SegmentEnd(load_segments[l]))
    BY <1>3, <2>1, <2>2 DEF Overlaps, EndsAre, Some
  <2>4. SegmentEnd(load_segments[k]) <= SegmentEnd(load_segments[l])
    BY <2>2, EndsBound
  <2>. QED
    BY <1>6, <2>3, <2>4, SegmentNumbers
<1>8. SegmentsOrdered'
  <2>1. SUFFICES ASSUME NEW j \in Nonempty', NEW k \in Nonempty', j < k
                 PROVE  SegmentEnd(load_segments'[j])
                            <= load_segments'[k].virtual_address
    BY DEF SegmentsOrdered, SegmentEnd
  <2>2. CASE k \in Nonempty
    <3>1. j \in Nonempty
      BY <1>2, <1>5, <1>6, <2>1, <2>2
    <3>. QED
      BY <1>6, <2>1, <2>2, <3>1 DEF Validated, SegmentsOrdered
  <2>3. CASE h.memory_size # 0 /\ k = n
    <3>1. j \in Nonempty
      BY <1>2, <1>5, <1>6, <2>1, <2>3
    <3>. QED
      BY <1>2, <1>6, <1>7, <2>3, <3>1
  <2>. QED
    BY <1>5, <2>1, <2>2, <2>3
<1>9. EndsKnown'
  <2>1. CASE h.memory_size = 0
    <3>1. /\ first_nonempty_address' = first_nonempty_address
          /\ previous_nonempty_end' = previous_nonempty_end
          /\ Nonempty' = Nonempty
      BY <1>5, <2>1 DEF AcceptSegment, NonemptyEnd
    <3>2. \A f, l \in Nonempty : EndsAre(f, l) => EndsAre(f, l)'
      BY <1>6, <3>1 DEF EndsAre, SegmentEnd
    <3>. QED
      BY <3>1, <3>2, Zenon DEF Validated, EndsKnown
  <2>2. CASE h.memory_size # 0 /\ Nonempty = {}
    <3>1. /\ first_nonempty_address' = Some(h.virtual_address)
          /\ previous_nonempty_end' = Some(SegmentEnd(h))
          /\ Nonempty' = {n}
      BY <1>5, <2>2 DEF AcceptSegment, NonemptyEnd, Validated, EndsKnown
    <3>2. EndsAre(n, n)'
      BY <1>2, <3>1 DEF EndsAre, SegmentEnd
    <3>. QED
      BY <3>1, <3>2, Zenon DEF EndsKnown
  <2>3. CASE h.memory_size # 0 /\ Nonempty # {}
    <3>1. PICK f, l \in Nonempty : EndsAre(f, l)
      BY <2>3 DEF Validated, EndsKnown
    <3>2. /\ first_nonempty_address' = first_nonempty_address
          /\ previous_nonempty_end' = Some(SegmentEnd(h))
          /\ Nonempty' = Nonempty \cup {n}
      BY <1>5, <2>3, <3>1 DEF AcceptSegment, NonemptyEnd, EndsAre, NullOpt, Some
    <3>3. \A k \in Nonempty' : f <= k /\ k <= n
      BY <1>2, <1>6, <3>1, <3>2 DEF EndsAre
    <3>4. /\ first_nonempty_address' = Some(load_segments'[f].virtual_address)
          /\ previous_nonempty_end' = Some(SegmentEnd(load_segments'[n]))
      BY <1>2, <1>6, <3>1, <3>2 DEF EndsAre
    <3>5. EndsAre(f, n)'
      BY <3>3, <3>4 DEF EndsAre, SegmentEnd
    <3>. QED
      BY <3>1, <3>2, <3>5, Zenon DEF EndsKnown
  <2>. QED
    BY <2>1, <2>2, <2>3
<1>. QED
  BY <1>4, <1>8, <1>9 DEF Validated

-----------------------------------------------------------------------------
(***************************************************************************)
(* The invariant of the loader, phase by phase.                            *)
(***************************************************************************)
\* The segments accepted are the loadable ones of the first n program headers.
Scanned(n) ==
    /\ \A k \in DOMAIN load_segments :
          \E i \in 1 .. n : load_segments[k] = image.program_headers[i]
    /\ \A i \in 1 .. n : image.program_headers[i].type = "Load" =>
          \E k \in DOMAIN load_segments : load_segments[k] = image.program_headers[i]

\* The byte that a segment puts at an offset of memory that it covers.
Held(h, o) ==
    IF BaseAddress + o - h.virtual_address < h.file_size
    THEN image.data[h.file_offset + (BaseAddress + o - h.virtual_address)] ELSE 0

\* The byte at o is written once n segments and w bytes of the next one are.
Reached(k, o, n, w) ==
    /\ Covers(load_segments[k], BaseAddress + o)
    /\ \/ k <= n
       \/ k = n + 1 /\ BaseAddress + o < load_segments[k].virtual_address + w

MemoryWritten(n, w) ==
    \A o \in Offsets :
        /\ \A k \in DOMAIN load_segments :
              Reached(k, o, n, w) => bytes[o] = Held(load_segments[k], o)
        /\ (\A k \in DOMAIN load_segments : ~ Reached(k, o, n, w)) =>
              bytes[o] = MemoryBefore[o]

\* The addresses that the first n segments cover.
Covered(n) == {a \in Word : \E k \in 1 .. n : Covers(load_segments[k], a)}

EntryAccepted == EntryIsExecutable /\ is_instruction_aligned(image.entry_point)

WritingInvariant ==
    /\ Scanned(Len(image.program_headers))
    /\ EntryAccepted
    /\ index <= Len(load_segments)
    /\ index = Len(load_segments) => written = 0
    /\ index < Len(load_segments) => written <= Segment.memory_size
    /\ registers = [r \in Registers |-> 0] /\ program_counter = 0
    /\ MemoryWritten(index, written)
    /\ file_bytes_loaded + zero_fill_bytes = Cardinality(Covered(index))

ScanInvariant ==
    /\ phase \in {"configuring", "opening", "header"} =>
          index = 0 /\ load_segments = << >>
    /\ phase = "segments" =>
          /\ image.program_header_count = Len(image.program_headers)
          /\ index <= Len(image.program_headers)
          /\ Scanned(index)

BeforeWriting == {"configuring", "opening", "header", "segments"}

Untouched ==
    /\ bytes = MemoryBefore
    /\ registers = [r \in Registers |-> 0]
    /\ program_counter = 0

Configured ==
    (caller = "rvemu" /\ phase \notin {"configuring", "failed"}) => ValidConfiguration

LoadedRange ==
    /\ boot_result.loaded_address_begin \in Nat
    /\ boot_result.loaded_address_end_exclusive \in Nat
    /\ BaseAddress <= boot_result.loaded_address_begin
    /\ boot_result.loaded_address_begin < boot_result.loaded_address_end_exclusive
    /\ boot_result.loaded_address_end_exclusive <= EndAddressExclusive

LoaderTypeOK ==
    /\ caller \in Callers /\ options \in Options /\ image \in Images
    /\ phase \in BeforeWriting
           \cup {"writing", "loaded", "ready", "executing", "failed"}
    /\ index \in Nat /\ written \in Nat
    /\ file_bytes_loaded \in Nat /\ zero_fill_bytes \in Nat

\* What is true once load_elf32 has returned.
LoadedInvariant ==
    /\ LoadIsAllOrNothing
    /\ MemoryIsImage
    /\ LoadIsReported
    /\ StackIsReserved
    /\ phase = "loaded" => LoadedRange

LoaderInvariant ==
    /\ LoaderTypeOK
    /\ Validated
    /\ Configured
    /\ ScanInvariant
    /\ phase \in BeforeWriting =>
          /\ Untouched
          /\ written = 0 /\ file_bytes_loaded = 0 /\ zero_fill_bytes = 0
    /\ phase = "writing" => WritingInvariant
    /\ LoadedInvariant

-----------------------------------------------------------------------------
(***************************************************************************)
(* The initial state, and the steps before the first byte is written.      *)
(***************************************************************************)
LEMMA BootInitInvariant == BootInit => LoaderInvariant
<1> SUFFICES ASSUME BootInit PROVE LoaderInvariant
  OBVIOUS
<1>1. /\ phase \in {"configuring", "opening", "header"}
      /\ caller = "rvemu" => phase = "configuring"
  BY DEF BootInit, Callers
<1>2. Validated
  BY DEF BootInit, Validated, SegmentsPlaced, SegmentsOrdered, EndsKnown, Nonempty
<1>3. LoadedInvariant
  BY <1>1 DEF LoadedInvariant, LoadIsAllOrNothing, MemoryIsImage, LoadIsReported,
              StackIsReserved, IsLoaded
<1>4. Untouched
  BY DEF BootInit, Untouched
<1>5. LoaderTypeOK
  BY <1>1 DEF BootInit, LoaderTypeOK, BeforeWriting
<1>6. Configured /\ ScanInvariant
  BY <1>1 DEF BootInit, Configured, ScanInvariant
<1>. QED
  BY <1>1, <1>2, <1>3, <1>4, <1>5, <1>6 DEF BootInit, LoaderInvariant, BeforeWriting

\* Before load_elf32 returns, only its failure says anything of the load.
LEMMA NotYetLoaded ==
    ASSUME ~ IsLoaded', phase' = "failed" => Untouched'
    PROVE  LoadedInvariant'
<1>1. phase' # "loaded" /\ phase' # "ready"
  BY DEF IsLoaded
<1>2. LoadIsAllOrNothing'
  BY DEF LoadIsAllOrNothing, Untouched
<1>3. MemoryIsImage'
  BY DEF MemoryIsImage
<1>4. LoadIsReported' /\ StackIsReserved'
  BY <1>1 DEF LoadIsReported, StackIsReserved
<1>. QED
  BY <1>1, <1>2, <1>3, <1>4 DEF LoadedInvariant

\* A step before the first write goes on, or fails and leaves everything alone.
LEMMA EarlyStep ==
    ASSUME LoaderInvariant, phase \in BeforeWriting,
           UNCHANGED <<machine_vars, inputs, written, totals>>,
           index' \in Nat, Validated', ScanInvariant',
           \/ phase' \in BeforeWriting
           \/ phase' = "failed" /\ boot_result'.code \notin StackFailures,
           (caller = "rvemu" /\ phase' # "failed") => ValidConfiguration
    PROVE  LoaderInvariant'
<1>1. /\ UNCHANGED <<caller, options, image, written, file_bytes_loaded,
                     zero_fill_bytes>>
      /\ UNCHANGED <<bytes, registers, program_counter>>
  BY DEF inputs, totals, machine_vars
<1>2. Untouched'
  BY <1>1 DEF LoaderInvariant, Untouched, MemoryBefore
<1>3. ~ IsLoaded' /\ phase' # "writing"
  BY DEF IsLoaded, BeforeWriting
<1>4. LoadedInvariant'
  BY <1>2, <1>3, NotYetLoaded
<1>5. LoaderTypeOK'
  BY <1>1 DEF LoaderInvariant, LoaderTypeOK
<1>6. Configured'
  BY <1>1 DEF Configured, ValidConfiguration
<1>. QED
  BY <1>1, <1>2, <1>3, <1>4, <1>5, <1>6 DEF LoaderInvariant

LEMMA CheckConfigurationSafe ==
    ASSUME LoaderInvariant, CheckConfiguration
    PROVE  LoaderInvariant'
<1>1. /\ phase \in BeforeWriting /\ index = 0 /\ load_segments = << >>
      /\ UNCHANGED <<machine_vars, inputs, index, written, validation, totals>>
      /\ \/ phase' = "opening" /\ ValidConfiguration
         \/ phase' = "failed" /\ boot_result'.code \notin StackFailures
  BY DEF CheckConfiguration, LoaderInvariant, ScanInvariant, BeforeWriting, Fail,
         StackFailures
<1>2. Validated'
  BY <1>1, ValidatedStable DEF LoaderInvariant
<1>3. ScanInvariant'
  BY <1>1 DEF ScanInvariant, validation
<1>. QED
  BY <1>1, <1>2, <1>3, EarlyStep DEF BeforeWriting

LEMMA ReadFileSafe ==
    ASSUME LoaderInvariant, ReadFile
    PROVE  LoaderInvariant'
<1>1. /\ phase = "opening" /\ index = 0 /\ load_segments = << >>
      /\ UNCHANGED <<machine_vars, inputs, index, written, validation, totals>>
      /\ \/ phase' = "header"
         \/ phase' = "failed" /\ boot_result'.code \notin StackFailures
  BY DEF ReadFile, LoaderInvariant, ScanInvariant, Fail, StackFailures
<1>2. Validated'
  BY <1>1, ValidatedStable DEF LoaderInvariant
<1>3. ScanInvariant'
  BY <1>1 DEF ScanInvariant, validation
<1>4. caller = "rvemu" => ValidConfiguration
  BY <1>1 DEF LoaderInvariant, Configured
<1>. QED
  BY <1>1, <1>2, <1>3, <1>4, EarlyStep DEF BeforeWriting

\* What the loader reads of a file, whichever file it is.
LEMMA ImageTyped ==
    ASSUME LoaderTypeOK
    PROVE  /\ image.size \in Nat
           /\ image.data \in [0 .. (image.size - 1) -> Byte]
           /\ image.entry_point \in Word
           /\ image.program_headers \in Seq(ProgramHeaders)
           /\ \/ image.program_header_count = Len(image.program_headers)
              \/ image.program_header_count \in {0, HalfwordValues - 1}
BY ImagesAssumption, Zenon DEF LoaderTypeOK

LEMMA ValidateHeaderSafe ==
    ASSUME LoaderInvariant, ValidateHeader
    PROVE  LoaderInvariant'
<1>1. /\ phase = "header" /\ index = 0 /\ load_segments = << >>
      /\ UNCHANGED <<machine_vars, inputs, index, written, validation, totals>>
  BY DEF ValidateHeader, LoaderInvariant, ScanInvariant
<1>2. Validated'
  BY <1>1, ValidatedStable DEF LoaderInvariant
<1>3. caller = "rvemu" => ValidConfiguration
  BY <1>1 DEF LoaderInvariant, Configured
<1>4. CASE FailingHeaderChecks # {} /\ phase' = "failed"
           /\ boot_result'.code = FirstOf(HeaderChecks, FailingHeaderChecks)
  <2>1. FailingHeaderChecks \subseteq ToSet(HeaderChecks)
    BY DEF FailingHeaderChecks
  <2>2. FirstOf(HeaderChecks, FailingHeaderChecks) \in FailingHeaderChecks
    BY <1>4, <2>1, ChecksAreLists, FirstOfFails
  <2>3. boot_result'.code \notin StackFailures
    BY <1>4, <2>1, <2>2, LoaderCodes
  <2>4. ScanInvariant'
    BY <1>4 DEF ScanInvariant
  <2>. QED
    BY <1>1, <1>2, <1>4, <2>3, <2>4, EarlyStep DEF BeforeWriting, LoaderInvariant,
       LoaderTypeOK
<1>5. CASE FailingHeaderChecks = {} /\ phase' = "segments"
  <2>1. /\ "MissingProgramHeaderTable" \in ToSet(HeaderChecks)
        /\ "UnsupportedProgramHeaderCount" \in ToSet(HeaderChecks)
    BY DEF ToSet, HeaderChecks, IdentificationChecks, TableChecks
  <2>2. image.program_header_count # 0
    BY <1>5, <2>1 DEF FailingHeaderChecks
  <2>3. image.program_header_count # kExtendedProgramHeaderCount
    BY <1>5, <2>1 DEF FailingHeaderChecks
  <2>4. /\ image.program_header_count = Len(image.program_headers)
        /\ Len(image.program_headers) \in Nat
    BY <2>2, <2>3, ImageTyped DEF kExtendedProgramHeaderCount, LoaderInvariant
  <2>5. Scanned(0)
    BY <1>1 DEF Scanned
  <2>6. ScanInvariant'
    BY <1>1, <1>5, <2>4, <2>5 DEF ScanInvariant, Scanned, validation, inputs
  <2>. QED
    BY <1>1, <1>2, <1>3, <1>5, <2>6, EarlyStep DEF BeforeWriting, LoaderInvariant,
       LoaderTypeOK
<1>6. CASE phase' = "failed" /\ boot_result'.code = "HostAllocationFailure"
  <2>1. boot_result'.code \notin StackFailures
    BY <1>6 DEF StackFailures
  <2>2. ScanInvariant'
    BY <1>6 DEF ScanInvariant
  <2>. QED
    BY <1>1, <1>2, <1>6, <2>1, <2>2, EarlyStep DEF BeforeWriting, LoaderInvariant,
       LoaderTypeOK
<1>. QED
  BY <1>4, <1>5, <1>6 DEF ValidateHeader, Fail

\* Reading one more header keeps the segments those of the headers read.
LEMMA ScanAccepted ==
    ASSUME NEW n \in Nat, Scanned(n), load_segments \in Seq(ProgramHeaders),
           UNCHANGED image, image.program_headers[n + 1] \in ProgramHeaders,
           load_segments' = Append(load_segments, image.program_headers[n + 1])
    PROVE  Scanned(n + 1)'
<1>0. PICK m, h : m = Len(load_segments) + 1 /\ h = image.program_headers[n + 1]
  OBVIOUS
<1>1. /\ DOMAIN load_segments' = 1 .. m
      /\ DOMAIN load_segments = 1 .. (m - 1)
      /\ load_segments'[m] = h
      /\ \A k \in 1 .. (m - 1) : load_segments'[k] = load_segments[k]
      /\ m \in Nat \ {0}
  <2>1. h \in ProgramHeaders /\ load_segments' = Append(load_segments, h)
    BY <1>0
  <2>2. m = Len(load_segments) + 1
    BY <1>0
  <2>. QED
    BY <2>1, <2>2
<1>2. \A k \in DOMAIN load_segments' :
          \E i \in 1 .. (n + 1) : load_segments'[k] = image.program_headers[i]
  <2>1. SUFFICES ASSUME NEW k \in 1 .. m
                 PROVE  \E i \in 1 .. (n + 1) :
                            load_segments'[k] = image.program_headers[i]
    BY <1>1
  <2>2. CASE k = m
    BY <1>0, <1>1, <2>2
  <2>3. CASE k \in 1 .. (m - 1)
    <3>1. PICK i \in 1 .. n : load_segments[k] = image.program_headers[i]
      BY <1>1, <2>3 DEF Scanned
    <3>2. i \in 1 .. (n + 1) /\ load_segments'[k] = image.program_headers[i]
      BY <1>1, <2>3, <3>1
    <3>. QED
      BY <3>2
  <2>. QED
    BY <1>1, <2>1, <2>2, <2>3
<1>3. ASSUME NEW i \in 1 .. (n + 1), image.program_headers[i].type = "Load"
      PROVE  \E k \in DOMAIN load_segments' :
                 load_segments'[k] = image.program_headers[i]
  <2>1. CASE i = n + 1
    BY <1>0, <1>1, <2>1
  <2>2. CASE i \in 1 .. n
    <3>1. PICK k \in 1 .. (m - 1) : load_segments[k] = image.program_headers[i]
      BY <1>1, <1>3, <2>2 DEF Scanned
    <3>2. k \in 1 .. m /\ load_segments'[k] = image.program_headers[i]
      BY <1>1, <3>1
    <3>. QED
      BY <1>1, <3>2
  <2>. QED
    BY <1>3, <2>1, <2>2
<1>. QED
  BY <1>2, <1>3 DEF Scanned

LEMMA ScanSkipped ==
    ASSUME NEW n \in Nat, Scanned(n), image.program_headers[n + 1].type # "Load",
           UNCHANGED <<image, load_segments>>
    PROVE  Scanned(n + 1)'
BY DEF Scanned

LEMMA ValidateProgramHeaderSafe ==
    ASSUME LoaderInvariant, ValidateProgramHeader
    PROVE  LoaderInvariant'
<1>0. PICK n : n = index
  OBVIOUS
<1> DEFINE h == image.program_headers[n + 1]
<1>1. /\ phase = "segments" /\ index < image.program_header_count
      /\ UNCHANGED <<machine_vars, inputs, written, totals>>
      /\ UNCHANGED image
  BY DEF ValidateProgramHeader, inputs
<1>2. /\ image.program_header_count = Len(image.program_headers)
      /\ Scanned(n) /\ index \in Nat /\ n \in Nat
      /\ caller = "rvemu" => ValidConfiguration
      /\ Validated /\ load_segments \in Seq(ProgramHeaders)
  BY <1>0, <1>1 DEF LoaderInvariant, ScanInvariant, Configured, LoaderTypeOK, Validated,
              SegmentsPlaced
<1>3. h \in ProgramHeaders /\ image.size \in Nat
  BY <1>0, <1>1, <1>2, ImageTyped DEF LoaderInvariant
<1> HIDE DEF h
<1>4. CASE FailingSegmentChecks(h) # {} /\ phase' = "failed"
           /\ boot_result'.code = FirstOf(SegmentChecks, FailingSegmentChecks(h))
           /\ UNCHANGED <<index, validation>>
  <2>1. FailingSegmentChecks(h) \subseteq ToSet(SegmentChecks)
    <3>1. {"UnsupportedDynamicLinking", "UnsupportedThreadLocalStorage"}
              \subseteq ToSet(SegmentChecks)
      BY DEF ToSet, SegmentChecks
    <3>. QED
      BY <3>1, Zenon DEF FailingSegmentChecks
  <2>2. FirstOf(SegmentChecks, FailingSegmentChecks(h)) \in FailingSegmentChecks(h)
    BY <1>4, <2>1, ChecksAreLists, FirstOfFails
  <2>3. boot_result'.code \notin StackFailures
    BY <1>4, <2>1, <2>2, LoaderCodes
  <2>4. ScanInvariant' /\ Validated'
    BY <1>1, <1>2, <1>4, ValidatedStable DEF ScanInvariant
  <2>. QED
    BY <1>1, <1>2, <1>4, <2>3, <2>4, EarlyStep DEF BeforeWriting
<1>5. CASE FailingSegmentChecks(h) = {} /\ index' = index + 1 /\ phase' = phase
           /\ h.type = "Load" /\ AcceptSegment(h)
  <2>1. Validated'
    BY <1>1, <1>2, <1>3, <1>5, AcceptKeepsValid
  <2>2. Scanned(n + 1)'
    BY <1>1, <1>2, <1>3, <1>5, ScanAccepted DEF AcceptSegment, h
  <2>3. ScanInvariant'
    BY <1>1, <1>2, <1>5, <1>0, <2>2 DEF ScanInvariant, Scanned
  <2>. QED
    BY <1>1, <1>2, <1>5, <2>1, <2>3, EarlyStep DEF BeforeWriting
<1>6. CASE FailingSegmentChecks(h) = {} /\ index' = index + 1 /\ phase' = phase
           /\ h.type # "Load" /\ UNCHANGED validation
  <2>1. Validated'
    BY <1>1, <1>2, <1>6, ValidatedStable
  <2>2. Scanned(n + 1)'
    BY <1>1, <1>2, <1>6, ScanSkipped DEF validation, h
  <2>3. ScanInvariant'
    BY <1>1, <1>2, <1>6, <1>0, <2>2 DEF ScanInvariant, Scanned
  <2>. QED
    BY <1>1, <1>2, <1>6, <2>1, <2>3, EarlyStep DEF BeforeWriting
<1>. QED
  BY <1>0, <1>4, <1>5, <1>6 DEF ValidateProgramHeader, Fail, h

LEMMA ValidateEntrySafe ==
    ASSUME LoaderInvariant, ValidateEntry
    PROVE  LoaderInvariant'
<1>1. /\ phase = "segments" /\ index = image.program_header_count
      /\ UNCHANGED <<machine_vars, inputs, written, validation, totals>>
  BY DEF ValidateEntry
<1>2. /\ UNCHANGED <<caller, options, image>>
      /\ UNCHANGED <<bytes, registers, program_counter>>
      /\ UNCHANGED <<written, file_bytes_loaded, zero_fill_bytes>>
      /\ UNCHANGED load_segments
  BY <1>1 DEF inputs, machine_vars, totals, validation
<1>3. /\ Scanned(Len(image.program_headers)) /\ index \in Nat
      /\ caller = "rvemu" => ValidConfiguration
      /\ load_segments \in Seq(ProgramHeaders)
      /\ Untouched /\ written = 0 /\ file_bytes_loaded = 0 /\ zero_fill_bytes = 0
  BY <1>1 DEF LoaderInvariant, ScanInvariant, Configured, LoaderTypeOK, Validated,
              SegmentsPlaced, BeforeWriting
<1>4. Validated'
  BY <1>1, ValidatedStable DEF LoaderInvariant
<1>5. CASE FailingEntryChecks # {} /\ phase' = "failed"
           /\ boot_result'.code = FirstOf(EntryChecks, FailingEntryChecks)
           /\ UNCHANGED index
  <2>1. FailingEntryChecks \subseteq ToSet(EntryChecks)
    BY DEF FailingEntryChecks
  <2>2. FirstOf(EntryChecks, FailingEntryChecks) \in FailingEntryChecks
    BY <1>5, <2>1, ChecksAreLists, FirstOfFails
  <2>3. boot_result'.code \notin StackFailures
    BY <1>5, <2>1, <2>2, LoaderCodes
  <2>4. ScanInvariant'
    BY <1>5 DEF ScanInvariant
  <2>. QED
    BY <1>1, <1>3, <1>4, <1>5, <2>3, <2>4, EarlyStep DEF BeforeWriting
<1>6. CASE FailingEntryChecks = {} /\ phase' = "writing" /\ index' = 0
  <2>1. EntryAccepted
    <3>1. /\ "EntryPointMisaligned" \in ToSet(EntryChecks)
          /\ "EntryPointNotExecutable" \in ToSet(EntryChecks)
      BY DEF ToSet, EntryChecks
    <3>2. is_instruction_aligned(image.entry_point)
      BY <1>6, <3>1 DEF FailingEntryChecks
    <3>3. EntryIsExecutable
      BY <1>6, <3>1 DEF FailingEntryChecks
    <3>. QED
      BY <3>2, <3>3 DEF EntryAccepted
  <2>2. EntryAccepted'
    BY <1>2, <2>1 DEF EntryAccepted, EntryIsExecutable, Nonempty, SegmentEnd
  <2>3. \A k \in DOMAIN load_segments, o \in Offsets : ~ Reached(k, o, 0, 0)
    <3>1. SUFFICES ASSUME NEW k \in DOMAIN load_segments, NEW o \in Offsets,
                          Reached(k, o, 0, 0)
                   PROVE  FALSE
      OBVIOUS
    <3>2. k \in Nat \ {0} /\ load_segments[k] \in ProgramHeaders
      BY <1>3
    <3>3. load_segments[k].virtual_address \in Nat
      BY <3>2, SegmentNumbers
    <3>4. BaseAddress + o \in Int
      BY RegionAssumption, WordInt DEF Offsets
    <3>. QED
      BY <3>1, <3>2, <3>3, <3>4 DEF Reached, Covers
  <2>4. MemoryWritten(0, 0)'
    BY <1>2, <1>3, <2>3 DEF MemoryWritten, Reached, Covers, Untouched, MemoryBefore
  <2>5. Covered(0)' = {}
    BY DEF Covered
  <2>6. (file_bytes_loaded + zero_fill_bytes)' = Cardinality(Covered(0)')
    <3>1. Cardinality({}) = 0
      BY FS_EmptySet, Zenon
    <3>2. Cardinality(Covered(0)') = 0
      BY <2>5, <3>1, Zenon
    <3>. QED
      BY <1>2, <1>3, <3>2
  <2>7. Scanned(Len(image.program_headers))'
    BY <1>2, <1>3 DEF Scanned
  <2>8. /\ index' <= Len(load_segments')
        /\ index' < Len(load_segments') => written' <= Segment'.memory_size
    <3>1. Len(load_segments) \in Nat
      BY <1>3
    <3>2. index' < Len(load_segments') => Segment' \in ProgramHeaders
      BY <1>2, <1>3, <1>6, <3>1 DEF Segment
    <3>. QED
      BY <1>2, <1>3, <1>6, <3>1, <3>2, SegmentNumbers
  <2>9. WritingInvariant'
    <3>1. index' = 0 /\ written' = 0
      BY <1>2, <1>3, <1>6
    <3>2. MemoryWritten(index, written)'
      BY <2>4, <3>1 DEF MemoryWritten, Reached
    <3>3. Covered(index)' = Covered(0)'
      BY <3>1, Zenon DEF Covered
    <3>4. (registers = [r \in Registers |-> 0] /\ program_counter = 0)'
      BY <1>2, <1>3 DEF Untouched
    <3>. QED
      BY <2>2, <2>6, <2>7, <2>8, <3>1, <3>2, <3>3, <3>4 DEF WritingInvariant
  <2>10. LoadedInvariant'
    BY <1>6, NotYetLoaded DEF IsLoaded
  <2>11. LoaderTypeOK' /\ Configured' /\ ScanInvariant'
    BY <1>2, <1>3, <1>6
    DEF LoaderInvariant, LoaderTypeOK, Configured, ScanInvariant, ValidConfiguration
  <2>. QED
    BY <1>4, <1>6, <2>9, <2>10, <2>11 DEF LoaderInvariant, BeforeWriting
<1>. QED
  BY <1>5, <1>6 DEF ValidateEntry, Fail

-----------------------------------------------------------------------------
(***************************************************************************)
(* The writes.                                                             *)
(***************************************************************************)
\* No address belongs to two segments.
LEMMA SegmentsDisjoint ==
    ASSUME Validated, NEW j \in DOMAIN load_segments, NEW k \in DOMAIN load_segments,
           j < k, NEW a, Covers(load_segments[j], a), Covers(load_segments[k], a)
    PROVE  FALSE
<1>1. /\ load_segments[j] \in ProgramHeaders /\ load_segments[k] \in ProgramHeaders
  BY DEF Validated, SegmentsPlaced
<1>2. \A h \in ProgramHeaders :
          Covers(h, a) => /\ a \in Int /\ h.virtual_address <= a /\ a < SegmentEnd(h)
                          /\ h.memory_size # 0
                          /\ h.virtual_address \in Nat /\ SegmentEnd(h) \in Nat
  BY SegmentNumbers DEF Covers
<1>3. j \in Nonempty /\ k \in Nonempty
  BY <1>1, <1>2 DEF Nonempty
<1>4. SegmentEnd(load_segments[j]) <= load_segments[k].virtual_address
  BY <1>3 DEF Validated, SegmentsOrdered
<1>. QED
  BY <1>1, <1>2, <1>4

\* The byte at hand lies in memory, and its address does not wrap.
LEMMA WriteInBounds ==
    ASSUME NEW h, Placed(h), image.size \in Nat, NEW w \in Nat, w < h.memory_size
    PROVE  /\ WrapAdd(h.virtual_address, w) = h.virtual_address + w
           /\ InBounds(h.virtual_address + w, 1)
           /\ Offset(h.virtual_address + w) \in Offsets
           /\ BaseAddress + Offset(h.virtual_address + w) = h.virtual_address + w
           /\ Covers(h, h.virtual_address + w)
           /\ w < h.file_size => h.file_offset + w \in 0 .. (image.size - 1)
<1>1. /\ h.virtual_address \in Nat /\ h.memory_size \in Nat
      /\ h.file_size \in Nat /\ h.file_offset \in Nat
      /\ SegmentEnd(h) = h.virtual_address + h.memory_size
  BY SegmentNumbers DEF Placed
<1>2. /\ BaseAddress \in Nat /\ SizeBytes \in Nat /\ WordValues \in Nat
      /\ BaseAddress + SizeBytes <= WordValues
  BY RegionAssumption, WordInt, WordConstants
<1>3. /\ BaseAddress <= h.virtual_address
      /\ h.virtual_address + h.memory_size <= BaseAddress + SizeBytes
      /\ h.file_offset + h.file_size <= image.size
  BY <1>1 DEF Placed, EndAddressExclusive
<1>4. h.virtual_address + w \in 0 .. (WordValues - 1)
  BY <1>1, <1>2, <1>3
<1>5. WrapAdd(h.virtual_address, w) = h.virtual_address + w
  BY <1>2, <1>4 DEF WrapAdd
<1>6. /\ InBounds(h.virtual_address + w, 1)
      /\ Offset(h.virtual_address + w) \in Offsets
      /\ BaseAddress + Offset(h.virtual_address + w) = h.virtual_address + w
  BY <1>1, <1>2, <1>3 DEF InBounds, Offset, Offsets
<1>7. Covers(h, h.virtual_address + w)
  BY <1>1 DEF Covers
<1>8. w < h.file_size => h.file_offset + w \in 0 .. (image.size - 1)
  BY <1>1, <1>3
<1>. QED
  BY <1>5, <1>6, <1>7, <1>8

\* One more byte of the segment at hand is written, and no other byte changes.
LEMMA OneMoreByte ==
    ASSUME Validated, NEW n \in Nat, NEW w \in Nat, n + 1 \in DOMAIN load_segments,
           NEW o0 \in Offsets,
           BaseAddress + o0 = load_segments[n + 1].virtual_address + w,
           Covers(load_segments[n + 1], BaseAddress + o0),
           MemoryWritten(n, w),
           NEW contents,
           contents[o0] = Held(load_segments[n + 1], o0),
           \A o \in Offsets : o # o0 => contents[o] = bytes[o],
           bytes' = contents, UNCHANGED <<caller, image, load_segments>>
    PROVE  MemoryWritten(n, w + 1)'
<1>1. /\ load_segments[n + 1] \in ProgramHeaders
      /\ load_segments[n + 1].virtual_address \in Nat
      /\ DOMAIN load_segments \subseteq Nat
      /\ BaseAddress \in Nat /\ o0 \in Nat
  BY SegmentNumbers, RegionAssumption, WordInt, SMTT(30) DEF Validated, SegmentsPlaced, Offsets
<1>2. SUFFICES ASSUME NEW o \in Offsets
               PROVE  /\ \A k \in DOMAIN load_segments :
                             Reached(k, o, n, w + 1) =>
                                 contents[o] = Held(load_segments[k], o)
                      /\ (\A k \in DOMAIN load_segments : ~ Reached(k, o, n, w + 1)) =>
                             contents[o] = MemoryBefore[o]
  BY DEF MemoryWritten, Reached, Held, MemoryBefore, Covers
<1>3. o \in Nat
  BY DEF Offsets
<1>4. CASE o # o0
  <2>1. \A k \in DOMAIN load_segments :
            Reached(k, o, n, w + 1) <=> Reached(k, o, n, w)
    <3>1. BaseAddress + o < load_segments[n + 1].virtual_address + (w + 1)
             <=> BaseAddress + o < load_segments[n + 1].virtual_address + w
      BY <1>1, <1>3, <1>4
    <3>. QED
      BY <3>1 DEF Reached
  <2>. QED
    BY <1>4, <2>1 DEF MemoryWritten
<1>5. CASE o = o0
  <2>1. Reached(n + 1, o0, n, w + 1)
    BY <1>1 DEF Reached
  <2>2. \A k \in DOMAIN load_segments : Reached(k, o0, n, w + 1) => k = n + 1
    <3>1. SUFFICES ASSUME NEW k \in DOMAIN load_segments, Reached(k, o0, n, w + 1),
                          k # n + 1
                   PROVE  FALSE
      OBVIOUS
    <3>2. k < n + 1 /\ Covers(load_segments[k], BaseAddress + o0)
      BY <1>1, <3>1 DEF Reached
    <3>. QED
      BY <3>2, SegmentsDisjoint
  <2>. QED
    BY <1>5, <2>1, <2>2
<1>. QED
  BY <1>4, <1>5

\* No write leaves the region, so load_elf32 cannot throw half-way through.
LEMMA WriteByteSafe ==
    ASSUME LoaderInvariant, bytes \in Contents, WriteByte
    PROVE  LoaderInvariant'
<1>0. PICK n, w, h : n = index /\ w = written /\ h = load_segments[n + 1]
  OBVIOUS
<1>1. /\ phase = "writing" /\ index < Len(load_segments)
      /\ written < h.memory_size /\ Segment = h
      /\ UNCHANGED <<registers, program_counter, step_result, inputs, index,
                     validation, totals>>
  BY <1>0 DEF WriteByte, Segment
<1>2. /\ UNCHANGED <<caller, options, image, index>>
      /\ UNCHANGED <<registers, program_counter, load_segments>>
      /\ UNCHANGED <<file_bytes_loaded, zero_fill_bytes>>
  BY <1>1 DEF inputs, validation, totals
<1>3. /\ n \in Nat /\ w \in Nat /\ Validated /\ WritingInvariant
      /\ MemoryWritten(n, w)
      /\ LoaderTypeOK
  BY <1>0, <1>1 DEF LoaderInvariant, LoaderTypeOK, WritingInvariant
<1>4. /\ load_segments \in Seq(ProgramHeaders)
      /\ n + 1 \in DOMAIN load_segments
      /\ Placed(h) /\ h \in ProgramHeaders
  BY <1>0, <1>1, <1>3 DEF Validated, SegmentsPlaced
<1>5. /\ image.size \in Nat /\ image.data \in [0 .. (image.size - 1) -> Byte]
  BY <1>3, ImageTyped
<1>6. w < h.memory_size
  BY <1>0, <1>1
<1> DEFINE a == h.virtual_address + w
           o0 == Offset(a)
           value == IF w < h.file_size THEN image.data[h.file_offset + w] ELSE 0
<1>7. /\ WrapAdd(h.virtual_address, w) = a
      /\ InBounds(a, 1)
      /\ o0 \in Offsets
      /\ BaseAddress + o0 = a
      /\ Covers(h, a)
      /\ w < h.file_size => h.file_offset + w \in 0 .. (image.size - 1)
  BY <1>3, <1>4, <1>5, <1>6, WriteInBounds
<1>8. /\ bytes' = write8(bytes, a, value)
      /\ written' = w + 1
      /\ UNCHANGED <<phase, boot_result>>
  BY <1>0, <1>1, <1>7 DEF WriteByte
<1>9. value \in Byte /\ value % ByteValues = value
  <2>1. value \in Byte
    BY <1>5, <1>7, WordSizes DEF Byte
  <2>. QED
    BY <2>1, WordSizes DEF Byte
<1>10. value = Held(h, o0)
  <2>1. h.virtual_address \in Nat
    BY <1>4, SegmentNumbers
  <2>2. BaseAddress \in Nat /\ SizeBytes \in Nat
    BY RegionAssumption, WordInt
  <2>3. BaseAddress + o0 - h.virtual_address = w
    BY <1>3, <2>1, <2>2 DEF Offset
  <2>. QED
    BY <2>3 DEF Held
<1>11. MemoryWritten(n, w + 1)'
  <2>1. PICK contents : contents = bytes'
    OBVIOUS
  <2>2. /\ contents[o0] = Held(h, o0)
        /\ \A o \in Offsets : o # o0 => contents[o] = bytes[o]
    BY <1>7, <1>8, <1>9, <1>10, <2>1 DEF write8, Contents
  <2>3. PICK p : p = o0
    OBVIOUS
  <2>4. /\ p \in Offsets
        /\ BaseAddress + p = load_segments[n + 1].virtual_address + w
        /\ Covers(load_segments[n + 1], BaseAddress + p)
        /\ contents[p] = Held(load_segments[n + 1], p)
        /\ \A o \in Offsets : o # p => contents[o] = bytes[o]
    BY <1>0, <1>7, <2>2, <2>3
  <2>. QED
    BY <1>2, <1>3, <1>4, <2>1, <2>4, OneMoreByte
<1>12. WritingInvariant'
  <2>1. index' = n /\ written' = w + 1 /\ n < Len(load_segments')
    BY <1>0, <1>1, <1>2, <1>8
  <2>2. MemoryWritten(index, written)'
    BY <1>11, <2>1 DEF MemoryWritten, Reached
  <2>3. Covered(index)' = Covered(index)
    BY <1>2 DEF Covered
  <2>4. Scanned(Len(image.program_headers))' /\ EntryAccepted'
    BY <1>2, <1>3
    DEF WritingInvariant, Scanned, EntryAccepted, EntryIsExecutable, Nonempty,
        SegmentEnd
  <2>5. written' <= Segment'.memory_size
    BY <1>0, <1>2, <1>3, <1>4, <1>6, <1>8, SegmentNumbers DEF Segment
  <2>6. Len(load_segments') \in Nat
    BY <1>2, <1>4
  <2>7. (file_bytes_loaded + zero_fill_bytes = Cardinality(Covered(index)))'
    BY <1>2, <1>3, <2>3 DEF WritingInvariant
  <2>8. (registers = [r \in Registers |-> 0] /\ program_counter = 0)'
    BY <1>2, <1>3 DEF WritingInvariant
  <2>. QED
    BY <1>3, <2>1, <2>2, <2>4, <2>5, <2>6, <2>7, <2>8 DEF WritingInvariant
<1>13. Validated'
  BY <1>1, <1>3, ValidatedStable
<1>14. LoadedInvariant'
  BY <1>1, <1>8, NotYetLoaded DEF IsLoaded
<1>15. LoaderTypeOK' /\ Configured' /\ ScanInvariant'
  BY <1>1, <1>2, <1>3, <1>8
  DEF LoaderInvariant, LoaderTypeOK, Configured, ScanInvariant, ValidConfiguration
<1>. QED
  BY <1>1, <1>8, <1>12, <1>13, <1>14, <1>15 DEF LoaderInvariant, BeforeWriting

\* The segment at hand adds its bytes to the addresses covered.
LEMMA CoverOneMore ==
    ASSUME Validated, NEW n \in Nat, n + 1 \in DOMAIN load_segments
    PROVE  Cardinality(Covered(n + 1))
               = Cardinality(Covered(n)) + load_segments[n + 1].memory_size
<1>0. PICK h : h = load_segments[n + 1]
  OBVIOUS
<1> DEFINE last == h.virtual_address + h.memory_size - 1
           T == h.virtual_address .. last
<1>1. /\ h \in ProgramHeaders /\ Placed(h)
      /\ DOMAIN load_segments \subseteq Nat
      /\ 1 .. (n + 1) \subseteq DOMAIN load_segments
  BY <1>0 DEF Validated, SegmentsPlaced
<1>2. /\ h.virtual_address \in Nat /\ h.memory_size \in Nat
      /\ SegmentEnd(h) = h.virtual_address + h.memory_size
  BY <1>1, SegmentNumbers
<1>3. T \subseteq Word
  <2>1. /\ BaseAddress \in Nat /\ SizeBytes \in Nat /\ WordValues \in Nat
        /\ BaseAddress + SizeBytes <= WordValues
    BY RegionAssumption, WordInt, WordConstants
  <2>2. h.memory_size # 0 => h.virtual_address + h.memory_size <= WordValues
    BY <1>1, <1>2, <2>1 DEF Placed, EndAddressExclusive
  <2>. QED
    BY <1>2, <2>1, <2>2 DEF Word
<1>4. Covered(n + 1) = Covered(n) \cup T
  <2>1. \A a : Covers(h, a) <=> a \in T
    BY DEF Covers
  <2>2. 1 .. (n + 1) = (1 .. n) \cup {n + 1}
    OBVIOUS
  <2> HIDE DEF T
  <2>. QED
    BY <1>0, <1>3, <2>1, <2>2 DEF Covered
<1>5. Covered(n) \cap T = {}
  <2>1. SUFFICES ASSUME NEW a \in Covered(n), a \in T PROVE FALSE
    OBVIOUS
  <2>2. PICK k \in 1 .. n : Covers(load_segments[k], a)
    BY DEF Covered
  <2>3. Covers(load_segments[n + 1], a)
    BY <1>0, <2>1 DEF Covers
  <2>4. k \in DOMAIN load_segments /\ k < n + 1
    BY <1>1
  <2>. QED
    BY <2>2, <2>3, <2>4, SegmentsDisjoint
<1>6. IsFiniteSet(Covered(n)) /\ Cardinality(Covered(n)) \in Nat
  <2>1. IsFiniteSet(Word)
    BY WordConstants, FS_Interval DEF Word
  <2>2. Covered(n) \in SUBSET Word
    BY DEF Covered
  <2>. QED
    BY <2>1, <2>2, FS_Subset, FS_CardinalityType
<1>7. IsFiniteSet(T) /\ Cardinality(T) = h.memory_size
  <2>1. h.virtual_address \in Int /\ last \in Int
    BY <1>2
  <2>2. /\ IsFiniteSet(T)
        /\ Cardinality(T) = IF h.virtual_address > last THEN 0
                            ELSE last - h.virtual_address + 1
    BY <2>1, FS_Interval, Zenon
  <2>. QED
    BY <1>2, <2>2
<1> HIDE DEF T
<1>8. Cardinality(Covered(n) \cup T)
          = Cardinality(Covered(n)) + Cardinality(T) - Cardinality(Covered(n) \cap T)
  BY <1>6, <1>7, FS_Union, Zenon
<1>9. Cardinality(Covered(n) \cap T) = 0
  BY <1>5, FS_EmptySet, Zenon
<1>10. Cardinality(Covered(n + 1)) = Cardinality(Covered(n)) + h.memory_size - 0
  BY <1>4, <1>7, <1>8, <1>9, Zenon
<1>. QED
  BY <1>0, <1>2, <1>6, <1>10

LEMMA SegmentWrittenSafe ==
    ASSUME LoaderInvariant, SegmentWritten
    PROVE  LoaderInvariant'
<1>0. PICK n, h : n = index /\ h = load_segments[n + 1]
  OBVIOUS
<1>1. /\ phase = "writing" /\ index < Len(load_segments)
      /\ written = h.memory_size /\ Segment = h
      /\ UNCHANGED <<machine_vars, inputs, phase, validation, boot_result>>
      /\ file_bytes_loaded' = file_bytes_loaded + h.file_size
      /\ zero_fill_bytes' = zero_fill_bytes + (h.memory_size - h.file_size)
      /\ index' = n + 1 /\ written' = 0
  BY <1>0 DEF SegmentWritten, Segment
<1>2. /\ UNCHANGED <<caller, options, image, phase>>
      /\ UNCHANGED <<registers, program_counter, bytes, load_segments>>
  BY <1>1 DEF inputs, validation, machine_vars
<1>3. /\ n \in Nat /\ Validated /\ WritingInvariant
      /\ file_bytes_loaded \in Nat /\ zero_fill_bytes \in Nat
      /\ MemoryWritten(n, h.memory_size)
      /\ file_bytes_loaded + zero_fill_bytes = Cardinality(Covered(n))
  BY <1>0, <1>1 DEF LoaderInvariant, LoaderTypeOK, WritingInvariant
<1>4. /\ load_segments \in Seq(ProgramHeaders) /\ Len(load_segments) \in Nat
      /\ DOMAIN load_segments = 1 .. Len(load_segments)
      /\ n + 1 \in DOMAIN load_segments
      /\ h \in ProgramHeaders /\ h.file_size <= h.memory_size
      /\ n + 1 <= Len(load_segments)
  BY <1>0, <1>1, <1>3 DEF Validated, SegmentsPlaced, Placed
<1>5. h.file_size \in Nat /\ h.memory_size \in Nat /\ h.virtual_address \in Nat
  BY <1>4, SegmentNumbers
<1>6. /\ file_bytes_loaded' \in Nat /\ zero_fill_bytes' \in Nat
      /\ file_bytes_loaded' + zero_fill_bytes'
            = file_bytes_loaded + zero_fill_bytes + h.memory_size
  <2>1. /\ file_bytes_loaded' = file_bytes_loaded + h.file_size
        /\ zero_fill_bytes' = zero_fill_bytes + (h.memory_size - h.file_size)
    BY <1>1
  <2>2. /\ file_bytes_loaded \in Nat /\ zero_fill_bytes \in Nat
        /\ h.file_size <= h.memory_size
    BY <1>3, <1>4
  <2>. QED
    BY <1>5, <2>1, <2>2
<1>7. MemoryWritten(n + 1, 0)'
  <2>1. \A o \in Offsets, k \in DOMAIN load_segments :
            Reached(k, o, n + 1, 0) <=> Reached(k, o, n, h.memory_size)
    <3>1. SUFFICES ASSUME NEW o \in Offsets, NEW k \in DOMAIN load_segments
                   PROVE  Reached(k, o, n + 1, 0) <=> Reached(k, o, n, h.memory_size)
      OBVIOUS
    <3>2. k \in Nat /\ load_segments[k].virtual_address \in Nat
      BY <1>4, SegmentNumbers
    <3>3. PICK a : a = BaseAddress + o /\ a \in Int
      BY RegionAssumption, WordInt DEF Offsets
    <3>4. Covers(load_segments[k], a) => ~ (a < load_segments[k].virtual_address + 0)
      BY <3>2, <3>3 DEF Covers
    <3>5. k = n + 1 => (Covers(load_segments[k], a)
                           => a < load_segments[k].virtual_address + h.memory_size)
      BY <1>0, <1>5, <3>3 DEF Covers
    <3>. QED
      BY <1>3, <3>2, <3>3, <3>4, <3>5 DEF Reached
  <2>2. \A o \in Offsets, k \in DOMAIN load_segments :
            Reached(k, o, n + 1, 0)' <=> Reached(k, o, n + 1, 0)
    BY <1>2 DEF Reached, Covers
  <2>3. MemoryWritten(n + 1, 0)
    BY <1>3, <2>1 DEF MemoryWritten
  <2>. QED
    BY <1>2, <2>2, <2>3 DEF MemoryWritten, Held, MemoryBefore
<1>8. (file_bytes_loaded + zero_fill_bytes)' = Cardinality(Covered(n + 1)')
  <2>1. Cardinality(Covered(n + 1)) = Cardinality(Covered(n)) + h.memory_size
    BY <1>0, <1>3, <1>4, CoverOneMore
  <2>2. Covered(n + 1)' = Covered(n + 1)
    BY <1>2 DEF Covered
  <2>. QED
    BY <1>3, <1>6, <2>1, <2>2
<1>9. WritingInvariant'
  <2>1. MemoryWritten(index, written)'
    BY <1>1, <1>7 DEF MemoryWritten, Reached
  <2>2. Covered(index)' = Covered(n + 1)'
    BY <1>1, Zenon DEF Covered
  <2>3. Scanned(Len(image.program_headers))' /\ EntryAccepted'
    BY <1>2, <1>3
    DEF WritingInvariant, Scanned, EntryAccepted, EntryIsExecutable, Nonempty,
        SegmentEnd
  <2>4. /\ index' <= Len(load_segments')
        /\ index' < Len(load_segments') => written' <= Segment'.memory_size
    <3>1. index' < Len(load_segments') => Segment' \in ProgramHeaders
      BY <1>1, <1>2, <1>3, <1>4 DEF Segment
    <3>. QED
      BY <1>1, <1>2, <1>4, <3>1, SegmentNumbers
  <2>5. (registers = [r \in Registers |-> 0] /\ program_counter = 0)'
    BY <1>2, <1>3 DEF WritingInvariant
  <2>6. (file_bytes_loaded + zero_fill_bytes = Cardinality(Covered(index)))'
    BY <1>8, <2>2
  <2>. QED
    BY <1>1, <2>1, <2>3, <2>4, <2>5, <2>6 DEF WritingInvariant
<1>10. Validated'
  BY <1>1, <1>3, ValidatedStable
<1>11. LoadedInvariant'
  BY <1>1, NotYetLoaded DEF IsLoaded
<1>12. LoaderTypeOK' /\ Configured' /\ ScanInvariant'
  BY <1>1, <1>2, <1>3, <1>6
  DEF LoaderInvariant, LoaderTypeOK, Configured, ScanInvariant, ValidConfiguration
<1>. QED
  BY <1>1, <1>9, <1>10, <1>11, <1>12 DEF LoaderInvariant, BeforeWriting

-----------------------------------------------------------------------------
(***************************************************************************)
(* The end of the load.                                                    *)
(***************************************************************************)
\* The segments of the file that occupy memory are the ones that were accepted.
LEMMA LoadSegmentsAccepted ==
    ASSUME Validated, Scanned(Len(image.program_headers)),
           image.program_headers \in Seq(ProgramHeaders)
    PROVE  \A h : h \in LoadSegments <=> \E k \in Nonempty : h = load_segments[k]
<1>1. DOMAIN image.program_headers = 1 .. Len(image.program_headers)
  OBVIOUS
<1>2. ASSUME NEW h \in LoadSegments
      PROVE  \E k \in Nonempty : h = load_segments[k]
  <2>1. /\ h \in ToSet(image.program_headers)
        /\ h.type = "Load" /\ h.memory_size # 0
    BY DEF LoadSegments
  <2>2. PICK i \in 1 .. Len(image.program_headers) : h = image.program_headers[i]
    BY <1>1, <2>1 DEF ToSet
  <2>3. PICK k \in DOMAIN load_segments : load_segments[k] = h
    BY <2>1, <2>2 DEF Scanned
  <2>. QED
    BY <2>1, <2>3 DEF Nonempty
<1>3. ASSUME NEW k \in Nonempty
      PROVE  load_segments[k] \in LoadSegments
  <2>1. /\ k \in DOMAIN load_segments /\ load_segments[k].memory_size # 0
        /\ load_segments[k].type = "Load"
    BY DEF Nonempty, Validated, SegmentsPlaced, Placed
  <2>2. PICK i \in 1 .. Len(image.program_headers) :
            load_segments[k] = image.program_headers[i]
    BY <2>1 DEF Scanned
  <2>3. load_segments[k] \in ToSet(image.program_headers)
    BY <1>1, <2>2 DEF ToSet
  <2>. QED
    BY <2>1, <2>3 DEF LoadSegments
<1>. QED
  BY <1>2, <1>3

\* Only a segment that occupies memory covers an address.
LEMMA CoverersNonempty ==
    ASSUME Validated, NEW k \in DOMAIN load_segments, NEW a,
           Covers(load_segments[k], a)
    PROVE  k \in Nonempty
<1>1. load_segments[k] \in ProgramHeaders
  BY DEF Validated, SegmentsPlaced
<1>. QED
  BY <1>1, SegmentNumbers DEF Covers, Nonempty

\* When every segment is written memory is the image.
LEMMA WrittenIsImage ==
    ASSUME Validated, Scanned(Len(image.program_headers)),
           image.program_headers \in Seq(ProgramHeaders),
           MemoryWritten(Len(load_segments), 0), NEW o \in Offsets
    PROVE  LET covering == {h \in LoadSegments : Covers(h, BaseAddress + o)}
               At(h) == BaseAddress + o - h.virtual_address
           IN /\ covering = {} => bytes[o] = MemoryBefore[o]
              /\ \A h \in covering :
                    bytes[o] = IF At(h) < h.file_size
                               THEN image.data[h.file_offset + At(h)] ELSE 0
<1> DEFINE covering == {h \in LoadSegments : Covers(h, BaseAddress + o)}
           n == Len(load_segments)
<1>1. /\ n \in Nat /\ DOMAIN load_segments = 1 .. n
  BY DEF Validated, SegmentsPlaced
<1>2. \A k \in DOMAIN load_segments :
          Covers(load_segments[k], BaseAddress + o) => load_segments[k] \in covering
  BY CoverersNonempty, LoadSegmentsAccepted
<1>3. covering = {} => bytes[o] = MemoryBefore[o]
  <2>1. SUFFICES ASSUME covering = {} PROVE bytes[o] = MemoryBefore[o]
    OBVIOUS
  <2>2. \A k \in DOMAIN load_segments : ~ Reached(k, o, n, 0)
    BY <1>2, <2>1 DEF Reached
  <2>. QED
    BY <2>2 DEF MemoryWritten
<1>4. ASSUME NEW h \in covering
      PROVE  bytes[o] = Held(h, o)
  <2>1. PICK k \in Nonempty : h = load_segments[k]
    BY LoadSegmentsAccepted
  <2>2. k \in DOMAIN load_segments
    BY DEF Nonempty
  <2>3. Reached(k, o, n, 0)
    BY <1>1, <2>1, <2>2 DEF Reached
  <2>. QED
    BY <2>1, <2>2, <2>3 DEF MemoryWritten
<1>. QED
  BY <1>3, <1>4 DEF Held

\* The addresses that segments of the file cover, as LoadIsReported states them.
FileCovers == {a \in Word : \E h \in LoadSegments : Covers(h, a)}

LEMMA CoveredIsAll ==
    ASSUME Validated, Scanned(Len(image.program_headers)),
           image.program_headers \in Seq(ProgramHeaders)
    PROVE  Covered(Len(load_segments)) = FileCovers
<1>1. DOMAIN load_segments = 1 .. Len(load_segments)
  BY DEF Validated, SegmentsPlaced
<1>2. ASSUME NEW a \in Word
      PROVE  (\E k \in 1 .. Len(load_segments) : Covers(load_segments[k], a))
                <=> \E h \in LoadSegments : Covers(h, a)
  <2>1. ASSUME NEW k \in 1 .. Len(load_segments), Covers(load_segments[k], a)
        PROVE  load_segments[k] \in LoadSegments
    <3>1. k \in Nonempty
      BY <1>1, <2>1, CoverersNonempty
    <3>. QED
      BY <3>1, LoadSegmentsAccepted
  <2>2. ASSUME NEW h \in LoadSegments, Covers(h, a)
        PROVE  \E k \in 1 .. Len(load_segments) : Covers(load_segments[k], a)
    <3>1. PICK k \in Nonempty : h = load_segments[k]
      BY LoadSegmentsAccepted
    <3>2. k \in 1 .. Len(load_segments)
      BY <1>1 DEF Nonempty
    <3>. QED
      BY <2>2, <3>1, <3>2
  <2>. QED
    BY <2>1, <2>2
<1>. QED
  BY <1>2 DEF Covered, FileCovers

\* The range from the first segment to the last has all of them, and no more.
LEMMA RangeOfSegments ==
    ASSUME Validated, Scanned(Len(image.program_headers)),
           image.program_headers \in Seq(ProgramHeaders),
           NEW f \in Nonempty, NEW l \in Nonempty, EndsAre(f, l),
           NEW begin, begin = load_segments[f].virtual_address,
           NEW end, end = SegmentEnd(load_segments[l])
    PROVE  /\ begin \in Nat /\ end \in Nat
           /\ BaseAddress <= begin /\ begin < end /\ end <= EndAddressExclusive
           /\ begin \in FileCovers /\ end - 1 \in FileCovers
           /\ FileCovers \subseteq begin .. (end - 1)
<1>1. \A k \in Nonempty :
          /\ load_segments[k] \in ProgramHeaders /\ load_segments[k].memory_size # 0
          /\ Placed(load_segments[k])
  BY DEF Nonempty, Validated, SegmentsPlaced
<1>2. /\ BaseAddress \in Nat /\ SizeBytes \in Nat /\ WordValues \in Nat
      /\ EndAddressExclusive = BaseAddress + SizeBytes
      /\ BaseAddress + SizeBytes <= WordValues
  BY RegionAssumption, WordInt, WordConstants DEF EndAddressExclusive
<1>3. \A k \in Nonempty :
          /\ load_segments[k].virtual_address \in Nat
          /\ SegmentEnd(load_segments[k]) \in Nat
          /\ load_segments[k].memory_size \in Nat \ {0}
          /\ SegmentEnd(load_segments[k])
                = load_segments[k].virtual_address + load_segments[k].memory_size
          /\ BaseAddress <= load_segments[k].virtual_address
          /\ SegmentEnd(load_segments[k]) <= EndAddressExclusive
  BY <1>1, SegmentNumbers DEF Placed
<1>4. \A k \in Nonempty : /\ begin <= load_segments[k].virtual_address
                          /\ SegmentEnd(load_segments[k]) <= end
  BY EndsBound
<1>5. /\ begin \in Nat /\ end \in Nat /\ BaseAddress <= begin
      /\ end <= EndAddressExclusive
  BY <1>3
<1>6. begin < end
  <2>1. SegmentEnd(load_segments[f]) <= end /\ begin < SegmentEnd(load_segments[f])
    BY <1>3, <1>4
  <2>. QED
    BY <1>3, <1>5, <2>1
<1>7. \A a \in Word, k \in Nonempty :
          /\ load_segments[k].virtual_address <= a
          /\ a < SegmentEnd(load_segments[k])
          => a \in FileCovers
  <2>1. SUFFICES ASSUME NEW a \in Word, NEW k \in Nonempty,
                        load_segments[k].virtual_address <= a,
                        a < SegmentEnd(load_segments[k])
                 PROVE  a \in FileCovers
    OBVIOUS
  <2>2. Covers(load_segments[k], a)
    BY <1>3, <2>1, WordInt DEF Covers
  <2>3. load_segments[k] \in LoadSegments
    BY LoadSegmentsAccepted
  <2>. QED
    BY <2>2, <2>3 DEF FileCovers
<1>8. begin \in Word /\ end - 1 \in Word
  BY <1>2, <1>5, <1>6 DEF Word
<1>9. begin \in FileCovers
  BY <1>3, <1>7, <1>8
<1>10. end - 1 \in FileCovers
  BY <1>3, <1>7, <1>8, SMTT(30)
<1>11. FileCovers \subseteq begin .. (end - 1)
  <2>1. SUFFICES ASSUME NEW a \in FileCovers
                 PROVE  a \in begin .. (end - 1)
    OBVIOUS
  <2>2. PICK h \in LoadSegments : Covers(h, a)
    BY DEF FileCovers
  <2>3. PICK k \in Nonempty : h = load_segments[k]
    BY LoadSegmentsAccepted
  <2>4. /\ a \in Int /\ load_segments[k].virtual_address <= a
        /\ a < SegmentEnd(load_segments[k])
    BY <1>3, <2>2, <2>3 DEF Covers
  <2>. QED
    BY <1>3, <1>4, <1>5, <2>4
<1>. QED
  BY <1>5, <1>6, <1>9, <1>10, <1>11

LEMMA LoadCompletesSafe ==
    ASSUME LoaderInvariant, LoadCompletes
    PROVE  LoaderInvariant'
<1>1. /\ phase = "writing" /\ index = Len(load_segments)
      /\ program_counter' = image.entry_point /\ phase' = "loaded"
      /\ UNCHANGED <<registers, bytes, step_result, inputs, index, written,
                     validation, totals>>
  BY DEF LoadCompletes
<1>2. /\ UNCHANGED <<caller, options, image, index, written>>
      /\ UNCHANGED <<registers, bytes, load_segments>>
      /\ UNCHANGED <<file_bytes_loaded, zero_fill_bytes>>
  BY <1>1 DEF inputs, validation, totals
<1>3. /\ LoaderTypeOK /\ Validated /\ WritingInvariant
      /\ Scanned(Len(image.program_headers)) /\ EntryAccepted
      /\ MemoryWritten(Len(load_segments), 0)
      /\ file_bytes_loaded + zero_fill_bytes
            = Cardinality(Covered(Len(load_segments)))
      /\ image.program_headers \in Seq(ProgramHeaders)
      /\ image.entry_point \in Word
  BY <1>1, ImageTyped DEF LoaderInvariant, WritingInvariant
<1>4. MemoryIsImage'
  BY <1>2, <1>3, WrittenIsImage DEF MemoryIsImage, LoadSegments, MemoryBefore, Covers
<1>5. LoadSegments' = LoadSegments
  BY <1>2 DEF LoadSegments
<1>6. PICK f, l \in Nonempty : EndsAre(f, l)
  BY <1>3 DEF Validated, EndsKnown, EntryAccepted, EntryIsExecutable
<1>7. PICK begin, end : /\ begin = load_segments[f].virtual_address
                        /\ end = SegmentEnd(load_segments[l])
  OBVIOUS
<1>8. /\ begin \in Nat /\ end \in Nat
      /\ BaseAddress <= begin /\ begin < end /\ end <= EndAddressExclusive
      /\ begin \in FileCovers /\ end - 1 \in FileCovers
      /\ FileCovers \subseteq begin .. (end - 1)
  BY <1>3, <1>6, <1>7, RangeOfSegments
<1>9. /\ boot_result'.loaded_address_begin = begin
      /\ boot_result'.loaded_address_end_exclusive = end
  BY <1>6, <1>7 DEF LoadCompletes, EndsAre, Some
<1>10. LoadedRange'
  BY <1>8, <1>9 DEF LoadedRange
<1>11. \E h \in LoadSegments : h.executable /\ Covers(h, image.entry_point)
  <2>1. PICK k \in Nonempty :
            /\ load_segments[k].executable
            /\ image.entry_point >= load_segments[k].virtual_address
            /\ image.entry_point < SegmentEnd(load_segments[k])
    BY <1>3 DEF EntryAccepted, EntryIsExecutable
  <2>2. load_segments[k] \in LoadSegments
    BY <1>3, LoadSegmentsAccepted
  <2>3. load_segments[k] \in ProgramHeaders
    BY <1>3 DEF Nonempty, Validated, SegmentsPlaced
  <2>4. Covers(load_segments[k], image.entry_point)
    <3>1. image.entry_point \in Nat
      BY <1>3, WordInt
    <3>2. /\ load_segments[k].virtual_address \in Nat
          /\ load_segments[k].memory_size \in Nat
          /\ SegmentEnd(load_segments[k])
                = load_segments[k].virtual_address + load_segments[k].memory_size
      BY <2>3, SegmentNumbers
    <3>. QED
      BY <2>1, <3>1, <3>2 DEF Covers
  <2>. QED
    BY <2>1, <2>2, <2>4
<1>12. /\ file_bytes_loaded + zero_fill_bytes = Cardinality(FileCovers)
       /\ is_instruction_aligned(image.entry_point)
  BY <1>3, CoveredIsAll DEF EntryAccepted
<1>13. FileCovers' = FileCovers
  BY <1>5 DEF FileCovers, Covers
<1>14. LoadIsReported'
  <2>1. LoadIsReported' <=>
          /\ IsLoaded' =>
             /\ file_bytes_loaded' + zero_fill_bytes' = Cardinality(FileCovers')
             /\ program_counter' = image'.entry_point
             /\ is_instruction_aligned(program_counter')
             /\ \E h \in LoadSegments' : h.executable /\ Covers(h, program_counter')
          /\ phase' = "loaded" =>
             /\ boot_result'.loaded_address_begin \in FileCovers'
             /\ boot_result'.loaded_address_end_exclusive - 1 \in FileCovers'
             /\ FileCovers' \subseteq boot_result'.loaded_address_begin
                              .. (boot_result'.loaded_address_end_exclusive - 1)
    BY Zenon DEF LoadIsReported, FileCovers
  <2>2. /\ file_bytes_loaded' + zero_fill_bytes' = Cardinality(FileCovers')
        /\ program_counter' = image'.entry_point
        /\ is_instruction_aligned(program_counter')
        /\ \E h \in LoadSegments' : h.executable /\ Covers(h, program_counter')
    BY <1>1, <1>2, <1>5, <1>11, <1>12, <1>13, Zenon
  <2>3. /\ boot_result'.loaded_address_begin \in FileCovers'
        /\ boot_result'.loaded_address_end_exclusive - 1 \in FileCovers'
        /\ FileCovers' \subseteq boot_result'.loaded_address_begin
                         .. (boot_result'.loaded_address_end_exclusive - 1)
    BY <1>8, <1>9, <1>13, Zenon
  <2>. QED
    BY <2>1, <2>2, <2>3, Zenon
<1>15. LoadIsAllOrNothing' /\ StackIsReserved'
  BY <1>1 DEF LoadIsAllOrNothing, StackIsReserved
<1>16. LoadedInvariant'
  BY <1>4, <1>10, <1>14, <1>15 DEF LoadedInvariant
<1>17. Validated'
  BY <1>1, <1>3, ValidatedStable
<1>18. LoaderTypeOK' /\ Configured' /\ ScanInvariant'
  BY <1>1, <1>2, <1>3
  DEF LoaderInvariant, LoaderTypeOK, Configured, ScanInvariant, ValidConfiguration
<1>. QED
  BY <1>1, <1>16, <1>17, <1>18 DEF LoaderInvariant, BeforeWriting

-----------------------------------------------------------------------------
(***************************************************************************)
(* The stack.                                                              *)
(***************************************************************************)
\* Rounding down and up to a multiple.
LEMMA Rounding ==
    ASSUME NEW v \in Nat, NEW d \in Nat \ {0}
    PROVE  /\ (v \div d) * d \in Nat
           /\ (v \div d) * d <= v
           /\ v - (d - 1) <= (v \div d) * d
           /\ ((v \div d) * d) % d = 0
<1> DEFINE q == v \div d
           r == v % d
<1>1. q \in Nat /\ r \in 0 .. (d - 1) /\ v = d * q + r
  OBVIOUS
<1> HIDE DEF q, r
<1>2. q * d = d * q /\ d * q \in Nat
  BY <1>1
<1>3. (d * q + 0) % d = 0
  BY <1>1, ModUnique
<1>4. (q * d) % d = 0
  BY <1>2, <1>3
<1>5. q * d \in Nat /\ q * d <= v /\ v - (d - 1) <= q * d
  BY <1>1, <1>2
<1>. QED
  BY <1>4, <1>5 DEF q

\* What the checks establish: room for the stack between the image and its top.
LEMMA StackPasses ==
    ASSUME NEW begin, NEW end, FailingStackChecks(begin, end) = {},
           stack_top \in Int, stack_size \in Int
    PROVE  /\ options.stack_size # 0
           /\ stack_top >= BaseAddress
           /\ stack_size <= stack_top - BaseAddress
           /\ ~ (end > stack_bottom)
<1>1. /\ "InvalidStackSize" \in ToSet(StackChecks)
      /\ "StackDoesNotFit" \in ToSet(StackChecks)
      /\ "StackOverlapsLoadedImage" \in ToSet(StackChecks)
  BY DEF ToSet, StackChecks
<1>2. ~ (options.stack_size = 0 \/ options.stack_size > WordValues)
  BY <1>1 DEF FailingStackChecks
<1>3. ~ (stack_top < BaseAddress \/ stack_size > stack_top - BaseAddress)
  BY <1>1 DEF FailingStackChecks
<1>4. ~ StackOverlaps(end)
  BY <1>1 DEF FailingStackChecks
<1>5. BaseAddress \in Int
  BY RegionAssumption, WordInt
<1>. QED
  BY <1>2, <1>3, <1>4, <1>5 DEF StackOverlaps

\* Where the stack lies when the checks pass.
LEMMA StackPlaced ==
    ASSUME options.stack_size \in Nat, NEW begin, NEW end \in Nat,
           FailingStackChecks(begin, end) = {}
    PROVE  /\ stack_top \in Nat \ {0}
           /\ stack_top <= EndAddressExclusive
           /\ stack_top <= WordValues
           /\ stack_top % kStackAlignment = 0
           /\ BaseAddress + options.stack_size <= stack_top
           /\ end + options.stack_size <= stack_top
<1>1. /\ BaseAddress \in Nat /\ SizeBytes \in Nat /\ WordValues \in Nat
      /\ BaseAddress + SizeBytes <= WordValues
      /\ EndAddressExclusive = BaseAddress + SizeBytes
      /\ kStackAlignment \in Nat \ {0}
  BY RegionAssumption, WordInt, WordConstants, BootAssumption DEF EndAddressExclusive
<1>2. /\ stack_top \in Nat /\ stack_top <= EndAddressExclusive
      /\ stack_top % kStackAlignment = 0
  <2>1. EndAddressExclusive \in Nat
    BY <1>1
  <2>. QED
    BY <1>1, <2>1, Rounding DEF stack_top
<1>3. stack_size \in Nat /\ options.stack_size <= stack_size
  <2>1. PICK v : v = options.stack_size + kStackAlignment - 1
    OBVIOUS
  <2>2. v \in Nat /\ v - (kStackAlignment - 1) = options.stack_size
    BY <1>1, <2>1
  <2>3. /\ (v \div kStackAlignment) * kStackAlignment \in Nat
        /\ v - (kStackAlignment - 1) <= (v \div kStackAlignment) * kStackAlignment
    BY <1>1, <2>2, Rounding
  <2>4. stack_size = (v \div kStackAlignment) * kStackAlignment
    BY <2>1 DEF stack_size
  <2>. QED
    BY <2>2, <2>3, <2>4
<1>4. /\ options.stack_size # 0
      /\ stack_size <= stack_top - BaseAddress
      /\ ~ (end > stack_top - stack_size)
  BY <1>2, <1>3, StackPasses DEF stack_bottom
<1>. QED
  BY <1>1, <1>2, <1>3, <1>4

\* The stack pointer that InitializeStack sets reserves the stack.
LEMMA StackPointerReserves ==
    ASSUME options.stack_size \in Nat, NEW begin, NEW end \in Nat,
           FailingStackChecks(begin, end) = {},
           FileCovers \subseteq begin .. (end - 1),
           NEW sp, sp = stack_top % WordValues
    PROVE  LET top == IF sp = 0 THEN WordValues ELSE sp
           IN /\ sp \in Word
              /\ sp % kStackAlignment = 0
              /\ \A a \in (top - options.stack_size) .. (top - 1) :
                    /\ InBounds(a, 1)
                    /\ ~ \E h \in LoadSegments : Covers(h, a)
<1> DEFINE top == IF sp = 0 THEN WordValues ELSE sp
<1>1. /\ stack_top \in Nat \ {0}
      /\ stack_top <= EndAddressExclusive
      /\ stack_top <= WordValues
      /\ stack_top % kStackAlignment = 0
      /\ BaseAddress + options.stack_size <= stack_top
      /\ end + options.stack_size <= stack_top
  BY StackPlaced
<1>2. /\ BaseAddress \in Nat /\ SizeBytes \in Nat /\ WordValues \in Nat \ {0}
      /\ BaseAddress + SizeBytes <= WordValues
      /\ EndAddressExclusive = BaseAddress + SizeBytes
      /\ kStackAlignment \in Nat \ {0}
  BY RegionAssumption, WordInt, WordSizes, BootAssumption DEF EndAddressExclusive
<1>3. /\ stack_top = WordValues => sp = 0
      /\ stack_top # WordValues => sp = stack_top
  <2>1. WordValues % WordValues = 0
    BY <1>2
  <2>2. stack_top # WordValues => stack_top % WordValues = stack_top
    BY <1>1, <1>2
  <2>. QED
    BY <2>1, <2>2
<1>4. top = stack_top
  BY <1>1, <1>2, <1>3
<1>5. sp \in Word /\ sp % kStackAlignment = 0
  <2>1. 0 % kStackAlignment = 0
    BY <1>2
  <2>. QED
    BY <1>1, <1>2, <1>3, <2>1 DEF Word
<1> HIDE DEF top
<1>6. ASSUME NEW a \in (top - options.stack_size) .. (top - 1)
      PROVE  InBounds(a, 1) /\ ~ \E h \in LoadSegments : Covers(h, a)
  <2>1. /\ a \in Int /\ BaseAddress <= a /\ a < EndAddressExclusive /\ end <= a
        /\ a < WordValues
    BY <1>1, <1>2, <1>4, <1>6
  <2>2. InBounds(a, 1)
    BY <1>2, <2>1 DEF InBounds
  <2>3. a \in Word /\ a \notin FileCovers
    BY <1>2, <2>1 DEF Word
  <2>4. ~ \E h \in LoadSegments : Covers(h, a)
    BY <2>3 DEF FileCovers
  <2>. QED
    BY <2>2, <2>4
<1>. QED
  BY <1>5, <1>6 DEF top

\* Once the image is loaded, only the space left for the stack can be wrong.
LEMMA StackFailureCodes ==
    ASSUME NEW begin \in Nat, NEW end \in Nat, BaseAddress <= begin, begin < end,
           end <= EndAddressExclusive, ValidConfiguration,
           options.stack_size \in Nat
    PROVE  FailingStackChecks(begin, end) \subseteq StackFailures
<1>1. /\ BaseAddress \in Nat /\ SizeBytes \in Nat /\ WordValues \in Nat
      /\ BaseAddress + SizeBytes <= WordValues
      /\ EndAddressExclusive = BaseAddress + SizeBytes
  BY RegionAssumption, WordInt, WordConstants DEF EndAddressExclusive
<1>2. ~ (begin < BaseAddress \/ begin > end \/ end > EndAddressExclusive)
  BY <1>1
<1>3. ~ (options.stack_size = 0 \/ options.stack_size > WordValues)
  BY <1>1 DEF ValidConfiguration
<1>4. "InvalidOccupiedRange" \notin FailingStackChecks(begin, end)
  BY <1>2 DEF FailingStackChecks
<1>5. "InvalidStackSize" \notin FailingStackChecks(begin, end)
  BY <1>3 DEF FailingStackChecks
<1>6. FailingStackChecks(begin, end)
          \subseteq {"InvalidOccupiedRange", "InvalidStackSize"} \cup StackFailures
  <2>1. ToSet(StackChecks)
            \subseteq {"InvalidOccupiedRange", "InvalidStackSize"} \cup StackFailures
    BY DEF ToSet, StackChecks, StackFailures
  <2>. QED
    BY <2>1, Zenon DEF FailingStackChecks
<1>. QED
  BY <1>4, <1>5, <1>6

\* The image stays loaded in a step that leaves memory and the counts alone.
LEMMA LoadedStable ==
    ASSUME MemoryIsImage, LoadIsReported, IsLoaded, IsLoaded', phase' # "loaded",
           UNCHANGED <<caller, image, bytes, program_counter>>,
           UNCHANGED <<file_bytes_loaded, zero_fill_bytes>>
    PROVE  MemoryIsImage' /\ LoadIsReported'
<1>1. LoadSegments' = LoadSegments
  BY DEF LoadSegments
<1>2. MemoryIsImage'
  BY <1>1 DEF MemoryIsImage, MemoryBefore
<1>3. LoadIsReported'
  BY <1>1, Zenon DEF LoadIsReported
<1>. QED
  BY <1>2, <1>3

LEMMA InitializeStackSafe ==
    ASSUME LoaderInvariant, registers \in [Registers -> Word], InitializeStack
    PROVE  LoaderInvariant'
<1>0. PICK begin, end : /\ begin = boot_result.loaded_address_begin
                        /\ end = boot_result.loaded_address_end_exclusive
  OBVIOUS
<1>1. /\ phase = "loaded" /\ caller = "rvemu"
      /\ UNCHANGED <<program_counter, bytes, step_result, inputs, index, written,
                     validation, totals>>
  BY DEF InitializeStack
<1>2. /\ UNCHANGED <<caller, options, image, index, written>>
      /\ UNCHANGED <<program_counter, bytes, load_segments>>
      /\ UNCHANGED <<file_bytes_loaded, zero_fill_bytes>>
  BY <1>1 DEF inputs, validation, totals
<1>3. /\ LoaderTypeOK /\ Validated /\ ValidConfiguration
      /\ MemoryIsImage /\ LoadIsReported /\ IsLoaded
      /\ begin \in Nat /\ end \in Nat
      /\ BaseAddress <= begin /\ begin < end /\ end <= EndAddressExclusive
      /\ options.stack_size \in Nat
  BY <1>0, <1>1, OptionsAssumption
  DEF LoaderInvariant, LoadedInvariant, LoadedRange, Configured, IsLoaded, LoaderTypeOK
<1>4. Validated'
  BY <1>1, <1>3, ValidatedStable
<1>5. CASE FailingStackChecks(begin, end) # {} /\ phase' = "failed"
           /\ boot_result'.code = FirstOf(StackChecks, FailingStackChecks(begin, end))
           /\ UNCHANGED registers
  <2>1. FailingStackChecks(begin, end) \subseteq ToSet(StackChecks)
    BY DEF FailingStackChecks
  <2>2. boot_result'.code \in FailingStackChecks(begin, end)
    BY <1>5, <2>1, ChecksAreLists, FirstOfFails
  <2>3. IsLoaded'
    BY <1>3, <1>5, <2>2, StackFailureCodes DEF IsLoaded
  <2>4. MemoryIsImage' /\ LoadIsReported'
    BY <1>2, <1>3, <1>5, <2>3, LoadedStable
  <2>5. LoadedInvariant'
    BY <1>5, <2>3, <2>4 DEF LoadedInvariant, LoadIsAllOrNothing, StackIsReserved
  <2>6. LoaderTypeOK' /\ Configured' /\ ScanInvariant'
    BY <1>2, <1>3, <1>5 DEF LoaderTypeOK, Configured, ScanInvariant
  <2>. QED
    BY <1>4, <1>5, <2>5, <2>6 DEF LoaderInvariant, BeforeWriting
<1>6. CASE FailingStackChecks(begin, end) = {} /\ phase' = "ready"
           /\ registers' = write_register(kStackPointerRegister,
                                          stack_top % WordValues)
  <2>1. IsLoaded'
    BY <1>6 DEF IsLoaded
  <2>2. MemoryIsImage' /\ LoadIsReported'
    BY <1>2, <1>3, <1>6, <2>1, LoadedStable
  <2>3. PICK sp : sp = registers'[kStackPointerRegister]
    OBVIOUS
  <2>4. sp = stack_top % WordValues
    BY <1>6, <2>3, BootAssumption DEF write_register
  <2>5. FileCovers \subseteq begin .. (end - 1)
    BY <1>0, <1>1, <1>3, Zenon DEF LoadIsReported, FileCovers
  <2>6. LET top == IF sp = 0 THEN WordValues ELSE sp
        IN /\ sp \in Word
           /\ sp % kStackAlignment = 0
           /\ \A a \in (top - options.stack_size) .. (top - 1) :
                 /\ InBounds(a, 1)
                 /\ ~ \E h \in LoadSegments : Covers(h, a)
    BY <1>3, <1>6, <2>4, <2>5, StackPointerReserves
  <2>7. LoadSegments' = LoadSegments
    BY <1>2 DEF LoadSegments
  <2>8. StackIsReserved'
    BY <1>2, <2>3, <2>6, <2>7, Zenon DEF StackIsReserved
  <2>9. LoadedInvariant'
    BY <1>6, <2>1, <2>2, <2>8 DEF LoadedInvariant, LoadIsAllOrNothing
  <2>10. LoaderTypeOK' /\ Configured' /\ ScanInvariant'
    BY <1>2, <1>3, <1>6
    DEF LoaderTypeOK, Configured, ScanInvariant, ValidConfiguration
  <2>. QED
    BY <1>4, <1>6, <2>9, <2>10 DEF LoaderInvariant, BeforeWriting
<1>. QED
  BY <1>0, <1>5, <1>6 DEF InitializeStack, Fail

LEMMA SkipStackSafe ==
    ASSUME LoaderInvariant, SkipStack
    PROVE  LoaderInvariant'
<1>1. /\ phase = "loaded" /\ caller = "act_smoke" /\ phase' = "ready"
      /\ UNCHANGED <<machine_vars, inputs, index, written, validation, totals,
                     boot_result>>
  BY DEF SkipStack
<1>2. /\ UNCHANGED <<caller, options, image, index, written>>
      /\ UNCHANGED <<program_counter, bytes, load_segments>>
      /\ UNCHANGED <<file_bytes_loaded, zero_fill_bytes>>
  BY <1>1 DEF inputs, validation, totals, machine_vars
<1>3. /\ LoaderTypeOK /\ Validated /\ MemoryIsImage /\ LoadIsReported /\ IsLoaded
      /\ IsLoaded'
  BY <1>1 DEF LoaderInvariant, LoadedInvariant, IsLoaded
<1>4. MemoryIsImage' /\ LoadIsReported'
  BY <1>1, <1>2, <1>3, LoadedStable
<1>5. LoadedInvariant'
  BY <1>1, <1>2, <1>3, <1>4 DEF LoadedInvariant, LoadIsAllOrNothing, StackIsReserved
<1>6. Validated'
  BY <1>1, <1>3, ValidatedStable
<1>7. LoaderTypeOK' /\ Configured' /\ ScanInvariant'
  BY <1>1, <1>2, <1>3 DEF LoaderTypeOK, Configured, ScanInvariant
<1>. QED
  BY <1>1, <1>5, <1>6, <1>7 DEF LoaderInvariant, BeforeWriting

\* Every step of the loader and of the stack keeps the invariant.
LEMMA BootStepInvariant ==
    ASSUME LoaderInvariant, TypeOK, BootStep
    PROVE  LoaderInvariant'
<1>1. bytes \in Contents /\ registers \in [Registers -> Word]
  BY DEF TypeOK
<1>. QED
  BY <1>1, CheckConfigurationSafe, ReadFileSafe, ValidateHeaderSafe,
     ValidateProgramHeaderSafe, ValidateEntrySafe, WriteByteSafe, SegmentWrittenSafe,
     LoadCompletesSafe, InitializeStackSafe, SkipStackSafe
  DEF BootStep

\* The machine's state stays well-typed while the program is loaded.
LEMMA BootStepTypeOK ==
    ASSUME LoaderInvariant, TypeOK, BootStep
    PROVE  TypeOK'
<1>1. CASE UNCHANGED machine_vars
  BY <1>1 DEF machine_vars, TypeOK
<1>2. CASE WriteByte
  <2>1. PICK address, value :
            /\ address = WrapAdd(Segment.virtual_address, written)
            /\ value = IF written < Segment.file_size
                       THEN image.data[Segment.file_offset + written] ELSE 0
    OBVIOUS
  <2>2. UNCHANGED <<registers, program_counter, step_result>>
    BY <1>2 DEF WriteByte
  <2>3. CASE ~ InBounds(address, 1)
    BY <1>2, <2>1, <2>2, <2>3 DEF WriteByte, TypeOK
  <2>4. CASE InBounds(address, 1) /\ bytes' = write8(bytes, address, value)
    <3>1. /\ phase = "writing" /\ index < Len(load_segments)
          /\ written < Segment.memory_size
      BY <1>2 DEF WriteByte
    <3>2. /\ index \in Nat /\ written \in Nat
          /\ image.size \in Nat /\ image.data \in [0 .. (image.size - 1) -> Byte]
      BY ImageTyped DEF LoaderInvariant, LoaderTypeOK
    <3>3. Placed(Segment)
      BY <3>1, <3>2 DEF LoaderInvariant, Validated, SegmentsPlaced, Segment
    <3>4. /\ Segment.virtual_address \in Int
          /\ written < Segment.file_size =>
                Segment.file_offset + written \in 0 .. (image.size - 1)
      BY <3>1, <3>2, <3>3, WriteInBounds, SegmentNumbers DEF Placed
    <3>5. value \in Word
      <4>1. value \in Byte \cup {0}
        BY <2>1, <3>2, <3>4
      <4>. QED
        BY <4>1, ByteIsWord, WordConstants
    <3>6. address \in Word
      BY <2>1, <3>2, <3>4, AddClosed
    <3>7. bytes' \in Contents
      BY <2>4, <3>5, <3>6, WritesTyped DEF TypeOK
    <3>. QED
      BY <2>2, <3>7 DEF TypeOK
  <2>. QED
    BY <1>2, <2>1, <2>3, <2>4 DEF WriteByte
<1>3. CASE LoadCompletes
  BY <1>3, ImageTyped DEF LoadCompletes, LoaderInvariant, TypeOK
<1>4. CASE InitializeStack
  <2>1. stack_top % WordValues \in Word
    <3>1. /\ BaseAddress \in Nat /\ SizeBytes \in Nat /\ kStackAlignment \in Nat \ {0}
      BY RegionAssumption, WordInt, BootAssumption
    <3>2. EndAddressExclusive \in Nat
      BY <3>1 DEF EndAddressExclusive
    <3>3. stack_top \in Nat
      BY <3>1, <3>2, Rounding DEF stack_top
    <3>. QED
      BY <3>3, WordSizes DEF Word
  <2>2. registers' \in [Registers -> Word] /\ registers'[0] = 0
    <3>1. CASE UNCHANGED registers
      BY <3>1 DEF TypeOK
    <3>2. CASE registers' = write_register(kStackPointerRegister,
                                           stack_top % WordValues)
      BY <2>1, <3>2, BootAssumption, WriteRegisterTyped
    <3>. QED
      BY <1>4, <3>1, <3>2 DEF InitializeStack
  <2>. QED
    BY <1>4, <2>2 DEF InitializeStack, TypeOK
<1>. QED
  BY <1>1, <1>2, <1>3, <1>4
  DEF BootStep, CheckConfiguration, ReadFile, ValidateHeader, ValidateProgramHeader,
      ValidateEntry, SegmentWritten, SkipStack

-----------------------------------------------------------------------------
(***************************************************************************)
(* What the session makes of the exit call.                                *)
(***************************************************************************)
\* At an ECALL the engine traps with the environment call, and nothing else.
LEMMA EcallTraps ==
    ASSUME TypeOK, AtEnvironmentCall, EngineStep
    PROVE  step_result'.cause = "EnvironmentCallFromUserMode"
<1>1. PICK raw \in Fetched : \E i \in Decode(raw) :
          i.opcode = "System" /\ raw = kEcallInstruction
  BY DEF AtEnvironmentCall
<1>2. PICK i \in Decode(raw) : i.opcode = "System" /\ raw = kEcallInstruction
  BY <1>1
<1>3. Fetched = {raw}
  BY DEF Fetched, Some, NullOpt
<1>4. ~ FetchMisaligned /\ ~ FetchFault
  BY DEF Fetched, NullOpt, FetchMisaligned, FetchFault
<1>5. ~ Undecodable
  BY <1>2, <1>3 DEF Undecodable, NullOpt
<1>6. Execute(raw, i)
  <2>1. PICK j \in Decode(raw) : Execute(raw, j)
    BY <1>3, <1>4, <1>5 DEF EngineStep
  <2>2. raw \in Word
    BY FetchedTyped
  <2>3. i = j
    BY <2>2, DecodeAssumption
  <2>. QED
    BY <2>1, <2>3
<1>7. ExecuteSystem(raw, i)
  BY <1>2, <1>6
  DEF Execute, ExecuteLui, ExecuteAuipc, ExecuteOpImmediate, ExecuteOp, ExecuteJal,
      ExecuteJalr, ExecuteBranch, ExecuteLoad, ExecuteStore, ExecuteMiscMemory
<1>8. Trapped("EnvironmentCallFromUserMode", 0)
  BY <1>2, <1>7, DecodeAssumption DEF ExecuteSystem
<1>. QED
  BY <1>8 DEF Trapped, Trap

\* The status that an exit call asks of the environment installed.
AskedStatus ==
    IF environment = "LinuxSyscallEnvironment"
    THEN read_register(kReturnValueRegister) % ByteValues
    ELSE read_register(kReturnValueRegister)

\* A write call never ends the program.
LEMMA WriteResumes ==
    ASSUME NEW call, NEW contents, NEW outcome \in handle_write(call, contents)
    PROVE  outcome.result.kind = "Resume"
<1>1. \A number : Silent(EnvironmentCallResume(number)).result.kind = "Resume"
  BY DEF Silent, EnvironmentCallResume
<1>2. \A sink, size : WriteResult(sink, size).kind = "Resume"
  BY DEF WriteResult, EnvironmentCallResume
<1>. QED
  BY <1>1, <1>2 DEF handle_write

\* The environments exit at an exit call, with the status asked for, and only there.
LEMMA ExitOutcome ==
    ASSUME SessionTypeOK, NEW outcome \in handle(CapturedCall)
    PROVE  IF read_register(kEnvironmentCallNumberRegister) \in {kExit, kExitGroup}
           THEN outcome.result = EnvironmentCallExit(AskedStatus)
           ELSE outcome.result.kind # "Exit"
<1> DEFINE number == read_register(kEnvironmentCallNumberRegister)
           a0 == read_register(kReturnValueRegister)
<1>1. CapturedCall.number = number /\ CapturedCall.arguments[0] = a0
  <2>1. kReturnValueRegister + 0 = kReturnValueRegister
    BY SessionAssumption
  <2>. QED
    BY <2>1 DEF CapturedCall, ArgumentIndices
<1> HIDE DEF number, a0
<1>2. CASE environment = "LinuxSyscallEnvironment"
  <2>0. outcome \in LinuxHandle(CapturedCall, bytes) /\ AskedStatus = a0 % ByteValues
    BY <1>2 DEF handle, AskedStatus, a0
  <2>1. CASE number = kWrite
    <3>1. number \notin {kExit, kExitGroup}
      BY <2>1 DEF kWrite, kExit, kExitGroup
    <3>2. outcome \in handle_write(CapturedCall, bytes)
      BY <1>1, <2>0, <2>1, <3>1 DEF LinuxHandle
    <3>3. outcome.result.kind = "Resume"
      BY <3>2, WriteResumes
    <3>. QED
      BY <3>1, <3>3 DEF number
  <2>2. CASE number # kWrite /\ number \in {kExit, kExitGroup}
    <3>1. outcome = Silent(EnvironmentCallExit(a0 % ByteValues))
      BY <1>1, <2>0, <2>2 DEF LinuxHandle
    <3>. QED
      BY <2>0, <2>2, <3>1 DEF Silent, number
  <2>3. CASE number # kWrite /\ number \notin {kExit, kExitGroup}
    <3>1. outcome = Silent(EnvironmentCallResume(error_return(kErrorNotImplemented)))
      BY <1>1, <2>0, <2>3 DEF LinuxHandle
    <3>. QED
      BY <2>3, <3>1 DEF Silent, EnvironmentCallResume, number
  <2>. QED
    BY <2>1, <2>2, <2>3
<1>3. CASE environment # "LinuxSyscallEnvironment"
  <2>1. outcome = Silent(IF number \in {kExit, kExitGroup}
                         THEN EnvironmentCallExit(a0)
                         ELSE EnvironmentCallNotHandled)
    BY <1>1, <1>3 DEF handle, ActHandle
  <2>2. AskedStatus = a0
    BY <1>3 DEF AskedStatus, a0
  <2>. QED
    BY <2>1, <2>2 DEF Silent, EnvironmentCallNotHandled, number
<1>. QED
  BY <1>2, <1>3

\* A step that ends the run leaves the guest at the exit call if it exits, and
\* elsewhere if it traps or if nobody handles the call.
LEMMA StepExplained ==
    ASSUME SessionTypeOK, SessionStep
    PROVE  /\ session_result'.kind = "Exited" =>
                 AtExitCall' /\ session_result'.exit_code = AskedStatus'
           /\ session_result'.kind \in {"Trap", "UnhandledEnvironmentCall"} =>
                 ~ AtExitCall'
<1>0. TypeOK
  BY DEF SessionTypeOK
<1>1. session_result'.kind \in {"Exited", "Trap", "UnhandledEnvironmentCall"} =>
          /\ UNCHANGED architecture
          /\ AtExitCall' = AtExitCall
          /\ environment' = environment => AskedStatus' = AskedStatus
  <2>1. SUFFICES ASSUME UNCHANGED architecture
                 PROVE  /\ AtExitCall' = AtExitCall
                        /\ environment' = environment => AskedStatus' = AskedStatus
    BY SessionStepConfined DEF ConfinedStep
  <2>2. UNCHANGED <<registers, program_counter, bytes>>
    BY <2>1 DEF architecture
  <2>3. Fetched' = Fetched
    BY <2>2 DEF Fetched, read32
  <2>. QED
    BY <2>2, <2>3 DEF AtExitCall, AtEnvironmentCall, read_register, AskedStatus
<1>2. CASE InstructionCompleted
  BY <1>2 DEF InstructionCompleted, SessionInstructionCompleted
<1>3. CASE InstructionTrapped
  <2>1. session_result'.kind = "Trap"
    BY <1>3 DEF InstructionTrapped, SessionTrap
  <2>2. ~ AtEnvironmentCall
    BY <1>0, <1>3, EcallTraps DEF InstructionTrapped
  <2>. QED
    BY <1>1, <2>1, <2>2 DEF AtExitCall
<1>4. CASE HandleEnvironmentCall
  <2>1. PICK outcome \in handle(CapturedCall) : EnvironmentCall(outcome)
    BY <1>4 DEF HandleEnvironmentCall
  <2>2. WellFormedOutcome(CapturedCall, outcome)
    BY <1>0, HandleOutcome
  <2>3. AtEnvironmentCall /\ environment' = environment
    BY <1>4 DEF HandleEnvironmentCall
  <2>4. CASE AtExitCall
    <3>1. outcome.result = EnvironmentCallExit(AskedStatus)
      BY <2>4, ExitOutcome DEF AtExitCall
    <3>2. outcome.result.kind = "Exit" /\ outcome.result.exit_code = AskedStatus
      BY <3>1 DEF EnvironmentCallExit
    <3>3. session_result' = SessionExited(CapturedCall, AskedStatus)
      BY <2>1, <2>2, <3>2, EnvironmentCallShape
    <3>4. session_result'.kind = "Exited" /\ session_result'.exit_code = AskedStatus
      BY <3>3 DEF SessionExited
    <3>. QED
      BY <1>1, <2>3, <2>4, <3>4
  <2>5. CASE ~ AtExitCall
    <3>1. outcome.result.kind # "Exit"
      BY <2>3, <2>5, ExitOutcome DEF AtExitCall
    <3>2. session_result'.kind # "Exited"
      BY <2>1, <2>2, <3>1, EnvironmentCallShape
      DEF SessionEnvironmentCallResumed, SessionUnhandledEnvironmentCall
    <3>. QED
      BY <1>1, <2>5, <3>2
  <2>. QED
    BY <2>4, <2>5
<1>. QED
  BY <1>2, <1>3, <1>4 DEF SessionStep

-----------------------------------------------------------------------------
(***************************************************************************)
(* The invariant of the host programs: the loader's, why the run ended,    *)
(* and the status returned.                                                *)
(***************************************************************************)
RunResults ==
    {"Running", "StepLimitReached", "Exited", "UnhandledEnvironmentCall", "Trapped",
     "Quit", "HostAllocationFailure"}

ResultExplained ==
    /\ run_result = "Exited" =>
          AtExitCall /\ session_result.exit_code = AskedStatus
    /\ run_result \in {"Trapped", "UnhandledEnvironmentCall"} => ~ AtExitCall
    /\ run_result = "StepLimitReached" =>
          statistics.guest_steps = options.maximum_steps
    /\ run_result \in {"Quit", "HostAllocationFailure"} => Debugging

RunInvariant ==
    /\ SessionTypeOK
    /\ environment = IF caller = "rvemu" THEN "LinuxSyscallEnvironment"
                     ELSE "ExitEnvironment"
    /\ statistics \in Statistics
    /\ phase # "executing" => run_result = "None" /\ statistics = ZeroStatistics
    /\ phase = "executing" =>
          /\ run_result \in RunResults
          /\ step_limit = options.maximum_steps
          /\ statistics.guest_steps <= step_limit
    /\ ResultExplained

StatusReturned ==
    \A status \in exit_status :
        /\ caller \in {"rvemu", "act_smoke"}
        /\ ProgramEnded
        /\ status = IF caller = "rvemu" THEN run_cli_status ELSE report_result_status

HostedInvariant == LoaderInvariant /\ RunInvariant /\ StatusReturned

LEMMA HostedInitInvariant == HostedInit => HostedInvariant
<1> SUFFICES ASSUME HostedInit PROVE HostedInvariant
  OBVIOUS
<1>1. BootInit
  BY DEF HostedInit
<1>2. phase # "executing"
  BY <1>1 DEF BootInit, Callers
<1>3. TypeOK
  <2>1. bytes \in Contents
    <3>1. FillByte \in Byte /\ 0 \in Byte
      BY BootAssumption, WordSizes DEF Byte
    <3>. QED
      BY <1>1, <3>1 DEF BootInit, MemoryBefore, Contents
  <2>2. registers \in [Registers -> Word] /\ registers[0] = 0
    BY <1>1, WordConstants, RegisterAssumption DEF BootInit, Registers
  <2>. QED
    BY <1>1, <2>1, <2>2, WordConstants DEF BootInit, TypeOK, StepResults
<1>4. SessionTypeOK
  <2>1. output \in [OutputStreams -> Seq(Byte)]
    BY DEF HostedInit
  <2>. QED
    BY <1>3, <2>1 DEF HostedInit, SessionTypeOK, Environments, SessionResults
<1>5. RunInvariant
  BY <1>2, <1>4, ZeroTyped DEF HostedInit, RunInvariant, ResultExplained
<1>6. StatusReturned
  BY DEF HostedInit, StatusReturned
<1>. QED
  BY <1>1, <1>5, <1>6, BootInitInvariant DEF HostedInvariant

\* Nothing the guest does is done before it starts.
LEMMA BootPhases ==
    ASSUME BootStep
    PROVE  /\ phase \notin {"executing", "failed"} /\ phase' # "executing"
           /\ UNCHANGED <<caller, options, image>>
BY DEF BootStep, CheckConfiguration, ReadFile, ValidateHeader, ValidateProgramHeader,
       ValidateEntry, WriteByte, SegmentWritten, LoadCompletes, InitializeStack,
       SkipStack, Fail, inputs

LEMMA LoadProgramSafe ==
    ASSUME HostedInvariant, LoadProgram
    PROVE  HostedInvariant'
<1>1. /\ BootStep /\ LoaderInvariant /\ RunInvariant /\ StatusReturned
      /\ SessionTypeOK /\ TypeOK
      /\ UNCHANGED <<environment, session_result, output, run_vars, exit_status>>
  BY DEF LoadProgram, HostedInvariant, RunInvariant, SessionTypeOK
<1>2. /\ phase \notin {"executing", "failed"} /\ phase' # "executing"
      /\ UNCHANGED <<caller, options, image>>
  BY <1>1, BootPhases
<1>3. LoaderInvariant' /\ TypeOK'
  BY <1>1, BootStepInvariant, BootStepTypeOK
<1>4. SessionTypeOK'
  BY <1>1, <1>3 DEF SessionTypeOK
<1>5. run_result' = "None" /\ statistics' = ZeroStatistics
  BY <1>1, <1>2 DEF RunInvariant, run_vars
<1>6. RunInvariant'
  BY <1>1, <1>2, <1>4, <1>5, ZeroTyped DEF RunInvariant, ResultExplained
<1>7. StatusReturned'
  BY <1>1, <1>2 DEF StatusReturned, ProgramEnded
<1>. QED
  BY <1>3, <1>6, <1>7 DEF HostedInvariant

\* The loader's invariant says nothing of memory once the guest runs.
LEMMA LoaderWhileRunning ==
    ASSUME LoaderInvariant, phase' = "executing",
           phase = "executing" \/ phase = "ready",
           UNCHANGED <<inputs, index, written, validation, totals, boot_result>>
    PROVE  LoaderInvariant'
<1>1. /\ UNCHANGED <<caller, options, image, index, written>>
      /\ UNCHANGED <<file_bytes_loaded, zero_fill_bytes>>
  BY DEF inputs, totals
<1>2. Validated'
  BY ValidatedStable DEF LoaderInvariant
<1>3. LoadedInvariant'
  BY NotYetLoaded DEF IsLoaded
<1>4. LoaderTypeOK' /\ Configured' /\ ScanInvariant'
  BY <1>1 DEF LoaderInvariant, LoaderTypeOK, Configured, ScanInvariant,
              ValidConfiguration
<1>. QED
  BY <1>2, <1>3, <1>4 DEF LoaderInvariant, BeforeWriting

LEMMA StartSessionSafe ==
    ASSUME HostedInvariant, StartSession
    PROVE  HostedInvariant'
<1>1. /\ phase = "ready" /\ phase' = "executing" /\ LoaderInvariant /\ RunInvariant
      /\ StatusReturned
      /\ step_limit' = options.maximum_steps /\ run_result' = "Running"
      /\ UNCHANGED <<session_vars, inputs, index, written, validation, totals,
                     boot_result, statistics, exit_status>>
  BY DEF StartSession, HostedInvariant
<1>2. LoaderInvariant'
  BY <1>1, LoaderWhileRunning
<1>3. /\ UNCHANGED <<registers, program_counter, bytes, step_result>>
      /\ UNCHANGED <<environment, session_result, output>>
      /\ UNCHANGED <<caller, options, image, statistics, exit_status>>
  BY <1>1 DEF session_vars, inputs
<1>4. SessionTypeOK'
  BY <1>1, <1>3 DEF RunInvariant, SessionTypeOK, TypeOK
<1>5. statistics.guest_steps = 0 /\ options.maximum_steps \in Nat
  BY <1>1, OptionsAssumption
  DEF RunInvariant, ZeroStatistics, LoaderInvariant, LoaderTypeOK
<1>6. statistics'.guest_steps <= step_limit'
  BY <1>1, <1>3, <1>5
<1>7. RunInvariant'
  BY <1>1, <1>3, <1>4, <1>6 DEF RunInvariant, ResultExplained, RunResults
<1>8. StatusReturned'
  BY <1>1 DEF StatusReturned, ProgramEnded
<1>. QED
  BY <1>2, <1>7, <1>8 DEF HostedInvariant

LEMMA RunGuestSafe ==
    ASSUME HostedInvariant, RunGuest
    PROVE  HostedInvariant'
<1>1. /\ LoaderInvariant /\ RunInvariant /\ StatusReturned /\ SessionTypeOK
      /\ UNCHANGED <<loader_vars, exit_status>>
      /\ run_result = "Running"
      /\ BatchStep \/ BatchStepLimitReached
  BY DEF RunGuest, HostedInvariant, RunInvariant, BatchStep, BatchStepLimitReached
<1>2. /\ UNCHANGED <<caller, options, image, phase>>
      /\ UNCHANGED <<inputs, index, written, validation, totals, boot_result>>
      /\ UNCHANGED exit_status
  BY <1>1 DEF loader_vars, inputs
<1>3. /\ phase = "executing" /\ statistics \in Statistics
      /\ step_limit = options.maximum_steps
      /\ step_limit \in Nat /\ statistics.guest_steps \in Nat
      /\ statistics.guest_steps <= step_limit
      /\ environment = IF caller = "rvemu" THEN "LinuxSyscallEnvironment"
                       ELSE "ExitEnvironment"
  BY <1>1, OptionsAssumption
  DEF RunInvariant, LoaderInvariant, LoaderTypeOK, Statistics
<1>4. LoaderInvariant'
  BY <1>1, <1>2, <1>3, LoaderWhileRunning
<1>5. exit_status' = {}
  BY <1>1, <1>2, <1>3 DEF StatusReturned, ProgramEnded
<1>6. RunInvariant'
  <2>1. CASE BatchStep
    <3>1. SessionStep /\ step_limit' = step_limit
      BY <2>1 DEF BatchStep, RunStep
    <3>2. SessionTypeOK' /\ session_result'.kind \in StepKinds
      BY <1>1, <3>1, SessionStepTypeOK
    <3>3. environment' = environment
      BY <3>1 DEF SessionStep, InstructionCompleted, InstructionTrapped,
                  HandleEnvironmentCall
    <3>4. /\ statistics' \in Statistics
          /\ statistics'.guest_steps
                \in {statistics.guest_steps, statistics.guest_steps + 1}
      BY <1>3, <2>1, <3>2, CountStepShape DEF BatchStep
    <3>5. statistics.guest_steps < step_limit
      BY <1>3, <2>1 DEF BatchStep, RunStep, RunAtLimit
    <3>6. statistics'.guest_steps <= step_limit'
      BY <1>3, <3>1, <3>4, <3>5
    <3>7. /\ run_result' \in {"Running", "Exited", "UnhandledEnvironmentCall",
                              "Trapped"}
          /\ run_result' = "Exited" => session_result'.kind = "Exited"
          /\ run_result' \in {"Trapped", "UnhandledEnvironmentCall"} =>
                session_result'.kind \in {"Trap", "UnhandledEnvironmentCall"}
      BY <2>1, <3>2 DEF BatchStep, TerminalResult, StepKinds
    <3>8. ResultExplained'
      BY <1>1, <3>1, <3>7, StepExplained DEF ResultExplained
    <3>. QED
      BY <1>2, <1>3, <3>1, <3>2, <3>3, <3>4, <3>6, <3>7, <3>8
      DEF RunInvariant, RunResults
  <2>2. CASE BatchStepLimitReached
    <3>1. /\ run_result' = "StepLimitReached"
          /\ UNCHANGED <<session_vars, step_limit, statistics>>
          /\ statistics.guest_steps = step_limit
      BY <1>3, <2>2 DEF BatchStepLimitReached, RunAtLimit
    <3>2. /\ UNCHANGED <<registers, program_counter, bytes, step_result>>
          /\ UNCHANGED <<environment, session_result, output>>
      BY <3>1 DEF session_vars
    <3>3. SessionTypeOK'
      BY <1>1, <3>2 DEF SessionTypeOK, TypeOK
    <3>. QED
      BY <1>2, <1>3, <3>1, <3>2, <3>3 DEF RunInvariant, RunResults, ResultExplained
  <2>. QED
    BY <1>1, <2>1, <2>2
<1>. QED
  BY <1>4, <1>5, <1>6 DEF HostedInvariant, StatusReturned

LEMMA LeaveDebuggerSafe ==
    ASSUME HostedInvariant, LeaveDebugger
    PROVE  HostedInvariant'
<1>1. /\ LoaderInvariant /\ RunInvariant /\ StatusReturned /\ SessionTypeOK
      /\ Debugging /\ run_result = "Running"
      /\ run_result' \in {"Quit", "HostAllocationFailure"}
      /\ UNCHANGED <<session_vars, step_limit, statistics, loader_vars, exit_status>>
  BY DEF LeaveDebugger, HostedInvariant, RunInvariant
<1>2. /\ UNCHANGED <<caller, options, image, phase>>
      /\ UNCHANGED <<inputs, index, written, validation, totals, boot_result>>
      /\ UNCHANGED <<registers, program_counter, bytes, step_result>>
      /\ UNCHANGED <<environment, session_result, output>>
      /\ UNCHANGED <<step_limit, statistics, exit_status>>
  BY <1>1 DEF loader_vars, inputs, session_vars
<1>3. phase = "executing" /\ phase' = "executing"
  BY <1>1, <1>2 DEF RunInvariant
<1>4. LoaderInvariant'
  BY <1>1, <1>2, <1>3, LoaderWhileRunning
<1>5. exit_status' = {}
  BY <1>1, <1>2, <1>3 DEF StatusReturned, ProgramEnded
<1>6. SessionTypeOK' /\ Debugging'
  BY <1>1, <1>2 DEF SessionTypeOK, TypeOK, Debugging
<1>7. RunInvariant'
  BY <1>1, <1>2, <1>3, <1>6 DEF RunInvariant, RunResults, ResultExplained
<1>. QED
  BY <1>4, <1>5, <1>7 DEF HostedInvariant, StatusReturned

\* A step that changes none of the state but the exit status.
LEMMA HostedStable ==
    ASSUME LoaderInvariant, RunInvariant,
           UNCHANGED <<session_vars, run_vars, loader_vars>>
    PROVE  /\ LoaderInvariant' /\ RunInvariant'
           /\ ProgramEnded' = ProgramEnded
           /\ run_cli_status' = run_cli_status
           /\ report_result_status' = report_result_status
<1>1. /\ UNCHANGED <<registers, program_counter, bytes, step_result>>
      /\ UNCHANGED <<environment, session_result, output>>
      /\ UNCHANGED <<step_limit, statistics, run_result>>
      /\ UNCHANGED <<caller, options, image, phase, index, written>>
      /\ UNCHANGED <<load_segments, previous_virtual_address>>
      /\ UNCHANGED <<first_nonempty_address, previous_nonempty_end>>
      /\ UNCHANGED <<file_bytes_loaded, zero_fill_bytes, boot_result>>
      /\ UNCHANGED <<inputs, validation>>
  BY DEF session_vars, run_vars, loader_vars, inputs, validation, totals
<1>2. Validated'
  BY <1>1, ValidatedStable DEF LoaderInvariant
<1>3. LoaderTypeOK' /\ Configured' /\ ScanInvariant' /\ Untouched' = Untouched
  BY <1>1 DEF LoaderInvariant, LoaderTypeOK, Configured, ValidConfiguration,
              ScanInvariant, Scanned, Untouched, MemoryBefore
<1>4. WritingInvariant' = WritingInvariant
  <2>1. Scanned(Len(image.program_headers))' = Scanned(Len(image.program_headers))
    BY <1>1, Zenon DEF Scanned
  <2>2. EntryAccepted' = EntryAccepted
    BY <1>1, Zenon DEF EntryAccepted, EntryIsExecutable, Nonempty, SegmentEnd
  <2>3. MemoryWritten(index, written)' = MemoryWritten(index, written)
    BY <1>1, Zenon DEF MemoryWritten, Reached, Held, MemoryBefore
  <2>4. Covered(index)' = Covered(index) /\ Segment' = Segment
    BY <1>1, Zenon DEF Covered, Segment
  <2>. QED
    BY <1>1, <2>1, <2>2, <2>3, <2>4, Zenon DEF WritingInvariant
<1>5. LoadedInvariant' = LoadedInvariant
  BY <1>1, ZenonT(40)
  DEF LoadedInvariant, LoadIsAllOrNothing, MemoryIsImage, LoadIsReported,
      StackIsReserved, LoadedRange, IsLoaded, MemoryBefore, LoadSegments
<1>6. LoaderInvariant'
  BY <1>1, <1>2, <1>3, <1>4, <1>5 DEF LoaderInvariant
<1>7. SessionTypeOK'
  BY <1>1 DEF RunInvariant, SessionTypeOK, TypeOK
<1>8. ResultExplained' = ResultExplained
  BY <1>1, Zenon
  DEF ResultExplained, AtExitCall, AtEnvironmentCall, Fetched, AskedStatus, Debugging,
      read_register
<1>9. RunInvariant'
  BY <1>1, <1>7, <1>8 DEF RunInvariant
<1>10. /\ ProgramEnded' = ProgramEnded
       /\ run_cli_status' = run_cli_status
       /\ report_result_status' = report_result_status
  BY <1>1, Zenon DEF ProgramEnded, run_cli_status, report_result_status
<1>. QED
  BY <1>6, <1>9, <1>10

(***************************************************************************)
(* Every state of the host programs satisfies the invariant.               *)
(***************************************************************************)
THEOREM HostedInvariantHolds == HostedSpec => []HostedInvariant
<1>1. HostedInit => HostedInvariant
  BY HostedInitInvariant
<1>2. ASSUME HostedInvariant, [HostedNext]_hosted_vars
      PROVE  HostedInvariant'
  <2>1. CASE ReturnStatus
    <3>1. /\ caller \in {"rvemu", "act_smoke"} /\ ProgramEnded
          /\ exit_status' = {IF caller = "rvemu" THEN run_cli_status
                             ELSE report_result_status}
          /\ UNCHANGED <<session_vars, run_vars, loader_vars>>
      BY <2>1 DEF ReturnStatus
    <3>2. caller' = caller
      BY <3>1 DEF loader_vars, inputs
    <3>3. /\ LoaderInvariant' /\ RunInvariant'
          /\ ProgramEnded' = ProgramEnded
          /\ run_cli_status' = run_cli_status
          /\ report_result_status' = report_result_status
      BY <1>2, <3>1, HostedStable DEF HostedInvariant
    <3>4. StatusReturned'
      BY <3>1, <3>2, <3>3, Zenon DEF StatusReturned
    <3>. QED
      BY <3>3, <3>4 DEF HostedInvariant
  <2>2. CASE UNCHANGED hosted_vars
    <3>1. UNCHANGED <<session_vars, run_vars, loader_vars>> /\ UNCHANGED exit_status
      BY <2>2 DEF hosted_vars
    <3>2. caller' = caller
      BY <3>1 DEF loader_vars, inputs
    <3>3. /\ LoaderInvariant' /\ RunInvariant'
          /\ ProgramEnded' = ProgramEnded
          /\ run_cli_status' = run_cli_status
          /\ report_result_status' = report_result_status
      BY <1>2, <3>1, HostedStable DEF HostedInvariant
    <3>4. StatusReturned'
      BY <1>2, <3>1, <3>2, <3>3, Zenon DEF HostedInvariant, StatusReturned
    <3>. QED
      BY <3>3, <3>4 DEF HostedInvariant
  <2>. QED
    BY <1>2, <2>1, <2>2, LoadProgramSafe, StartSessionSafe, RunGuestSafe,
       LeaveDebuggerSafe
    DEF HostedNext, HostedEnds
<1>. QED
  BY <1>1, <1>2, PTL DEF HostedSpec

-----------------------------------------------------------------------------
(***************************************************************************)
(* The loader is all or nothing: for every file, a load that fails has     *)
(* changed neither memory nor a register, and after a load only the space  *)
(* left for the stack can be wrong.                                        *)
(***************************************************************************)
THEOREM LoadsAreAllOrNothing == HostedSpec => []LoadIsAllOrNothing
<1>1. HostedInvariant => LoadIsAllOrNothing
  BY DEF HostedInvariant, LoaderInvariant, LoadedInvariant
<1>. QED
  BY <1>1, HostedInvariantHolds, PTL

(***************************************************************************)
(* After a load memory is what the program headers of the file say, byte   *)
(* by byte, and nothing else in it has changed.                            *)
(***************************************************************************)
THEOREM LoadedMemoryIsImage == HostedSpec => []MemoryIsImage
<1>1. HostedInvariant => MemoryIsImage
  BY DEF HostedInvariant, LoaderInvariant, LoadedInvariant
<1>. QED
  BY <1>1, HostedInvariantHolds, PTL

(***************************************************************************)
(* The loader reports what it did: the byte counts, the range of addresses *)
(* and an entry point in an executable segment.                            *)
(***************************************************************************)
THEOREM LoadsAreReported == HostedSpec => []LoadIsReported
<1>1. HostedInvariant => LoadIsReported
  BY DEF HostedInvariant, LoaderInvariant, LoadedInvariant
<1>. QED
  BY <1>1, HostedInvariantHolds, PTL

(***************************************************************************)
(* A guest that starts has the stack it asked for, aligned, mapped and     *)
(* clear of the image, also when the region ends with the address space    *)
(* and the stack pointer is zero.                                          *)
(***************************************************************************)
THEOREM StacksAreReserved == HostedSpec => []StackIsReserved
<1>1. HostedInvariant => StackIsReserved
  BY DEF HostedInvariant, LoaderInvariant, LoadedInvariant
<1>. QED
  BY <1>1, HostedInvariantHolds, PTL

(***************************************************************************)
(* The exit status says what happened to the guest: for every file, every  *)
(* guest and every option it is the guest's own, or there is a reason.     *)
(***************************************************************************)
THEOREM ExitStatusIsExplained == HostedSpec => []ExitStatusExplained
<1>1. ASSUME HostedInvariant PROVE ExitStatusExplained
  <2>1. SUFFICES ASSUME NEW status \in exit_status
                 PROVE  LET a0 == read_register(kReturnValueRegister)
                            spent == statistics.guest_steps = options.maximum_steps
                        IN CASE caller = "act_smoke" /\ status = 0 ->
                                    AtExitCall /\ a0 = 0
                             [] caller = "act_smoke"
                                /\ status = kTestFailedExitStatus ->
                                    AtExitCall /\ a0 # 0
                             [] caller = "rvemu"
                                /\ status # kInfrastructureFailureExitStatus ->
                                    \/ AtExitCall /\ status = a0 % ByteValues
                                    \/ Debugging /\ status = 0
                             [] OTHER ->
                                    \/ phase = "failed" \/ spent \/ Debugging
                                    \/ ~ AtExitCall
                                    \/ caller = "rvemu" /\ status = a0 % ByteValues
    BY DEF ExitStatusExplained
  <2> DEFINE a0 == read_register(kReturnValueRegister)
             spent == statistics.guest_steps = options.maximum_steps
  <2>2. /\ caller \in {"rvemu", "act_smoke"} /\ ProgramEnded
        /\ status = IF caller = "rvemu" THEN run_cli_status ELSE report_result_status
    BY <1>1 DEF HostedInvariant, StatusReturned
  <2>3. /\ phase = "failed" => run_result = "None"
        /\ phase # "failed" => run_result \in RunResults \ {"Running"}
        /\ ResultExplained
    BY <1>1, <2>2 DEF HostedInvariant, RunInvariant, ProgramEnded
  <2>4. /\ run_result = "Exited" =>
              /\ AtExitCall
              /\ session_result.exit_code = IF caller = "rvemu" THEN a0 % ByteValues
                                            ELSE a0
        /\ run_result \notin {"Exited", "None"} =>
              spent \/ Debugging \/ ~ AtExitCall
        /\ run_result = "Quit" => Debugging
    BY <1>1, <2>2, <2>3
    DEF HostedInvariant, RunInvariant, ResultExplained, RunResults, AskedStatus
  <2> HIDE DEF a0, spent
  <2>5. CASE caller = "rvemu"
    <3>1. /\ run_result = "Quit" => status = 0
          /\ run_result = "Exited" => status = session_result.exit_code
          /\ run_result \notin {"Quit", "Exited"} =>
                status = kInfrastructureFailureExitStatus
      BY <2>2, <2>5 DEF run_cli_status
    <3>2. CASE status # kInfrastructureFailureExitStatus
      <4>1. \/ AtExitCall /\ status = a0 % ByteValues
            \/ Debugging /\ status = 0
        BY <2>4, <2>5, <3>1, <3>2
      <4>. QED
        BY <2>5, <3>2, <4>1 DEF a0
    <3>3. CASE status = kInfrastructureFailureExitStatus
      <4>1. \/ phase = "failed" \/ spent \/ Debugging
            \/ ~ AtExitCall
            \/ status = a0 % ByteValues
        BY <2>3, <2>4, <2>5, <3>1 DEF RunResults
      <4>. QED
        BY <2>5, <3>3, <4>1 DEF a0, spent
    <3>. QED
      BY <3>2, <3>3
  <2>6. CASE caller = "act_smoke"
    <3>1. /\ run_result = "Exited" =>
                status = IF session_result.exit_code = 0 THEN 0
                         ELSE kTestFailedExitStatus
          /\ run_result # "Exited" => status \in {kAbortStatus,
                                                  kRunnerFailureExitStatus}
      <4>1. CASE run_result = "Exited"
        <5>1. phase # "failed"
          BY <2>3, <4>1
        <5>. QED
          BY <2>2, <2>6, <4>1, <5>1 DEF report_result_status
      <4>2. CASE run_result # "Exited"
        BY <2>2, <2>6, <4>2 DEF report_result_status
      <4>. QED
        BY <4>1, <4>2
    <3>2. /\ kAbortStatus = 134 /\ kRunnerFailureExitStatus = 2
          /\ kTestFailedExitStatus = 1
      BY DEF kAbortStatus, kRunnerFailureExitStatus, kTestFailedExitStatus
    <3>3. CASE status = 0
      <4>1. AtExitCall /\ a0 = 0
        BY <2>4, <2>6, <3>1, <3>2, <3>3
      <4>. QED
        BY <2>6, <3>3, <3>2, <4>1 DEF a0
    <3>4. CASE status = kTestFailedExitStatus
      <4>1. AtExitCall /\ a0 # 0
        BY <2>4, <2>6, <3>1, <3>2, <3>4
      <4>. QED
        BY <2>6, <3>4, <3>2, <4>1 DEF a0
    <3>5. CASE status \notin {0, kTestFailedExitStatus}
      <4>1. phase = "failed" \/ spent \/ Debugging \/ ~ AtExitCall
        BY <2>3, <2>4, <2>6, <3>1, <3>5 DEF RunResults
      <4>. QED
        BY <2>6, <3>5, <4>1 DEF a0, spent
    <3>. QED
      BY <3>3, <3>4, <3>5
  <2>. QED
    BY <2>2, <2>5, <2>6
<1>. QED
  BY <1>1, HostedInvariantHolds, PTL

=============================================================================
