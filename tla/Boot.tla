-------------------------------- MODULE Boot --------------------------------
(***************************************************************************)
(* How a guest program gets into memory: the ELF loader validates an       *)
(* image, then writes it, and the command line program places the stack.   *)
(*                                                                         *)
(* Three callers use the loader: with_loaded_program of the command line   *)
(* program ("rvemu"), run_with_loader of the architectural-test runner     *)
(* ("act_smoke"), which has no options and no stack, and any user of the   *)
(* library ("library"), whose memory may already hold something else.      *)
(*                                                                         *)
(* load_elf32 is modelled at the grain at which it could fail half-way:    *)
(* one step for the file header, one per program header, one per byte      *)
(* written.  An image is a record of what the loader reads from the file;  *)
(* identification_errors are the checks of the first 52 bytes, other than  *)
(* those of the program header table, that it fails.                       *)
(***************************************************************************)
EXTENDS Machine, SequencesExt

CONSTANTS
    Images,                    \* the files the program is started with
    Options,                   \* the stack sizes, step limits and modes asked for
    FillByte,                  \* what a library user's memory holds
    kElf32HeaderSize,          \* 52
    kElf32ProgramHeaderSize,   \* 32
    kStackAlignment,           \* 16
    kStackPointerRegister      \* 2

ASSUME BootAssumption ==
    /\ FillByte \in Byte
    /\ kElf32HeaderSize \in Nat
    /\ kElf32ProgramHeaderSize \in Nat
    /\ kStackAlignment \in Nat \ {0}
    /\ kStackPointerRegister \in Registers \ {0}

\* What an entry of the program header table holds; "Note" is every type that
\* the loader skips.
ProgramHeaders ==
    [type : {"Load", "Dynamic", "Interpreter", "Tls", "Note"}, file_offset : Word,
     virtual_address : Word, file_size : Word, memory_size : Word,
     executable : BOOLEAN, alignment : Word]

(***************************************************************************)
(* A file has bytes, a program header has 32-bit fields, and there are as  *)
(* many of them as the file header says, unless the count is one that the  *)
(* loader refuses.                                                         *)
(***************************************************************************)
ASSUME ImagesAssumption ==
    \A i \in Images :
        /\ i.size \in Nat
        /\ i.data \in [0 .. (i.size - 1) -> Byte]
        /\ i.entry_point \in Word
        /\ i.program_headers \in Seq(ProgramHeaders)
        /\ \/ i.program_header_count = Len(i.program_headers)
           \/ i.program_header_count \in {0, HalfwordValues - 1}

ASSUME OptionsAssumption ==
    \A o \in Options : o.stack_size \in Nat /\ o.maximum_steps \in Nat

Callers == {"rvemu", "act_smoke", "library"}

VARIABLES
    caller,                    \* whose memory the program is loaded into
    options,                   \* Options of the command line, or SmokeOptions
    image,                     \* the file
    phase,                     \* where the caller is
    index,                     \* the program header, then the segment, at hand
    written,                   \* bytes of that segment written
    load_segments,
    previous_virtual_address,
    first_nonempty_address,
    previous_nonempty_end,
    file_bytes_loaded,
    zero_fill_bytes,
    boot_result                \* the failure or the success to be returned

validation == <<load_segments, previous_virtual_address, first_nonempty_address,
                previous_nonempty_end>>
totals == <<file_bytes_loaded, zero_fill_bytes>>
inputs == <<caller, options, image>>
loader_vars == <<inputs, phase, index, written, validation, totals, boot_result>>

\* The Memory constructor fills the region with zeros.
MemoryBefore == [o \in Offsets |-> IF caller = "library" THEN FillByte ELSE 0]

BootInit ==
    /\ caller \in Callers
    /\ registers = [r \in Registers |-> 0]
    /\ program_counter = 0
    /\ bytes = MemoryBefore
    /\ step_result = NoResult
    /\ options \in Options
    /\ image \in Images
    /\ phase = CASE caller = "rvemu" -> "configuring"
                 [] caller = "act_smoke" -> "opening"
                 [] caller = "library" -> "header"
    /\ index = 0
    /\ written = 0
    /\ load_segments = << >>
    /\ previous_virtual_address = NullOpt
    /\ first_nonempty_address = NullOpt
    /\ previous_nonempty_end = NullOpt
    /\ file_bytes_loaded = 0
    /\ zero_fill_bytes = 0
    /\ boot_result = [kind |-> "None"]

\* Every way to stop: a failure code and the program header it is about.
Fail(code, header) ==
    /\ phase' = "failed"
    /\ boot_result' = [kind |-> "Failure", code |-> code, header |-> header]

\* The first of a sequence of checks that is among those that fail.
FirstOf(checks, failing) ==
    checks[SelectInSeq(checks, LAMBDA check : check \in failing)]

-----------------------------------------------------------------------------
(***************************************************************************)
(* valid_memory_configuration, before anything is constructed.             *)
(***************************************************************************)
ValidConfiguration ==
    /\ SizeBytes # 0
    /\ options.stack_size # 0
    /\ options.stack_size <= SizeBytes
    /\ options.maximum_steps # 0
    /\ SizeBytes <= WordValues - BaseAddress

CheckConfiguration ==
    /\ phase = "configuring"
    /\ \/ ~ ValidConfiguration /\ Fail("InvalidConfiguration", NullOpt)
       \/ ValidConfiguration /\ phase' = "opening" /\ UNCHANGED boot_result
    /\ UNCHANGED <<machine_vars, inputs, index, written, validation, totals>>

(***************************************************************************)
(* The Memory constructor or the file's buffer may fail with an exception  *)
(* of the host's allocator, and load_elf32_file to open, measure or read   *)
(* the file.                                                               *)
(***************************************************************************)
ReadFile ==
    /\ phase = "opening"
    /\ \/ phase' = "header" /\ UNCHANGED boot_result
       \/ \E code \in {"HostAllocationFailure", "FileOpenFailed", "FileReadFailed",
                       "FileTooLarge"} :
              Fail(code, NullOpt)
    /\ UNCHANGED <<machine_vars, inputs, index, written, validation, totals>>

-----------------------------------------------------------------------------
(***************************************************************************)
(* load_elf32, the checks of the file header in the order of the code.     *)
(***************************************************************************)
IdentificationChecks ==
    << "InvalidMagic", "UnsupportedClass", "UnsupportedEndianness",
       "UnsupportedIdentificationVersion", "UnsupportedOsAbi",
       "UnsupportedAbiVersion", "UnsupportedFileType", "UnsupportedMachine",
       "UnsupportedFileVersion", "UnsupportedIsaFlags", "InvalidElfHeaderSize" >>

TableChecks ==
    << "MissingProgramHeaderTable", "UnsupportedProgramHeaderCount",
       "InvalidProgramHeaderEntrySize", "InvalidProgramHeaderOffset",
       "ProgramHeaderTableOutOfBounds" >>

HeaderChecks == <<"TruncatedHeader">> \o IdentificationChecks \o TableChecks

\* offset <= limit && size <= limit - offset, which cannot overflow.
range_fits(offset, size, limit) == offset <= limit /\ size <= limit - offset

kExtendedProgramHeaderCount == HalfwordValues - 1

FailingHeaderChecks ==
    LET count == image.program_header_count
        entry_size == image.program_header_entry_size
        offset == image.program_header_offset
        Fails(check) ==
            CASE check = "TruncatedHeader" -> image.size < kElf32HeaderSize
              [] check = "MissingProgramHeaderTable" -> count = 0
              [] check = "UnsupportedProgramHeaderCount"
                    -> count = kExtendedProgramHeaderCount
              [] check = "InvalidProgramHeaderEntrySize"
                    -> entry_size # kElf32ProgramHeaderSize
              [] check = "InvalidProgramHeaderOffset" -> offset < kElf32HeaderSize
              [] check = "ProgramHeaderTableOutOfBounds"
                    -> ~ range_fits(offset, count * entry_size, image.size)
              [] OTHER -> check \in image.identification_errors
    IN {check \in ToSet(HeaderChecks) : Fails(check)}

(***************************************************************************)
(* When they pass, room for the segments is reserved, which may throw.     *)
(***************************************************************************)
ValidateHeader ==
    /\ phase = "header"
    /\ \/ /\ FailingHeaderChecks # {}
          /\ Fail(FirstOf(HeaderChecks, FailingHeaderChecks), NullOpt)
       \/ /\ FailingHeaderChecks = {}
          /\ phase' = "segments"
          /\ UNCHANGED boot_result
       \/ FailingHeaderChecks = {} /\ Fail("HostAllocationFailure", NullOpt)
    /\ UNCHANGED <<machine_vars, inputs, index, written, validation, totals>>

-----------------------------------------------------------------------------
(***************************************************************************)
(* load_elf32, one iteration of the loop over the program headers.         *)
(***************************************************************************)
SegmentChecks ==
    << "UnsupportedDynamicLinking", "UnsupportedThreadLocalStorage",
       "LoadSegmentsOutOfOrder", "SegmentFileSizeExceedsMemorySize",
       "SegmentFileRangeOutOfBounds", "InvalidSegmentAlignment",
       "SegmentAddressRangeOverflow", "SegmentOutsideMemory",
       "OverlappingLoadSegments" >>

\* Mutant: the end is computed in 32 bits.
SegmentEnd_wrapped(h) == (h.virtual_address + h.memory_size) % WordValues

\* The end of a segment, in 64 bits.
SegmentEnd(h) == h.virtual_address + h.memory_size

AlignmentInvalid(h) ==
    /\ h.alignment > 1
    /\ \/ ~ is_power_of_two(h.alignment)
       \/ h.virtual_address % h.alignment # h.file_offset % h.alignment

SegmentOutsideMemory(h) ==
    /\ h.memory_size # 0
    /\ \/ h.virtual_address < BaseAddress
       \/ SegmentEnd(h) > EndAddressExclusive

\* Mutant: a segment is compared with the start of the one before it.
Overlaps_start(h) ==
    /\ h.memory_size # 0
    /\ \E previous \in previous_virtual_address : h.virtual_address < previous

Overlaps(h) ==
    /\ h.memory_size # 0
    /\ \E end \in previous_nonempty_end : h.virtual_address < end

FailingSegmentChecks(h) ==
    LET Fails(check) ==
            CASE check = "UnsupportedDynamicLinking"
                    -> h.type \in {"Dynamic", "Interpreter"}
              [] check = "UnsupportedThreadLocalStorage" -> h.type = "Tls"
              [] check = "LoadSegmentsOutOfOrder"
                    -> \E previous \in previous_virtual_address :
                           h.virtual_address < previous
              [] check = "SegmentFileSizeExceedsMemorySize"
                    -> h.file_size > h.memory_size
              [] check = "SegmentFileRangeOutOfBounds"
                    -> ~ range_fits(h.file_offset, h.file_size, image.size)
              [] check = "InvalidSegmentAlignment" -> AlignmentInvalid(h)
              [] check = "SegmentAddressRangeOverflow" -> SegmentEnd(h) > WordValues
              [] check = "SegmentOutsideMemory" -> SegmentOutsideMemory(h)
              [] check = "OverlappingLoadSegments" -> Overlaps(h)
        read == IF h.type = "Load" THEN ToSet(SegmentChecks)
                ELSE {"UnsupportedDynamicLinking", "UnsupportedThreadLocalStorage"}
    IN {check \in read : Fails(check)}

\* Mutant: an empty segment moves the end of the image.
NonemptyEnd_empty(h) == Some(SegmentEnd(h))

\* previous_nonempty_end after a segment that passed the checks.
NonemptyEnd(h) ==
    IF h.memory_size # 0 THEN Some(SegmentEnd(h)) ELSE previous_nonempty_end

AcceptSegment(h) ==
    /\ load_segments' = Append(load_segments, h)
    /\ previous_virtual_address' = Some(h.virtual_address)
    /\ first_nonempty_address' =
           IF h.memory_size # 0 /\ first_nonempty_address = NullOpt
           THEN Some(h.virtual_address) ELSE first_nonempty_address
    /\ previous_nonempty_end' = NonemptyEnd(h)

ValidateProgramHeader ==
    /\ phase = "segments"
    /\ index < image.program_header_count
    /\ LET h == image.program_headers[index + 1]
       IN \/ /\ FailingSegmentChecks(h) # {}
             /\ Fail(FirstOf(SegmentChecks, FailingSegmentChecks(h)), Some(index))
             /\ UNCHANGED <<index, validation>>
          \/ /\ FailingSegmentChecks(h) = {}
             /\ index' = index + 1
             /\ \/ h.type = "Load" /\ AcceptSegment(h)
                \/ h.type # "Load" /\ UNCHANGED validation
             /\ UNCHANGED <<phase, boot_result>>
    /\ UNCHANGED <<machine_vars, inputs, written, totals>>

-----------------------------------------------------------------------------
(***************************************************************************)
(* load_elf32, the checks after the loop, then the writes.                 *)
(***************************************************************************)
Nonempty == {k \in DOMAIN load_segments : load_segments[k].memory_size # 0}

EntryIsExecutable ==
    \E k \in Nonempty :
        /\ load_segments[k].executable
        /\ image.entry_point >= load_segments[k].virtual_address
        /\ image.entry_point < SegmentEnd(load_segments[k])

EntryChecks == <<"NoLoadableSegments", "EntryPointMisaligned", "EntryPointNotExecutable">>

FailingEntryChecks ==
    LET Fails(check) ==
            CASE check = "NoLoadableSegments" -> Nonempty = {}
              [] check = "EntryPointMisaligned"
                    -> ~ is_instruction_aligned(image.entry_point)
              [] check = "EntryPointNotExecutable" -> ~ EntryIsExecutable
    IN {check \in ToSet(EntryChecks) : Fails(check)}

ValidateEntry ==
    /\ phase = "segments"
    /\ index = image.program_header_count
    /\ \/ /\ FailingEntryChecks # {}
          /\ Fail(FirstOf(EntryChecks, FailingEntryChecks), NullOpt)
          /\ UNCHANGED index
       \/ /\ FailingEntryChecks = {}
          /\ phase' = "writing"
          /\ index' = 0
          /\ UNCHANGED boot_result
    /\ UNCHANGED <<machine_vars, inputs, written, validation, totals>>

Segment == load_segments[index + 1]

\* One call of write8, which would throw outside the region.
WriteByte ==
    LET address == WrapAdd(Segment.virtual_address, written)
        value == IF written < Segment.file_size
                 THEN image.data[Segment.file_offset + written] ELSE 0
    IN /\ phase = "writing"
       /\ index < Len(load_segments)
       /\ written < Segment.memory_size
       /\ IF InBounds(address, 1)
          THEN /\ bytes' = write8(bytes, address, value)
               /\ written' = written + 1
               /\ UNCHANGED <<phase, boot_result>>
          ELSE /\ Fail("MemoryOutOfBoundsError", Some(index))
               /\ UNCHANGED <<bytes, written>>
       /\ UNCHANGED <<registers, program_counter, step_result, inputs, index,
                      validation, totals>>

SegmentWritten ==
    /\ phase = "writing"
    /\ index < Len(load_segments)
    /\ written = Segment.memory_size
    /\ file_bytes_loaded' = file_bytes_loaded + Segment.file_size
    /\ zero_fill_bytes' =
           zero_fill_bytes + (Segment.memory_size - Segment.file_size)
    /\ index' = index + 1
    /\ written' = 0
    /\ UNCHANGED <<machine_vars, inputs, phase, validation, boot_result>>

LoadCompletes ==
    /\ phase = "writing"
    /\ index = Len(load_segments)
    /\ program_counter' = image.entry_point
    /\ phase' = "loaded"
    /\ boot_result' =
           [kind |-> "Loaded",
            loaded_address_begin |-> CHOOSE a \in first_nonempty_address : TRUE,
            loaded_address_end_exclusive |->
                CHOOSE a \in previous_nonempty_end : TRUE]
    /\ UNCHANGED <<registers, bytes, step_result, inputs, index, written,
                   validation, totals>>

-----------------------------------------------------------------------------
(***************************************************************************)
(* initialize_freestanding_stack.  A size of at most 2^32, which the first *)
(* comparison ensures, cannot overflow 64 bits when it is rounded up.      *)
(***************************************************************************)
StackChecks ==
    << "InvalidOccupiedRange", "InvalidStackSize", "StackDoesNotFit",
       "StackOverlapsLoadedImage" >>

stack_size == ((options.stack_size + kStackAlignment - 1) \div kStackAlignment)
                  * kStackAlignment
stack_top == (EndAddressExclusive \div kStackAlignment) * kStackAlignment
stack_bottom == stack_top - stack_size

\* Mutant: the image is compared with the top of the stack.
StackOverlaps_top(end) == end > stack_top

StackOverlaps(end) == end > stack_bottom

FailingStackChecks(begin, end) ==
    LET Fails(check) ==
            CASE check = "InvalidOccupiedRange"
                    -> begin < BaseAddress \/ begin > end \/ end > EndAddressExclusive
              [] check = "InvalidStackSize"
                    -> options.stack_size = 0 \/ options.stack_size > WordValues
              [] check = "StackDoesNotFit"
                    -> stack_top < BaseAddress \/ stack_size > stack_top - BaseAddress
              [] check = "StackOverlapsLoadedImage" -> StackOverlaps(end)
    IN {check \in ToSet(StackChecks) : Fails(check)}

InitializeStack ==
    LET failing == FailingStackChecks(boot_result.loaded_address_begin,
                                      boot_result.loaded_address_end_exclusive)
    IN /\ phase = "loaded"
       /\ caller = "rvemu"
       /\ \/ /\ failing # {}
             /\ Fail(FirstOf(StackChecks, failing), NullOpt)
             /\ UNCHANGED registers
          \/ /\ failing = {}
             /\ registers' = write_register(kStackPointerRegister,
                                            stack_top % WordValues)
             /\ phase' = "ready"
             /\ UNCHANGED boot_result
       /\ UNCHANGED <<program_counter, bytes, step_result, inputs, index, written,
                      validation, totals>>

\* The test runner leaves the stack pointer at zero.
SkipStack ==
    /\ phase = "loaded"
    /\ caller = "act_smoke"
    /\ phase' = "ready"
    /\ UNCHANGED <<machine_vars, inputs, index, written, validation, totals,
                   boot_result>>

BootStep ==
    \/ CheckConfiguration
    \/ ReadFile
    \/ ValidateHeader
    \/ ValidateProgramHeader
    \/ ValidateEntry
    \/ WriteByte
    \/ SegmentWritten
    \/ LoadCompletes
    \/ InitializeStack
    \/ SkipStack

-----------------------------------------------------------------------------
LoadSegments ==
    {h \in ToSet(image.program_headers) : h.type = "Load" /\ h.memory_size # 0}

Covers(h, address) ==
    address \in h.virtual_address .. (h.virtual_address + h.memory_size - 1)

StackFailures == {"StackDoesNotFit", "StackOverlapsLoadedImage"}

\* load_elf32 has returned a success and the guest has not started.
IsLoaded ==
    \/ phase \in {"loaded", "ready"}
    \/ phase = "failed" /\ boot_result.code \in StackFailures

(***************************************************************************)
(* The loader is all or nothing: the whole image is validated before the   *)
(* first byte is written, so a load that fails has changed neither memory  *)
(* nor a register nor the program counter, and no write can throw half-way *)
(* through.  Given a loaded image, the only ways to fail are the two of    *)
(* the stack that depend on the space left.                                *)
(***************************************************************************)
LoadIsAllOrNothing ==
    (phase = "failed" /\ ~ IsLoaded) =>
        /\ bytes = MemoryBefore
        /\ registers = [r \in Registers |-> 0]
        /\ program_counter = 0

(***************************************************************************)
(* After a load memory is what the program headers of the file say: every  *)
(* byte of a segment comes from the file or is zero, segments do not       *)
(* overwrite each other, and every other byte is what it was.              *)
(***************************************************************************)
MemoryIsImage ==
    IsLoaded =>
        \A o \in Offsets :
            LET covering == {h \in LoadSegments : Covers(h, BaseAddress + o)}
                At(h) == BaseAddress + o - h.virtual_address
            IN /\ covering = {} => bytes[o] = MemoryBefore[o]
               /\ \A h \in covering :
                     bytes[o] = IF At(h) < h.file_size
                                THEN image.data[h.file_offset + At(h)] ELSE 0

(***************************************************************************)
(* What the loader reports is what it did: the range is the smallest that  *)
(* has all segments, the byte counts add up to the bytes of memory that    *)
(* segments cover, and execution starts at the entry point of the file, an *)
(* aligned address of an executable segment.                               *)
(***************************************************************************)
LoadIsReported ==
    LET covered == {a \in Word : \E h \in LoadSegments : Covers(h, a)}
    IN /\ IsLoaded =>
             /\ file_bytes_loaded + zero_fill_bytes = Cardinality(covered)
             /\ program_counter = image.entry_point
             /\ is_instruction_aligned(program_counter)
             /\ \E h \in LoadSegments : h.executable /\ Covers(h, program_counter)
       /\ phase = "loaded" =>
             /\ boot_result.loaded_address_begin \in covered
             /\ boot_result.loaded_address_end_exclusive - 1 \in covered
             /\ covered \subseteq boot_result.loaded_address_begin
                        .. (boot_result.loaded_address_end_exclusive - 1)

(***************************************************************************)
(* A program that runs has the stack it asked for: the stack pointer is an *)
(* aligned word (zero when the region ends with the address space), and    *)
(* the bytes below it, as many as were asked for, are mapped and belong to *)
(* no segment.                                                             *)
(***************************************************************************)
StackIsReserved ==
    (phase = "ready" /\ caller = "rvemu") =>
        LET sp == registers[kStackPointerRegister]
            top == IF sp = 0 THEN WordValues ELSE sp
        IN /\ sp \in Word
           /\ sp % kStackAlignment = 0
           /\ \A a \in (top - options.stack_size) .. (top - 1) :
                 /\ InBounds(a, 1)
                 /\ ~ \E h \in LoadSegments : Covers(h, a)
=============================================================================
