------------------------------- MODULE Memory -------------------------------
(***************************************************************************)
(* rvemu::Memory: one contiguous mapped region of the guest address space. *)
(*                                                                         *)
(* The operators are functions of the region's contents, `bytes', which    *)
(* the code indexes by offset from base_address_.  Reads and writes throw  *)
(* MemoryMisalignmentError or MemoryOutOfBoundsError; the order of the two *)
(* checks decides which one a caller sees, so it is kept.                  *)
(***************************************************************************)
EXTENDS Words

CONSTANTS
    BaseAddress,       \* base_address_
    SizeBytes          \* bytes_.size()

(***************************************************************************)
(* validated_region_size: the region ends at or below the end of the       *)
(* address space.  It may be empty.                                        *)
(***************************************************************************)
ASSUME RegionAssumption ==
    /\ BaseAddress \in Word
    /\ SizeBytes \in Nat
    /\ BaseAddress + SizeBytes <= WordValues

Offsets == 0 .. (SizeBytes - 1)
Contents == [Offsets -> Byte]

\* Memory::end_address_exclusive, a 64-bit sum that does not wrap.
EndAddressExclusive == BaseAddress + SizeBytes

-----------------------------------------------------------------------------
(***************************************************************************)
(* Memory::checked_offset returns instead of throwing.  The offset is a    *)
(* 64-bit difference and the width is compared with what remains, so that  *)
(* no addition can wrap.                                                   *)
(***************************************************************************)
InBounds(address, width) ==
    /\ BaseAddress <= address
    /\ address - BaseAddress <= SizeBytes
    /\ width <= SizeBytes - (address - BaseAddress)

Offset(address) == address - BaseAddress

\* Memory::check_alignment returns instead of throwing.
Aligned(address, width) == address % width = 0

(***************************************************************************)
(* The exception an access of the given width raises, {} when it raises    *)
(* none.  check_alignment runs before checked_offset, and the byte         *)
(* operations do not call it.                                              *)
(***************************************************************************)
AccessError(address, width) ==
    IF ~ Aligned(address, width) THEN {"Misalignment"}
    ELSE IF ~ InBounds(address, width) THEN {"OutOfBounds"}
    ELSE {}

(***************************************************************************)
(* Little-endian reads, defined where AccessError is {}.                   *)
(***************************************************************************)
read8(bytes, address) == bytes[Offset(address)]

read16(bytes, address) ==
    bytes[Offset(address)] + ByteValues * bytes[Offset(address) + 1]

read32(bytes, address) ==
    bytes[Offset(address)]
        + ByteValues * bytes[Offset(address) + 1]
        + HalfwordValues * bytes[Offset(address) + 2]
        + HalfwordValues * ByteValues * bytes[Offset(address) + 3]

\* The bytes that read_span returns, as a sequence; it does not check alignment.
read_span(bytes, address, width) ==
    [i \in 1 .. width |-> bytes[Offset(address) + i - 1]]

-----------------------------------------------------------------------------
(***************************************************************************)
(* Little-endian writes, defined where AccessError is {}.                  *)
(***************************************************************************)
write8(bytes, address, value) ==
    [bytes EXCEPT ![Offset(address)] = value % ByteValues]

\* Mutant: the two bytes are stored in big-endian order.
write16_swapped(bytes, address, value) ==
    [bytes EXCEPT ![Offset(address)] = (value \div ByteValues) % ByteValues,
                  ![Offset(address) + 1] = value % ByteValues]

write16(bytes, address, value) ==
    [bytes EXCEPT ![Offset(address)] = value % ByteValues,
                  ![Offset(address) + 1] = (value \div ByteValues) % ByteValues]

write32(bytes, address, value) ==
    [bytes EXCEPT
        ![Offset(address)] = value % ByteValues,
        ![Offset(address) + 1] = (value \div ByteValues) % ByteValues,
        ![Offset(address) + 2] = (value \div HalfwordValues) % ByteValues,
        ![Offset(address) + 3] =
            (value \div (HalfwordValues * ByteValues)) % ByteValues]
=============================================================================
