------------------------------ MODULE Decoder ------------------------------
(***************************************************************************)
(* decode_instruction: the fields of a 32-bit instruction word.            *)
(*                                                                         *)
(* A std::uint32_t is the set of the positions of its 1 bits, which keeps  *)
(* its real width: & is \cap, | is \cup, and shifts move the positions.    *)
(* The std::uint8_t fields are sets of positions too.                      *)
(***************************************************************************)
EXTENDS Integers

Bits == 0 .. 31
RawWord == SUBSET Bits

\* The bits of a literal below 2^31.
BitsOf(n) == {b \in 0 .. 30 : (n \div 2^b) % 2 = 1}

ShiftedRight(w, amount) == {b \in Bits : b + amount \in w}
ShiftedLeft(w, amount) == {b \in Bits : b - amount \in w}

\* The mask with the given number of low bits set: 0x1F is Mask(5).
Mask(width) == 0 .. (width - 1)

Flip(w, bit) == (w \ {bit}) \cup ({bit} \ w)

\* w - (1 << bit), modulo 2^32: the borrow runs up to the first 1 bit.
MinusBit(w, bit) ==
    LET borrowed == {b \in Bits : b >= bit /\ (bit .. (b - 1)) \cap w = {}}
    IN (w \ borrowed) \cup (borrowed \ w)

-----------------------------------------------------------------------------
field(raw, shift, width) == ShiftedRight(raw, shift) \cap Mask(width)

\* Mutant: the sign is not propagated.
sign_extend_zeros(value, bit_count) == value \cap Mask(bit_count)

sign_extend(value, bit_count) ==
    LET sign_bit == bit_count - 1
    IN MinusBit(Flip(value \cap Mask(bit_count), sign_bit), sign_bit)

\* The enumerators of Opcode and their values.
OpcodeValue ==
    [Load |-> 3, MiscMemory |-> 15, OpImmediate |-> 19, Auipc |-> 23,
     Store |-> 35, Op |-> 51, Lui |-> 55, Branch |-> 99, Jalr |-> 103,
     Jal |-> 111, System |-> 115]

OpcodeNames == DOMAIN OpcodeValue

\* An optional: the opcode whose value is in the low seven bits, if any.
decode_opcode(raw) == {o \in OpcodeNames : BitsOf(OpcodeValue[o]) = raw \cap Mask(7)}

format_for_opcode(opcode) ==
    CASE opcode = "Op" -> "R"
      [] opcode \in {"Load", "MiscMemory", "OpImmediate", "Jalr", "System"} -> "I"
      [] opcode = "Store" -> "S"
      [] opcode = "Branch" -> "B"
      [] opcode \in {"Auipc", "Lui"} -> "U"
      [] opcode = "Jal" -> "J"

-----------------------------------------------------------------------------
(***************************************************************************)
(* The immediate of each format, in the code's shifts and masks.           *)
(***************************************************************************)
IImmediate(raw) == sign_extend(ShiftedRight(raw, 20), 12)

SImmediate(raw) ==
    sign_extend(ShiftedLeft(ShiftedRight(raw, 25), 5)
                    \cup (ShiftedRight(raw, 7) \cap Mask(5)), 12)

BImmediate(raw) ==
    sign_extend(ShiftedLeft(ShiftedRight(raw, 31), 12)
                    \cup ShiftedLeft(ShiftedRight(raw, 7) \cap Mask(1), 11)
                    \cup ShiftedLeft(ShiftedRight(raw, 25) \cap Mask(6), 5)
                    \cup ShiftedLeft(ShiftedRight(raw, 8) \cap Mask(4), 1), 13)

UImmediate(raw) == raw \ Mask(12)

JImmediate(raw) ==
    sign_extend(ShiftedLeft(ShiftedRight(raw, 31), 20)
                    \cup ShiftedLeft(ShiftedRight(raw, 12) \cap Mask(8), 12)
                    \cup ShiftedLeft(ShiftedRight(raw, 20) \cap Mask(1), 11)
                    \cup ShiftedLeft(ShiftedRight(raw, 21) \cap Mask(10), 1), 21)

\* A field that only the given formats have; it is zero in the others.
FieldIf(formats, format, raw, shift, width) ==
    IF format \in formats THEN field(raw, shift, width) ELSE {}

\* decode_instruction, an optional.
decode_instruction(raw) ==
    { LET format == format_for_opcode(opcode)
      IN [raw |-> raw,
          opcode |-> opcode,
          format |-> format,
          destination |-> FieldIf({"R", "I", "U", "J"}, format, raw, 7, 5),
          function3 |-> FieldIf({"R", "I", "S", "B"}, format, raw, 12, 3),
          source1 |-> FieldIf({"R", "I", "S", "B"}, format, raw, 15, 5),
          source2 |-> FieldIf({"R", "S", "B"}, format, raw, 20, 5),
          function7 |-> FieldIf({"R", "I"}, format, raw, 25, 7),
          immediate |-> CASE format = "R" -> {}
                          [] format = "I" -> IImmediate(raw)
                          [] format = "S" -> SImmediate(raw)
                          [] format = "B" -> BImmediate(raw)
                          [] format = "U" -> UImmediate(raw)
                          [] format = "J" -> JImmediate(raw)]
      : opcode \in decode_opcode(raw) }
=============================================================================
