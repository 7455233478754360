---------------------------- MODULE DecoderCheck ----------------------------
(***************************************************************************)
(* Checks Decoder against the encoding tables of the RISC-V manual and     *)
(* against the encoders the benchmarks write their programs with.  The     *)
(* state is a word; from each opcode, with the bits above it all 0 or all  *)
(* 1, the behaviour flips up to MaximumFlips bits.                         *)
(***************************************************************************)
EXTENDS Decoder, FiniteSets

CONSTANT MaximumFlips

ASSUME FlipsAssumption == MaximumFlips \in Nat

VARIABLES
    raw,           \* the word to decode
    origin         \* the word it was flipped from

decoder_vars == <<raw, origin>>

DecoderInit ==
    /\ \E opcode \in OpcodeNames, upper \in {{}, 7 .. 31} :
           raw = BitsOf(OpcodeValue[opcode]) \cup upper
    /\ origin = raw

Flipped == (raw \ origin) \cup (origin \ raw)

FlipBit ==
    /\ Cardinality(Flipped) < MaximumFlips
    /\ \E bit \in Bits \ Flipped : raw' = Flip(raw, bit)
    /\ UNCHANGED origin

StartOver ==
    /\ Cardinality(Flipped) = MaximumFlips
    /\ raw' = origin
    /\ UNCHANGED origin

DecoderNext == FlipBit \/ StartOver

DecoderSpec == DecoderInit /\ [][DecoderNext]_decoder_vars

-----------------------------------------------------------------------------
(***************************************************************************)
(* The encoders of the benchmark programs.  Signed arguments are given as  *)
(* the bits of their two's complement, which the casts make of them.       *)
(***************************************************************************)
EncodedAs(opcode) == BitsOf(OpcodeValue[opcode])

encode_immediate_operation(destination, function3, source, immediate) ==
    ShiftedLeft(immediate \cap Mask(12), 20)
        \cup ShiftedLeft(source, 15)
        \cup ShiftedLeft(function3, 12)
        \cup ShiftedLeft(destination, 7)
        \cup EncodedAs("OpImmediate")

encode_register_operation(destination, function3, source1, source2, function7) ==
    ShiftedLeft(function7, 25)
        \cup ShiftedLeft(source2, 20)
        \cup ShiftedLeft(source1, 15)
        \cup ShiftedLeft(function3, 12)
        \cup ShiftedLeft(destination, 7)
        \cup EncodedAs("Op")

encode_load_word(destination, source, immediate) ==
    ShiftedLeft(immediate \cap Mask(12), 20)
        \cup ShiftedLeft(source, 15)
        \cup ShiftedLeft(BitsOf(2), 12)
        \cup ShiftedLeft(destination, 7)
        \cup EncodedAs("Load")

encode_store_word(address_source, value_source, immediate) ==
    LET bits == immediate \cap Mask(12)
    IN ShiftedLeft(ShiftedRight(bits, 5), 25)
           \cup ShiftedLeft(value_source, 20)
           \cup ShiftedLeft(address_source, 15)
           \cup ShiftedLeft(BitsOf(2), 12)
           \cup ShiftedLeft(bits \cap Mask(5), 7)
           \cup EncodedAs("Store")

encode_branch(function3, source1, source2, immediate) ==
    LET bits == immediate \cap Mask(13)
    IN ShiftedLeft(ShiftedRight(bits, 12) \cap Mask(1), 31)
           \cup ShiftedLeft(ShiftedRight(bits, 5) \cap Mask(6), 25)
           \cup ShiftedLeft(source2, 20)
           \cup ShiftedLeft(source1, 15)
           \cup ShiftedLeft(function3, 12)
           \cup ShiftedLeft(ShiftedRight(bits, 1) \cap Mask(4), 8)
           \cup ShiftedLeft(ShiftedRight(bits, 11) \cap Mask(1), 7)
           \cup EncodedAs("Branch")

\* Mutant: bits 19 to 12 are not masked, so that the sign is also put in bit 20.
encode_jump_unmasked(immediate) ==
    LET bits == immediate \cap Mask(21)
    IN ShiftedLeft(ShiftedRight(bits, 20) \cap Mask(1), 31)
           \cup ShiftedLeft(ShiftedRight(bits, 1) \cap Mask(10), 21)
           \cup ShiftedLeft(ShiftedRight(bits, 11) \cap Mask(1), 20)
           \cup ShiftedLeft(ShiftedRight(bits, 12), 12)
           \cup EncodedAs("Jal")

encode_jump(immediate) ==
    LET bits == immediate \cap Mask(21)
    IN ShiftedLeft(ShiftedRight(bits, 20) \cap Mask(1), 31)
           \cup ShiftedLeft(ShiftedRight(bits, 1) \cap Mask(10), 21)
           \cup ShiftedLeft(ShiftedRight(bits, 11) \cap Mask(1), 20)
           \cup ShiftedLeft(ShiftedRight(bits, 12) \cap Mask(8), 12)
           \cup EncodedAs("Jal")

encode_lui(destination, immediate) ==
    (immediate \ Mask(12)) \cup ShiftedLeft(destination, 7) \cup EncodedAs("Lui")

\* The encoder for a decoded instruction, applied to its fields; {} if none.
Encoders(i) ==
    CASE i.opcode = "OpImmediate" ->
             {encode_immediate_operation(i.destination, i.function3, i.source1,
                                         i.immediate)}
      [] i.opcode = "Op" ->
             {encode_register_operation(i.destination, i.function3, i.source1,
                                        i.source2, i.function7)}
      [] i.opcode = "Load" /\ i.function3 = BitsOf(2) ->
             {encode_load_word(i.destination, i.source1, i.immediate)}
      [] i.opcode = "Store" /\ i.function3 = BitsOf(2) ->
             {encode_store_word(i.source1, i.source2, i.immediate)}
      [] i.opcode = "Branch" ->
             {encode_branch(i.function3, i.source1, i.source2, i.immediate)}
      [] i.opcode = "Jal" /\ i.destination = {} -> {encode_jump(i.immediate)}
      [] i.opcode = "Lui" -> {encode_lui(i.destination, i.immediate)}
      [] OTHER -> {}

(***************************************************************************)
(* Encoders and decoder are inverse: decoding loses nothing of a word, and *)
(* the benchmark programs are the instructions their encoders are named    *)
(* for, branch and jump offsets of either sign included.                   *)
(***************************************************************************)
EncodersInvertDecoder ==
    \A i \in decode_instruction(raw) : \A encoded \in Encoders(i) : encoded = raw

-----------------------------------------------------------------------------
(***************************************************************************)
(* The manual's base opcode map: bits 6-5 are the row, 4-2 the column, and *)
(* bits 1-0 are both set.                                                  *)
(***************************************************************************)
ManualOpcode ==
    [Load |-> <<0, 0>>, MiscMemory |-> <<0, 3>>, OpImmediate |-> <<0, 4>>,
     Auipc |-> <<0, 5>>, Store |-> <<1, 0>>, Op |-> <<1, 4>>, Lui |-> <<1, 5>>,
     Branch |-> <<3, 0>>, Jalr |-> <<3, 1>>, Jal |-> <<3, 3>>, System |-> <<3, 4>>]

HasOpcode(opcode) ==
    /\ {0, 1} \subseteq raw
    /\ BitsOf(ManualOpcode[opcode][1]) = {b \in 0 .. 1 : b + 5 \in raw}
    /\ BitsOf(ManualOpcode[opcode][2]) = {b \in 0 .. 2 : b + 2 \in raw}

(***************************************************************************)
(* The manual's figure of immediates: the bit of the instruction that bit  *)
(* b of the immediate comes from, {} for those that are always zero.       *)
(***************************************************************************)
ManualImmediateBit(format, b) ==
    CASE format = "R" -> {}
      [] format = "I" -> IF b <= 10 THEN {b + 20} ELSE {31}
      [] format = "S" -> IF b <= 4 THEN {b + 7}
                         ELSE IF b <= 10 THEN {b + 20} ELSE {31}
      [] format = "B" -> IF b = 0 THEN {} ELSE IF b <= 4 THEN {b + 7}
                         ELSE IF b <= 10 THEN {b + 20}
                         ELSE IF b = 11 THEN {7} ELSE {31}
      [] format = "U" -> IF b <= 11 THEN {} ELSE {b}
      [] format = "J" -> IF b = 0 THEN {} ELSE IF b <= 10 THEN {b + 20}
                         ELSE IF b = 11 THEN {20}
                         ELSE IF b <= 19 THEN {b} ELSE {31}

\* The format of each opcode in the manual's instruction listing.
ManualFormat ==
    [Load |-> "I", MiscMemory |-> "I", OpImmediate |-> "I", Auipc |-> "U",
     Store |-> "S", Op |-> "R", Lui |-> "U", Branch |-> "B", Jalr |-> "I",
     Jal |-> "J", System |-> "I"]

(***************************************************************************)
(* The manual's figure of formats: the field in bits low to high of the    *)
(* formats that have it.                                                   *)
(***************************************************************************)
ManualField(format, formats, low, high) ==
    IF format \in formats THEN {b \in 0 .. (high - low) : b + low \in raw} ELSE {}

(***************************************************************************)
(* decode_instruction accepts exactly the words of the eleven major        *)
(* opcodes.  Each register and function field is the one the manual's      *)
(* formats give the opcode, and zero where they give none; I-type words    *)
(* keep bits 31 to 25, which tell the immediate shifts apart.  Immediates, *)
(* put together from up to four pieces and sign-extended by an exclusive   *)
(* or and a wrapping subtraction, are those of the manual's figure, bit by *)
(* bit and at full width.                                                  *)
(***************************************************************************)
DecodesAsManual ==
    /\ {i.opcode : i \in decode_instruction(raw)} = {o \in OpcodeNames : HasOpcode(o)}
    /\ \A i \in decode_instruction(raw) :
          /\ i.format = ManualFormat[i.opcode]
          /\ i.destination = ManualField(i.format, {"R", "I", "U", "J"}, 7, 11)
          /\ i.function3 = ManualField(i.format, {"R", "I", "S", "B"}, 12, 14)
          /\ i.source1 = ManualField(i.format, {"R", "I", "S", "B"}, 15, 19)
          /\ i.source2 = ManualField(i.format, {"R", "S", "B"}, 20, 24)
          /\ i.function7 = ManualField(i.format, {"R", "I"}, 25, 31)
          /\ i.immediate = {b \in Bits : ManualImmediateBit(i.format, b) \cap raw # {}}
=============================================================================
