------------------------------- MODULE Words -------------------------------
(***************************************************************************)
(* The fixed-width unsigned integers the emulator computes with.           *)
(*                                                                         *)
(* The code uses std::uint8_t, std::uint16_t, std::uint32_t and            *)
(* std::uint64_t.  What matters to its logic is that a word is four bytes, *)
(* that addition, subtraction and multiplication wrap, and that the top    *)
(* bit is the sign; the width of a byte does not.  The number of byte      *)
(* values is therefore a constant: 256 in the program, 4 in the models     *)
(* TLC checks (a 2-bit byte, an 8-bit word, a 256-byte address space).     *)
(***************************************************************************)
EXTENDS Integers

CONSTANTS
    ByteValues,        \* 2^8 in the program
    WordBits,          \* 32 in the program
    BitAnd(_, _),      \* the host's & on words
    BitOr(_, _),       \* the host's | on words
    BitXor(_, _)       \* the host's ^ on words

HalfwordValues == ByteValues * ByteValues
WordValues == HalfwordValues * HalfwordValues

Byte == 0 .. (ByteValues - 1)
Halfword == 0 .. (HalfwordValues - 1)
Word == 0 .. (WordValues - 1)

MaxWord == WordValues - 1          \* 0xFFFFFFFF
SignBit == WordValues \div 2       \* 0x80000000

(***************************************************************************)
(* A byte has an even number of values, a word has WordBits bits, and the  *)
(* host's bit operators work bit by bit: the lowest bit of the result is   *)
(* that of the operands, and the others are those of the halved operands.  *)
(***************************************************************************)
ASSUME ByteAssumption ==
    /\ ByteValues \in Nat \ {0}
    /\ ByteValues % 2 = 0

ASSUME WordBitsAssumption ==
    /\ WordBits \in Nat \ {0}
    /\ 2^WordBits = WordValues

\* BitAnd is the & of an unsigned type with the given largest value.
IsBitAnd(max) ==
    \A v, w \in 0 .. max :
        /\ BitAnd(v, w) \in Nat
        /\ BitAnd(v, w) = 2 * BitAnd(v \div 2, w \div 2) + (v % 2) * (w % 2)

ASSUME BitOperatorsAssumption ==
    /\ IsBitAnd(MaxWord)
    /\ \A v, w \in Word :
          /\ BitAnd(v, w) \in Word
          /\ BitOr(v, w) \in Word
          /\ BitXor(v, w) \in Word
          /\ BitOr(v, w) = 2 * BitOr(v \div 2, w \div 2)
                              + (IF v % 2 = 0 THEN w % 2 ELSE 1)

-----------------------------------------------------------------------------
(***************************************************************************)
(* Wrapping arithmetic: + - * << on std::uint32_t.                         *)
(***************************************************************************)
WrapAdd(v, w) == (v + w) % WordValues
WrapSub(v, w) == (v - w) % WordValues
ShiftLeft(v, amount) == (v * 2^amount) % WordValues
ShiftRight(v, amount) == v \div 2^amount

(***************************************************************************)
(* The two's complement reading of a word, the meaning the RISC-V manual   *)
(* gives to a signed operand.  It is used only in properties.              *)
(***************************************************************************)
Signed(w) == IF w < SignBit THEN w ELSE w - WordValues

(***************************************************************************)
(* The test both configuration checks of the performance models make.      *)
(***************************************************************************)
is_power_of_two(value) == value # 0 /\ BitAnd(value, value - 1) = 0

(***************************************************************************)
(* An std::optional is a set with at most one element; std::nullopt is {}. *)
(***************************************************************************)
NullOpt == {}
Some(v) == {v}
=============================================================================
