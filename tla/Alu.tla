-------------------------------- MODULE Alu --------------------------------
(***************************************************************************)
(* The arithmetic of ExecutionEngine: what OP-IMM, OP, BRANCH and the M    *)
(* extension compute.  The functions take the decoded instruction and the  *)
(* operand words, and are written with unsigned arithmetic only, as in the *)
(* code, which builds every signed operation from magnitudes and the sign  *)
(* bit so that no signed overflow can occur.                               *)
(***************************************************************************)
EXTENDS Words

FlipSign(w) == WrapAdd(w, SignBit)          \* w ^ 0x80000000

\* Mutant: the words are compared without flipping their sign bits.
signed_less_than_unsigned(left, right) == left < right

signed_less_than(left, right) == FlipSign(left) < FlipSign(right)

is_negative_word(value) == value >= SignBit

\* Mutant: the fill is shifted by the amount instead of by what is left of it.
arithmetic_shift_right_fill(value, shift_amount) ==
    IF shift_amount = 0 THEN value
    ELSE IF is_negative_word(value)
         THEN BitOr(ShiftRight(value, shift_amount),
                    ShiftLeft(MaxWord, shift_amount))
         ELSE ShiftRight(value, shift_amount)

arithmetic_shift_right(value, shift_amount) ==
    IF shift_amount = 0 THEN value
    ELSE IF is_negative_word(value)
         THEN BitOr(ShiftRight(value, shift_amount),
                    ShiftLeft(MaxWord, WordBits - shift_amount))
         ELSE ShiftRight(value, shift_amount)

\* value & 0x1F: the low bits of a shift amount.
ShiftAmount(value) == value % WordBits

BoolWord(b) == IF b THEN 1 ELSE 0

-----------------------------------------------------------------------------
(***************************************************************************)
(* execute_op_immediate: OP-IMM, with the shifts' function7 check.         *)
(***************************************************************************)
execute_op_immediate(instruction, source) ==
    LET imm == instruction.immediate
        f7 == instruction.function7
    IN CASE instruction.function3 = 0 -> Some(WrapAdd(source, imm))
         [] instruction.function3 = 1 ->
                IF f7 = 0 THEN Some(ShiftLeft(source, ShiftAmount(imm)))
                ELSE NullOpt
         [] instruction.function3 = 2 -> Some(BoolWord(signed_less_than(source, imm)))
         [] instruction.function3 = 3 -> Some(BoolWord(source < imm))
         [] instruction.function3 = 4 -> Some(BitXor(source, imm))
         [] instruction.function3 = 5 ->
                IF f7 = 0 THEN Some(ShiftRight(source, ShiftAmount(imm)))
                ELSE IF f7 = 32
                     THEN Some(arithmetic_shift_right(source, ShiftAmount(imm)))
                     ELSE NullOpt
         [] instruction.function3 = 6 -> Some(BitOr(source, imm))
         [] instruction.function3 = 7 -> Some(BitAnd(source, imm))
         [] OTHER -> NullOpt

-----------------------------------------------------------------------------
(***************************************************************************)
(* The M extension.                                                        *)
(***************************************************************************)
signed_magnitude(value) ==
    IF is_negative_word(value) THEN WrapSub(0, value) ELSE value

apply_sign(magnitude, negative) ==
    IF negative THEN WrapSub(0, magnitude) ELSE magnitude

\* Mutant: the second operand's sign counts even when it is unsigned.
signed_product_bits_alwaysSigned(source1, source2, source2_is_signed) ==
    LET magnitude == signed_magnitude(source1) * signed_magnitude(source2)
    IN IF is_negative_word(source1) # is_negative_word(source2)
       THEN (0 - magnitude) % (WordValues * WordValues)
       ELSE magnitude

\* The 64-bit product: magnitudes are multiplied and the sign is put back.
signed_product_bits(source1, source2, source2_is_signed) ==
    LET source2_negative == source2_is_signed /\ is_negative_word(source2)
        source2_magnitude == IF source2_is_signed THEN signed_magnitude(source2)
                             ELSE source2
        magnitude == signed_magnitude(source1) * source2_magnitude
    IN IF is_negative_word(source1) # source2_negative
       THEN (0 - magnitude) % (WordValues * WordValues)
       ELSE magnitude

\* Mutant: the remainder takes the sign of the quotient.
signed_divide_remainderSign(dividend, divisor) ==
    IF divisor = 0 THEN [quotient |-> MaxWord, remainder |-> dividend]
    ELSE LET negative == is_negative_word(dividend) # is_negative_word(divisor)
             n == signed_magnitude(dividend)
             d == signed_magnitude(divisor)
         IN [quotient |-> apply_sign(n \div d, negative),
             remainder |-> apply_sign(n % d, negative)]

signed_divide(dividend, divisor) ==
    IF divisor = 0 THEN [quotient |-> MaxWord, remainder |-> dividend]
    ELSE LET n == signed_magnitude(dividend)
             d == signed_magnitude(divisor)
         IN [quotient |-> apply_sign(n \div d, is_negative_word(dividend)
                                               # is_negative_word(divisor)),
             remainder |-> apply_sign(n % d, is_negative_word(dividend))]

\* The upper word of a 64-bit product: the cast of product >> 32.
UpperWord(product) == (product \div WordValues) % WordValues

\* The caller has checked function7 = 1.
execute_m_extension(instruction, source1, source2) ==
    CASE instruction.function3 = 0 -> Some((source1 * source2) % WordValues)
      [] instruction.function3 = 1 ->
             Some(UpperWord(signed_product_bits(source1, source2, TRUE)))
      [] instruction.function3 = 2 ->
             Some(UpperWord(signed_product_bits(source1, source2, FALSE)))
      [] instruction.function3 = 3 -> Some(UpperWord(source1 * source2))
      [] instruction.function3 = 4 -> Some(signed_divide(source1, source2).quotient)
      [] instruction.function3 = 5 ->
             Some(IF source2 = 0 THEN MaxWord ELSE source1 \div source2)
      [] instruction.function3 = 6 -> Some(signed_divide(source1, source2).remainder)
      [] instruction.function3 = 7 ->
             Some(IF source2 = 0 THEN source1 ELSE source1 % source2)
      [] OTHER -> NullOpt

-----------------------------------------------------------------------------
(***************************************************************************)
(* execute_op: OP.  function7 selects the M extension (1), SUB and SRA     *)
(* (32); any other combination is unsupported.                             *)
(***************************************************************************)
execute_base_op(function3, source1, source2) ==
    CASE function3 = 0 -> Some(WrapAdd(source1, source2))
      [] function3 = 1 -> Some(ShiftLeft(source1, ShiftAmount(source2)))
      [] function3 = 2 -> Some(BoolWord(signed_less_than(source1, source2)))
      [] function3 = 3 -> Some(BoolWord(source1 < source2))
      [] function3 = 4 -> Some(BitXor(source1, source2))
      [] function3 = 5 -> Some(ShiftRight(source1, ShiftAmount(source2)))
      [] function3 = 6 -> Some(BitOr(source1, source2))
      [] function3 = 7 -> Some(BitAnd(source1, source2))
      [] OTHER -> NullOpt

execute_alternate_op(function3, source1, source2) ==
    CASE function3 = 0 -> Some(WrapSub(source1, source2))
      [] function3 = 5 ->
             Some(arithmetic_shift_right(source1, ShiftAmount(source2)))
      [] OTHER -> NullOpt

execute_op(instruction, source1, source2) ==
    CASE instruction.function7 = 1 ->
             execute_m_extension(instruction, source1, source2)
      [] instruction.function7 = 0 ->
             execute_base_op(instruction.function3, source1, source2)
      [] instruction.function7 = 32 ->
             execute_alternate_op(instruction.function3, source1, source2)
      [] OTHER -> NullOpt

-----------------------------------------------------------------------------
\* Mutant: BGEU is not taken when the operands are equal.
evaluate_branch_strictBgeu(instruction, source1, source2) ==
    CASE instruction.function3 = 0 -> Some(source1 = source2)
      [] instruction.function3 = 1 -> Some(source1 # source2)
      [] instruction.function3 = 4 -> Some(signed_less_than(source1, source2))
      [] instruction.function3 = 5 -> Some(~ signed_less_than(source1, source2))
      [] instruction.function3 = 6 -> Some(source1 < source2)
      [] instruction.function3 = 7 -> Some(source1 > source2)
      [] OTHER -> NullOpt

\* evaluate_branch: whether the branch is taken; function3 2 and 3 are unsupported.
evaluate_branch(instruction, source1, source2) ==
    CASE instruction.function3 = 0 -> Some(source1 = source2)
      [] instruction.function3 = 1 -> Some(source1 # source2)
      [] instruction.function3 = 4 -> Some(signed_less_than(source1, source2))
      [] instruction.function3 = 5 -> Some(~ signed_less_than(source1, source2))
      [] instruction.function3 = 6 -> Some(source1 < source2)
      [] instruction.function3 = 7 -> Some(source1 >= source2)
      [] OTHER -> NullOpt

(***************************************************************************)
(* Sign extension of a loaded byte and halfword: OR with the upper ones.   *)
(***************************************************************************)
sign_extend_byte(value) ==
    IF value >= ByteValues \div 2 THEN value + (WordValues - ByteValues) ELSE value

sign_extend_halfword(value) ==
    IF value >= HalfwordValues \div 2 THEN value + (WordValues - HalfwordValues)
    ELSE value
=============================================================================
