------------------------------ MODULE AluCheck ------------------------------
(***************************************************************************)
(* Checks Alu against the RISC-V manual's definition of each operation,    *)
(* stated with integers.  The state is a pair of operands; the behaviour   *)
(* sweeps the second operand through every word, from every first one.     *)
(***************************************************************************)
EXTENDS Alu

VARIABLES source1, source2

vars == <<source1, source2>>

Init == source1 \in Word /\ source2 = 0

SweepOperand == source2' = WrapAdd(source2, 1) /\ UNCHANGED source1

Next == SweepOperand

Spec == Init /\ [][Next]_vars

-----------------------------------------------------------------------------
Op(function3, function7) ==
    [function3 |-> function3, function7 |-> function7, immediate |-> source2]

Magnitude(i) == IF i < 0 THEN 0 - i ELSE i

(***************************************************************************)
(* SLT, SLTI, BLT and BGE order words as the signed integers they stand    *)
(* for, although signed_less_than only compares unsigned words with their  *)
(* sign bits flipped.                                                      *)
(***************************************************************************)
SignedOrder ==
    LET less == Signed(source1) < Signed(source2)
    IN /\ execute_op(Op(2, 0), source1, source2) = Some(BoolWord(less))
       /\ execute_op_immediate(Op(2, 0), source1) = Some(BoolWord(less))
       /\ evaluate_branch(Op(4, 0), source1, source2) = Some(less)
       /\ evaluate_branch(Op(5, 0), source1, source2) = Some(~ less)

(***************************************************************************)
(* SRA and SRAI divide the signed operand by a power of two, rounding down *)
(* (arithmetic_shift_right builds the sign fill with unsigned shifts; an   *)
(* amount of 0 would shift by the word's width).                           *)
(***************************************************************************)
ArithmeticShift ==
    LET amount == ShiftAmount(source2)
    IN /\ \E v \in execute_op(Op(5, 32), source1, source2) :
             Signed(v) = Signed(source1) \div 2^amount
       /\ execute_op_immediate(Op(5, 32), source1)
             = execute_op(Op(5, 32), source1, source2)

(***************************************************************************)
(* MUL and the three multiply-high instructions return the two halves of   *)
(* the exact product of the operands, read as signed, signed by unsigned   *)
(* and unsigned (signed_product_bits multiplies magnitudes and negates the *)
(* 64-bit product; the most negative word is its own magnitude).           *)
(***************************************************************************)
ExactProduct ==
    LET Half(function3) == CHOOSE v \in execute_op(Op(function3, 1), source1, source2) : TRUE
        low == Half(0)
        high == [f \in 1 .. 3 |-> Half(f)]
    IN /\ Signed(high[1]) * WordValues + low = Signed(source1) * Signed(source2)
       /\ Signed(high[2]) * WordValues + low = Signed(source1) * source2
       /\ high[3] * WordValues + low = source1 * source2

(***************************************************************************)
(* DIV and REM: the quotient is rounded towards zero, the remainder has    *)
(* the dividend's sign, and both are what the RISC-V manual asks when the  *)
(* divisor is zero or the quotient of the most negative word by -1 does    *)
(* not fit (the code has no case of its own for that overflow).            *)
(***************************************************************************)
SignedDivision ==
    LET n == Signed(source1)
        d == Signed(source2)
        result == signed_divide(source1, source2)
        q == Signed(result.quotient)
        r == Signed(result.remainder)
    IN IF d = 0 THEN q = -1 /\ r = n
       ELSE IF n = 0 - SignBit /\ d = -1 THEN q = n /\ r = 0
       ELSE /\ n = q * d + r
            /\ Magnitude(r) < Magnitude(d)
            /\ r = 0 \/ (r < 0 <=> n < 0)

(***************************************************************************)
(* The two copies of the instruction table, execute_op_immediate and       *)
(* execute_op, compute the same function of the second operand, and a      *)
(* branch decides on the same order that SLT and SLTU return.              *)
(***************************************************************************)
TablesAgree ==
    /\ \A function3 \in 0 .. 7 :
          execute_op_immediate(Op(function3, 0), source1)
              = execute_op(Op(function3, 0), source1, source2)
    /\ \A less \in {<<4, 5, 2>>, <<6, 7, 3>>} :
          /\ evaluate_branch(Op(less[1], 0), source1, source2) # NullOpt
          /\ \A taken \in evaluate_branch(Op(less[1], 0), source1, source2) :
                /\ execute_op(Op(less[3], 0), source1, source2) = Some(BoolWord(taken))
                /\ evaluate_branch(Op(less[2], 0), source1, source2) = Some(~ taken)
=============================================================================
