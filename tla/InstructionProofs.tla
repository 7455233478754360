-------------------------- MODULE InstructionProofs --------------------------
(***************************************************************************)
(* Proofs about Alu and Decoder: the engine's unsigned arithmetic computes *)
(* what the RISC-V manual says of signed integers, for every word width    *)
(* and every pair of operands, and the decoder's shifts and masks extract  *)
(* the manual's fields, for every word.                                    *)
(***************************************************************************)
EXTENDS AluCheck, DecoderCheck, WordTheorems

-----------------------------------------------------------------------------
(***************************************************************************)
(* The sweep of AluCheck never leaves the words.                           *)
(***************************************************************************)
Operands == source1 \in Word /\ source2 \in Word

LEMMA OperandsAreWords == Spec => []Operands
<1>1. Init => Operands
  BY WordConstants DEF Init, Operands
<1>2. Operands /\ [Next]_vars => Operands'
  <2>1. ASSUME Operands, SweepOperand
        PROVE  Operands'
    <3>1. WrapAdd(source2, 1) \in Word
      BY <2>1, WordIsInt, AddClosed DEF Operands
    <3>. QED
      BY <2>1, <3>1 DEF Operands, SweepOperand
  <2>. QED
    BY <2>1 DEF Next, vars, Operands
<1>. QED
  BY <1>1, <1>2, PTL DEF Spec

(***************************************************************************)
(* The comparisons and the branches of the instruction tables.             *)
(***************************************************************************)
LEMMA Comparisons ==
    ASSUME NEW f
    PROVE  /\ f = 2 => execute_op(Op(f, 0), source1, source2)
                         = Some(BoolWord(signed_less_than(source1, source2)))
           /\ f = 2 => execute_op_immediate(Op(f, 0), source1)
                         = Some(BoolWord(signed_less_than(source1, source2)))
           /\ f = 3 => execute_op(Op(f, 0), source1, source2)
                         = Some(BoolWord(source1 < source2))
           /\ f = 4 => evaluate_branch(Op(f, 0), source1, source2)
                         = Some(signed_less_than(source1, source2))
           /\ f = 5 => evaluate_branch(Op(f, 0), source1, source2)
                         = Some(~ signed_less_than(source1, source2))
           /\ f = 6 => evaluate_branch(Op(f, 0), source1, source2)
                         = Some(source1 < source2)
           /\ f = 7 => evaluate_branch(Op(f, 0), source1, source2)
                         = Some(source1 >= source2)
<1>1. PICK i : i = Op(f, 0)
  OBVIOUS
<1>2. i.function3 = f /\ i.function7 = 0 /\ i.immediate = source2
  BY <1>1 DEF Op
<1>3. execute_op(i, source1, source2) = execute_base_op(f, source1, source2)
  BY <1>2 DEF execute_op
<1>4. CASE f = 2
  <2>1. execute_op(i, source1, source2)
            = Some(BoolWord(signed_less_than(source1, source2)))
    BY <1>3, <1>4 DEF execute_base_op
  <2>2. execute_op_immediate(i, source1)
            = Some(BoolWord(signed_less_than(source1, source2)))
    BY <1>2, <1>4 DEF execute_op_immediate
  <2>. QED
    BY <1>1, <1>4, <2>1, <2>2
<1>5. CASE f = 3
  BY <1>1, <1>3, <1>5 DEF execute_base_op
<1>6. CASE f = 4
  BY <1>1, <1>2, <1>6 DEF evaluate_branch
<1>7. CASE f = 5
  BY <1>1, <1>2, <1>7 DEF evaluate_branch
<1>8. CASE f = 6
  BY <1>1, <1>2, <1>8 DEF evaluate_branch
<1>9. CASE f = 7
  BY <1>1, <1>2, <1>9 DEF evaluate_branch
<1>. QED
  BY <1>4, <1>5, <1>6, <1>7, <1>8, <1>9, Zenon

(***************************************************************************)
(* SLT, SLTI, BLT and BGE decide on the order of the signed integers.      *)
(***************************************************************************)
THEOREM SignedOrderHolds == Spec => []SignedOrder
<1>1. Operands => SignedOrder
  <2>. SUFFICES ASSUME Operands PROVE SignedOrder
    OBVIOUS
  <2>1. signed_less_than(source1, source2) = (Signed(source1) < Signed(source2))
    BY SignedLessThan DEF Operands, signed_less_than
  <2>. QED
    BY <2>1, Comparisons, Zenon DEF SignedOrder
<1>. QED
  BY <1>1, OperandsAreWords, PTL

-----------------------------------------------------------------------------
(***************************************************************************)
(* The sign bit and the magnitude of a word are those of the integer it    *)
(* stands for; the most negative word is its own magnitude.                *)
(***************************************************************************)
LEMMA SignAndMagnitude ==
    ASSUME NEW v \in Word
    PROVE  /\ Signed(v) \in (0 - SignBit) .. (SignBit - 1)
           /\ is_negative_word(v) <=> Signed(v) < 0
           /\ signed_magnitude(v) = Magnitude(Signed(v))
           /\ v = IF Signed(v) < 0 THEN Signed(v) + WordValues ELSE Signed(v)
<1>1. PICK h : h = SignBit
  OBVIOUS
<1>2. h \in Nat \ {0} /\ WordValues = 2 * h /\ v \in 0 .. (2 * h - 1)
  BY <1>1, WordConstants, WordSizes DEF Word
<1>3. CASE v < h
  BY <1>1, <1>2, <1>3 DEF Signed, is_negative_word, signed_magnitude, Magnitude
<1>4. CASE v >= h
  <2>1. (0 - v) % (2 * h) = 2 * h - v
    BY <1>2, <1>4
  <2>. QED
    BY <1>1, <1>2, <1>4, <2>1
       DEF Signed, is_negative_word, signed_magnitude, Magnitude, WrapSub
<1>. QED
  BY <1>2, <1>3, <1>4

(***************************************************************************)
(* Putting a sign back gives the signed integer, but for the magnitude of  *)
(* the most negative word, which has no positive counterpart.              *)
(***************************************************************************)
LEMMA SignedOfMagnitude ==
    ASSUME NEW m \in 0 .. SignBit, NEW negative \in BOOLEAN
    PROVE  Signed(apply_sign(m, negative))
             = IF negative \/ m = SignBit THEN 0 - m ELSE m
<1>1. PICK h : h = SignBit
  OBVIOUS
<1>2. h \in Nat \ {0} /\ WordValues = 2 * h /\ m \in 0 .. h
  BY <1>1, WordConstants, WordSizes DEF Word
<1>3. CASE negative /\ m # 0
  <2>1. (0 - m) % (2 * h) = 2 * h - m
    BY <1>2, <1>3
  <2>. QED
    BY <1>1, <1>2, <1>3, <2>1 DEF Signed, apply_sign, WrapSub
<1>4. CASE negative /\ m = 0
  <2>1. (0 - m) % (2 * h) = 0
    BY <1>2, <1>4
  <2>. QED
    BY <1>1, <1>2, <1>4, <2>1 DEF Signed, apply_sign, WrapSub
<1>5. CASE ~ negative
  BY <1>1, <1>2, <1>5 DEF Signed, apply_sign
<1>. QED
  BY <1>3, <1>4, <1>5
(***************************************************************************)
(* What SignedDivision asks of a division, for any two words.              *)
(***************************************************************************)
Divides(n, d, q, r) ==
    IF d = 0 THEN q = -1 /\ r = n
    ELSE IF n = 0 - SignBit /\ d = -1 THEN q = n /\ r = 0
    ELSE /\ n = q * d + r
         /\ Magnitude(r) < Magnitude(d)
         /\ r = 0 \/ (r < 0 <=> n < 0)

LEMMA SignedDivideDivides ==
    ASSUME NEW dividend \in Word, NEW divisor \in Word
    PROVE  Divides(Signed(dividend), Signed(divisor),
                   Signed(signed_divide(dividend, divisor).quotient),
                   Signed(signed_divide(dividend, divisor).remainder))
<1>1. PICK h : h = SignBit
  OBVIOUS
<1>2. PICK n, d : n = Signed(dividend) /\ d = Signed(divisor)
  OBVIOUS
<1>3. h \in Nat \ {0} /\ WordValues = 2 * h
  BY <1>1, WordConstants, WordSizes DEF Word
<1>4. /\ n \in (0 - h) .. (h - 1) /\ d \in (0 - h) .. (h - 1)
      /\ is_negative_word(dividend) <=> n < 0
      /\ is_negative_word(divisor) <=> d < 0
      /\ signed_magnitude(dividend) = Magnitude(n)
      /\ signed_magnitude(divisor) = Magnitude(d)
      /\ divisor = IF d < 0 THEN d + WordValues ELSE d
  BY <1>1, <1>2, SignAndMagnitude
<1>5. divisor = 0 <=> d = 0
  BY <1>3, <1>4
<1>6. CASE divisor = 0
  <2>1. /\ signed_divide(dividend, divisor).quotient = MaxWord
        /\ signed_divide(dividend, divisor).remainder = dividend
    BY <1>6 DEF signed_divide
  <2>2. Signed(MaxWord) = -1
    BY <1>1, <1>3 DEF Signed, MaxWord
  <2>. QED
    BY <1>2, <1>5, <1>6, <2>1, <2>2 DEF Divides
<1>7. CASE divisor # 0
  <2>1. PICK a, b, q, r : /\ a = Magnitude(n) /\ b = Magnitude(d)
                          /\ q = a \div b /\ r = a % b
    OBVIOUS
  <2>2. a \in 0 .. h /\ b \in 1 .. h
    BY <1>3, <1>4, <1>5, <1>7, <2>1 DEF Magnitude
  <2>3. q \in 0 .. a /\ r \in 0 .. (b - 1) /\ a = b * q + r
    <3>1. a \in Nat /\ b \in Nat \ {0}
      BY <2>2
    <3>2. a \div b \in 0 .. a /\ a % b \in 0 .. (b - 1) /\ a = b * (a \div b) + (a % b)
      BY <3>1, DivBound
    <3>. QED
      BY <2>1, <3>2, Zenon
  <2>4. PICK sn, sd : sn = is_negative_word(dividend) /\ sd = is_negative_word(divisor)
    OBVIOUS
  <2>. sn \in BOOLEAN /\ sd \in BOOLEAN
    BY <2>4 DEF is_negative_word
  <2>. (sn <=> n < 0) /\ (sd <=> d < 0)
    BY <1>4, <2>4, Zenon
  <2>5. /\ signed_divide(dividend, divisor).quotient = apply_sign(q, sn # sd)
        /\ signed_divide(dividend, divisor).remainder = apply_sign(r, sn)
    BY <1>4, <1>7, <2>1, <2>4, Zenon DEF signed_divide
  <2>6. PICK x, y : /\ x = Signed(signed_divide(dividend, divisor).quotient)
                    /\ y = Signed(signed_divide(dividend, divisor).remainder)
    OBVIOUS
  <2>7. /\ x = IF sn # sd \/ q = h THEN 0 - q ELSE q
        /\ y = IF sn THEN 0 - r ELSE r
    <3>1. q \in 0 .. SignBit /\ r \in 0 .. SignBit /\ r # SignBit
      BY <1>1, <1>3, <2>2, <2>3
    <3>2. (sn # sd) \in BOOLEAN
      OBVIOUS
    <3>3. Signed(apply_sign(q, sn # sd)) = IF sn # sd \/ q = SignBit THEN 0 - q ELSE q
      BY <3>1, <3>2, SignedOfMagnitude
    <3>4. Signed(apply_sign(r, sn)) = IF sn \/ r = SignBit THEN 0 - r ELSE r
      BY <3>1, SignedOfMagnitude
    <3>. QED
      BY <1>1, <2>5, <2>6, <3>1, <3>3, <3>4
  <2>8. n = (IF sn THEN 0 - a ELSE a) /\ d = (IF sd THEN 0 - b ELSE b)
    BY <1>4, <2>1, <2>4 DEF Magnitude
  <2>9. CASE q = h /\ sn = sd
    <3>1. a = h /\ r = 0 /\ b = 1
      <4>1. b * q >= q
        BY <2>2, <2>3
      <4>2. a = h /\ r = 0 /\ b * h = h
        BY <1>3, <2>2, <2>3, <2>9, <4>1
      <4>. QED
        BY <1>3, <2>2, <4>2
    <3>2. n = 0 - h /\ d = -1
      BY <1>3, <1>4, <2>8, <2>9, <3>1
    <3>3. x = 0 - h /\ y = 0
      BY <1>3, <2>7, <2>9, <3>1
    <3>4. Divides(n, d, x, y)
      BY <1>1, <1>3, <3>2, <3>3 DEF Divides
    <3>. QED
      BY <1>2, <2>6, <3>4
  <2>10. CASE ~ (q = h /\ sn = sd)
    <3>1. d # 0 /\ ~ (n = 0 - h /\ d = -1)
      <4>1. ASSUME n = 0 - h, d = -1 PROVE FALSE
        <5>1. sn /\ sd
          BY <1>3, <2>4, <4>1
        <5>2. a = h /\ b = 1
          BY <1>3, <2>1, <4>1 DEF Magnitude
        <5>3. q = h
          BY <1>3, <2>3, <5>2
        <5>. QED
          BY <2>10, <5>1, <5>3
      <4>. QED
        BY <1>5, <1>7, <4>1
    <3>2. x = IF sn # sd THEN 0 - q ELSE q
      BY <2>7, <2>10
    <3>3. b * q \in Int
      BY <2>2, <2>3
    <3>4. x * d = IF sn THEN 0 - b * q ELSE b * q
      <4>1. CASE sn /\ sd
        <5>1. x = q /\ d = 0 - b
          BY <3>2, <2>8, <4>1
        <5>2. q * (0 - b) = 0 - b * q
          BY <2>2, <2>3
        <5>. QED
          BY <4>1, <5>1, <5>2
      <4>2. CASE sn /\ ~ sd
        <5>1. x = 0 - q /\ d = b
          BY <3>2, <2>8, <4>2
        <5>2. (0 - q) * b = 0 - b * q
          BY <2>2, <2>3
        <5>. QED
          BY <4>2, <5>1, <5>2
      <4>3. CASE ~ sn /\ sd
        <5>1. x = 0 - q /\ d = 0 - b
          BY <3>2, <2>8, <4>3
        <5>2. (0 - q) * (0 - b) = b * q
          BY <2>2, <2>3
        <5>. QED
          BY <4>3, <5>1, <5>2
      <4>4. CASE ~ sn /\ ~ sd
        <5>1. x = q /\ d = b
          BY <3>2, <2>8, <4>4
        <5>2. q * b = b * q
          BY <2>2, <2>3
        <5>. QED
          BY <4>4, <5>1, <5>2
      <4>. QED
        BY <4>1, <4>2, <4>3, <4>4
    <3>5. n = x * d + y
      BY <2>2, <2>3, <2>7, <2>8, <3>3, <3>4
    <3>6. Magnitude(y) < Magnitude(d)
      <4>1. b = Magnitude(d)
        BY <2>1, Zenon
      <4>2. Magnitude(y) = r
        BY <2>3, <2>7 DEF Magnitude
      <4>. QED
        BY <2>2, <2>3, <4>1, <4>2
    <3>7. y = 0 \/ (y < 0 <=> n < 0)
      BY <2>2, <2>3, <2>4, <2>7
    <3>8. Divides(n, d, x, y)
      BY <1>1, <3>1, <3>5, <3>6, <3>7 DEF Divides
    <3>. QED
      BY <1>2, <2>6, <3>8
  <2>. QED
    BY <2>9, <2>10
<1>. QED
  BY <1>6, <1>7

(***************************************************************************)
(* DIV and REM are the manual's division, for every pair of operands: the  *)
(* division by zero and the overflow of the most negative word by -1       *)
(* included, though signed_divide has no case for the latter.              *)
(***************************************************************************)
THEOREM SignedDivisionHolds == Spec => []SignedDivision
<1>1. Operands => SignedDivision
  BY SignedDivideDivides DEF Operands, SignedDivision, Divides
<1>. QED
  BY <1>1, OperandsAreWords, PTL

-----------------------------------------------------------------------------
(***************************************************************************)
(* Quotient and remainder are the only ones, for integers of either sign.  *)
(***************************************************************************)
LEMMA QuotientRemainder ==
    ASSUME NEW x \in Int, NEW n \in Nat \ {0}
    PROVE  x \div n \in Int /\ x % n \in 0 .. (n - 1) /\ x = n * (x \div n) + (x % n)
OBVIOUS

LEMMA QuotientUnique ==
    ASSUME NEW n \in Nat \ {0}, NEW k \in Int, NEW x \in 0 .. (n - 1)
    PROVE  (n * k + x) % n = x /\ (n * k + x) \div n = k
<1>1. PICK v : v = n * k + x
  OBVIOUS
<1>2. PICK q, r : q = v \div n /\ r = v % n
  OBVIOUS
<1>3. n * k \in Int /\ v \in Int
  BY <1>1
<1>4. v \div n \in Int /\ v % n \in 0 .. (n - 1) /\ v = n * (v \div n) + (v % n)
  BY <1>3
<1>5. q \in Int /\ r \in 0 .. (n - 1) /\ v = n * q + r
  BY <1>2, <1>4, Zenon
<1>6. n * (k - q) = r - x
  BY <1>1, <1>5
<1>7. CASE k - q >= 1
  <2>1. n * (k - q) >= n
    BY <1>5, <1>7
  <2>. QED
    BY <1>5, <1>6, <2>1
<1>8. CASE k - q <= -1
  <2>1. n * (k - q) <= 0 - n
    BY <1>5, <1>8
  <2>. QED
    BY <1>5, <1>6, <2>1
<1>9. CASE k - q = 0
  <2>1. k = q /\ r = x
    BY <1>5, <1>6, <1>9
  <2>. QED
    BY <1>1, <1>2, <2>1, Zenon
<1>. QED
  BY <1>5, <1>7, <1>8, <1>9

(***************************************************************************)
(* The upper word of a 64-bit two's complement product, read as signed,    *)
(* and the lower one make up the product.                                  *)
(***************************************************************************)
LEMMA SignedHalves ==
    ASSUME NEW x \in Int,
           0 - SignBit * WordValues <= x, x < SignBit * WordValues
    PROVE  Signed(UpperWord(x % (WordValues * WordValues))) * WordValues
               + (x % WordValues) = x
<1>1. PICK h, V : h = SignBit /\ V = WordValues
  OBVIOUS
<1>2. h \in Nat \ {0} /\ V = 2 * h /\ V \in Nat \ {0}
  BY <1>1, WordConstants, WordSizes DEF Word
<1>3. PICK q, r : q = x \div V /\ r = x % V
  OBVIOUS
<1>4. x \div V \in Int /\ x % V \in 0 .. (V - 1) /\ x = V * (x \div V) + (x % V)
  BY <1>2
<1>5. q \in Int /\ r \in 0 .. (V - 1) /\ x = V * q + r
  BY <1>3, <1>4, Zenon
<1>6. V * q \in Int /\ h * V \in Int /\ 0 - h * V <= x /\ x < h * V
  BY <1>1, <1>2, <1>5
<1>7. q \in (0 - h) .. (h - 1)
  <2>1. ASSUME q >= h PROVE FALSE
    <3>1. V * q >= V * h
      BY <1>2, <1>5, <2>1
    <3>2. V * h = h * V
      BY <1>2
    <3>. QED
      BY <1>2, <1>5, <1>6, <3>1, <3>2
  <2>2. ASSUME q <= 0 - h - 1 PROVE FALSE
    <3>1. V * q <= V * (0 - h - 1)
      BY <1>2, <1>5, <2>2
    <3>2. V * (0 - h - 1) = 0 - h * V - V
      BY <1>2
    <3>. QED
      BY <1>2, <1>5, <1>6, <3>1, <3>2
  <2>. QED
    BY <1>2, <1>5, <2>1, <2>2
<1>8. PICK u : u = IF q < 0 THEN q + V ELSE q
  OBVIOUS
<1>9. u \in 0 .. (V - 1) /\ Signed(u) = q
  BY <1>1, <1>2, <1>7, <1>8 DEF Signed
<1>10. x % (V * V) = V * u + r /\ V * u + r \in Nat
  <2>1. PICK k \in {-1, 0} : q = V * k + u
    <3>1. CASE q < 0
      BY <1>2, <1>7, <1>8, <3>1
    <3>2. CASE ~ (q < 0)
      BY <1>2, <1>7, <1>8, <3>2
    <3>. QED
      BY <3>1, <3>2
  <2>2. V * V \in Nat \ {0} /\ V * u \in Nat /\ V * u <= V * (V - 1)
    BY <1>2, <1>9
  <2>3. V * (V - 1) = V * V - V
    BY <1>2
  <2>4. V * u + r \in 0 .. (V * V - 1)
    BY <1>2, <1>5, <2>2, <2>3
  <2>5. x = (V * V) * k + (V * u + r)
    <3>1. V * q = (V * V) * k + V * u
      BY <1>2, <1>9, <2>1
    <3>2. (V * V) * k \in Int
      BY <2>1, <2>2
    <3>. QED
      BY <1>5, <2>2, <3>1, <3>2
  <2>6. PICK m, y : m = V * V /\ y = V * u + r
    OBVIOUS
  <2>7. m \in Nat \ {0} /\ k \in Int /\ y \in 0 .. (m - 1)
    BY <2>2, <2>4, <2>6
  <2>8. (m * k + y) % m = y
    BY <2>7, QuotientUnique
  <2>. QED
    BY <2>2, <2>4, <2>5, <2>6, <2>8
<1>11. UpperWord(V * u + r) = u
  <2>1. (V * u + r) \div V = u
    <3>1. V \in Nat \ {0} /\ u \in Int /\ r \in 0 .. (V - 1)
      BY <1>2, <1>5, <1>9
    <3>. QED
      BY <3>1, QuotientUnique
  <2>2. u % V = u
    BY <1>2, <1>9
  <2>. QED
    BY <1>1, <2>1, <2>2, Zenon DEF UpperWord
<1>12. q * V = V * q
  BY <1>2, <1>5
<1>. QED
  BY <1>1, <1>3, <1>5, <1>9, <1>10, <1>11, <1>12

(***************************************************************************)
(* signed_product_bits is the two's complement of the exact product, which *)
(* fits in 64 bits, and MUL's word is the lower half of the same product.  *)
(***************************************************************************)
LEMMA SignedProduct ==
    ASSUME NEW v \in Word, NEW w \in Word, NEW s \in BOOLEAN,
           NEW y, y = IF s THEN Signed(w) ELSE w,
           NEW x, x = Signed(v) * y
    PROVE  /\ x \in Int
           /\ 0 - SignBit * WordValues <= x
           /\ x < SignBit * WordValues
           /\ signed_product_bits(v, w, s) = x % (WordValues * WordValues)
           /\ (v * w) % WordValues = x % WordValues
<1>1. PICK h, V : h = SignBit /\ V = WordValues
  OBVIOUS
<1>2. h \in Nat \ {0} /\ V = 2 * h /\ V \in Nat \ {0}
  BY <1>1, WordConstants, WordSizes DEF Word
<1>3. PICK z : z = Signed(v)
  OBVIOUS
<1>4. /\ z \in (0 - h) .. (h - 1)
      /\ is_negative_word(v) <=> z < 0
      /\ signed_magnitude(v) = Magnitude(z)
      /\ v = IF z < 0 THEN z + V ELSE z
  BY <1>1, <1>3, SignAndMagnitude
<1>5. PICK n, b : /\ n = (s /\ is_negative_word(w))
                  /\ b = IF s THEN signed_magnitude(w) ELSE w
  OBVIOUS
<1>6. /\ y \in (0 - h) .. (V - 1)
      /\ n <=> y < 0
      /\ b = Magnitude(y)
      /\ w = IF y < 0 THEN y + V ELSE y
  <2>1. CASE s
    <3>1. /\ y \in (0 - h) .. (h - 1)
          /\ is_negative_word(w) <=> y < 0
          /\ signed_magnitude(w) = Magnitude(y)
          /\ w = IF y < 0 THEN y + V ELSE y
      BY <1>1, <2>1, SignAndMagnitude
    <3>2. y \in (0 - h) .. (V - 1)
      BY <1>2, <3>1
    <3>. QED
      BY <1>5, <2>1, <3>1, <3>2, Zenon
  <2>2. CASE ~ s
    <3>1. y = w /\ w \in 0 .. (V - 1) /\ b = w /\ ~ n
      BY <1>1, <1>5, <2>2 DEF Word
    <3>. QED
      BY <1>2, <3>1 DEF Magnitude
  <2>. QED
    BY <2>1, <2>2
<1>7. PICK a : a = Magnitude(z)
  OBVIOUS
<1>8. a \in 0 .. h /\ b \in 0 .. (V - 1)
  BY <1>2, <1>4, <1>6, <1>7 DEF Magnitude
<1>9. z * y \in Int /\ a * b \in Int /\ h * V \in Int /\ V * V \in Nat \ {0}
  BY <1>2, <1>4, <1>6, <1>8
<1>10. 0 <= a * b /\ a * b < h * V /\ h * V < V * V
  <2>1. 0 <= a * b /\ a * b <= h * b
    BY <1>2, <1>8
  <2>2. h * b <= h * (V - 1)
    BY <1>2, <1>8
  <2>3. h * (V - 1) = h * V - h /\ V * V = h * V + h * V /\ h * b \in Int /\ h * V > 0
    BY <1>2, <1>8
  <2>. QED
    BY <1>2, <1>9, <2>1, <2>2, <2>3
<1>11. z * y = IF (z < 0) # (y < 0) THEN 0 - a * b ELSE a * b
  <2>1. CASE z < 0 /\ y < 0
    <3>1. a = 0 - z /\ b = 0 - y
      BY <1>6, <1>7, <2>1 DEF Magnitude
    <3>2. (0 - z) * (0 - y) = z * y
      BY <1>4, <1>6
    <3>. QED
      BY <2>1, <3>1, <3>2
  <2>2. CASE z < 0 /\ ~ (y < 0)
    <3>1. a = 0 - z /\ b = y
      BY <1>6, <1>7, <2>2 DEF Magnitude
    <3>2. 0 - (0 - z) * y = z * y
      BY <1>4, <1>6
    <3>. QED
      BY <2>2, <3>1, <3>2
  <2>3. CASE ~ (z < 0) /\ y < 0
    <3>1. a = z /\ b = 0 - y
      BY <1>6, <1>7, <2>3 DEF Magnitude
    <3>2. 0 - z * (0 - y) = z * y
      BY <1>4, <1>6
    <3>. QED
      BY <2>3, <3>1, <3>2
  <2>4. CASE ~ (z < 0) /\ ~ (y < 0)
    <3>1. a = z /\ b = y
      BY <1>6, <1>7, <2>4 DEF Magnitude
    <3>. QED
      BY <2>4, <3>1
  <2>. QED
    BY <2>1, <2>2, <2>3, <2>4
<1>12. PICK p, m : p = a * b /\ m = V * V
  OBVIOUS
<1>13. /\ p \in Int /\ m \in Nat \ {0} /\ 0 <= p /\ p < h * V /\ p < m
       /\ h * V \in Int
       /\ x = IF (z < 0) # (y < 0) THEN 0 - p ELSE p
  BY <1>3, <1>9, <1>10, <1>11, <1>12
<1>14. x \in Int /\ 0 - h * V <= x /\ x < h * V
  BY <1>13
<1>15. signed_product_bits(v, w, s) = x % m
  <2>1. signed_product_bits(v, w, s)
          = IF is_negative_word(v) # n THEN (0 - p) % m ELSE p
    BY <1>1, <1>4, <1>5, <1>7, <1>12, Zenon DEF signed_product_bits
  <2>2. is_negative_word(v) \in BOOLEAN /\ n \in BOOLEAN
    BY <1>5 DEF is_negative_word
  <2>3. p % m = p
    BY <1>13
  <2>4. CASE is_negative_word(v) # n
    <3>1. x = 0 - p
      BY <1>4, <1>6, <1>13, <2>2, <2>4
    <3>. QED
      BY <2>1, <2>4, <3>1
  <2>5. CASE ~ (is_negative_word(v) # n)
    <3>1. x = p
      BY <1>4, <1>6, <1>13, <2>2, <2>5
    <3>. QED
      BY <2>1, <2>3, <2>5, <3>1
  <2>. QED
    BY <2>4, <2>5
<1>16. (v * w) % V = x % V
  <2>1. PICK k \in Int : v * w = V * k + x
    <3>1. CASE z < 0 /\ y < 0
      <4>1. v * w = V * (z + y + V) + z * y /\ z + y + V \in Int
        BY <1>2, <1>4, <1>6, <3>1
      <4>. QED
        BY <1>3, <4>1
    <3>2. CASE z < 0 /\ ~ (y < 0)
      <4>1. v * w = V * y + z * y /\ y \in Int
        BY <1>2, <1>4, <1>6, <3>2
      <4>. QED
        BY <1>3, <4>1
    <3>3. CASE ~ (z < 0) /\ y < 0
      <4>1. v * w = V * z + z * y /\ z \in Int
        BY <1>2, <1>4, <1>6, <3>3
      <4>. QED
        BY <1>3, <4>1
    <3>4. CASE ~ (z < 0) /\ ~ (y < 0)
      <4>1. v * w = V * 0 + z * y
        BY <1>2, <1>4, <1>6, <1>9, <3>4
      <4>. QED
        BY <1>3, <4>1
    <3>. QED
      BY <3>1, <3>2, <3>3, <3>4
  <2>2. PICK q, r : q = x \div V /\ r = x % V
    OBVIOUS
  <2>3. x \div V \in Int /\ x % V \in 0 .. (V - 1) /\ x = V * (x \div V) + (x % V)
    BY <1>2, <1>14, QuotientRemainder, ZenonT(40)
  <2>4. q \in Int /\ r \in 0 .. (V - 1) /\ x = V * q + r
    BY <2>2, <2>3, Zenon
  <2>5. v * w = V * (k + q) + r /\ k + q \in Int
    <3>1. V * (k + q) = V * k + V * q /\ V * k \in Int /\ V * q \in Int
      BY <1>2, <2>4
    <3>. QED
      BY <2>1, <2>4, <3>1
  <2>6. (V * (k + q) + r) % V = r
    <3>1. V \in Nat \ {0} /\ k + q \in Int /\ r \in 0 .. (V - 1)
      BY <1>2, <2>4, <2>5
    <3>. QED
      BY <3>1, QuotientUnique
  <2>. QED
    BY <2>2, <2>5, <2>6, Zenon
<1>. QED
  BY <1>1, <1>12, <1>14, <1>15, <1>16

(***************************************************************************)
(* The four multiplications of execute_m_extension, one word each.         *)
(***************************************************************************)
LEMMA MultiplyResults ==
    ASSUME NEW v, NEW w, NEW i, i.function7 = 1
    PROVE  /\ i.function3 = 0 =>
                execute_op(i, v, w) = Some((v * w) % WordValues)
           /\ i.function3 = 1 =>
                execute_op(i, v, w) = Some(UpperWord(signed_product_bits(v, w, TRUE)))
           /\ i.function3 = 2 =>
                execute_op(i, v, w) = Some(UpperWord(signed_product_bits(v, w, FALSE)))
           /\ i.function3 = 3 =>
                execute_op(i, v, w) = Some(UpperWord(v * w))
<1>1. execute_op(i, v, w) = execute_m_extension(i, v, w)
  BY DEF execute_op
<1>2. CASE i.function3 = 0
  BY <1>1, <1>2 DEF execute_m_extension
<1>3. CASE i.function3 = 1
  BY <1>1, <1>3 DEF execute_m_extension
<1>4. CASE i.function3 = 2
  BY <1>1, <1>4 DEF execute_m_extension
<1>5. CASE i.function3 = 3
  BY <1>1, <1>5 DEF execute_m_extension
<1>. QED
  BY <1>2, <1>3, <1>4, <1>5, Zenon

(***************************************************************************)
(* MUL, MULH, MULHSU and MULHU return the halves of the exact products.    *)
(***************************************************************************)
THEOREM ExactProductHolds == Spec => []ExactProduct
<1>1. ASSUME NEW v \in Word, NEW w \in Word
      PROVE  /\ Signed(UpperWord(signed_product_bits(v, w, TRUE))) * WordValues
                    + ((v * w) % WordValues) = Signed(v) * Signed(w)
             /\ Signed(UpperWord(signed_product_bits(v, w, FALSE))) * WordValues
                    + ((v * w) % WordValues) = Signed(v) * w
  <2>1. ASSUME NEW s \in BOOLEAN, NEW y, y = IF s THEN Signed(w) ELSE w
        PROVE  Signed(UpperWord(signed_product_bits(v, w, s))) * WordValues
                    + ((v * w) % WordValues) = Signed(v) * y
    <3>1. PICK x : x = Signed(v) * y
      OBVIOUS
    <3>2. /\ x \in Int
          /\ 0 - SignBit * WordValues <= x
          /\ x < SignBit * WordValues
          /\ signed_product_bits(v, w, s) = x % (WordValues * WordValues)
          /\ (v * w) % WordValues = x % WordValues
      BY <2>1, <3>1, SignedProduct
    <3>3. Signed(UpperWord(x % (WordValues * WordValues))) * WordValues
               + (x % WordValues) = x
      BY <3>2, SignedHalves, Zenon
    <3>. QED
      BY <3>1, <3>2, <3>3, Zenon
  <2>. QED
    BY <2>1, Zenon
<1>2. ASSUME NEW v \in Word, NEW w \in Word
      PROVE  UpperWord(v * w) * WordValues + ((v * w) % WordValues) = v * w
  <2>1. PICK V : V = WordValues
    OBVIOUS
  <2>2. V \in Nat \ {0} /\ v \in 0 .. (V - 1) /\ w \in 0 .. (V - 1)
    BY <2>1, WordSizes DEF Word
  <2>3. PICK p : p = v * w
    OBVIOUS
  <2>4. p \in Nat /\ p < V * V
    <3>1. v * w \in Nat /\ v * w <= (V - 1) * w
      BY <2>2
    <3>2. (V - 1) * w < V * V
      BY <2>2
    <3>. QED
      BY <2>2, <2>3, <3>1, <3>2
  <2>5. PICK q, r : q = p \div V /\ r = p % V
    OBVIOUS
  <2>6. p \div V \in Nat /\ p % V \in 0 .. (V - 1) /\ p = V * (p \div V) + (p % V)
    BY <2>2, <2>4
  <2>7. q \in Nat /\ r \in 0 .. (V - 1) /\ p = V * q + r
    BY <2>5, <2>6, Zenon
  <2>8. q < V
    <3>1. ASSUME q >= V PROVE FALSE
      <4>1. V * q >= V * V
        BY <2>2, <2>7, <3>1
      <4>. QED
        BY <2>2, <2>4, <2>7, <4>1
    <3>. QED
      BY <2>2, <2>7, <3>1
  <2>9. UpperWord(p) = q
    <3>1. q % V = q
      BY <2>2, <2>7, <2>8
    <3>. QED
      BY <2>1, <2>5, <3>1, Zenon DEF UpperWord
  <2>10. q * V + r = p
    BY <2>2, <2>7
  <2>. QED
    BY <2>1, <2>3, <2>5, <2>9, <2>10, Zenon
<1>3. Operands => ExactProduct
  <2>. SUFFICES ASSUME Operands PROVE ExactProduct
    OBVIOUS
  <2>. DEFINE Half(f) == CHOOSE v \in execute_op(Op(f, 1), source1, source2) : TRUE
  <2>1. /\ execute_op(Op(0, 1), source1, source2)
             = Some((source1 * source2) % WordValues)
        /\ execute_op(Op(1, 1), source1, source2)
             = Some(UpperWord(signed_product_bits(source1, source2, TRUE)))
        /\ execute_op(Op(2, 1), source1, source2)
             = Some(UpperWord(signed_product_bits(source1, source2, FALSE)))
        /\ execute_op(Op(3, 1), source1, source2)
             = Some(UpperWord(source1 * source2))
    <3>1. \A f : Op(f, 1).function7 = 1 /\ Op(f, 1).function3 = f
      BY DEF Op
    <3>2. \A f : LET i == Op(f, 1)
                 IN /\ f = 0 => execute_op(i, source1, source2)
                           = Some((source1 * source2) % WordValues)
                    /\ f = 1 => execute_op(i, source1, source2)
                           = Some(UpperWord(signed_product_bits(source1, source2, TRUE)))
                    /\ f = 2 => execute_op(i, source1, source2)
                           = Some(UpperWord(signed_product_bits(source1, source2, FALSE)))
                    /\ f = 3 => execute_op(i, source1, source2)
                           = Some(UpperWord(source1 * source2))
      BY <3>1, MultiplyResults, Zenon
    <3>. QED
      BY <3>2, Zenon
  <2>2. ASSUME NEW f, NEW v, execute_op(Op(f, 1), source1, source2) = Some(v)
        PROVE  Half(f) = v
    <3>1. v \in execute_op(Op(f, 1), source1, source2)
      BY <2>2 DEF Some
    <3>2. Half(f) \in execute_op(Op(f, 1), source1, source2)
      BY <3>1
    <3>. QED
      BY <2>2, <3>2 DEF Some
  <2>3. /\ Half(0) = (source1 * source2) % WordValues
        /\ Half(1) = UpperWord(signed_product_bits(source1, source2, TRUE))
        /\ Half(2) = UpperWord(signed_product_bits(source1, source2, FALSE))
        /\ Half(3) = UpperWord(source1 * source2)
    BY <2>1, <2>2, Zenon
  <2>. HIDE DEF Half
  <2>4. /\ Signed(Half(1)) * WordValues + Half(0) = Signed(source1) * Signed(source2)
        /\ Signed(Half(2)) * WordValues + Half(0) = Signed(source1) * source2
        /\ Half(3) * WordValues + Half(0) = source1 * source2
    BY <1>1, <1>2, <2>3, Zenon DEF Operands
  <2>5. /\ [f \in 1 .. 3 |-> Half(f)][1] = Half(1)
        /\ [f \in 1 .. 3 |-> Half(f)][2] = Half(2)
        /\ [f \in 1 .. 3 |-> Half(f)][3] = Half(3)
    OBVIOUS
  <2>. QED
    BY <2>4, <2>5, Zenon DEF ExactProduct, Half
<1>. QED
  BY <1>3, OperandsAreWords, PTL

-----------------------------------------------------------------------------
(***************************************************************************)
(* Shifts.  A word has WordBits bits, so that 2^s and 2^(WordBits - s)     *)
(* make up the number of words.                                            *)
(***************************************************************************)
LEMMA PowersMultiply ==
    ASSUME NEW t \in Nat, NEW s \in 0 .. t
    PROVE  2^s * 2^(t - s) = 2^t
<1>. DEFINE S == {n \in 0 .. t : 2^n * 2^(t - n) # 2^t}
<1>1. SUFFICES ASSUME S # {} PROVE FALSE
  OBVIOUS
<1>2. PICK n \in S : \A k \in S : n <= k
  <2>1. S \in SUBSET Nat
    OBVIOUS
  <2>. HIDE DEF S
  <2>. QED
    BY <1>1, <2>1, LeastNatural
<1>3. n \in 0 .. t /\ 2^n * 2^(t - n) # 2^t
  OBVIOUS
<1>4. n # 0
  <2>1. ASSUME n = 0 PROVE FALSE
    <3>1. t - n = t /\ 2^n = 1
      BY <2>1
    <3>2. 2^t \in Nat
      BY PowerIsCount
    <3>3. 1 * 2^t = 2^t
      BY <3>2
    <3>. QED
      BY <1>3, <3>1, <3>3
  <2>. QED
    BY <2>1
<1>5. PICK p : p = n - 1
  OBVIOUS
<1>6. p \in Nat /\ p \in 0 .. t /\ p < n /\ n = p + 1 /\ t - p = (t - n) + 1 /\ t - n \in Nat
  BY <1>3, <1>4, <1>5
<1>7. 2^p * 2^(t - p) = 2^t
  <2>1. p \notin S
    <3>. HIDE DEF S
    <3>. QED
      BY <1>2, <1>3, <1>6
  <2>. QED
    BY <1>6, <2>1
<1>8. 2^n = 2 * 2^p /\ 2^(t - p) = 2 * 2^(t - n) /\ 2^p \in Nat /\ 2^(t - n) \in Nat
  BY <1>6, PowerDoubles, PowerIsCount
<1>9. PICK a, b : a = 2^p /\ b = 2^(t - n)
  OBVIOUS
<1>10. a \in Nat /\ b \in Nat /\ (2 * a) * b = a * (2 * b)
  BY <1>8, <1>9
<1>. QED
  BY <1>3, <1>7, <1>8, <1>9, <1>10, Zenon

(***************************************************************************)
(* | of words without a common bit is +: the first is below a power of two *)
(* that divides the second.                                                *)
(***************************************************************************)
LEMMA OrOfZero ==
    ASSUME NEW y \in Word
    PROVE  BitOr(0, y) = y
<1>. DEFINE S == {n \in Word : BitOr(0, n) # n}
<1>1. SUFFICES ASSUME S # {} PROVE FALSE
  OBVIOUS
<1>2. PICK n \in S : \A k \in S : n <= k
  <2>1. S \in SUBSET Nat
    BY WordInt
  <2>. HIDE DEF S
  <2>. QED
    BY <1>1, <2>1, LeastNatural
<1>3. n \in Word /\ n \in Nat /\ BitOr(0, n) # n
  BY WordIsInt
<1>4. PICK h : h = n \div 2
  OBVIOUS
<1>5. h \in Nat /\ h <= n /\ h \in 0 .. n /\ n = 2 * h + (n % 2) /\ n % 2 \in 0 .. 1
  BY <1>3, <1>4
<1>6. h \in Word /\ 0 \in Word
  BY <1>3, <1>5, WordDownwardClosed, WordConstants
<1>7. BitOr(0, n) = 2 * BitOr(0, h) + (n % 2) /\ BitOr(0, n) \in Nat /\ BitOr(0, h) \in Nat
  <2>1. BitOr(0, n) = 2 * BitOr(0 \div 2, h) + (IF 0 % 2 = 0 THEN n % 2 ELSE 1)
    BY <1>3, <1>4, <1>6, BitOperatorsAssumption
  <2>2. BitOr(0, n) \in Nat /\ BitOr(0, h) \in Nat
    BY <1>3, <1>6, BitOperatorsAssumption, WordInt
  <2>3. 0 \div 2 = 0 /\ 0 % 2 = 0
    OBVIOUS
  <2>. QED
    BY <2>1, <2>2, <2>3
<1>8. CASE h = n
  BY <1>3, <1>5, <1>7, <1>8
<1>9. CASE h # n
  <2>1. h \notin S
    <3>. HIDE DEF S
    <3>. QED
      BY <1>2, <1>3, <1>5, <1>9
  <2>2. BitOr(0, h) = h
    BY <1>6, <2>1
  <2>. QED
    BY <1>3, <1>5, <1>7, <2>2
<1>. QED
  BY <1>8, <1>9

LEMMA OrIsSum ==
    ASSUME NEW m \in Nat
    PROVE  \A x \in Word : \A k \in Nat :
               x < 2^m /\ 2^m * k \in Word => BitOr(x, 2^m * k) = x + 2^m * k
<1>. DEFINE Sums(n) == \A x \in Word : \A k \in Nat :
                x < 2^n /\ 2^n * k \in Word => BitOr(x, 2^n * k) = x + 2^n * k
            S == {n \in Nat : ~ Sums(n)}
<1>1. SUFFICES ASSUME S # {} PROVE FALSE
  OBVIOUS
<1>2. PICK n \in S : \A j \in S : n <= j
  <2>1. S \in SUBSET Nat
    OBVIOUS
  <2>. HIDE DEF S
  <2>. QED
    BY <1>1, <2>1, LeastNatural
<1>3. n \in Nat /\ ~ Sums(n)
  OBVIOUS
<1>4. PICK x \in Word, k \in Nat :
          x < 2^n /\ 2^n * k \in Word /\ BitOr(x, 2^n * k) # x + 2^n * k
  BY <1>3
<1>5. x \in Nat
  BY WordIsInt
<1>6. n # 0
  <2>1. ASSUME n = 0 PROVE FALSE
    <3>1. 2^n = 1
      BY <2>1
    <3>2. x = 0 /\ 2^n * k = k
      BY <1>4, <1>5, <3>1
    <3>. QED
      BY <1>4, <3>2, OrOfZero
  <2>. QED
    BY <2>1
<1>7. PICK p : p = n - 1
  OBVIOUS
<1>8. p \in Nat /\ p < n /\ n = p + 1
  BY <1>3, <1>6, <1>7
<1>9. Sums(p)
  <2>1. p \notin S
    <3>. HIDE DEF S
    <3>. QED
      BY <1>2, <1>3, <1>8
  <2>. QED
    BY <1>8, <2>1
<1>10. PICK a, y, z : a = 2^p /\ y = 2^n * k /\ z = a * k
  OBVIOUS
<1>11. a \in Nat /\ 2^n = 2 * a
  BY <1>8, <1>10, PowerDoubles, PowerIsCount
<1>12. y = 2 * z /\ z \in Nat /\ y \in Word
  <2>1. (2 * a) * k = 2 * (a * k) /\ a * k \in Nat
    BY <1>11
  <2>. QED
    BY <1>4, <1>10, <1>11, <2>1
<1>13. PICK h : h = x \div 2
  OBVIOUS
<1>14. h \in 0 .. x /\ h < a /\ x = 2 * h + (x % 2) /\ x % 2 \in 0 .. 1 /\ h \in Nat
  BY <1>4, <1>5, <1>11, <1>13
<1>15. z \in 0 .. y /\ y \div 2 = z /\ y % 2 = 0
  BY <1>12
<1>16. h \in Word /\ z \in Word
  BY <1>12, <1>14, <1>15, WordDownwardClosed
<1>17. BitOr(h, z) = h + z
  <2>1. h < 2^p /\ 2^p * k \in Word /\ z = 2^p * k
    BY <1>10, <1>14, <1>16
  <2>. QED
    BY <1>9, <1>16, <2>1, Zenon
<1>18. BitOr(x, y) = 2 * BitOr(x \div 2, y \div 2) + (IF x % 2 = 0 THEN y % 2 ELSE 1)
  BY <1>12, BitOperatorsAssumption
<1>19. BitOr(x, y) = x + y
  <2>1. PICK e : e = x % 2
    OBVIOUS
  <2>2. BitOr(x, y) = 2 * (h + z) + (IF e = 0 THEN 0 ELSE 1)
    BY <1>13, <1>15, <1>17, <1>18, <2>1, Zenon
  <2>3. e \in 0 .. 1 /\ x = 2 * h + e
    BY <1>14, <2>1, Zenon
  <2>. QED
    BY <1>12, <1>14, <2>2, <2>3
<1>. QED
  BY <1>4, <1>10, <1>19, Zenon

(***************************************************************************)
(* arithmetic_shift_right divides the signed operand, rounding down: the   *)
(* fill of a negative one is the word less the power of two it borrows.    *)
(***************************************************************************)
LEMMA ShiftDivides ==
    ASSUME NEW v \in Word, NEW s \in 0 .. (WordBits - 1)
    PROVE  Signed(arithmetic_shift_right(v, s)) = Signed(v) \div 2^s
<1>1. PICK h, V : h = SignBit /\ V = WordValues
  OBVIOUS
<1>2. /\ h \in Nat \ {0} /\ V = 2 * h /\ V \in Nat \ {0} /\ v \in 0 .. (V - 1)
  BY <1>1, WordConstants, WordSizes DEF Word
<1>3. /\ WordBits \in Nat \ {0} /\ 2^WordBits = V
      /\ s \in Nat /\ s \in 0 .. WordBits /\ WordBits - s \in Nat
  BY <1>1, WordBitsAssumption
<1>4. PICK a, b : a = 2^s /\ b = 2^(WordBits - s)
  OBVIOUS
<1>5. a \in Nat \ {0} /\ b \in Nat \ {0} /\ a * b = V
  <2>1. 2^s \in Nat \ {0} /\ 2^(WordBits - s) \in Nat \ {0}
    BY <1>3, PowerIsCount
  <2>2. 2^s * 2^(WordBits - s) = 2^WordBits
    BY <1>3, PowersMultiply
  <2>. QED
    BY <1>3, <1>4, <2>1, <2>2, Zenon
<1>6. CASE s = 0
  <2>1. 2^s = 1
    BY <1>6
  <2>2. Signed(v) \in Int
    BY SignAndMagnitude, <1>1, <1>2
  <2>3. arithmetic_shift_right(v, s) = v
    BY <1>6 DEF arithmetic_shift_right
  <2>. QED
    BY <2>1, <2>2, <2>3
<1>7. CASE s # 0 /\ ~ is_negative_word(v)
  <2>1. v < h
    BY <1>1, <1>2, <1>7 DEF is_negative_word
  <2>2. arithmetic_shift_right(v, s) = v \div a
    BY <1>4, <1>7 DEF arithmetic_shift_right, ShiftRight
  <2>3. v \div a \in 0 .. v
    <3>1. v \in Nat /\ a \in Nat \ {0}
      BY <1>2, <1>5
    <3>. QED
      BY <3>1, DivBound
  <2>4. PICK q : q = v \div a
    OBVIOUS
  <2>5. q \in Nat /\ q < h
    BY <1>2, <2>1, <2>3, <2>4
  <2>6. Signed(q) = q /\ Signed(v) = v
    BY <1>1, <1>2, <2>1, <2>5 DEF Signed
  <2>. QED
    BY <1>4, <2>2, <2>4, <2>6, Zenon
<1>8. CASE s # 0 /\ is_negative_word(v)
  <2>1. v >= h
    BY <1>1, <1>2, <1>8 DEF is_negative_word
  <2>2. PICK q, r : q = v \div a /\ r = v % a
    OBVIOUS
  <2>3. q \in Nat /\ r \in 0 .. (a - 1) /\ v = a * q + r /\ q \in 0 .. v
    <3>1. v \in Nat /\ a \in Nat \ {0} /\ v \in Int
      BY <1>2, <1>5
    <3>2. v \div a \in 0 .. v /\ v % a \in 0 .. (a - 1) /\ v = a * (v \div a) + (v % a)
      BY <3>1, DivBound, QuotientRemainder
    <3>3. q \in 0 .. v /\ r \in 0 .. (a - 1) /\ v = a * q + r
      BY <2>2, <3>2, Zenon
    <3>. QED
      BY <3>3
  <2>4. q < b
    <3>1. ASSUME q >= b PROVE FALSE
      <4>1. a * q >= a * b
        BY <1>5, <2>3, <3>1
      <4>. QED
        BY <1>2, <1>5, <2>3, <4>1
    <3>. QED
      BY <1>5, <2>3, <3>1
  <2>5. PICK c : c = 2^(s - 1)
    OBVIOUS
  <2>6. c \in Nat \ {0} /\ a = 2 * c
    <3>1. PICK t : t = s - 1
      OBVIOUS
    <3>2. t \in Nat /\ s = t + 1
      BY <1>3, <1>8, <3>1
    <3>3. 2^t \in Nat \ {0} /\ 2^(t + 1) = 2 * 2^t
      BY <3>2, PowerIsCount, PowerDoubles
    <3>. QED
      BY <1>4, <2>5, <3>1, <3>2, <3>3
  <2>7. b <= h /\ b <= V
    <3>1. (2 * c) * b = 2 * (c * b) /\ c * b >= b /\ c * b \in Nat
      BY <1>5, <2>6
    <3>. QED
      BY <1>2, <1>5, <2>6, <3>1
  <2>8. ShiftLeft(MaxWord, WordBits - s) = b * (a - 1)
    <3>1. (V - 1) * b = V * (b - 1) + (V - b)
      BY <1>2, <1>5
    <3>2. V \in Nat \ {0} /\ b - 1 \in Int /\ V - b \in 0 .. (V - 1)
      BY <1>2, <1>5, <2>7
    <3>3. (V * (b - 1) + (V - b)) % V = V - b
      BY <3>2, QuotientUnique
    <3>4. V - b = b * (a - 1)
      <4>1. b * (a - 1) = a * b - b
        BY <1>5
      <4>. QED
        BY <1>5, <4>1
    <3>5. ShiftLeft(MaxWord, WordBits - s) = ((V - 1) * b) % V
      BY <1>1, <1>4, Zenon DEF ShiftLeft, MaxWord
    <3>. QED
      BY <3>1, <3>3, <3>4, <3>5, Zenon
  <2>9. b * (a - 1) = V - b
    <3>1. b * (a - 1) = a * b - b
      BY <1>5
    <3>. QED
      BY <1>5, <3>1
  <2>10. arithmetic_shift_right(v, s) = q + (V - b)
    <3>1. arithmetic_shift_right(v, s) = BitOr(q, ShiftLeft(MaxWord, WordBits - s))
      BY <1>4, <1>8, <2>2, Zenon DEF arithmetic_shift_right, ShiftRight
    <3>2. q \in Word /\ b * (a - 1) \in Word
      <4>1. q \in Word
        BY <2>3, WordDownwardClosed
      <4>2. V - b \in 0 .. (V - 1)
        BY <1>2, <1>5, <2>7
      <4>. QED
        BY <1>1, <2>9, <4>1, <4>2 DEF Word
    <3>3. PICK m, k : m = WordBits - s /\ k = a - 1
      OBVIOUS
    <3>4. m \in Nat /\ k \in Nat /\ b = 2^m
      BY <1>3, <1>4, <1>5, <3>3
    <3>5. BitOr(q, b * k) = q + b * k
      BY <2>4, <3>2, <3>3, <3>4, OrIsSum
    <3>. QED
      BY <2>8, <2>9, <3>1, <3>3, <3>5, Zenon
  <2>11. PICK w : w = q + (V - b)
    OBVIOUS
  <2>12. w \in Int /\ w >= h
    BY <1>2, <1>5, <2>3, <2>7, <2>11
  <2>13. Signed(w) = q - b
    <3>1. Signed(w) = w - V
      BY <1>1, <1>2, <2>12 DEF Signed
    <3>. QED
      BY <1>2, <1>5, <2>3, <2>11, <3>1
  <2>14. Signed(v) = a * (q - b) + r
    <3>1. Signed(v) = v - V
      BY <1>1, <1>2, <2>1 DEF Signed
    <3>2. a * (q - b) = a * q - a * b /\ a * q \in Int /\ a * b \in Int
      BY <1>5, <2>3
    <3>. QED
      BY <1>2, <1>5, <2>3, <3>1, <3>2
  <2>15. (a * (q - b) + r) \div a = q - b
    <3>1. a \in Nat \ {0} /\ q - b \in Int /\ r \in 0 .. (a - 1)
      BY <1>5, <2>3
    <3>. QED
      BY <3>1, QuotientUnique
  <2>. QED
    BY <1>4, <2>10, <2>11, <2>13, <2>14, <2>15, Zenon
<1>. QED
  BY <1>6, <1>7, <1>8

(***************************************************************************)
(* SRA and SRAI divide the signed operand by a power of two, rounding      *)
(* down, for every operand and every amount, zero included.                *)
(***************************************************************************)
THEOREM ArithmeticShiftHolds == Spec => []ArithmeticShift
<1>1. Operands => ArithmeticShift
  <2>. SUFFICES ASSUME Operands PROVE ArithmeticShift
    OBVIOUS
  <2>1. PICK amount : amount = ShiftAmount(source2)
    OBVIOUS
  <2>2. amount \in 0 .. (WordBits - 1)
    BY <2>1, WordBitsAssumption, WordInt DEF Operands, ShiftAmount
  <2>3. PICK i : i = Op(5, 32)
    OBVIOUS
  <2>4. i.function3 = 5 /\ i.function7 = 32 /\ i.immediate = source2
    BY <2>3 DEF Op
  <2>5. /\ execute_op(i, source1, source2) = Some(arithmetic_shift_right(source1, amount))
        /\ execute_op_immediate(i, source1) = Some(arithmetic_shift_right(source1, amount))
    <3>1. execute_op(i, source1, source2) = execute_alternate_op(5, source1, source2)
      BY <2>4 DEF execute_op
    <3>2. execute_alternate_op(5, source1, source2)
            = Some(arithmetic_shift_right(source1, amount))
      BY <2>1 DEF execute_alternate_op
    <3>3. execute_op_immediate(i, source1)
            = Some(arithmetic_shift_right(source1, amount))
      BY <2>1, <2>4 DEF execute_op_immediate
    <3>. QED
      BY <3>1, <3>2, <3>3, Zenon
  <2>6. Signed(arithmetic_shift_right(source1, amount)) = Signed(source1) \div 2^amount
    BY <2>2, ShiftDivides DEF Operands
  <2>. QED
    BY <2>1, <2>3, <2>5, <2>6, Zenon DEF ArithmeticShift, Some
<1>. QED
  BY <1>1, OperandsAreWords, PTL

-----------------------------------------------------------------------------
(***************************************************************************)
(* The two copies of the instruction table agree, and so do the branches   *)
(* and the comparisons, for every pair of operands.                        *)
(***************************************************************************)
THEOREM TablesAgreeHolds == Spec => []TablesAgree
<1>1. ASSUME NEW f \in 0 .. 7
      PROVE  execute_op_immediate(Op(f, 0), source1)
                 = execute_op(Op(f, 0), source1, source2)
  <2>1. PICK i : i = Op(f, 0)
    OBVIOUS
  <2>2. i.function3 = f /\ i.function7 = 0 /\ i.immediate = source2
    BY <2>1 DEF Op
  <2>3. execute_op(i, source1, source2) = execute_base_op(f, source1, source2)
    BY <2>2 DEF execute_op
  <2>4. execute_op_immediate(i, source1) = execute_base_op(f, source1, source2)
    <3>1. CASE f = 0
      BY <2>2, <3>1 DEF execute_op_immediate, execute_base_op
    <3>2. CASE f = 1
      BY <2>2, <3>2 DEF execute_op_immediate, execute_base_op
    <3>3. CASE f = 2
      BY <2>2, <3>3 DEF execute_op_immediate, execute_base_op
    <3>4. CASE f = 3
      BY <2>2, <3>4 DEF execute_op_immediate, execute_base_op
    <3>5. CASE f = 4
      BY <2>2, <3>5 DEF execute_op_immediate, execute_base_op
    <3>6. CASE f = 5
      BY <2>2, <3>6 DEF execute_op_immediate, execute_base_op
    <3>7. CASE f = 6
      BY <2>2, <3>7 DEF execute_op_immediate, execute_base_op
    <3>8. CASE f = 7
      BY <2>2, <3>8 DEF execute_op_immediate, execute_base_op
    <3>. QED
      BY <3>1, <3>2, <3>3, <3>4, <3>5, <3>6, <3>7, <3>8
  <2>. QED
    BY <2>1, <2>3, <2>4, Zenon
<1>2. ASSUME Operands
      PROVE  (source1 >= source2) = ~ (source1 < source2)
  BY <1>2, WordInt DEF Operands
<1>3. Operands => TablesAgree
  <2>. SUFFICES ASSUME Operands PROVE TablesAgree
    OBVIOUS
  <2>. DEFINE signed == signed_less_than(source1, source2)
              unsigned == source1 < source2
  <2>1. /\ evaluate_branch(Op(4, 0), source1, source2) = Some(signed)
        /\ execute_op(Op(2, 0), source1, source2) = Some(BoolWord(signed))
        /\ evaluate_branch(Op(5, 0), source1, source2) = Some(~ signed)
    BY Comparisons, Zenon
  <2>2. /\ evaluate_branch(Op(6, 0), source1, source2) = Some(unsigned)
        /\ execute_op(Op(3, 0), source1, source2) = Some(BoolWord(unsigned))
        /\ evaluate_branch(Op(7, 0), source1, source2) = Some(~ unsigned)
    BY <1>2, Comparisons, Zenon
  <2>. HIDE DEF signed, unsigned
  <2>3. ASSUME NEW less
        PROVE  Some(less) # NullOpt /\ \A taken \in Some(less) : taken = less
    BY Zenon DEF Some, NullOpt
  <2>4. ASSUME NEW less \in {<<4, 5, 2>>, <<6, 7, 3>>}
        PROVE  /\ evaluate_branch(Op(less[1], 0), source1, source2) # NullOpt
               /\ \A taken \in evaluate_branch(Op(less[1], 0), source1, source2) :
                     /\ execute_op(Op(less[3], 0), source1, source2)
                           = Some(BoolWord(taken))
                     /\ evaluate_branch(Op(less[2], 0), source1, source2)
                           = Some(~ taken)
    <3>1. \/ less[1] = 4 /\ less[2] = 5 /\ less[3] = 2
          \/ less[1] = 6 /\ less[2] = 7 /\ less[3] = 3
      OBVIOUS
    <3>2. CASE less[1] = 4 /\ less[2] = 5 /\ less[3] = 2
      <4>1. /\ evaluate_branch(Op(4, 0), source1, source2) # NullOpt
            /\ \A taken \in evaluate_branch(Op(4, 0), source1, source2) :
                  /\ execute_op(Op(2, 0), source1, source2) = Some(BoolWord(taken))
                  /\ evaluate_branch(Op(5, 0), source1, source2) = Some(~ taken)
        <5>1. /\ Some(signed) # NullOpt
              /\ \A taken \in Some(signed) : taken = signed
          BY <2>3
        <5>. QED
          BY <2>1, <5>1, Zenon
      <4>. QED
        BY <3>2, <4>1
    <3>3. CASE less[1] = 6 /\ less[2] = 7 /\ less[3] = 3
      <4>1. /\ evaluate_branch(Op(6, 0), source1, source2) # NullOpt
            /\ \A taken \in evaluate_branch(Op(6, 0), source1, source2) :
                  /\ execute_op(Op(3, 0), source1, source2) = Some(BoolWord(taken))
                  /\ evaluate_branch(Op(7, 0), source1, source2) = Some(~ taken)
        <5>1. /\ Some(unsigned) # NullOpt
              /\ \A taken \in Some(unsigned) : taken = unsigned
          BY <2>3
        <5>. QED
          BY <2>2, <5>1, Zenon
      <4>. QED
        BY <3>3, <4>1
    <3>. QED
      BY <3>1, <3>2, <3>3, Zenon
  <2>. QED
    BY <1>1, <2>4, Zenon DEF TablesAgree
<1>. QED
  BY <1>3, OperandsAreWords, PTL

-----------------------------------------------------------------------------
(***************************************************************************)
(* The decoder.  Bit flips keep a word a set of bit positions.             *)
(***************************************************************************)
DecoderTyped == raw \in RawWord /\ origin \in RawWord

LEMMA DecoderTypedHolds == DecoderSpec => []DecoderTyped
<1>1. DecoderInit => DecoderTyped
  BY DEF DecoderInit, DecoderTyped, RawWord, Bits, BitsOf
<1>2. DecoderTyped /\ [DecoderNext]_decoder_vars => DecoderTyped'
  BY DEF DecoderTyped, DecoderNext, decoder_vars, FlipBit, StartOver, Flip,
         RawWord, Bits
<1>. QED
  BY <1>1, <1>2, PTL DEF DecoderSpec

(***************************************************************************)
(* The bits of a literal below 2^7, and of a row and a column of the       *)
(* manual's opcode map.                                                    *)
(***************************************************************************)
IsBit(n, b) == (n \div 2^b) % 2 = 1

LEMMA SmallPowers ==
    /\ 2^0 = 1 /\ 2^1 = 2 /\ 2^2 = 4 /\ 2^3 = 8 /\ 2^4 = 16 /\ 2^5 = 32 /\ 2^6 = 64
    /\ 2^7 = 128
OBVIOUS

LEMMA HighBitIsClear ==
    ASSUME NEW w \in Nat, NEW n \in Nat, n < 2^w, NEW b \in Nat, b >= w
    PROVE  ~ IsBit(n, b)
<1>1. 2^w * 2^(b - w) = 2^b
  BY PowersMultiply
<1>2. PICK p, q : p = 2^w /\ q = 2^(b - w)
  OBVIOUS
<1>3. p \in Nat \ {0} /\ q \in Nat \ {0} /\ n < p
  <2>1. b - w \in Nat
    OBVIOUS
  <2>. QED
    BY <1>2, <2>1, PowerIsCount
<1>4. p * q \in Nat /\ p * q >= p
  BY <1>3
<1>5. PICK m : m = 2^b
  OBVIOUS
<1>6. m \in Nat /\ n < m
  BY <1>1, <1>2, <1>3, <1>4, <1>5
<1>7. n \div m = 0
  BY <1>6
<1>8. n \div 2^b = 0
  BY <1>5, <1>7, Zenon
<1>9. 0 % 2 # 1
  OBVIOUS
<1>. QED
  BY <1>8, <1>9, Zenon DEF IsBit

LEMMA LowBits ==
    ASSUME NEW w \in 0 .. 31, NEW n \in Nat, n < 2^w
    PROVE  BitsOf(n) = {b \in 0 .. (w - 1) : IsBit(n, b)}
<1>1. ASSUME NEW b \in 0 .. 30, b >= w
      PROVE  ~ IsBit(n, b)
  <2>1. w \in Nat /\ b \in Nat
    OBVIOUS
  <2>. QED
    BY <1>1, <2>1, HighBitIsClear
<1>2. BitsOf(n) = {b \in 0 .. 30 : IsBit(n, b)}
  BY Zenon DEF BitsOf, IsBit
<1>3. \A b : b \in 0 .. (w - 1) <=> b \in 0 .. 30 /\ ~ (b >= w)
  OBVIOUS
<1>. QED
  BY <1>1, <1>2, <1>3, Zenon

(***************************************************************************)
(* A word has the opcode of row r and column c in its low seven bits       *)
(* exactly when the three fields of the manual's map are those.            *)
(***************************************************************************)
LEMMA OpcodeFields ==
    ASSUME NEW X \in RawWord, NEW r \in 0 .. 3, NEW c \in 0 .. 7
    PROVE  BitsOf(32 * r + 4 * c + 3) = X \cap Mask(7)
             <=> /\ {0, 1} \subseteq X
                 /\ BitsOf(r) = {b \in 0 .. 1 : b + 5 \in X}
                 /\ BitsOf(c) = {b \in 0 .. 2 : b + 2 \in X}
<1>1. PICK n : n = 32 * r + 4 * c + 3
  OBVIOUS
<1>2. n \in 0 .. 127
  BY <1>1
<1>3. /\ BitsOf(n) = {b \in 0 .. 6 : IsBit(n, b)}
      /\ BitsOf(r) = {b \in 0 .. 1 : IsBit(r, b)}
      /\ BitsOf(c) = {b \in 0 .. 2 : IsBit(c, b)}
  <2>1. n \in Nat /\ n < 2^7 /\ r \in Nat /\ r < 2^2 /\ c \in Nat /\ c < 2^3
    BY <1>2, SmallPowers
  <2>2. BitsOf(n) = {b \in 0 .. (7 - 1) : IsBit(n, b)}
    BY <2>1, LowBits
  <2>3. BitsOf(r) = {b \in 0 .. (2 - 1) : IsBit(r, b)}
    BY <2>1, LowBits
  <2>4. BitsOf(c) = {b \in 0 .. (3 - 1) : IsBit(c, b)}
    BY <2>1, LowBits
  <2>5. 7 - 1 = 6 /\ 2 - 1 = 1 /\ 3 - 1 = 2
    OBVIOUS
  <2>. QED
    BY <2>2, <2>3, <2>4, <2>5, Zenon
<1>4. /\ IsBit(n, 0) /\ IsBit(n, 1)
      /\ IsBit(n, 2) <=> IsBit(c, 0)
      /\ IsBit(n, 3) <=> IsBit(c, 1)
      /\ IsBit(n, 4) <=> IsBit(c, 2)
      /\ IsBit(n, 5) <=> IsBit(r, 0)
      /\ IsBit(n, 6) <=> IsBit(r, 1)
  BY <1>1, SmallPowers DEF IsBit
<1>5. BitsOf(n) = X \cap Mask(7)
        <=> \A b \in 0 .. 6 : IsBit(n, b) <=> b \in X
  BY <1>3 DEF Mask
<1>6. BitsOf(r) = {b \in 0 .. 1 : b + 5 \in X}
        <=> (IsBit(r, 0) <=> 5 \in X) /\ (IsBit(r, 1) <=> 6 \in X)
  BY <1>3
<1>7. BitsOf(c) = {b \in 0 .. 2 : b + 2 \in X}
        <=> /\ IsBit(c, 0) <=> 2 \in X
            /\ IsBit(c, 1) <=> 3 \in X
            /\ IsBit(c, 2) <=> 4 \in X
  BY <1>3
<1>8. (\A b \in 0 .. 6 : IsBit(n, b) <=> b \in X)
        <=> /\ IsBit(n, 0) <=> 0 \in X
            /\ IsBit(n, 1) <=> 1 \in X
            /\ IsBit(n, 2) <=> 2 \in X
            /\ IsBit(n, 3) <=> 3 \in X
            /\ IsBit(n, 4) <=> 4 \in X
            /\ IsBit(n, 5) <=> 5 \in X
            /\ IsBit(n, 6) <=> 6 \in X
  OBVIOUS
<1>9. {0, 1} \subseteq X <=> 0 \in X /\ 1 \in X
  OBVIOUS
<1>. QED
  BY <1>1, <1>4, <1>5, <1>6, <1>7, <1>8, <1>9, Zenon

(***************************************************************************)
(* decode_opcode accepts the words of the manual's map, and no others.     *)
(***************************************************************************)
LEMMA OpcodeNamesAre ==
    OpcodeNames = {"Load", "MiscMemory", "OpImmediate", "Auipc", "Store", "Op", "Lui",
                   "Branch", "Jalr", "Jal", "System"}
BY DEF OpcodeNames, OpcodeValue

LEMMA OpcodeValueIsManual ==
    ASSUME NEW o \in OpcodeNames
    PROVE  /\ ManualOpcode[o][1] \in 0 .. 3
           /\ ManualOpcode[o][2] \in 0 .. 7
           /\ OpcodeValue[o] = 32 * ManualOpcode[o][1] + 4 * ManualOpcode[o][2] + 3
BY OpcodeNamesAre DEF ManualOpcode, OpcodeValue

LEMMA OpcodeIsManual ==
    ASSUME raw \in RawWord, NEW o \in OpcodeNames
    PROVE  o \in decode_opcode(raw) <=> HasOpcode(o)
<1>1. PICK r, c : r = ManualOpcode[o][1] /\ c = ManualOpcode[o][2]
  OBVIOUS
<1>2. r \in 0 .. 3 /\ c \in 0 .. 7 /\ OpcodeValue[o] = 32 * r + 4 * c + 3
  BY <1>1, OpcodeValueIsManual, Zenon
<1>3. BitsOf(32 * r + 4 * c + 3) = raw \cap Mask(7)
             <=> /\ {0, 1} \subseteq raw
                 /\ BitsOf(r) = {b \in 0 .. 1 : b + 5 \in raw}
                 /\ BitsOf(c) = {b \in 0 .. 2 : b + 2 \in raw}
  BY <1>2, OpcodeFields, Zenon
<1>4. o \in decode_opcode(raw) <=> BitsOf(OpcodeValue[o]) = raw \cap Mask(7)
  BY Zenon DEF decode_opcode
<1>. QED
  BY <1>1, <1>2, <1>3, <1>4, Zenon DEF HasOpcode

(***************************************************************************)
(* sign_extend copies the sign bit upwards, at every width: the wrapping   *)
(* subtraction either takes the flipped sign bit back, or borrows to the   *)
(* top of the word.                                                        *)
(***************************************************************************)
LEMMA SignExtends ==
    ASSUME NEW value \in RawWord, NEW n \in 1 .. 32
    PROVE  /\ sign_extend(value, n) \in RawWord
           /\ \A b \in Bits : b \in sign_extend(value, n)
                                  <=> IF b < n THEN b \in value ELSE n - 1 \in value
<1>1. PICK s : s = n - 1
  OBVIOUS
<1>2. s \in Bits /\ n = s + 1
  BY <1>1 DEF Bits
<1>3. PICK w : w = Flip(value \cap Mask(n), s)
  OBVIOUS
<1>4. \A b : b \in w <=> IF b = s THEN s \notin value ELSE b \in value /\ b \in 0 .. s
  BY <1>2, <1>3 DEF Flip, Mask, RawWord, Bits
<1>5. PICK borrowed : borrowed = {b \in Bits : b >= s /\ (s .. (b - 1)) \cap w = {}}
  OBVIOUS
<1>6. sign_extend(value, n) = (w \ borrowed) \cup (borrowed \ w)
  BY <1>1, <1>3, <1>5, Zenon DEF sign_extend, MinusBit
<1>7. \A b \in Bits : b \in borrowed <=> b = s \/ (b > s /\ s \in value)
  <2>. SUFFICES ASSUME NEW b \in Bits
                PROVE  b \in borrowed <=> b = s \/ (b > s /\ s \in value)
    OBVIOUS
  <2>1. b \in borrowed <=> b >= s /\ (s .. (b - 1)) \cap w = {}
    BY <1>5
  <2>2. CASE b <= s
    BY <1>2, <2>1, <2>2 DEF Bits
  <2>3. CASE b > s
    <3>1. s \in s .. (b - 1)
      BY <1>2, <2>3 DEF Bits
    <3>2. \A k \in s .. (b - 1) : k \in w => k = s
      BY <1>2, <1>4 DEF Bits
    <3>3. s \in w <=> s \notin value
      BY <1>4
    <3>4. (s .. (b - 1)) \cap w = {} <=> s \in value
      BY <3>1, <3>2, <3>3, Zenon
    <3>. QED
      BY <1>2, <2>1, <2>3, <3>4 DEF Bits
  <2>. QED
    BY <1>2, <2>2, <2>3 DEF Bits
<1>8. \A b \in Bits : b \in sign_extend(value, n)
                        <=> IF b < n THEN b \in value ELSE n - 1 \in value
  <2>. SUFFICES ASSUME NEW b \in Bits
                PROVE  b \in sign_extend(value, n)
                         <=> IF b < n THEN b \in value ELSE n - 1 \in value
    OBVIOUS
  <2>1. b \in sign_extend(value, n) <=> (b \in w <=> b \notin borrowed)
    BY <1>6
  <2>2. b \in w <=> IF b = s THEN s \notin value ELSE b \in value /\ b \in 0 .. s
    BY <1>4
  <2>3. b \in borrowed <=> b = s \/ (b > s /\ s \in value)
    BY <1>7
  <2>4. CASE b < s
    BY <1>1, <1>2, <2>1, <2>2, <2>3, <2>4 DEF Bits
  <2>5. CASE b = s
    BY <1>1, <1>2, <2>1, <2>2, <2>3, <2>5 DEF Bits
  <2>6. CASE b > s
    BY <1>1, <1>2, <2>1, <2>2, <2>3, <2>6 DEF Bits
  <2>. QED
    BY <1>2, <2>4, <2>5, <2>6 DEF Bits
<1>9. sign_extend(value, n) \subseteq Bits
  <2>1. w \subseteq Bits
    BY <1>2, <1>4 DEF Bits, RawWord
  <2>2. borrowed \subseteq Bits
    BY <1>5
  <2>. QED
    BY <1>6, <2>1, <2>2
<1>. QED
  BY <1>8, <1>9 DEF RawWord

(***************************************************************************)
(* The immediates, bit by bit.                                             *)
(***************************************************************************)
LEMMA IImmediateBits ==
    ASSUME NEW X \in RawWord
    PROVE  /\ IImmediate(X) \in RawWord
           /\ \A b \in Bits : b \in IImmediate(X)
                                <=> IF b <= 10 THEN b + 20 \in X ELSE 31 \in X
<1>1. PICK V : V = ShiftedRight(X, 20)
  OBVIOUS
<1>2. V \in RawWord /\ \A b \in 0 .. 11 : b \in V <=> b + 20 \in X
  BY <1>1 DEF ShiftedRight, RawWord, Bits
<1>3. PICK S : S = sign_extend(V, 12)
  OBVIOUS
<1>4. S \in RawWord /\ \A b \in Bits : b \in S <=> IF b < 12 THEN b \in V ELSE 11 \in V
  BY <1>2, <1>3, SignExtends
<1>5. IImmediate(X) = S
  BY <1>1, <1>3, Zenon DEF IImmediate
<1>. QED
  BY <1>2, <1>4, <1>5 DEF Bits

LEMMA SImmediateBits ==
    ASSUME NEW X \in RawWord
    PROVE  /\ SImmediate(X) \in RawWord
           /\ \A b \in Bits : b \in SImmediate(X)
                                <=> IF b <= 4 THEN b + 7 \in X
                                    ELSE IF b <= 10 THEN b + 20 \in X ELSE 31 \in X
<1>1. PICK V : V = ShiftedLeft(ShiftedRight(X, 25), 5) \cup (ShiftedRight(X, 7) \cap Mask(5))
  OBVIOUS
<1>2. V \in RawWord /\ \A b \in 0 .. 11 : b \in V <=> IF b <= 4 THEN b + 7 \in X
                                                     ELSE b + 20 \in X
  BY <1>1 DEF ShiftedRight, ShiftedLeft, Mask, RawWord, Bits
<1>3. PICK S : S = sign_extend(V, 12)
  OBVIOUS
<1>4. S \in RawWord /\ \A b \in Bits : b \in S <=> IF b < 12 THEN b \in V ELSE 11 \in V
  BY <1>2, <1>3, SignExtends
<1>5. SImmediate(X) = S
  BY <1>1, <1>3, Zenon DEF SImmediate
<1>. QED
  BY <1>2, <1>4, <1>5 DEF Bits

LEMMA BImmediateBits ==
    ASSUME NEW X \in RawWord
    PROVE  /\ BImmediate(X) \in RawWord
           /\ \A b \in Bits : b \in BImmediate(X)
                                <=> IF b = 0 THEN FALSE
                                    ELSE IF b <= 4 THEN b + 7 \in X
                                    ELSE IF b <= 10 THEN b + 20 \in X
                                    ELSE IF b = 11 THEN 7 \in X ELSE 31 \in X
<1>1. PICK V : V = ShiftedLeft(ShiftedRight(X, 31), 12)
                    \cup ShiftedLeft(ShiftedRight(X, 7) \cap Mask(1), 11)
                    \cup ShiftedLeft(ShiftedRight(X, 25) \cap Mask(6), 5)
                    \cup ShiftedLeft(ShiftedRight(X, 8) \cap Mask(4), 1)
  OBVIOUS
<1>2. V \in RawWord
  BY <1>1 DEF ShiftedLeft, RawWord
<1>3. \A b \in 0 .. 12 : b \in V <=> IF b = 0 THEN FALSE
                                    ELSE IF b <= 4 THEN b + 7 \in X
                                    ELSE IF b <= 10 THEN b + 20 \in X
                                    ELSE IF b = 11 THEN 7 \in X ELSE 31 \in X
  BY <1>1 DEF ShiftedRight, ShiftedLeft, Mask, RawWord, Bits
<1>4. PICK S : S = sign_extend(V, 13)
  OBVIOUS
<1>5. S \in RawWord /\ \A b \in Bits : b \in S <=> IF b < 13 THEN b \in V ELSE 12 \in V
  BY <1>2, <1>4, SignExtends
<1>6. BImmediate(X) = S
  BY <1>1, <1>4, Zenon DEF BImmediate
<1>. QED
  BY <1>3, <1>5, <1>6 DEF Bits

LEMMA UImmediateBits ==
    ASSUME NEW X \in RawWord
    PROVE  /\ UImmediate(X) \in RawWord
           /\ \A b \in Bits : b \in UImmediate(X) <=> b > 11 /\ b \in X
BY DEF UImmediate, Mask, RawWord, Bits

LEMMA JImmediateBits ==
    ASSUME NEW X \in RawWord
    PROVE  /\ JImmediate(X) \in RawWord
           /\ \A b \in Bits : b \in JImmediate(X)
                                <=> IF b = 0 THEN FALSE
                                    ELSE IF b <= 10 THEN b + 20 \in X
                                    ELSE IF b = 11 THEN 20 \in X
                                    ELSE IF b <= 19 THEN b \in X ELSE 31 \in X
<1>1. PICK V : V = ShiftedLeft(ShiftedRight(X, 31), 20)
                    \cup ShiftedLeft(ShiftedRight(X, 12) \cap Mask(8), 12)
                    \cup ShiftedLeft(ShiftedRight(X, 20) \cap Mask(1), 11)
                    \cup ShiftedLeft(ShiftedRight(X, 21) \cap Mask(10), 1)
  OBVIOUS
<1>2. V \in RawWord
  BY <1>1 DEF ShiftedLeft, RawWord
<1>3. \A b \in 0 .. 20 : b \in V <=> IF b = 0 THEN FALSE
                                    ELSE IF b <= 10 THEN b + 20 \in X
                                    ELSE IF b = 11 THEN 20 \in X
                                    ELSE IF b <= 19 THEN b \in X ELSE 31 \in X
  BY <1>1 DEF ShiftedRight, ShiftedLeft, Mask, RawWord, Bits
<1>4. PICK S : S = sign_extend(V, 21)
  OBVIOUS
<1>5. S \in RawWord /\ \A b \in Bits : b \in S <=> IF b < 21 THEN b \in V ELSE 20 \in V
  BY <1>2, <1>4, SignExtends
<1>6. JImmediate(X) = S
  BY <1>1, <1>4, Zenon DEF JImmediate
<1>. QED
  BY <1>3, <1>5, <1>6 DEF Bits

(***************************************************************************)
(* The fields of a decoded instruction, and the format of its opcode.      *)
(***************************************************************************)
DecodedAs(X, opcode) ==
    LET format == format_for_opcode(opcode)
    IN [raw |-> X,
        opcode |-> opcode,
        format |-> format,
        destination |-> FieldIf({"R", "I", "U", "J"}, format, X, 7, 5),
        function3 |-> FieldIf({"R", "I", "S", "B"}, format, X, 12, 3),
        source1 |-> FieldIf({"R", "I", "S", "B"}, format, X, 15, 5),
        source2 |-> FieldIf({"R", "S", "B"}, format, X, 20, 5),
        function7 |-> FieldIf({"R", "I"}, format, X, 25, 7),
        immediate |-> CASE format = "R" -> {}
                        [] format = "I" -> IImmediate(X)
                        [] format = "S" -> SImmediate(X)
                        [] format = "B" -> BImmediate(X)
                        [] format = "U" -> UImmediate(X)
                        [] format = "J" -> JImmediate(X)]

LEMMA DecodedIs ==
    ASSUME NEW X
    PROVE  decode_instruction(X) = {DecodedAs(X, o) : o \in decode_opcode(X)}
BY Zenon DEF decode_instruction, DecodedAs

LEMMA DecodedFields ==
    ASSUME NEW X, NEW i \in decode_instruction(X)
    PROVE  /\ i.opcode \in decode_opcode(X)
           /\ i.format = format_for_opcode(i.opcode)
           /\ i.destination = FieldIf({"R", "I", "U", "J"}, i.format, X, 7, 5)
           /\ i.function3 = FieldIf({"R", "I", "S", "B"}, i.format, X, 12, 3)
           /\ i.source1 = FieldIf({"R", "I", "S", "B"}, i.format, X, 15, 5)
           /\ i.source2 = FieldIf({"R", "S", "B"}, i.format, X, 20, 5)
           /\ i.function7 = FieldIf({"R", "I"}, i.format, X, 25, 7)
           /\ i.immediate = CASE i.format = "R" -> {}
                              [] i.format = "I" -> IImmediate(X)
                              [] i.format = "S" -> SImmediate(X)
                              [] i.format = "B" -> BImmediate(X)
                              [] i.format = "U" -> UImmediate(X)
                              [] i.format = "J" -> JImmediate(X)
<1>1. PICK o \in decode_opcode(X) : i = DecodedAs(X, o)
  BY DecodedIs, Zenon
<1>2. i.opcode = o /\ i.format = format_for_opcode(o)
  BY <1>1 DEF DecodedAs
<1>3. PICK format : format = format_for_opcode(o)
  OBVIOUS
<1>. QED
  BY <1>1, <1>2, <1>3 DEF DecodedAs

LEMMA DecodedOpcodes ==
    ASSUME NEW X
    PROVE  {i.opcode : i \in decode_instruction(X)} = decode_opcode(X)
<1>1. \A i \in decode_instruction(X) : i.opcode \in decode_opcode(X)
  BY DecodedFields
<1>2. ASSUME NEW o \in decode_opcode(X)
      PROVE  \E i \in decode_instruction(X) : i.opcode = o
  <2>1. DecodedAs(X, o) \in decode_instruction(X)
    BY DecodedIs, Zenon
  <2>2. DecodedAs(X, o).opcode = o
    BY DEF DecodedAs
  <2>. QED
    BY <2>1, <2>2, Zenon
<1>. QED
  BY <1>1, <1>2, Zenon

LEMMA FormatsAre ==
    ASSUME NEW o \in OpcodeNames
    PROVE  /\ format_for_opcode(o) \in {"R", "I", "S", "B", "U", "J"}
           /\ o = "Op" => format_for_opcode(o) = "R"
           /\ o \in {"Load", "OpImmediate"} => format_for_opcode(o) = "I"
           /\ o = "Store" => format_for_opcode(o) = "S"
           /\ o = "Branch" => format_for_opcode(o) = "B"
           /\ o = "Lui" => format_for_opcode(o) = "U"
           /\ o = "Jal" => format_for_opcode(o) = "J"
BY OpcodeNamesAre DEF format_for_opcode

LEMMA ImmediateOfFormat ==
    ASSUME NEW X, NEW i \in decode_instruction(X)
    PROVE  /\ i.format = "R" => i.immediate = {}
           /\ i.format = "I" => i.immediate = IImmediate(X)
           /\ i.format = "S" => i.immediate = SImmediate(X)
           /\ i.format = "B" => i.immediate = BImmediate(X)
           /\ i.format = "U" => i.immediate = UImmediate(X)
           /\ i.format = "J" => i.immediate = JImmediate(X)
<1>1. i.immediate = CASE i.format = "R" -> {}
                      [] i.format = "I" -> IImmediate(X)
                      [] i.format = "S" -> SImmediate(X)
                      [] i.format = "B" -> BImmediate(X)
                      [] i.format = "U" -> UImmediate(X)
                      [] i.format = "J" -> JImmediate(X)
  BY DecodedFields
<1>. QED
  BY <1>1

LEMMA FormatIsManual ==
    ASSUME NEW o \in OpcodeNames
    PROVE  format_for_opcode(o) = ManualFormat[o]
BY OpcodeNamesAre DEF format_for_opcode, ManualFormat

\* The code's shifts and masks cut out the fields of the manual's figure.
LEMMA FieldIsManual ==
    ASSUME NEW format, NEW formats
    PROVE  /\ FieldIf(formats, format, raw, 7, 5) = ManualField(format, formats, 7, 11)
           /\ FieldIf(formats, format, raw, 12, 3) = ManualField(format, formats, 12, 14)
           /\ FieldIf(formats, format, raw, 15, 5) = ManualField(format, formats, 15, 19)
           /\ FieldIf(formats, format, raw, 20, 5) = ManualField(format, formats, 20, 24)
           /\ FieldIf(formats, format, raw, 25, 7) = ManualField(format, formats, 25, 31)
<1>1. ASSUME NEW low \in 0 .. 31, NEW width \in 1 .. 7
      PROVE  field(raw, low, width) = {b \in 0 .. (width - 1) : b + low \in raw}
  BY <1>1 DEF field, ShiftedRight, Mask, Bits
<1>2. /\ field(raw, 7, 5) = {b \in 0 .. (11 - 7) : b + 7 \in raw}
      /\ field(raw, 12, 3) = {b \in 0 .. (14 - 12) : b + 12 \in raw}
      /\ field(raw, 15, 5) = {b \in 0 .. (19 - 15) : b + 15 \in raw}
      /\ field(raw, 20, 5) = {b \in 0 .. (24 - 20) : b + 20 \in raw}
      /\ field(raw, 25, 7) = {b \in 0 .. (31 - 25) : b + 25 \in raw}
  BY <1>1
<1>. QED
  BY <1>2, Zenon DEF FieldIf, ManualField

(***************************************************************************)
(* The decoder accepts the manual's opcodes and no others, and returns its *)
(* fields and immediates, for every 32-bit word.                           *)
(***************************************************************************)
THEOREM DecodesAsManualHolds == DecoderSpec => []DecodesAsManual
<1>1. ASSUME raw \in RawWord
      PROVE  {i.opcode : i \in decode_instruction(raw)} = {o \in OpcodeNames : HasOpcode(o)}
  <2>1. decode_opcode(raw) \subseteq OpcodeNames
    BY DEF decode_opcode
  <2>2. \A o \in OpcodeNames : o \in decode_opcode(raw) <=> HasOpcode(o)
    BY <1>1, OpcodeIsManual
  <2>3. {i.opcode : i \in decode_instruction(raw)} = decode_opcode(raw)
    BY DecodedOpcodes
  <2>. QED
    BY <2>1, <2>2, <2>3, Zenon
<1>2. ASSUME raw \in RawWord, NEW i \in decode_instruction(raw)
      PROVE  i.immediate = {b \in Bits : ManualImmediateBit(i.format, b) \cap raw # {}}
  <2>1. i.format \in {"R", "I", "S", "B", "U", "J"}
    <3>1. i.opcode \in OpcodeNames /\ i.format = format_for_opcode(i.opcode)
      BY DecodedFields DEF decode_opcode
    <3>. QED
      BY <3>1, FormatsAre
  <2>2. CASE i.format = "R"
    <3>1. i.immediate = {} /\ \A b : ManualImmediateBit("R", b) = {}
      BY <2>2, ImmediateOfFormat DEF ManualImmediateBit
    <3>. QED
      BY <2>2, <3>1
  <2>3. CASE i.format = "I"
    <3>1. i.immediate = IImmediate(raw)
      BY <2>3, ImmediateOfFormat
    <3>2. \A b \in Bits : ManualImmediateBit("I", b) \cap raw # {}
                            <=> IF b <= 10 THEN b + 20 \in raw ELSE 31 \in raw
      BY DEF ManualImmediateBit
    <3>3. /\ IImmediate(raw) \subseteq Bits
          /\ \A b \in Bits : b \in IImmediate(raw)
                               <=> ManualImmediateBit("I", b) \cap raw # {}
      BY <1>2, <3>2, IImmediateBits DEF RawWord
    <3>. QED
      BY <2>3, <3>1, <3>3, Zenon
  <2>4. CASE i.format = "S"
    <3>1. i.immediate = SImmediate(raw)
      BY <2>4, ImmediateOfFormat
    <3>2. \A b \in Bits : ManualImmediateBit("S", b) \cap raw # {}
                            <=> IF b <= 4 THEN b + 7 \in raw
                                ELSE IF b <= 10 THEN b + 20 \in raw ELSE 31 \in raw
      BY DEF ManualImmediateBit
    <3>3. /\ SImmediate(raw) \subseteq Bits
          /\ \A b \in Bits : b \in SImmediate(raw)
                               <=> ManualImmediateBit("S", b) \cap raw # {}
      BY <1>2, <3>2, SImmediateBits DEF RawWord
    <3>. QED
      BY <2>4, <3>1, <3>3, Zenon
  <2>5. CASE i.format = "B"
    <3>1. i.immediate = BImmediate(raw)
      BY <2>5, ImmediateOfFormat
    <3>2. \A b \in Bits : ManualImmediateBit("B", b) \cap raw # {}
                            <=> IF b = 0 THEN FALSE
                                ELSE IF b <= 4 THEN b + 7 \in raw
                                ELSE IF b <= 10 THEN b + 20 \in raw
                                ELSE IF b = 11 THEN 7 \in raw ELSE 31 \in raw
      BY DEF ManualImmediateBit
    <3>3. /\ BImmediate(raw) \subseteq Bits
          /\ \A b \in Bits : b \in BImmediate(raw)
                               <=> ManualImmediateBit("B", b) \cap raw # {}
      BY <1>2, <3>2, BImmediateBits DEF RawWord
    <3>. QED
      BY <2>5, <3>1, <3>3, Zenon
  <2>6. CASE i.format = "U"
    <3>1. i.immediate = UImmediate(raw)
      BY <2>6, ImmediateOfFormat
    <3>2. \A b \in Bits : ManualImmediateBit("U", b) \cap raw # {} <=> b > 11 /\ b \in raw
      BY DEF ManualImmediateBit, Bits
    <3>3. /\ UImmediate(raw) \subseteq Bits
          /\ \A b \in Bits : b \in UImmediate(raw)
                               <=> ManualImmediateBit("U", b) \cap raw # {}
      BY <1>2, <3>2, UImmediateBits DEF RawWord
    <3>. QED
      BY <2>6, <3>1, <3>3, Zenon
  <2>7. CASE i.format = "J"
    <3>1. i.immediate = JImmediate(raw)
      BY <2>7, ImmediateOfFormat
    <3>2. \A b \in Bits : ManualImmediateBit("J", b) \cap raw # {}
                            <=> IF b = 0 THEN FALSE
                                ELSE IF b <= 10 THEN b + 20 \in raw
                                ELSE IF b = 11 THEN 20 \in raw
                                ELSE IF b <= 19 THEN b \in raw ELSE 31 \in raw
      BY DEF ManualImmediateBit
    <3>3. /\ JImmediate(raw) \subseteq Bits
          /\ \A b \in Bits : b \in JImmediate(raw)
                               <=> ManualImmediateBit("J", b) \cap raw # {}
      BY <1>2, <3>2, JImmediateBits DEF RawWord
    <3>. QED
      BY <2>7, <3>1, <3>3, Zenon
  <2>. QED
    BY <2>1, <2>2, <2>3, <2>4, <2>5, <2>6, <2>7
<1>3. ASSUME raw \in RawWord, NEW i \in decode_instruction(raw)
      PROVE  /\ i.format = ManualFormat[i.opcode]
             /\ i.destination = ManualField(i.format, {"R", "I", "U", "J"}, 7, 11)
             /\ i.function3 = ManualField(i.format, {"R", "I", "S", "B"}, 12, 14)
             /\ i.source1 = ManualField(i.format, {"R", "I", "S", "B"}, 15, 19)
             /\ i.source2 = ManualField(i.format, {"R", "S", "B"}, 20, 24)
             /\ i.function7 = ManualField(i.format, {"R", "I"}, 25, 31)
  <2>1. i.opcode \in OpcodeNames /\ i.format = format_for_opcode(i.opcode)
    BY DecodedFields DEF decode_opcode
  <2>2. i.format = ManualFormat[i.opcode]
    BY <2>1, FormatIsManual
  <2>. QED
    BY <2>2, DecodedFields, FieldIsManual
<1>4. DecoderTyped => DecodesAsManual
  <2>. SUFFICES ASSUME raw \in RawWord PROVE DecodesAsManual
    BY DEF DecoderTyped
  <2>. QED
    BY <1>1, <1>2, <1>3, Zenon DEF DecodesAsManual
<1>. QED
  BY <1>4, DecoderTypedHolds, PTL

-----------------------------------------------------------------------------
(***************************************************************************)
(* The encoders put every piece of a word back where it came from: each    *)
(* part of an encoding is a slice of the word that was decoded.            *)
(***************************************************************************)
Slice(X, low, high) == X \cap (low .. high)

LEMMA ShiftedField ==
    ASSUME NEW X \in RawWord, NEW shift \in 0 .. 31, NEW width \in 1 .. 32,
           shift + width <= 32
    PROVE  ShiftedLeft(field(X, shift, width), shift) = Slice(X, shift, shift + width - 1)
BY DEF ShiftedLeft, ShiftedRight, field, Mask, Slice, RawWord, Bits

LEMMA IPieces ==
    ASSUME NEW X \in RawWord
    PROVE  ShiftedLeft(IImmediate(X) \cap Mask(12), 20) = Slice(X, 20, 31)
<1>1. PICK S : S = IImmediate(X)
  OBVIOUS
<1>2. \A b \in Bits : b \in S <=> IF b <= 10 THEN b + 20 \in X ELSE 31 \in X
  BY <1>1, IImmediateBits
<1>3. ShiftedLeft(S \cap Mask(12), 20) = Slice(X, 20, 31)
  BY <1>2 DEF ShiftedLeft, Mask, Slice, RawWord, Bits
<1>. QED
  BY <1>1, <1>3

LEMMA SPieces ==
    ASSUME NEW X \in RawWord, NEW bits, bits = SImmediate(X) \cap Mask(12)
    PROVE  /\ ShiftedLeft(ShiftedRight(bits, 5), 25) = Slice(X, 25, 31)
           /\ ShiftedLeft(bits \cap Mask(5), 7) = Slice(X, 7, 11)
<1>1. PICK S : S = bits
  OBVIOUS
<1>2. S \subseteq 0 .. 11 /\ \A b \in 0 .. 11 : b \in S <=> IF b <= 4 THEN b + 7 \in X
                                                            ELSE b + 20 \in X
  BY <1>1, SImmediateBits DEF Mask, Bits
<1>3. ShiftedLeft(ShiftedRight(S, 5), 25) = Slice(X, 25, 31)
  BY <1>2 DEF ShiftedLeft, ShiftedRight, Slice, RawWord, Bits
<1>4. ShiftedLeft(S \cap Mask(5), 7) = Slice(X, 7, 11)
  BY <1>2 DEF ShiftedLeft, Mask, Slice, RawWord, Bits
<1>. QED
  BY <1>1, <1>3, <1>4, Zenon

LEMMA BPieces ==
    ASSUME NEW X \in RawWord, NEW bits, bits = BImmediate(X) \cap Mask(13)
    PROVE  /\ ShiftedLeft(ShiftedRight(bits, 12) \cap Mask(1), 31) = Slice(X, 31, 31)
           /\ ShiftedLeft(ShiftedRight(bits, 5) \cap Mask(6), 25) = Slice(X, 25, 30)
           /\ ShiftedLeft(ShiftedRight(bits, 1) \cap Mask(4), 8) = Slice(X, 8, 11)
           /\ ShiftedLeft(ShiftedRight(bits, 11) \cap Mask(1), 7) = Slice(X, 7, 7)
<1>1. PICK S : S = bits
  OBVIOUS
<1>2. \A b \in 0 .. 12 : b \in S <=> IF b = 0 THEN FALSE
                                    ELSE IF b <= 4 THEN b + 7 \in X
                                    ELSE IF b <= 10 THEN b + 20 \in X
                                    ELSE IF b = 11 THEN 7 \in X ELSE 31 \in X
  BY <1>1, BImmediateBits DEF Mask, Bits
<1>3. ShiftedLeft(ShiftedRight(S, 12) \cap Mask(1), 31) = Slice(X, 31, 31)
  BY <1>2 DEF ShiftedLeft, ShiftedRight, Mask, Slice, RawWord, Bits
<1>4. ShiftedLeft(ShiftedRight(S, 5) \cap Mask(6), 25) = Slice(X, 25, 30)
  BY <1>2 DEF ShiftedLeft, ShiftedRight, Mask, Slice, RawWord, Bits
<1>5. ShiftedLeft(ShiftedRight(S, 1) \cap Mask(4), 8) = Slice(X, 8, 11)
  BY <1>2 DEF ShiftedLeft, ShiftedRight, Mask, Slice, RawWord, Bits
<1>6. ShiftedLeft(ShiftedRight(S, 11) \cap Mask(1), 7) = Slice(X, 7, 7)
  BY <1>2 DEF ShiftedLeft, ShiftedRight, Mask, Slice, RawWord, Bits
<1>. QED
  BY <1>1, <1>3, <1>4, <1>5, <1>6, Zenon

LEMMA JPieces ==
    ASSUME NEW X \in RawWord, NEW bits, bits = JImmediate(X) \cap Mask(21)
    PROVE  /\ ShiftedLeft(ShiftedRight(bits, 20) \cap Mask(1), 31) = Slice(X, 31, 31)
           /\ ShiftedLeft(ShiftedRight(bits, 1) \cap Mask(10), 21) = Slice(X, 21, 30)
           /\ ShiftedLeft(ShiftedRight(bits, 11) \cap Mask(1), 20) = Slice(X, 20, 20)
           /\ ShiftedLeft(ShiftedRight(bits, 12) \cap Mask(8), 12) = Slice(X, 12, 19)
<1>1. PICK S : S = bits
  OBVIOUS
<1>2. \A b \in 0 .. 20 : b \in S <=> IF b = 0 THEN FALSE
                                    ELSE IF b <= 10 THEN b + 20 \in X
                                    ELSE IF b = 11 THEN 20 \in X
                                    ELSE IF b <= 19 THEN b \in X ELSE 31 \in X
  BY <1>1, JImmediateBits DEF Mask, Bits
<1>3. ShiftedLeft(ShiftedRight(S, 20) \cap Mask(1), 31) = Slice(X, 31, 31)
  BY <1>2 DEF ShiftedLeft, ShiftedRight, Mask, Slice, RawWord, Bits
<1>4. ShiftedLeft(ShiftedRight(S, 1) \cap Mask(10), 21) = Slice(X, 21, 30)
  BY <1>2 DEF ShiftedLeft, ShiftedRight, Mask, Slice, RawWord, Bits
<1>5. ShiftedLeft(ShiftedRight(S, 11) \cap Mask(1), 20) = Slice(X, 20, 20)
  BY <1>2 DEF ShiftedLeft, ShiftedRight, Mask, Slice, RawWord, Bits
<1>6. ShiftedLeft(ShiftedRight(S, 12) \cap Mask(8), 12) = Slice(X, 12, 19)
  BY <1>2 DEF ShiftedLeft, ShiftedRight, Mask, Slice, RawWord, Bits
<1>. QED
  BY <1>1, <1>3, <1>4, <1>5, <1>6, Zenon

(***************************************************************************)
(* The slices of a decoded instruction's fields and of its opcode.         *)
(***************************************************************************)
LEMMA FieldSlices ==
    ASSUME NEW X \in RawWord, NEW i \in decode_instruction(X)
    PROVE  /\ EncodedAs(i.opcode) = Slice(X, 0, 6)
           /\ i.format \in {"R", "I", "U", "J"} =>
                 ShiftedLeft(i.destination, 7) = Slice(X, 7, 11)
           /\ i.format \in {"R", "I", "S", "B"} =>
                 /\ ShiftedLeft(i.function3, 12) = Slice(X, 12, 14)
                 /\ ShiftedLeft(i.source1, 15) = Slice(X, 15, 19)
           /\ i.format \in {"R", "S", "B"} =>
                 ShiftedLeft(i.source2, 20) = Slice(X, 20, 24)
           /\ i.format = "R" => ShiftedLeft(i.function7, 25) = Slice(X, 25, 31)
<1>1. EncodedAs(i.opcode) = X \cap Mask(7)
  BY DecodedFields, Zenon DEF decode_opcode, EncodedAs
<1>2. EncodedAs(i.opcode) = Slice(X, 0, 6)
  BY <1>1 DEF Mask, Slice
<1>3. ASSUME NEW shift \in 0 .. 31, NEW width \in 1 .. 32, shift + width <= 32,
             NEW formats, i.format \in formats,
             NEW high, high = shift + width - 1
      PROVE  ShiftedLeft(FieldIf(formats, i.format, X, shift, width), shift)
               = Slice(X, shift, high)
  <2>1. FieldIf(formats, i.format, X, shift, width) = field(X, shift, width)
    BY <1>3, Zenon DEF FieldIf
  <2>. QED
    BY <1>3, <2>1, ShiftedField
<1>4. i.format \in {"R", "I", "U", "J"} => ShiftedLeft(i.destination, 7) = Slice(X, 7, 11)
  <2>1. i.destination = FieldIf({"R", "I", "U", "J"}, i.format, X, 7, 5)
    BY DecodedFields
  <2>. QED
    BY <1>3, <2>1
<1>5. i.format \in {"R", "I", "S", "B"} => ShiftedLeft(i.function3, 12) = Slice(X, 12, 14)
  <2>1. i.function3 = FieldIf({"R", "I", "S", "B"}, i.format, X, 12, 3)
    BY DecodedFields
  <2>. QED
    BY <1>3, <2>1
<1>6. i.format \in {"R", "I", "S", "B"} => ShiftedLeft(i.source1, 15) = Slice(X, 15, 19)
  <2>1. i.source1 = FieldIf({"R", "I", "S", "B"}, i.format, X, 15, 5)
    BY DecodedFields
  <2>. QED
    BY <1>3, <2>1
<1>7. i.format \in {"R", "S", "B"} => ShiftedLeft(i.source2, 20) = Slice(X, 20, 24)
  <2>1. i.source2 = FieldIf({"R", "S", "B"}, i.format, X, 20, 5)
    BY DecodedFields
  <2>. QED
    BY <1>3, <2>1
<1>8. i.format = "R" => ShiftedLeft(i.function7, 25) = Slice(X, 25, 31)
  <2>1. i.function7 = FieldIf({"R", "I"}, i.format, X, 25, 7)
    BY DecodedFields
  <2>. QED
    BY <1>3, <2>1
<1>. QED
  BY <1>2, <1>4, <1>5, <1>6, <1>7, <1>8, Zenon

LEMMA EncodersAre ==
    ASSUME NEW i, NEW e \in Encoders(i)
    PROVE  \/ i.opcode = "OpImmediate"
                /\ e = encode_immediate_operation(i.destination, i.function3, i.source1,
                                                  i.immediate)
           \/ i.opcode = "Op"
                /\ e = encode_register_operation(i.destination, i.function3, i.source1,
                                                 i.source2, i.function7)
           \/ i.opcode = "Load" /\ i.function3 = BitsOf(2)
                /\ e = encode_load_word(i.destination, i.source1, i.immediate)
           \/ i.opcode = "Store" /\ i.function3 = BitsOf(2)
                /\ e = encode_store_word(i.source1, i.source2, i.immediate)
           \/ i.opcode = "Branch"
                /\ e = encode_branch(i.function3, i.source1, i.source2, i.immediate)
           \/ i.opcode = "Jal" /\ i.destination = {} /\ e = encode_jump(i.immediate)
           \/ i.opcode = "Lui" /\ e = encode_lui(i.destination, i.immediate)
BY DEF Encoders

(***************************************************************************)
(* Encoding the fields of a decoded word gives the word back, for every    *)
(* 32-bit word the encoders cover.                                         *)
(***************************************************************************)
THEOREM EncodersInvertDecoderHolds == DecoderSpec => []EncodersInvertDecoder
<1>1. ASSUME NEW X \in RawWord, NEW i \in decode_instruction(X), NEW e \in Encoders(i)
      PROVE  e = X
  <2>1. i.opcode \in OpcodeNames /\ i.format = format_for_opcode(i.opcode)
    BY DecodedFields DEF decode_opcode
  <2>2. CASE i.opcode = "OpImmediate"
    <3>1. e = encode_immediate_operation(i.destination, i.function3, i.source1, i.immediate)
      BY <2>2, EncodersAre
    <3>2. i.format = "I"
      BY <2>1, <2>2, FormatsAre
    <3>3. e = Slice(X, 20, 31) \cup Slice(X, 15, 19) \cup Slice(X, 12, 14)
                \cup Slice(X, 7, 11) \cup Slice(X, 0, 6)
      <4>1. i.immediate = IImmediate(X)
        BY <3>2, ImmediateOfFormat
      <4>2. ShiftedLeft(IImmediate(X) \cap Mask(12), 20) = Slice(X, 20, 31)
        BY IPieces
      <4>3. /\ EncodedAs("OpImmediate") = Slice(X, 0, 6)
            /\ ShiftedLeft(i.destination, 7) = Slice(X, 7, 11)
            /\ ShiftedLeft(i.function3, 12) = Slice(X, 12, 14)
            /\ ShiftedLeft(i.source1, 15) = Slice(X, 15, 19)
        BY <2>2, <3>2, FieldSlices
      <4>. QED
        BY <3>1, <4>1, <4>2, <4>3, Zenon DEF encode_immediate_operation
    <3>. QED
      <4>1. \A b \in Bits : b \in 20 .. 31 \/ b \in 15 .. 19 \/ b \in 12 .. 14 \/ b \in 7 .. 11
                              \/ b \in 0 .. 6
        BY DEF Bits
      <4>2. e \subseteq X
        BY <3>3, Zenon DEF Slice
      <4>3. \A b \in Bits : b \in X => b \in e
        BY <3>3, <4>1, Zenon DEF Slice
      <4>. QED
        BY <4>2, <4>3, Zenon DEF RawWord
  <2>3. CASE i.opcode = "Op"
    <3>1. e = encode_register_operation(i.destination, i.function3, i.source1, i.source2,
                                        i.function7)
      BY <2>3, EncodersAre
    <3>2. i.format = "R"
      BY <2>1, <2>3, FormatsAre
    <3>3. e = Slice(X, 25, 31) \cup Slice(X, 20, 24) \cup Slice(X, 15, 19)
                \cup Slice(X, 12, 14) \cup Slice(X, 7, 11) \cup Slice(X, 0, 6)
      <4>1. /\ EncodedAs("Op") = Slice(X, 0, 6)
            /\ ShiftedLeft(i.destination, 7) = Slice(X, 7, 11)
            /\ ShiftedLeft(i.function3, 12) = Slice(X, 12, 14)
            /\ ShiftedLeft(i.source1, 15) = Slice(X, 15, 19)
            /\ ShiftedLeft(i.source2, 20) = Slice(X, 20, 24)
            /\ ShiftedLeft(i.function7, 25) = Slice(X, 25, 31)
        BY <2>3, <3>2, FieldSlices
      <4>. QED
        BY <3>1, <4>1, Zenon DEF encode_register_operation
    <3>. QED
      <4>1. \A b \in Bits : b \in 25 .. 31 \/ b \in 20 .. 24 \/ b \in 15 .. 19 \/ b \in 12 .. 14
                              \/ b \in 7 .. 11 \/ b \in 0 .. 6
        BY DEF Bits
      <4>2. e \subseteq X
        BY <3>3, Zenon DEF Slice
      <4>3. \A b \in Bits : b \in X => b \in e
        BY <3>3, <4>1, Zenon DEF Slice
      <4>. QED
        BY <4>2, <4>3, Zenon DEF RawWord
  <2>4. CASE i.opcode = "Load"
    <3>1. i.function3 = BitsOf(2) /\ e = encode_load_word(i.destination, i.source1, i.immediate)
      BY <2>4, EncodersAre
    <3>2. i.format = "I"
      BY <2>1, <2>4, FormatsAre
    <3>3. e = Slice(X, 20, 31) \cup Slice(X, 15, 19) \cup Slice(X, 12, 14)
                \cup Slice(X, 7, 11) \cup Slice(X, 0, 6)
      <4>1. i.immediate = IImmediate(X)
        BY <3>2, ImmediateOfFormat
      <4>2. ShiftedLeft(IImmediate(X) \cap Mask(12), 20) = Slice(X, 20, 31)
        BY IPieces
      <4>3. /\ EncodedAs("Load") = Slice(X, 0, 6)
            /\ ShiftedLeft(i.destination, 7) = Slice(X, 7, 11)
            /\ ShiftedLeft(BitsOf(2), 12) = Slice(X, 12, 14)
            /\ ShiftedLeft(i.source1, 15) = Slice(X, 15, 19)
        BY <2>4, <3>1, <3>2, FieldSlices
      <4>. QED
        BY <3>1, <4>1, <4>2, <4>3, Zenon DEF encode_load_word
    <3>. QED
      <4>1. \A b \in Bits : b \in 20 .. 31 \/ b \in 15 .. 19 \/ b \in 12 .. 14 \/ b \in 7 .. 11
                              \/ b \in 0 .. 6
        BY DEF Bits
      <4>2. e \subseteq X
        BY <3>3, Zenon DEF Slice
      <4>3. \A b \in Bits : b \in X => b \in e
        BY <3>3, <4>1, Zenon DEF Slice
      <4>. QED
        BY <4>2, <4>3, Zenon DEF RawWord
  <2>5. CASE i.opcode = "Store"
    <3>1. i.function3 = BitsOf(2) /\ e = encode_store_word(i.source1, i.source2, i.immediate)
      BY <2>5, EncodersAre
    <3>2. i.format = "S"
      BY <2>1, <2>5, FormatsAre
    <3>3. e = Slice(X, 25, 31) \cup Slice(X, 20, 24) \cup Slice(X, 15, 19)
                \cup Slice(X, 12, 14) \cup Slice(X, 7, 11) \cup Slice(X, 0, 6)
      <4>1. i.immediate = SImmediate(X)
        BY <3>2, ImmediateOfFormat
      <4>2. PICK bits : bits = SImmediate(X) \cap Mask(12)
        OBVIOUS
      <4>3. /\ ShiftedLeft(ShiftedRight(bits, 5), 25) = Slice(X, 25, 31)
            /\ ShiftedLeft(bits \cap Mask(5), 7) = Slice(X, 7, 11)
        BY <4>2, SPieces, Zenon
      <4>4. /\ EncodedAs("Store") = Slice(X, 0, 6)
            /\ ShiftedLeft(i.source2, 20) = Slice(X, 20, 24)
            /\ ShiftedLeft(i.source1, 15) = Slice(X, 15, 19)
            /\ ShiftedLeft(BitsOf(2), 12) = Slice(X, 12, 14)
        BY <2>5, <3>1, <3>2, FieldSlices
      <4>. QED
        BY <3>1, <4>1, <4>2, <4>3, <4>4, Zenon DEF encode_store_word
    <3>. QED
      <4>1. \A b \in Bits : b \in 25 .. 31 \/ b \in 20 .. 24 \/ b \in 15 .. 19 \/ b \in 12 .. 14
                              \/ b \in 7 .. 11 \/ b \in 0 .. 6
        BY DEF Bits
      <4>2. e \subseteq X
        BY <3>3, Zenon DEF Slice
      <4>3. \A b \in Bits : b \in X => b \in e
        BY <3>3, <4>1, Zenon DEF Slice
      <4>. QED
        BY <4>2, <4>3, Zenon DEF RawWord
  <2>6. CASE i.opcode = "Branch"
    <3>1. e = encode_branch(i.function3, i.source1, i.source2, i.immediate)
      BY <2>6, EncodersAre
    <3>2. i.format = "B"
      BY <2>1, <2>6, FormatsAre
    <3>3. e = Slice(X, 31, 31) \cup Slice(X, 25, 30) \cup Slice(X, 20, 24)
                \cup Slice(X, 15, 19) \cup Slice(X, 12, 14) \cup Slice(X, 8, 11)
                \cup Slice(X, 7, 7) \cup Slice(X, 0, 6)
      <4>1. i.immediate = BImmediate(X)
        BY <3>2, ImmediateOfFormat
      <4>2. PICK bits : bits = BImmediate(X) \cap Mask(13)
        OBVIOUS
      <4>3. /\ ShiftedLeft(ShiftedRight(bits, 12) \cap Mask(1), 31) = Slice(X, 31, 31)
            /\ ShiftedLeft(ShiftedRight(bits, 5) \cap Mask(6), 25) = Slice(X, 25, 30)
            /\ ShiftedLeft(ShiftedRight(bits, 1) \cap Mask(4), 8) = Slice(X, 8, 11)
            /\ ShiftedLeft(ShiftedRight(bits, 11) \cap Mask(1), 7) = Slice(X, 7, 7)
        BY <4>2, BPieces, Zenon
      <4>4. /\ EncodedAs("Branch") = Slice(X, 0, 6)
            /\ ShiftedLeft(i.source2, 20) = Slice(X, 20, 24)
            /\ ShiftedLeft(i.source1, 15) = Slice(X, 15, 19)
            /\ ShiftedLeft(i.function3, 12) = Slice(X, 12, 14)
        BY <2>6, <3>1, <3>2, FieldSlices
      <4>. QED
        BY <3>1, <4>1, <4>2, <4>3, <4>4, Zenon DEF encode_branch
    <3>. QED
      <4>1. \A b \in Bits : b \in 31 .. 31 \/ b \in 25 .. 30 \/ b \in 20 .. 24 \/ b \in 15 .. 19
                              \/ b \in 12 .. 14 \/ b \in 8 .. 11 \/ b \in 7 .. 7 \/ b \in 0 .. 6
        BY DEF Bits
      <4>2. e \subseteq X
        BY <3>3, Zenon DEF Slice
      <4>3. \A b \in Bits : b \in X => b \in e
        BY <3>3, <4>1, Zenon DEF Slice
      <4>. QED
        BY <4>2, <4>3, Zenon DEF RawWord
  <2>7. CASE i.opcode = "Jal"
    <3>1. i.destination = {} /\ e = encode_jump(i.immediate)
      BY <2>7, EncodersAre
    <3>2. i.format = "J"
      BY <2>1, <2>7, FormatsAre
    <3>3. e = Slice(X, 31, 31) \cup Slice(X, 21, 30) \cup Slice(X, 20, 20)
                \cup Slice(X, 12, 19) \cup Slice(X, 0, 6)
      <4>1. i.immediate = JImmediate(X)
        BY <3>2, ImmediateOfFormat
      <4>2. PICK bits : bits = JImmediate(X) \cap Mask(21)
        OBVIOUS
      <4>3. /\ ShiftedLeft(ShiftedRight(bits, 20) \cap Mask(1), 31) = Slice(X, 31, 31)
            /\ ShiftedLeft(ShiftedRight(bits, 1) \cap Mask(10), 21) = Slice(X, 21, 30)
            /\ ShiftedLeft(ShiftedRight(bits, 11) \cap Mask(1), 20) = Slice(X, 20, 20)
            /\ ShiftedLeft(ShiftedRight(bits, 12) \cap Mask(8), 12) = Slice(X, 12, 19)
        BY <4>2, JPieces, Zenon
      <4>4. /\ EncodedAs("Jal") = Slice(X, 0, 6)
        BY <2>7, <3>1, <3>2, FieldSlices
      <4>. QED
        BY <3>1, <4>1, <4>2, <4>3, <4>4, Zenon DEF encode_jump
    <3>4. Slice(X, 7, 11) = {}
      <4>1. ShiftedLeft({}, 7) = Slice(X, 7, 11)
        BY <3>1, <3>2, FieldSlices
      <4>. QED
        BY <4>1 DEF ShiftedLeft
    <3>. QED
      <4>1. \A b \in Bits : b \in 31 .. 31 \/ b \in 21 .. 30 \/ b \in 20 .. 20 \/ b \in 12 .. 19
                              \/ b \in 0 .. 6 \/ b \in 7 .. 11
        BY DEF Bits
      <4>2. e \subseteq X
        BY <3>3, <3>4, Zenon DEF Slice
      <4>3. \A b \in Bits : b \in X => b \in e
        BY <3>3, <3>4, <4>1, Zenon DEF Slice
      <4>. QED
        BY <4>2, <4>3, Zenon DEF RawWord
  <2>8. CASE i.opcode = "Lui"
    <3>1. e = encode_lui(i.destination, i.immediate)
      BY <2>8, EncodersAre
    <3>2. i.format = "U"
      BY <2>1, <2>8, FormatsAre
    <3>3. UImmediate(X) \ Mask(12) = Slice(X, 12, 31)
      <4>1. \A b \in Bits : b \in 12 .. 31 <=> b \notin 0 .. (12 - 1)
        BY DEF Bits
      <4>2. X \subseteq Bits
        BY DEF RawWord
      <4>. QED
        BY <4>1, <4>2, Zenon DEF UImmediate, Mask, Slice
    <3>4. e = Slice(X, 12, 31) \cup Slice(X, 7, 11) \cup Slice(X, 0, 6)
      <4>1. i.immediate = UImmediate(X)
        BY <3>2, ImmediateOfFormat
      <4>2. /\ EncodedAs("Lui") = Slice(X, 0, 6)
            /\ ShiftedLeft(i.destination, 7) = Slice(X, 7, 11)
        BY <2>8, <3>2, FieldSlices
      <4>. QED
        BY <3>1, <3>3, <4>1, <4>2, Zenon DEF encode_lui
    <3>. QED
      <4>1. \A b \in Bits : b \in 12 .. 31 \/ b \in 7 .. 11 \/ b \in 0 .. 6
        BY DEF Bits
      <4>2. e \subseteq X
        BY <3>4, Zenon DEF Slice
      <4>3. \A b \in Bits : b \in X => b \in e
        BY <3>4, <4>1, Zenon DEF Slice
      <4>. QED
        BY <4>2, <4>3, Zenon DEF RawWord
  <2>. QED
    BY <2>2, <2>3, <2>4, <2>5, <2>6, <2>7, <2>8, EncodersAre
<1>2. DecoderTyped => EncodersInvertDecoder
  BY <1>1 DEF DecoderTyped, EncodersInvertDecoder
<1>. QED
  BY <1>2, DecoderTypedHolds, PTL

==============================================================================
