---------------------------- MODULE WordTheorems ----------------------------
(***************************************************************************)
(* Facts about Words and Alu, for every byte width: the sizes of the word  *)
(* types, closure of the wrapping operators, and closure of every          *)
(* arithmetic function of the engine.                                      *)
(***************************************************************************)
EXTENDS Alu, TLAPS, WellFoundedInduction, FiniteSetTheorems

(***************************************************************************)
(* A word type has a positive number of values; a word is made of whole    *)
(* 4-byte steps (the address space wraps on a word boundary).              *)
(***************************************************************************)
LEMMA WordSizes ==
    /\ ByteValues \in Nat \ {0}
    /\ HalfwordValues \in Nat \ {0}
    /\ WordValues \in Nat \ {0}
    /\ HalfwordValues % 2 = 0
    /\ WordValues % 2 = 0
    /\ WordValues % 4 = 0
    /\ ByteValues <= HalfwordValues
    /\ HalfwordValues <= WordValues
<1>1. ByteValues \in Nat \ {0} /\ ByteValues % 2 = 0
  BY ByteAssumption
<1>2. PICK k \in Nat : ByteValues = 2 * k
  <2>1. /\ ByteValues \div 2 \in Nat
        /\ ByteValues = 2 * (ByteValues \div 2)
    BY <1>1
  <2>. QED
    BY <2>1
<1>3. k > 0
  BY <1>1, <1>2
<1>4. /\ HalfwordValues \in Nat \ {0}
      /\ HalfwordValues = 2 * (k * ByteValues)
      /\ ByteValues <= HalfwordValues
  BY <1>1, <1>2, <1>3 DEF HalfwordValues
<1>5. k * ByteValues \in Nat
  BY <1>1
<1>6. HalfwordValues % 2 = 0
  BY <1>4, <1>5
<1>7. HalfwordValues = 4 * (k * k)
  BY <1>2, <1>4
<1>8. PICK m \in Nat : HalfwordValues = 4 * m
  BY <1>7
<1>9. /\ WordValues \in Nat \ {0}
      /\ WordValues = 4 * (m * HalfwordValues)
      /\ HalfwordValues <= WordValues
  BY <1>4, <1>8 DEF WordValues
<1>10. m * HalfwordValues \in Nat
  BY <1>4
<1>11. WordValues % 4 = 0 /\ WordValues % 2 = 0
  BY <1>9, <1>10
<1>. QED
  BY <1>1, <1>4, <1>6, <1>9, <1>11

(***************************************************************************)
(* The constants that are words.                                           *)
(***************************************************************************)
LEMMA WordConstants ==
    /\ 0 \in Word
    /\ 1 \in Word
    /\ MaxWord \in Word
    /\ SignBit \in Word
    /\ WordValues = 2 * SignBit
BY WordSizes DEF Word, MaxWord, SignBit

(***************************************************************************)
(* The wrapping operators return words.                                    *)
(***************************************************************************)
LEMMA WrapClosed ==
    ASSUME NEW i \in Int
    PROVE  i % WordValues \in Word
BY WordSizes DEF Word

LEMMA AddClosed ==
    ASSUME NEW v \in Int, NEW w \in Int
    PROVE  WrapAdd(v, w) \in Word /\ WrapSub(v, w) \in Word
<1>1. v + w \in Int /\ v - w \in Int
  OBVIOUS
<1>. QED
  BY <1>1, WrapClosed DEF WrapAdd, WrapSub

LEMMA WordInt == Word \subseteq Nat /\ Byte \subseteq Nat /\ Halfword \subseteq Nat
BY DEF Word, Byte, Halfword

LEMMA WordIsInt ==
    ASSUME NEW w \in Word
    PROVE  w \in Int /\ w \in Nat
BY WordInt

(***************************************************************************)
(* A non-empty set of natural numbers has a least element, which is how    *)
(* the proofs reason by induction: the least counterexample is absurd.     *)
(***************************************************************************)
LEMMA LeastNatural ==
    ASSUME NEW S \in SUBSET Nat, S # {}
    PROVE  \E m \in S : \A n \in S : m <= n
<1>1. PICK m \in S : \A n \in S : <<n, m>> \notin OpToRel(<, Nat)
  BY NatLessThanWellFounded, WFMin
<1>2. ASSUME NEW n \in S
      PROVE  m <= n
  <2>1. <<n, m>> \notin OpToRel(<, Nat)
    BY <1>1
  <2>. QED
    BY <2>1 DEF OpToRel
<1>. QED
  BY <1>2

(***************************************************************************)
(* Dividing a natural number by a positive one does not increase it.       *)
(***************************************************************************)
LEMMA DivBound ==
    ASSUME NEW v \in Nat, NEW d \in Nat \ {0}
    PROVE  v \div d \in 0 .. v
OBVIOUS

LEMMA ModBound ==
    ASSUME NEW v \in Nat, NEW d \in Nat \ {0}
    PROVE  v % d \in 0 .. v /\ v % d < d
OBVIOUS

(***************************************************************************)
(* Quotient and remainder are the only ones.                               *)
(***************************************************************************)
LEMMA ModUnique ==
    ASSUME NEW n \in Nat \ {0}, NEW k \in Nat, NEW x \in 0 .. (n - 1)
    PROVE  (n * k + x) % n = x /\ (n * k + x) \div n = k
<1>. DEFINE v == n * k + x
            q == v \div n
            r == v % n
<1>1. n * k \in Nat
  OBVIOUS
<1>2. v \in Nat /\ q \in Nat /\ r \in 0 .. (n - 1) /\ v = n * q + r
  BY <1>1
<1>. HIDE DEF v, q, r
<1>3. n * k + x = n * q + r
  BY <1>2 DEF v
<1>4. n * (k - q) = r - x
  BY <1>2, <1>3
<1>5. CASE k - q >= 1
  <2>1. n * (k - q) >= n
    BY <1>2, <1>5
  <2>. QED
    BY <1>2, <1>4, <2>1
<1>6. CASE k - q <= -1
  <2>1. n * (k - q) <= 0 - n
    BY <1>2, <1>6
  <2>. QED
    BY <1>2, <1>4, <2>1
<1>7. CASE k - q = 0
  <2>1. k = q /\ r = x
    BY <1>2, <1>4, <1>7
  <2>. QED
    BY <2>1 DEF v, r, q
<1>. QED
  BY <1>2, <1>5, <1>6, <1>7

(***************************************************************************)
(* Dividing twice is dividing by the product.                              *)
(***************************************************************************)
LEMMA DivDiv ==
    ASSUME NEW v \in Nat, NEW n \in Nat \ {0}, NEW m \in Nat \ {0}
    PROVE  (v \div n) \div m = v \div (n * m)
<1>. DEFINE q == v \div n
            low == v % n
            q2 == q \div m
            high == q % m
<1>1. q \in Nat /\ low \in 0 .. (n - 1) /\ v = n * q + low
  OBVIOUS
<1>2. q2 \in Nat /\ high \in 0 .. (m - 1) /\ q = m * q2 + high
  BY <1>1
<1>. HIDE DEF q, low, q2, high
<1>3. v = (n * m) * q2 + (n * high + low)
  <2>1. n * q = (n * m) * q2 + n * high
    BY <1>1, <1>2
  <2>. QED
    BY <1>1, <1>2, <2>1
<1>4. n * high + low \in 0 .. (n * m - 1) /\ n * m \in Nat \ {0}
  <2>1. n * high >= 0 /\ n * high <= n * (m - 1) /\ n * high \in Int
    BY <1>2
  <2>2. n * (m - 1) = n * m - n /\ n * m \in Nat \ {0}
    OBVIOUS
  <2>. QED
    BY <1>1, <2>1, <2>2
<1>5. v \div (n * m) = q2
  BY <1>2, <1>3, <1>4, ModUnique
<1>. QED
  BY <1>5 DEF q2, q

(***************************************************************************)
(* Powers of two, from the number of subsets of a finite set: a power is   *)
(* positive, and one more in the exponent doubles it.                      *)
(***************************************************************************)
LEMMA PowerIsCount ==
    ASSUME NEW s \in Nat
    PROVE  /\ IsFiniteSet(SUBSET (1 .. s))
           /\ Cardinality(SUBSET (1 .. s)) = 2^s
           /\ 2^s \in Nat \ {0}
<1>1. IsFiniteSet(1 .. s) /\ Cardinality(1 .. s) = s
  BY FS_Interval
<1>2. IsFiniteSet(SUBSET (1 .. s)) /\ Cardinality(SUBSET (1 .. s)) = 2^s
  <2>1. /\ IsFiniteSet(SUBSET (1 .. s))
        /\ Cardinality(SUBSET (1 .. s)) = 2^Cardinality(1 .. s)
    BY <1>1, FS_SUBSET
  <2>. QED
    BY <1>1, <2>1
<1>3. Cardinality(SUBSET (1 .. s)) \in Nat
  BY <1>2, FS_CardinalityType
<1>4. SUBSET (1 .. s) # {}
  OBVIOUS
<1>5. Cardinality(SUBSET (1 .. s)) # 0
  BY <1>2, <1>4, FS_EmptySet
<1>. QED
  BY <1>2, <1>3, <1>5

LEMMA PowerDoubles ==
    ASSUME NEW s \in Nat
    PROVE  2^(s + 1) = 2 * 2^s
<1>. DEFINE A == SUBSET (1 .. s)
            Add(X) == X \cup {s + 1}
            B == {Add(X) : X \in A}
            f == [X \in A |-> Add(X)]
<1>1. s + 1 \notin 1 .. s /\ 1 .. (s + 1) = (1 .. s) \cup {s + 1}
  OBVIOUS
<1>2. \A X \in A : s + 1 \notin X
  BY <1>1
<1>3. f \in Bijection(A, B)
  <2>1. f \in [A -> B]
    OBVIOUS
  <2>2. ASSUME NEW X \in A, NEW Y \in A, f[X] = f[Y]
        PROVE  X = Y
    <3>1. X = Add(X) \ {s + 1} /\ Y = Add(Y) \ {s + 1}
      BY <1>2
    <3>2. Add(X) = Add(Y)
      BY <2>2
    <3>. QED
      BY <3>1, <3>2
  <2>3. \A Z \in B : \E X \in A : f[X] = Z
    OBVIOUS
  <2>. HIDE DEF A, B, f
  <2>4. DOMAIN f = A
    BY <2>1
  <2>. QED
    BY <2>1, <2>2, <2>3, <2>4 DEF Bijection, Injection, Surjection, IsInjective
<1>4. IsFiniteSet(A) /\ Cardinality(A) = 2^s /\ 2^s \in Nat
  BY PowerIsCount
<1>5. IsFiniteSet(B) /\ Cardinality(B) = Cardinality(A)
  <2>. HIDE DEF A, B, f
  <2>1. ExistsBijection(A, B)
    BY <1>3 DEF ExistsBijection
  <2>. QED
    BY <1>4, <2>1, FS_Bijection
<1>6. A \cap B = {}
  <2>1. \A Z \in B : s + 1 \in Z
    OBVIOUS
  <2>. QED
    BY <1>2, <2>1
<1>7. SUBSET (1 .. (s + 1)) = A \cup B
  <2>1. ASSUME NEW Z \in SUBSET (1 .. (s + 1))
        PROVE  Z \in A \cup B
    <3>1. CASE s + 1 \in Z
      <4>1. Z \ {s + 1} \in A /\ Z = Add(Z \ {s + 1})
        BY <1>1, <3>1
      <4>. QED
        BY <4>1
    <3>2. CASE s + 1 \notin Z
      BY <1>1, <3>2
    <3>. QED
      BY <3>1, <3>2
  <2>2. ASSUME NEW X \in A
        PROVE  X \in SUBSET (1 .. (s + 1)) /\ Add(X) \in SUBSET (1 .. (s + 1))
    BY <1>1
  <2>3. \A X \in A : X \in SUBSET (1 .. (s + 1))
    BY <2>2
  <2>4. \A X \in B : X \in SUBSET (1 .. (s + 1))
    BY <2>2
  <2>. HIDE DEF A, B
  <2>. QED
    BY <2>1, <2>3, <2>4, Zenon
<1>8. Cardinality(SUBSET (1 .. (s + 1))) = 2^(s + 1)
  BY PowerIsCount
<1>9. Cardinality(A \cup B) = Cardinality(A) + Cardinality(B) - Cardinality(A \cap B)
  <2>. HIDE DEF A, B
  <2>. QED
    BY <1>4, <1>5, FS_Union
<1>10. Cardinality(A \cap B) = 0
  BY <1>6, FS_EmptySet
<1>11. PICK a, b, c : a = Cardinality(A) /\ b = Cardinality(B) /\ c = Cardinality(A \cap B)
  OBVIOUS
<1>12. a = 2^s /\ b = a /\ c = 0 /\ a \in Nat
  BY <1>4, <1>5, <1>10, <1>11
<1>13. 2^(s + 1) = a + b - c
  BY <1>7, <1>8, <1>9, <1>11, Zenon
<1>14. 2^(s + 1) = 2 * a
  BY <1>12, <1>13
<1>. QED
  BY <1>12, <1>14, Zenon

LEMMA WordDownwardClosed ==
    ASSUME NEW v \in Word, NEW n \in 0 .. v
    PROVE  n \in Word
BY WordSizes DEF Word

LEMMA ShiftClosed ==
    ASSUME NEW v \in Word, NEW amount \in 0 .. WordBits
    PROVE  ShiftLeft(v, amount) \in Word /\ ShiftRight(v, amount) \in Word
<1>1. 2^amount \in Nat \ {0}
  <2>1. amount \in Nat
    BY WordBitsAssumption
  <2>. QED
    BY <2>1, PowerIsCount
<1>2. v \in Nat
  BY WordInt
<1>3. v * 2^amount \in Int
  BY <1>1, <1>2
<1>4. ShiftLeft(v, amount) \in Word
  BY <1>3, WrapClosed DEF ShiftLeft
<1>5. v \div (2^amount) \in 0 .. v
  BY <1>1, <1>2, DivBound
<1>6. ShiftRight(v, amount) \in Word
  <2>1. v \div (2^amount) \in Word
    BY <1>5, WordDownwardClosed
  <2>. QED
    BY <2>1 DEF ShiftRight
<1>. QED
  BY <1>4, <1>6

LEMMA ShiftAmountBound ==
    ASSUME NEW v \in Word
    PROVE  ShiftAmount(v) \in 0 .. WordBits
BY WordBitsAssumption, WordInt DEF ShiftAmount

-----------------------------------------------------------------------------
(***************************************************************************)
(* Every arithmetic function of the engine maps words to words.            *)
(***************************************************************************)
LEMMA ArithmeticShiftClosed ==
    ASSUME NEW v \in Word, NEW amount \in 0 .. WordBits
    PROVE  arithmetic_shift_right(v, amount) \in Word
<1>1. WordBits - amount \in 0 .. WordBits
  BY WordBitsAssumption
<1>2. /\ ShiftRight(v, amount) \in Word
      /\ ShiftLeft(MaxWord, WordBits - amount) \in Word
  BY <1>1, WordConstants, ShiftClosed
<1>3. BitOr(ShiftRight(v, amount), ShiftLeft(MaxWord, WordBits - amount)) \in Word
  BY <1>2, BitOperatorsAssumption
<1>. QED
  BY <1>2, <1>3 DEF arithmetic_shift_right

LEMMA BoolWordClosed ==
    ASSUME NEW b
    PROVE  BoolWord(b) \in Word
BY WordConstants DEF BoolWord

LEMMA OpImmediateClosed ==
    ASSUME NEW source \in Word, NEW i, i.immediate \in Word
    PROVE  execute_op_immediate(i, source) \subseteq Word
<1>. DEFINE imm == i.immediate
            amount == ShiftAmount(imm)
<1>1. imm \in Word /\ imm \in Int /\ source \in Int
  <2>1. imm \in Word
    OBVIOUS
  <2>. HIDE DEF imm
  <2>. QED
    BY <2>1, WordIsInt
<1>2. amount \in 0 .. WordBits
  BY <1>1, ShiftAmountBound
<1>3. /\ WrapAdd(source, imm) \in Word
      /\ ShiftLeft(source, amount) \in Word
      /\ ShiftRight(source, amount) \in Word
      /\ arithmetic_shift_right(source, amount) \in Word
  BY <1>1, <1>2, AddClosed, ShiftClosed, ArithmeticShiftClosed
<1>4. /\ BitXor(source, imm) \in Word
      /\ BitOr(source, imm) \in Word
      /\ BitAnd(source, imm) \in Word
  BY <1>1, BitOperatorsAssumption
<1>5. /\ BoolWord(signed_less_than(source, imm)) \in Word
      /\ BoolWord(source < imm) \in Word
  BY BoolWordClosed
<1>. HIDE DEF amount
<1>. QED
  BY <1>3, <1>4, <1>5, Zenon DEF execute_op_immediate, Some, NullOpt, amount

(***************************************************************************)
(* Negation, magnitudes and division stay within a word, the overflow of   *)
(* the most negative word included.                                        *)
(***************************************************************************)
LEMMA SignClosed ==
    ASSUME NEW v \in Word, NEW b
    PROVE  signed_magnitude(v) \in Word /\ apply_sign(v, b) \in Word
<1>1. WrapSub(0, v) \in Word
  BY WordInt, AddClosed
<1>. QED
  BY <1>1 DEF signed_magnitude, apply_sign

LEMMA MagnitudePositive ==
    ASSUME NEW v \in Word, v # 0
    PROVE  signed_magnitude(v) \in Nat \ {0}
<1>1. CASE is_negative_word(v)
  <2>1. v \in 1 .. (WordValues - 1)
    BY WordSizes DEF Word
  <2>2. (0 - v) % WordValues = WordValues - v
    BY <2>1, WordSizes
  <2>. QED
    BY <1>1, <2>1, <2>2, WordSizes DEF signed_magnitude, WrapSub
<1>2. CASE ~ is_negative_word(v)
  BY <1>2, WordInt DEF signed_magnitude
<1>. QED
  BY <1>1, <1>2

LEMMA DivideClosed ==
    ASSUME NEW n \in Word, NEW d \in Word
    PROVE  /\ signed_divide(n, d).quotient \in Word
           /\ signed_divide(n, d).remainder \in Word
<1>1. CASE d = 0
  BY <1>1, WordConstants DEF signed_divide
<1>2. CASE d # 0
  <2>. DEFINE a == signed_magnitude(n)
              b == signed_magnitude(d)
  <2>1. a \in Word /\ a \in Nat /\ b \in Nat \ {0}
    BY <1>2, SignClosed, MagnitudePositive, WordInt
  <2>. HIDE DEF a, b
  <2>2. a \div b \in Word /\ a % b \in Word
    BY <2>1, DivBound, ModBound, WordDownwardClosed
  <2>3. \A s : apply_sign(a \div b, s) \in Word /\ apply_sign(a % b, s) \in Word
    BY <2>2, SignClosed
  <2>. QED
    BY <1>2, <2>3 DEF signed_divide, a, b
<1>. QED
  BY <1>1, <1>2

LEMMA UpperWordClosed ==
    ASSUME NEW p \in Int
    PROVE  UpperWord(p) \in Word
<1>1. p \div WordValues \in Int
  BY WordSizes
<1>. QED
  BY <1>1, WrapClosed DEF UpperWord

LEMMA ProductBits ==
    ASSUME NEW v \in Word, NEW w \in Word, NEW s
    PROVE  signed_product_bits(v, w, s) \in Int
<1>. DEFINE a == signed_magnitude(v)
            b == IF s THEN signed_magnitude(w) ELSE w
<1>1. a \in Int /\ b \in Int
  BY SignClosed, WordIsInt
<1>. HIDE DEF a, b
<1>2. a * b \in Int
  BY <1>1
<1>3. (0 - a * b) % (WordValues * WordValues) \in Int
  <2>1. WordValues * WordValues \in Nat \ {0}
    BY WordSizes
  <2>2. 0 - a * b \in Int
    BY <1>2
  <2>. QED
    BY <2>1, <2>2
<1>. QED
  BY <1>2, <1>3 DEF signed_product_bits, a, b

LEMMA MExtensionClosed ==
    ASSUME NEW i, NEW source1 \in Word, NEW source2 \in Word
    PROVE  execute_m_extension(i, source1, source2) \subseteq Word
<1>1. /\ source1 * source2 \in Int
      /\ (source1 * source2) % WordValues \in Word
  BY WordIsInt, WrapClosed
<1>2. /\ UpperWord(source1 * source2) \in Word
      /\ UpperWord(signed_product_bits(source1, source2, TRUE)) \in Word
      /\ UpperWord(signed_product_bits(source1, source2, FALSE)) \in Word
  BY <1>1, ProductBits, UpperWordClosed
<1>3. /\ signed_divide(source1, source2).quotient \in Word
      /\ signed_divide(source1, source2).remainder \in Word
  BY DivideClosed
<1>4. /\ (IF source2 = 0 THEN MaxWord ELSE source1 \div source2) \in Word
      /\ (IF source2 = 0 THEN source1 ELSE source1 % source2) \in Word
  <2>1. CASE source2 = 0
    BY <2>1, WordConstants
  <2>2. CASE source2 # 0
    <3>1. source1 \in Nat /\ source2 \in Nat \ {0}
      BY <2>2, WordIsInt
    <3>. QED
      BY <2>2, <3>1, DivBound, ModBound, WordDownwardClosed
  <2>. QED
    BY <2>1, <2>2
<1>. QED
  BY <1>1, <1>2, <1>3, <1>4, Zenon DEF execute_m_extension, Some, NullOpt

LEMMA OpClosed ==
    ASSUME NEW i, NEW source1 \in Word, NEW source2 \in Word
    PROVE  execute_op(i, source1, source2) \subseteq Word
<1>. DEFINE amount == ShiftAmount(source2)
<1>1. source1 \in Int /\ source2 \in Int
  BY WordIsInt
<1>2. amount \in 0 .. WordBits
  BY ShiftAmountBound
<1>3. /\ WrapAdd(source1, source2) \in Word
      /\ WrapSub(source1, source2) \in Word
      /\ ShiftLeft(source1, amount) \in Word
      /\ ShiftRight(source1, amount) \in Word
      /\ arithmetic_shift_right(source1, amount) \in Word
  BY <1>1, <1>2, AddClosed, ShiftClosed, ArithmeticShiftClosed
<1>4. /\ BitXor(source1, source2) \in Word
      /\ BitOr(source1, source2) \in Word
      /\ BitAnd(source1, source2) \in Word
  BY BitOperatorsAssumption
<1>5. /\ BoolWord(signed_less_than(source1, source2)) \in Word
      /\ BoolWord(source1 < source2) \in Word
  BY BoolWordClosed
<1>. HIDE DEF amount
<1>6. \A f : execute_base_op(f, source1, source2) \subseteq Word
  BY <1>3, <1>4, <1>5, Zenon DEF execute_base_op, Some, NullOpt, amount
<1>7. \A f : execute_alternate_op(f, source1, source2) \subseteq Word
  BY <1>3, Zenon DEF execute_alternate_op, Some, NullOpt, amount
<1>8. execute_m_extension(i, source1, source2) \subseteq Word
  BY MExtensionClosed
<1>. QED
  BY <1>6, <1>7, <1>8, Zenon DEF execute_op, NullOpt

LEMMA SignExtendClosed ==
    /\ \A b \in Byte : sign_extend_byte(b) \in Word
    /\ \A h \in Halfword : sign_extend_halfword(h) \in Word
BY WordSizes DEF sign_extend_byte, sign_extend_halfword, Byte, Halfword, Word

-----------------------------------------------------------------------------
(***************************************************************************)
(* signed_less_than orders words as the signed integers they stand for, at *)
(* every word width.                                                       *)
(***************************************************************************)
THEOREM SignedLessThan ==
    ASSUME NEW left \in Word, NEW right \in Word
    PROVE  signed_less_than(left, right) <=> Signed(left) < Signed(right)
<1>1. ASSUME NEW w \in Word
      PROVE  FlipSign(w) = Signed(w) + SignBit
  <2>1. /\ WordValues = 2 * SignBit /\ SignBit \in Nat \ {0}
        /\ w \in 0 .. (2 * SignBit - 1)
    BY WordConstants, WordSizes DEF Word
  <2>2. CASE w < SignBit
    BY <2>1, <2>2 DEF FlipSign, WrapAdd, Signed
  <2>3. CASE ~ (w < SignBit)
    <3>1. (w + SignBit) % (2 * SignBit) = w + SignBit - 2 * SignBit
      BY <2>1, <2>3
    <3>. QED
      BY <2>1, <2>3, <3>1 DEF FlipSign, WrapAdd, Signed
  <2>. QED
    BY <2>2, <2>3
<1>2. Signed(left) \in Int /\ Signed(right) \in Int /\ SignBit \in Int
  BY WordSizes, WordIsInt, WordConstants DEF Signed
<1>. QED
  BY <1>1, <1>2 DEF signed_less_than
-----------------------------------------------------------------------------
(***************************************************************************)
(* The host's & on any unsigned type, from the bit-by-bit assumption: what *)
(* the test for a power of two and the mask of a table index mean.         *)
(***************************************************************************)
LEMMA AndHalves ==
    ASSUME NEW max \in Nat, IsBitAnd(max), NEW v \in 0 .. max, NEW w \in 0 .. max
    PROVE  /\ BitAnd(v, w) \in Nat
           /\ BitAnd(v \div 2, w \div 2) \in Nat
           /\ BitAnd(v, w) = 2 * BitAnd(v \div 2, w \div 2) + (v % 2) * (w % 2)
<1>1. v \div 2 \in 0 .. max /\ w \div 2 \in 0 .. max
  OBVIOUS
<1>. QED
  BY <1>1 DEF IsBitAnd

LEMMA AndSelf ==
    ASSUME NEW max \in Nat, IsBitAnd(max), NEW v \in 0 .. max
    PROVE  BitAnd(v, v) = v
<1>. DEFINE S == {n \in 0 .. max : BitAnd(n, n) # n}
<1>1. SUFFICES ASSUME S # {} PROVE FALSE
  OBVIOUS
<1>2. PICK n \in S : \A k \in S : n <= k
  <2>1. S \in SUBSET Nat
    OBVIOUS
  <2>. HIDE DEF S
  <2>. QED
    BY <1>1, <2>1, LeastNatural
<1>3. PICK h : h = n \div 2
  OBVIOUS
<1>4. PICK b : b = n % 2
  OBVIOUS
<1>5. /\ n \in 0 .. max /\ h \in 0 .. max /\ b \in {0, 1} /\ n = 2 * h + b
      /\ BitAnd(n, n) # n
  BY <1>3, <1>4
<1>6. BitAnd(n, n) = 2 * BitAnd(h, h) + b * b /\ BitAnd(n, n) \in Nat
      /\ BitAnd(h, h) \in Nat
  BY <1>3, <1>4, <1>5, AndHalves
<1>7. b * b = b
  BY <1>5
<1>8. CASE n = 0
  <2>1. h = n /\ b = 0
    BY <1>5, <1>8
  <2>. QED
    BY <1>5, <1>6, <1>7, <1>8, <2>1
<1>9. CASE n # 0
  <2>1. h < n
    BY <1>5, <1>9
  <2>2. h \notin S
    BY <1>2, <1>5, <2>1
  <2>3. BitAnd(h, h) = h
    BY <1>5, <2>2
  <2>. QED
    BY <1>5, <1>6, <1>7, <2>3
<1>. QED
  BY <1>8, <1>9

LEMMA AndZero ==
    ASSUME NEW max \in Nat, IsBitAnd(max), NEW v \in 0 .. max
    PROVE  BitAnd(v, 0) = 0
<1>. DEFINE S == {n \in 0 .. max : BitAnd(n, 0) # 0}
<1>1. SUFFICES ASSUME S # {} PROVE FALSE
  OBVIOUS
<1>2. PICK n \in S : \A k \in S : n <= k
  <2>1. S \in SUBSET Nat
    OBVIOUS
  <2>. HIDE DEF S
  <2>. QED
    BY <1>1, <2>1, LeastNatural
<1>3. PICK h : h = n \div 2
  OBVIOUS
<1>5. /\ n \in 0 .. max /\ h \in 0 .. max /\ (n = 0 => h = 0) /\ (n # 0 => h < n)
      /\ BitAnd(n, 0) # 0 /\ 0 \in 0 .. max /\ 0 \div 2 = 0 /\ 0 % 2 = 0
      /\ n % 2 \in Int
  BY <1>3
<1>6. /\ BitAnd(n, 0) = 2 * BitAnd(h, 0) + (n % 2) * 0
      /\ BitAnd(n, 0) \in Nat /\ BitAnd(h, 0) \in Nat
  BY <1>3, <1>5, AndHalves, ZenonT(40)
<1>7. BitAnd(n, 0) = 2 * BitAnd(h, 0)
  BY <1>5, <1>6
<1>8. CASE n = 0
  BY <1>5, <1>6, <1>7, <1>8
<1>9. CASE n # 0
  <2>1. BitAnd(h, 0) = 0
    BY <1>2, <1>5, <1>9
  <2>. QED
    BY <1>5, <1>7, <2>1
<1>. QED
  BY <1>8, <1>9

(***************************************************************************)
(* A power of two other than 1 is twice a power of two.                    *)
(***************************************************************************)
LEMMA PowerHalves ==
    ASSUME NEW max \in Nat, IsBitAnd(max), NEW t \in 2 .. max, is_power_of_two(t)
    PROVE  t % 2 = 0 /\ is_power_of_two(t \div 2)
<1>1. PICK h : h = t \div 2
  OBVIOUS
<1>2. /\ h \in 1 .. max /\ t \in 0 .. max /\ t - 1 \in 0 .. max
      /\ t % 2 \in {0, 1} /\ t = 2 * h + (t % 2)
  <2>1. t \in Nat /\ t >= 2 /\ t <= max
    OBVIOUS
  <2>2. h \in Nat /\ t = 2 * h + (t % 2)
    BY <1>1, <2>1
  <2>3. t % 2 \in {0, 1}
    BY <2>1
  <2>. QED
    BY <2>1, <2>2, <2>3
<1>3. /\ BitAnd(t, t - 1) = 0
      /\ BitAnd(t, t - 1) = 2 * BitAnd(h, (t - 1) \div 2) + (t % 2) * ((t - 1) % 2)
      /\ BitAnd(h, (t - 1) \div 2) \in Nat
  <2>1. BitAnd(t, t - 1) = 0
    BY DEF is_power_of_two
  <2>. QED
    BY <1>1, <1>2, <2>1, AndHalves
<1>4. CASE t % 2 = 1
  <2>1. (t - 1) \div 2 = h /\ (t - 1) % 2 = 0
    BY <1>2, <1>4
  <2>2. BitAnd(h, h) = h
    BY <1>2, AndSelf
  <2>3. 2 * h + (t % 2) * 0 = 0
    BY <1>3, <2>1, <2>2
  <2>. QED
    BY <1>2, <2>3
<1>5. CASE t % 2 = 0
  <2>1. (t - 1) \div 2 = h - 1 /\ (t - 1) % 2 = 1
    BY <1>2, <1>5
  <2>2. 2 * BitAnd(h, h - 1) + 0 * 1 = 0 /\ BitAnd(h, h - 1) \in Nat
    BY <1>3, <1>5, <2>1
  <2>3. BitAnd(h, h - 1) = 0 /\ h # 0
    BY <1>2, <2>2
  <2>. QED
    BY <1>1, <1>5, <2>3 DEF is_power_of_two
<1>. QED
  BY <1>2, <1>4, <1>5

LEMMA PowerOfTwoIsWords ==
    ASSUME NEW max \in Nat, IsBitAnd(max), NEW t \in 4 .. max, is_power_of_two(t)
    PROVE  t % 4 = 0
<1>1. PICK h : h = t \div 2
  OBVIOUS
<1>2. t % 2 = 0 /\ is_power_of_two(h)
  BY <1>1, PowerHalves
<1>3. h \in 2 .. max /\ t = 2 * h
  BY <1>1, <1>2
<1>4. h % 2 = 0
  BY <1>2, <1>3, PowerHalves
<1>. QED
  BY <1>3, <1>4

(***************************************************************************)
(* Masking with a power of two minus one is the remainder.                 *)
(***************************************************************************)
LEMMA MaskIsRemainder ==
    ASSUME NEW max \in Nat, IsBitAnd(max), NEW t \in 1 .. max, is_power_of_two(t),
           NEW v \in 0 .. max
    PROVE  BitAnd(v, t - 1) = v % t
<1>. DEFINE S == {n \in 1 .. max : /\ is_power_of_two(n)
                                   /\ \E w \in 0 .. max : BitAnd(w, n - 1) # w % n}
<1>1. SUFFICES ASSUME S # {} PROVE FALSE
  OBVIOUS
<1>2. PICK n \in S : \A k \in S : n <= k
  <2>1. S \in SUBSET Nat
    OBVIOUS
  <2>. HIDE DEF S
  <2>. QED
    BY <1>1, <2>1, LeastNatural
<1>3. PICK w \in 0 .. max : BitAnd(w, n - 1) # w % n
  OBVIOUS
<1>4. CASE n = 1
  <2>1. BitAnd(w, 0) = 0 /\ w % 1 = 0
    BY AndZero
  <2>. QED
    BY <1>3, <1>4, <2>1
<1>5. CASE n # 1
  <2>1. PICK h : h = n \div 2
    OBVIOUS
  <2>2. n \in 2 .. max /\ is_power_of_two(n)
    BY <1>5
  <2>3. n % 2 = 0 /\ is_power_of_two(h)
    BY <2>1, <2>2, PowerHalves
  <2>4. /\ h \in 1 .. max /\ n = 2 * h /\ h < n
        /\ n - 1 \in 0 .. max /\ (n - 1) \div 2 = h - 1 /\ (n - 1) % 2 = 1
    BY <2>1, <2>2, <2>3
  <2>5. PICK u, b : u = w \div 2 /\ b = w % 2
    OBVIOUS
  <2>6. u \in 0 .. max /\ b \in {0, 1} /\ w = 2 * u + b
    BY <2>5
  <2>7. BitAnd(u, h - 1) = u % h
    <3>1. h \notin S
      BY <1>2, <2>4
    <3>. QED
      BY <2>3, <2>4, <2>6, <3>1
  <2>8. BitAnd(w, n - 1) = 2 * BitAnd(u, h - 1) + b * 1
    BY <2>4, <2>5, AndHalves, ZenonT(40)
  <2>9. BitAnd(w, n - 1) = 2 * (u % h) + b
    BY <2>6, <2>7, <2>8
  <2>10. PICK q, r : q = u \div h /\ r = u % h
    OBVIOUS
  <2>11. q \in Nat /\ r \in 0 .. (h - 1) /\ u = h * q + r
    BY <2>4, <2>6, <2>10
  <2>12. w = n * q + (2 * r + b) /\ 2 * r + b \in 0 .. (n - 1)
    <3>1. n * q = 2 * (h * q) /\ h * q \in Nat
      BY <2>4, <2>11
    <3>. QED
      BY <2>4, <2>6, <2>11, <3>1
  <2>13. w % n = 2 * r + b
    BY <2>2, <2>11, <2>12, ModUnique
  <2>. QED
    BY <1>3, <2>9, <2>10, <2>13
<1>. QED
  BY <1>4, <1>5

=============================================================================
