\* All pairs of 8-bit operands.
SPECIFICATION Spec
CONSTANTS
    ByteValues = 4
    WordBits = 8
    BitAnd <- MCBitAnd
    BitOr <- MCBitOr
    BitXor <- MCBitXor
INVARIANTS
    SignedOrder
    ArithmeticShift
    ExactProduct
    SignedDivision
    TablesAgree
