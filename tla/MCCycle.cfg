\* All counts up to the maximum, with costs of zero, one, two and the maximum.
\* The counts stop at the maximum.
SPECIFICATION CycleSpec
CHECK_DEADLOCK FALSE
CONSTANTS
    ByteValues = 4
    WordBits = 8
    BitAnd <- MCBitAnd
    BitOr <- MCBitOr
    BitXor <- MCBitXor
    MaxCycles = 5
    Costs = {0, 1, 2, 5}
INVARIANTS
    EstimateExact
