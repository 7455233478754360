\* Every configuration with up to 33 entries; two branches that share an entry
\* of a small table and one that does not.
\* A rejected configuration has no predictor and no step.
SPECIFICATION PredictorSpec
CHECK_DEADLOCK FALSE
CONSTANTS
    ByteValues = 4
    WordBits = 8
    BitAnd <- MCBitAnd
    BitOr <- MCBitOr
    BitXor <- MCBitXor
    PredictorConfigurations <- AllConfigurations
    BranchAddresses = {0, 4, 248}
    MaxObservations = 3
INVARIANTS
    PredictionFollowsHistory
PROPERTIES
    ErrorDriven
