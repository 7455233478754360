\* Three iterations, or up to twelve instructions between two resets.
SPECIFICATION MCBenchmarkSpec
CONSTANTS
    ByteValues = 4
    WordBits = 8
    BitAnd <- MCBitAnd
    BitOr <- MCBitOr
    BitXor <- MCBitXor
    BaseAddress = 192
    SizeBytes = 48
    RegisterCount = 6
    Decode <- MCDecode
    kEcallInstruction = 21
    kEbreakInstruction = 60
    MaxSize = 255
    MaxCycles = 100
    cache_configuration <- MCCaches
    branch_configuration <- MCBranches
    cycle_costs <- MCCosts
    MaxObserved = 12
    kDataBaseAddress = 224
    StrideBytes = 12
    BranchPeriod = 4
    InstructionLimits = {7, 30, 60}
    MaxIterations = 3
INVARIANTS
    CountersAgree
    IterationsAgree
PROPERTIES
    CyclesPriced
