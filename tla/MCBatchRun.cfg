\* Both environments, and every three-word program that starts with a call or
\* sets a0; write sizes around the clamp (4) and around the end of memory.
SPECIFICATION MCBatchSpec
CONSTANTS
    ByteValues = 4
    WordBits = 8
    BitAnd <- MCBitAnd
    BitOr <- MCBitOr
    BitXor <- MCBitXor
    BaseAddress = 240
    SizeBytes = 14
    RegisterCount = 8
    Decode <- MCDecode
    kEcallInstruction = 1
    kEbreakInstruction = 2
    kMaximumWriteSize = 4
    ThrowingStreams = {2}
    kReturnValueRegister = 1
    kEnvironmentCallNumberRegister = 7
    Limit = 5
    Instructions <- AllInstructions
    A0Values = {1, 2, 5}
    A1Values = {239, 244, 251}
    A2Values = {0, 2, 3, 200}
    A7Values = {64, 93, 10}
INVARIANTS
    BatchTypeOK
    StrictLimit
PROPERTIES
    EnvironmentConfined
    OutputAccounted
