\* The statuses the repository's README gives for the test runner.
SPECIFICATION MCHostedSpec
CONSTANTS
    ByteValues = 4
    WordBits = 8
    BitAnd <- MCBitAnd
    BitOr <- MCBitOr
    BitXor <- MCBitXor
    BaseAddress = 194
    SizeBytes = 62
    RegisterCount = 10
    Decode <- MCDecode
    kEcallInstruction = 1
    kEbreakInstruction = 2
    kMaximumWriteSize = 4
    ThrowingStreams = {2}
    kReturnValueRegister = 3
    kEnvironmentCallNumberRegister = 9
    Images <- MCImages
    Options <- MCOptions
    FillByte = 2
    kElf32HeaderSize = 52
    kElf32ProgramHeaderSize = 32
    kStackAlignment = 16
    kStackPointerRegister = 2
INVARIANT
    RunnerStatusDocumented
