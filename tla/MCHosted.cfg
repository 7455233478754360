\* Two program headers, of which every check can reject either, and the programs
\* that get through run to their exit status.
SPECIFICATION MCHostedSpec
CONSTANTS
    ByteValues = 4
    WordBits = 8
    BitAnd <- MCBitAnd
    BitOr <- MCBitOr
    BitXor <- MCBitXor
    BaseAddress = 194
    SizeBytes = 62
    RegisterCount = 10
    Decode <- MCDecode
    kEcallInstruction = 1
    kEbreakInstruction = 2
    kMaximumWriteSize = 4
    ThrowingStreams = {2}
    kReturnValueRegister = 3
    kEnvironmentCallNumberRegister = 9
    Images <- MCImages
    Options <- MCOptions
    FillByte = 2
    kElf32HeaderSize = 52
    kElf32ProgramHeaderSize = 32
    kStackAlignment = 16
    kStackPointerRegister = 2
INVARIANTS
    LoadIsAllOrNothing
    MemoryIsImage
    LoadIsReported
    StackIsReserved
    ExitStatusExplained
PROPERTIES
    HostedTerminates
