\* Five programs, breakpoints on any of the three words, and addresses
\* that are misaligned (246) or not wholly mapped (252).
SPECIFICATION MCDebuggerSpec
CONSTANTS
    ByteValues = 4
    WordBits = 8
    BitAnd <- MCBitAnd
    BitOr <- MCBitOr
    BitXor <- MCBitXor
    BaseAddress = 240
    SizeBytes = 14
    RegisterCount = 8
    Decode <- MCDecode
    kEcallInstruction = 1
    kEbreakInstruction = 2
    kMaximumWriteSize = 4
    ThrowingStreams = {2}
    kReturnValueRegister = 1
    kEnvironmentCallNumberRegister = 7
    maximum_guest_steps = 6
    CommandAddresses = {240, 244, 246, 248, 252}
    Programs <- MCProgramSet
INVARIANTS
    StopIsAtBreakpoint
    BreakpointsSorted
    CumulativeBudget
PROPERTIES
    RefinesBatchRun
    ContinueReturns
    ContinueProgresses
