\* A region in the middle of the address space whose last two bytes are not a
\* whole word, so that a fetch, a load or a store can be partly mapped.
SPECIFICATION MCSpec
CONSTANTS
    ByteValues = 4
    WordBits = 8
    BitAnd <- MCBitAnd
    BitOr <- MCBitOr
    BitXor <- MCBitXor
    BaseAddress = 240
    SizeBytes = 10
    RegisterCount = 3
    Decode <- MCDecode
    kEcallInstruction = 31
    kEbreakInstruction = 32
    InitialX1 = {239, 240, 244, 247, 248, 250}
    InitialX2 = {27, 244}
    StartAddresses = {240, 242}
    ProgramWords <- AllWords
INVARIANTS
    TypeOK
    OneLinePerAccess
    StoresReadBack
PROPERTIES
    PreciseSteps
    ControlFlowObserved
    AlignmentKept
