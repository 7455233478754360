\* All words that differ in at most three bits from an opcode whose other bits
\* are all 0 or all 1.
SPECIFICATION DecoderSpec
CONSTANT MaximumFlips = 3
INVARIANTS
    EncodersInvertDecoder
    DecodesAsManual
