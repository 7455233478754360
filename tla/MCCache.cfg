\* Every configuration of a 5-bit std::size_t; two addresses of one block, and
\* blocks that share a set with it or do not, depending on the configuration.
\* A rejected configuration has no cache and no step.
SPECIFICATION CacheSpec
CHECK_DEADLOCK FALSE
CONSTANTS
    ByteValues = 4
    WordBits = 8
    BitAnd <- MCBitAnd
    BitOr <- MCBitOr
    BitXor <- MCBitXor
    MaxSize = 31
    Configurations <- AllConfigurations
    Addresses = {0, 3, 4, 12, 24, 252}
    MaxTrace = 5
INVARIANTS
    AcceptedGeometry
    MostRecentlyUsedFirst
    StatisticsOfTrace
