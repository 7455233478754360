----------------------------- MODULE CacheModel -----------------------------
(***************************************************************************)
(* SetAssociativeCache: which accesses of a set-associative cache hit.     *)
(*                                                                         *)
(* A cache is a record of its lines and its statistics, and an operation   *)
(* is an operator from caches to caches, because the split model has two.  *)
(* As in the code the lines of all sets are one vector, the ways of a set  *)
(* are consecutive, and way 0 is the most recently used one.               *)
(***************************************************************************)
EXTENDS Words, FiniteSetsExt

CONSTANT MaxSize                   \* std::numeric_limits<std::size_t>::max()

ASSUME MaxSizeAssumption == MaxSize \in Nat /\ IsBitAnd(MaxSize)

\* The size of a set, as the std::size_t it is computed in.
SetCapacity(c) == (c.line_size_bytes * c.associativity) % (MaxSize + 1)

\* Mutant: lines shorter than a word are accepted.
LineTooSmall_zero(c) == c.line_size_bytes = 0

LineTooSmall(c) == c.line_size_bytes < 4

\* validate_configuration: the first check that fails.
CacheConfigurationError(c) ==
    IF c.capacity_bytes = 0 THEN Some("ZeroCapacity")
    ELSE IF LineTooSmall(c) THEN Some("LineSizeTooSmall")
    ELSE IF ~ is_power_of_two(c.line_size_bytes) THEN Some("LineSizeNotPowerOfTwo")
    ELSE IF c.associativity = 0 THEN Some("ZeroAssociativity")
    ELSE IF c.associativity > MaxSize \div c.line_size_bytes
    THEN Some("GeometryOverflow")
    ELSE IF c.capacity_bytes % SetCapacity(c) # 0 THEN Some("CapacityNotDivisible")
    ELSE NullOpt

set_count(c) == c.capacity_bytes \div SetCapacity(c)

-----------------------------------------------------------------------------
CacheLine(tag, valid) == [tag |-> tag, valid |-> valid]

ZeroCacheStatistics == [accesses |-> 0, hits |-> 0, misses |-> 0]

record_access(statistics, hit) ==
    [accesses |-> statistics.accesses + 1,
     hits |-> statistics.hits + (IF hit THEN 1 ELSE 0),
     misses |-> statistics.misses + (IF hit THEN 0 ELSE 1)]

\* A new cache, and one after reset().
EmptyCache(c) ==
    [lines |-> [k \in 0 .. (c.capacity_bytes \div c.line_size_bytes - 1) |->
                   CacheLine(0, FALSE)],
     statistics |-> ZeroCacheStatistics]

\* Mutant: reset() forgets the statistics and keeps the lines.
ResetCache_keepLines(c, cache) ==
    [cache EXCEPT !.statistics = ZeroCacheStatistics]

ResetCache(c, cache) == EmptyCache(c)

block_number(c, address) == address \div c.line_size_bytes
set_index(c, address) == block_number(c, address) % set_count(c)
tag_of(c, address) == block_number(c, address) \div set_count(c)
set_begin(c, address) == set_index(c, address) * c.associativity

Ways(c) == 0 .. (c.associativity - 1)

\* The ways of the address's set that hold its block: at most one.
HitWays(c, cache, address) ==
    {way \in Ways(c) :
        cache.lines[set_begin(c, address) + way]
            = CacheLine(tag_of(c, address), TRUE)}

FreeWays(c, cache, address) ==
    {way \in Ways(c) : ~ cache.lines[set_begin(c, address) + way].valid}

Hits(c, cache, address) == HitWays(c, cache, address) # {}

\* Mutant: the newest block is replaced.
ReplacedWay_newest(c) == 0

ReplacedWay(c) == c.associativity - 1

\* The way that gives up its place: the block's own, a free one, or the oldest.
selected_way(c, cache, address) ==
    CASE Hits(c, cache, address) -> Min(HitWays(c, cache, address))
      [] ~ Hits(c, cache, address) /\ FreeWays(c, cache, address) # {}
            -> Min(FreeWays(c, cache, address))
      [] OTHER -> ReplacedWay(c)

(***************************************************************************)
(* SetAssociativeCache::access: the ways before the selected one move back *)
(* by one, and the block becomes way 0.                                    *)
(***************************************************************************)
access(c, cache, address) ==
    LET begin == set_begin(c, address)
        oldest == begin + selected_way(c, cache, address)
        Shifted(k) == CASE k = begin -> CacheLine(tag_of(c, address), TRUE)
                        [] k \in (begin + 1) .. oldest -> cache.lines[k - 1]
                        [] OTHER -> cache.lines[k]
    IN [lines |-> [k \in DOMAIN cache.lines |-> Shifted(k)],
        statistics |-> record_access(cache.statistics, Hits(c, cache, address))]
=============================================================================
