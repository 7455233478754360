----------------------------- MODULE CacheCheck -----------------------------
(***************************************************************************)
(* SetAssociativeCache against the definition of a least-recently-used     *)
(* cache.  The trace of the addresses accessed since the last reset is     *)
(* kept beside the cache, and the properties compute from it alone what    *)
(* the cache must hold and count.                                          *)
(***************************************************************************)
EXTENDS CacheModel, Sequences

CONSTANTS
    Configurations,        \* the configurations the constructor is given
    Addresses,             \* the addresses accessed
    MaxTrace               \* bound on the accesses between two resets

ASSUME CacheCheckAssumption ==
    /\ Configurations \subseteq [capacity_bytes : 0 .. MaxSize,
                                 line_size_bytes : 0 .. MaxSize,
                                 associativity : 0 .. MaxSize]
    /\ Addresses \subseteq Word
    /\ MaxTrace \in Nat

VARIABLES configuration, cache, trace

cache_vars == <<configuration, cache, trace>>

\* A cache exists only if its constructor did not throw.
Accepted == CacheConfigurationError(configuration) = NullOpt
Rejected == [lines |-> << >>, statistics |-> ZeroCacheStatistics]

CacheInit ==
    /\ configuration \in Configurations
    /\ cache = IF Accepted THEN EmptyCache(configuration) ELSE Rejected
    /\ trace = << >>

Access(address) ==
    /\ Accepted
    /\ Len(trace) < MaxTrace
    /\ cache' = access(configuration, cache, address)
    /\ trace' = Append(trace, address)
    /\ UNCHANGED configuration

Reset ==
    /\ Accepted
    /\ cache' = ResetCache(configuration, cache)
    /\ trace' = << >>
    /\ UNCHANGED configuration

CacheNext == Reset \/ \E address \in Addresses : Access(address)

CacheSpec == CacheInit /\ [][CacheNext]_cache_vars

-----------------------------------------------------------------------------
(***************************************************************************)
(* An accepted configuration describes a cache that exists: its sets, ways *)
(* and lines make up the capacity exactly (the product of line size and    *)
(* associativity did not wrap), and every aligned access of one, two or    *)
(* four bytes lies in one line, so that looking up the address of its      *)
(* first byte is enough.                                                   *)
(***************************************************************************)
AcceptedGeometry ==
    Accepted =>
        /\ configuration.capacity_bytes
              = set_count(configuration) * configuration.line_size_bytes
                    * configuration.associativity
        /\ \A width \in {1, 2, 4} : \A address \in Word :
              address % width = 0 =>
                  block_number(configuration, address)
                      = block_number(configuration, address + width - 1)

-----------------------------------------------------------------------------
Block(k) == block_number(configuration, trace[k])
SetOf(block) == block % set_count(configuration)

\* The blocks of a set that were used from position j to position k.
UsedBlocks(set, j, k) == {b \in {Block(i) : i \in j .. k} : SetOf(b) = set}

LastUse(block) == Max({k \in DOMAIN trace : Block(k) = block})

(***************************************************************************)
(* Every set holds its most recently used blocks, each once, in the order  *)
(* of their last use with the latest in way 0, and no way is left free     *)
(* while an older block could be in it.                                    *)
(***************************************************************************)
MostRecentlyUsedFirst ==
    Accepted =>
        \A set \in 0 .. (set_count(configuration) - 1) :
            LET used == UsedBlocks(set, 1, Len(trace))
                Younger(b) == {d \in used : LastUse(d) > LastUse(b)}
            IN \A way \in Ways(configuration) :
                  LET line == cache.lines[set * configuration.associativity + way]
                  IN IF way >= Cardinality(used) THEN ~ line.valid
                     ELSE \E b \in used :
                             /\ Cardinality(Younger(b)) = way
                             /\ line = CacheLine(b \div set_count(configuration),
                                                 TRUE)

\* Access k is a hit when fewer than a set's ways of other blocks came between.
IsHit(k) ==
    \E j \in 1 .. (k - 1) :
        /\ Block(j) = Block(k)
        /\ Cardinality(UsedBlocks(SetOf(Block(k)), j + 1, k - 1) \ {Block(k)})
              < configuration.associativity

(***************************************************************************)
(* The statistics count each access since the last reset once, as a hit    *)
(* exactly when its reuse distance is below the associativity.             *)
(***************************************************************************)
StatisticsOfTrace ==
    Accepted =>
        /\ cache.statistics.accesses = Len(trace)
        /\ cache.statistics.hits = Cardinality({k \in DOMAIN trace : IsHit(k)})
        /\ cache.statistics.hits + cache.statistics.misses = Len(trace)
=============================================================================
