------------------------- MODULE PerformanceAnalyzer -------------------------
(***************************************************************************)
(* The engine with a PerformanceAnalyzer as its observer: a split cache    *)
(* model, a branch predictor and a cycle estimator, all fed with the       *)
(* observations of completed instructions.                                 *)
(***************************************************************************)
EXTENDS Machine, CacheModel, BranchPredictor, CycleEstimator

CONSTANTS
    cache_configuration,        \* PerformanceAnalyzerConfiguration::cache
    branch_configuration,       \* PerformanceAnalyzerConfiguration::branch_predictor
    cycle_costs,                \* PerformanceAnalyzerConfiguration::cycle_costs
    MaxObserved                 \* bound on the instructions between two resets

ASSUME AnalyzerAssumption ==
    /\ CacheConfigurationError(cache_configuration.instruction) = NullOpt
    /\ CacheConfigurationError(cache_configuration.data) = NullOpt
    /\ PredictorConfigurationError(branch_configuration) = NullOpt
    /\ cycle_costs \in [base_instruction_cycles : 1 .. MaxCycles,
                       instruction_cache_miss_penalty_cycles : 0 .. MaxCycles,
                       data_cache_miss_penalty_cycles : 0 .. MaxCycles,
                       branch_misprediction_penalty_cycles : 0 .. MaxCycles]
    /\ MaxObserved \in Nat

VARIABLES
    instruction_cache,          \* SplitCacheModel::instruction_cache_
    data_cache,                 \* SplitCacheModel::data_cache_
    load_statistics,            \* SplitCacheModel::load_statistics_
    store_statistics,           \* SplitCacheModel::store_statistics_
    branch_predictor,           \* PerformanceAnalyzer::branch_predictor_
    instructions_observed       \* PerformanceAnalyzer::instructions_observed_

analyzer == <<instruction_cache, data_cache, load_statistics, store_statistics,
              branch_predictor, instructions_observed>>
analyzer_vars == <<registers, program_counter, bytes, step_result,
                   instruction_cache, data_cache, load_statistics,
                   store_statistics, branch_predictor, instructions_observed>>

AnalyzerInit ==
    /\ instruction_cache = EmptyCache(cache_configuration.instruction)
    /\ data_cache = EmptyCache(cache_configuration.data)
    /\ load_statistics = ZeroCacheStatistics
    /\ store_statistics = ZeroCacheStatistics
    /\ branch_predictor = NewPredictor(branch_configuration)
    /\ instructions_observed = 0

DataHit(observation) ==
    \E a \in observation.data_memory_access :
        Hits(cache_configuration.data, data_cache, a.address)

\* Mutant: only loads are counted.
Recorded_loads(kind, statistics, observation) ==
    IF kind = "Load" /\ \E a \in observation.data_memory_access : a.kind = "Load"
    THEN record_access(statistics, DataHit(observation)) ELSE statistics

\* The statistics of loads, or of stores, after an observation.
Recorded(kind, statistics, observation) ==
    IF \E a \in observation.data_memory_access : a.kind = kind
    THEN record_access(statistics, DataHit(observation)) ELSE statistics

\* SplitCacheModel::observe: the fetch, and the data access if there is one.
ObserveAccesses(observation) ==
    /\ instruction_cache' = access(cache_configuration.instruction,
                                  instruction_cache, observation.program_counter)
    /\ load_statistics' = Recorded("Load", load_statistics, observation)
    /\ store_statistics' = Recorded("Store", store_statistics, observation)
    /\ \/ observation.data_memory_access = NullOpt /\ UNCHANGED data_cache
       \/ \E a \in observation.data_memory_access :
             data_cache' = access(cache_configuration.data, data_cache, a.address)

\* PerformanceAnalyzer::observe
AnalyzerObserve(observation) ==
    /\ ObserveAccesses(observation)
    /\ branch_predictor' =
           ObserveBranch(branch_configuration, branch_predictor, observation)
    /\ instructions_observed' = instructions_observed + 1

\* Mutant: a transfer of control returns before the observer is called.
AnalyzedStep_transfersUnseen ==
    /\ EngineStep
    /\ IF step_result'.kind = "Completed" /\ step_result'.control_flow = NullOpt
       THEN AnalyzerObserve(step_result') ELSE UNCHANGED analyzer

\* An engine step; only a completed instruction is shown to the observer.
AnalyzedStep ==
    /\ EngineStep
    /\ \/ step_result'.kind = "Completed" /\ AnalyzerObserve(step_result')
       \/ step_result'.kind = "Trap" /\ UNCHANGED analyzer

\* PerformanceAnalyzer::reset
AnalyzerReset ==
    /\ instruction_cache' = ResetCache(cache_configuration.instruction,
                                       instruction_cache)
    /\ data_cache' = ResetCache(cache_configuration.data, data_cache)
    /\ load_statistics' = ZeroCacheStatistics
    /\ store_statistics' = ZeroCacheStatistics
    /\ branch_predictor' = ResetPredictor(branch_configuration, branch_predictor)
    /\ instructions_observed' = 0

\* Any user of the library.
AnalyzerNext ==
    \/ instructions_observed < MaxObserved /\ AnalyzedStep
    \/ AnalyzerReset /\ UNCHANGED machine_vars

AnalyzerSpec == MachineInit /\ AnalyzerInit /\ [][AnalyzerNext]_analyzer_vars

\* PerformanceAnalyzer::estimate_cycles
estimate_cycles ==
    estimate(cycle_costs,
             [instructions |-> instructions_observed,
              instruction_cache_misses |-> instruction_cache.statistics.misses,
              data_cache_misses |-> data_cache.statistics.misses,
              branch_mispredictions |-> branch_predictor.statistics.incorrect])

-----------------------------------------------------------------------------
(***************************************************************************)
(* The counters that different parts of the analyzer keep agree: the       *)
(* instruction cache saw every observed instruction, loads and stores add  *)
(* up to the data cache's totals in every column, and the data accesses    *)
(* and the predicted branches are different instructions.                  *)
(***************************************************************************)
CountersAgree ==
    /\ instruction_cache.statistics.accesses = instructions_observed
    /\ \A column \in {"accesses", "hits", "misses"} :
          load_statistics[column] + store_statistics[column]
              = data_cache.statistics[column]
    /\ data_cache.statistics.accesses + branch_predictor.statistics.predictions
          <= instructions_observed

(***************************************************************************)
(* The price of the instruction that step is about to complete: its base   *)
(* cost and the penalties it meets in the caches and the branch history as *)
(* they were before it.                                                    *)
(***************************************************************************)
Penalty(applies, cycles) == IF applies THEN cycles ELSE 0

MissesFetch ==
    ~ Hits(cache_configuration.instruction, instruction_cache, program_counter)

MissesData(observation) ==
    \E a \in observation.data_memory_access :
        ~ Hits(cache_configuration.data, data_cache, a.address)

Mispredicts(observation) ==
    /\ \E f \in observation.control_flow : f.kind = "ConditionalBranch"
    /\ predict(branch_configuration, branch_predictor, program_counter)
          # \E f \in observation.control_flow : f.taken

Price(observation) ==
    cycle_costs.base_instruction_cycles
      + Penalty(MissesFetch, cycle_costs.instruction_cache_miss_penalty_cycles)
      + Penalty(MissesData(observation), cycle_costs.data_cache_miss_penalty_cycles)
      + Penalty(Mispredicts(observation),
                cycle_costs.branch_misprediction_penalty_cycles)

(***************************************************************************)
(* Every step of the engine that completes an instruction adds exactly its *)
(* price to the cycle estimate, so that it is observed once, in every part *)
(* of the analyzer, and before any part learns from it; a step that traps  *)
(* adds nothing; and an estimate that has overflowed does not come back.   *)
(* Only a reset, which returns no step_result, may do anything else.       *)
(***************************************************************************)
PricedStep ==
    LET before == estimate_cycles
        after == estimate_cycles'
        growth == after.total_cycles - before.total_cycles
    IN \/ AnalyzerReset /\ UNCHANGED step_result
       \/ after.kind = "Estimate" =>
             /\ before.kind = "Estimate"
             /\ growth = IF step_result'.kind = "Completed"
                         THEN Price(step_result') ELSE 0

CyclesPriced == [][PricedStep]_analyzer_vars
=============================================================================
