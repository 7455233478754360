--------------------------- MODULE CycleEstimator ---------------------------
(***************************************************************************)
(* CycleEstimator: a linear cost model over std::uint64_t that reports an  *)
(* overflow instead of wrapping.                                           *)
(***************************************************************************)
EXTENDS Words

CONSTANT MaxCycles             \* std::numeric_limits<std::uint64_t>::max()

ASSUME MaxCyclesAssumption == MaxCycles \in Nat

\* Mutant: the bound is compared with >=.
checked_multiply_strict(left, right) ==
    IF left # 0 /\ right >= MaxCycles \div left THEN NullOpt
    ELSE Some((left * right) % (MaxCycles + 1))

\* The product, nothing when it overflows.
checked_multiply(left, right) ==
    IF left # 0 /\ right > MaxCycles \div left THEN NullOpt
    ELSE Some((left * right) % (MaxCycles + 1))

\* The sum of a total that may already have failed and a value.
checked_add(total, value) ==
    {(t + value) % (MaxCycles + 1) : t \in {u \in total : value <= MaxCycles - u}}

CycleEstimateFailure(code) == [kind |-> "Failure", code |-> code]

(***************************************************************************)
(* CycleEstimator::estimate: the four products in order, then their sum.   *)
(***************************************************************************)
estimate(costs, counts) ==
    LET base == checked_multiply(counts.instructions, costs.base_instruction_cycles)
        fetch == checked_multiply(counts.instruction_cache_misses,
                                  costs.instruction_cache_miss_penalty_cycles)
        data == checked_multiply(counts.data_cache_misses,
                                 costs.data_cache_miss_penalty_cycles)
        branch == checked_multiply(counts.branch_mispredictions,
                                   costs.branch_misprediction_penalty_cycles)
        Value(optional) == CHOOSE v \in optional : TRUE
        total == checked_add(checked_add(checked_add(base, Value(fetch)),
                                         Value(data)),
                             Value(branch))
    IN IF base = NullOpt
       THEN CycleEstimateFailure("BaseInstructionCostOverflow")
       ELSE IF fetch = NullOpt
       THEN CycleEstimateFailure("InstructionCacheMissCostOverflow")
       ELSE IF data = NullOpt
       THEN CycleEstimateFailure("DataCacheMissCostOverflow")
       ELSE IF branch = NullOpt
       THEN CycleEstimateFailure("BranchMispredictionCostOverflow")
       ELSE IF total = NullOpt
       THEN CycleEstimateFailure("TotalOverflow")
       ELSE [kind |-> "Estimate",
             base_instruction_cycles |-> Value(base),
             instruction_cache_miss_cycles |-> Value(fetch),
             data_cache_miss_cycles |-> Value(data),
             branch_misprediction_cycles |-> Value(branch),
             total_cycles |-> Value(total)]
=============================================================================
