----------------------------- MODULE CycleCheck -----------------------------
(***************************************************************************)
(* CycleEstimator against exact arithmetic: the state is a configuration   *)
(* and the counts of the four events, and every step counts one event      *)
(* more.                                                                   *)
(***************************************************************************)
EXTENDS CycleEstimator

CONSTANT Costs                 \* the cycle costs configured

ASSUME CostsAssumption == Costs \subseteq 0 .. MaxCycles

VARIABLES costs, counts

cycle_vars == <<costs, counts>>

Events == {"instructions", "instruction_cache_misses", "data_cache_misses",
           "branch_mispredictions"}

\* The constructor refuses a base cost of zero.
CycleInit ==
    /\ costs \in [base_instruction_cycles : Costs \ {0},
                  instruction_cache_miss_penalty_cycles : Costs,
                  data_cache_miss_penalty_cycles : Costs,
                  branch_misprediction_penalty_cycles : Costs]
    /\ counts = [e \in Events |-> 0]

CountEvent(event) ==
    /\ counts[event] < MaxCycles
    /\ counts' = [counts EXCEPT ![event] = @ + 1]
    /\ UNCHANGED costs

CycleNext == \E event \in Events : CountEvent(event)

CycleSpec == CycleInit /\ [][CycleNext]_cycle_vars

-----------------------------------------------------------------------------
ExactCosts ==
    << counts.instructions * costs.base_instruction_cycles,
       counts.instruction_cache_misses
           * costs.instruction_cache_miss_penalty_cycles,
       counts.data_cache_misses * costs.data_cache_miss_penalty_cycles,
       counts.branch_mispredictions * costs.branch_misprediction_penalty_cycles >>

ExactTotal == ExactCosts[1] + ExactCosts[2] + ExactCosts[3] + ExactCosts[4]

FailureCodes ==
    << "BaseInstructionCostOverflow", "InstructionCacheMissCostOverflow",
       "DataCacheMissCostOverflow", "BranchMispredictionCostOverflow" >>

(***************************************************************************)
(* estimate never wraps: it returns the exact costs and their exact sum    *)
(* when the sum fits in 64 bits, and a failure when it does not, with the  *)
(* code of the first cost that does not fit by itself or, when each does,  *)
(* the code of the total.                                                  *)
(***************************************************************************)
EstimateExact ==
    LET result == estimate(costs, counts)
        overflows == {k \in 1 .. 4 : ExactCosts[k] > MaxCycles}
    IN IF ExactTotal <= MaxCycles
       THEN result = [kind |-> "Estimate",
                      base_instruction_cycles |-> ExactCosts[1],
                      instruction_cache_miss_cycles |-> ExactCosts[2],
                      data_cache_miss_cycles |-> ExactCosts[3],
                      branch_misprediction_cycles |-> ExactCosts[4],
                      total_cycles |-> ExactTotal]
       ELSE /\ result.kind = "Failure"
            /\ overflows = {} => result.code = "TotalOverflow"
            /\ \A k \in overflows :
                  (\A j \in overflows : k <= j) => result.code = FailureCodes[k]
=============================================================================
