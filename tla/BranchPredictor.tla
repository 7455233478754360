-------------------------- MODULE BranchPredictor --------------------------
(***************************************************************************)
(* BranchPredictorModel: static prediction, or a table of two-bit counters *)
(* indexed by the low bits of the branch's word address.                   *)
(*                                                                         *)
(* A predictor is a record of its counters and statistics, and an          *)
(* operation an operator from predictors to predictors.                    *)
(***************************************************************************)
EXTENDS Words

StronglyNotTaken == 0
WeaklyTaken == 2
StronglyTaken == 3

Strategies == {"AlwaysNotTaken", "AlwaysTaken", "BimodalTwoBit"}

\* validate_configuration: the first check that fails.
PredictorConfigurationError(c) ==
    IF c.initial_counter > StronglyTaken THEN Some("InvalidInitialCounter")
    ELSE IF c.strategy \notin Strategies THEN Some("UnknownStrategy")
    ELSE IF c.strategy # "BimodalTwoBit"
    THEN IF c.table_entries # 0 THEN Some("StaticStrategyHasTable") ELSE NullOpt
    ELSE IF c.table_entries = 0 THEN Some("MissingTableEntries")
    ELSE IF ~ is_power_of_two(c.table_entries)
    THEN Some("TableEntriesNotPowerOfTwo")
    ELSE NullOpt

counter_count(c) == IF c.strategy = "BimodalTwoBit" THEN c.table_entries ELSE 0

-----------------------------------------------------------------------------
ZeroPredictionStatistics ==
    [predictions |-> 0, correct |-> 0, incorrect |-> 0,
     predicted_taken |-> 0, predicted_not_taken |-> 0,
     actual_taken |-> 0, actual_not_taken |-> 0]

\* A new predictor, and one after reset().
NewPredictor(c) ==
    [counters |-> [k \in 0 .. (counter_count(c) - 1) |-> c.initial_counter],
     statistics |-> ZeroPredictionStatistics]

ResetPredictor(c, p) == NewPredictor(c)

\* The word address masked with the size of the table minus one.
table_index(c, program_counter) ==
    BitAnd(program_counter \div 4, c.table_entries - 1)

predict(c, p, program_counter) ==
    CASE c.strategy = "AlwaysNotTaken" -> FALSE
      [] c.strategy = "AlwaysTaken" -> TRUE
      [] c.strategy = "BimodalTwoBit"
            -> p.counters[table_index(c, program_counter)] >= WeaklyTaken

\* Mutant: an outcome that the saturated counter already has still counts.
trained_unsaturated(counter, taken) == IF taken THEN counter + 1 ELSE counter - 1

\* One step towards the outcome, saturating.
trained(counter, taken) ==
    CASE taken /\ counter < StronglyTaken -> counter + 1
      [] ~ taken /\ counter > StronglyNotTaken -> counter - 1
      [] OTHER -> counter

\* The counters after an outcome.
update(c, p, program_counter, taken) ==
    IF c.strategy # "BimodalTwoBit" THEN p.counters
    ELSE [p.counters EXCEPT ![table_index(c, program_counter)] = trained(@, taken)]

Count(n, condition) == IF condition THEN n + 1 ELSE n

\* Only conditional branches are predicted.
IsPredicted(observation) ==
    \E f \in observation.control_flow : f.kind = "ConditionalBranch"

\* Mutant: the counter learns the outcome before it is compared with it.
ObserveBranch_learnFirst(c, p, observation) ==
    IF ~ IsPredicted(observation) THEN p
    ELSE LET actual == \E f \in observation.control_flow : f.taken
             learnt == update(c, p, observation.program_counter, actual)
             predicted == predict(c, [p EXCEPT !.counters = learnt],
                                  observation.program_counter)
             s == p.statistics
         IN [counters |-> learnt,
             statistics |->
                [s EXCEPT !.predictions = @ + 1,
                          !.correct = Count(@, predicted = actual),
                          !.incorrect = Count(@, predicted # actual)]]

(***************************************************************************)
(* BranchPredictorModel::observe: predict, compare, count, then learn.     *)
(***************************************************************************)
ObserveBranch(c, p, observation) ==
    IF ~ IsPredicted(observation) THEN p
    ELSE LET actual == \E f \in observation.control_flow : f.taken
             predicted == predict(c, p, observation.program_counter)
             s == p.statistics
         IN [counters |-> update(c, p, observation.program_counter, actual),
             statistics |->
                [predictions |-> s.predictions + 1,
                 correct |-> Count(s.correct, predicted = actual),
                 incorrect |-> Count(s.incorrect, predicted # actual),
                 predicted_taken |-> Count(s.predicted_taken, predicted),
                 predicted_not_taken |-> Count(s.predicted_not_taken, ~ predicted),
                 actual_taken |-> Count(s.actual_taken, actual),
                 actual_not_taken |-> Count(s.actual_not_taken, ~ actual)]]
=============================================================================
