--------------------------- MODULE PredictorCheck ---------------------------
(***************************************************************************)
(* BranchPredictorModel observing any sequence of instructions.  The       *)
(* observations since the last reset are kept beside it.                   *)
(***************************************************************************)
EXTENDS BranchPredictor, Sequences, FiniteSetsExt

CONSTANTS
    PredictorConfigurations,   \* the configurations the constructor is given
    BranchAddresses,           \* the program counters observed
    MaxObservations            \* bound on the observations between two resets

ASSUME PredictorCheckAssumption ==
    /\ \A c \in PredictorConfigurations :
          c.table_entries \in Nat /\ c.initial_counter \in Nat
    /\ \A entries \in {c.table_entries : c \in PredictorConfigurations} :
          IsBitAnd(entries)
    /\ BranchAddresses \subseteq Word
    /\ \A address \in BranchAddresses : address % 4 = 0
    /\ MaxObservations \in Nat

VARIABLES
    config,                    \* the BranchPredictorConfiguration
    predictor,                 \* the BranchPredictorModel
    observations               \* what it observed since the last reset

predictor_vars == <<config, predictor, observations>>

\* A predictor exists only if its constructor did not throw.
PredictorAccepted == PredictorConfigurationError(config) = NullOpt

PredictorInit ==
    /\ config \in PredictorConfigurations
    /\ predictor = IF PredictorAccepted THEN NewPredictor(config)
                   ELSE [counters |-> << >>,
                         statistics |-> ZeroPredictionStatistics]
    /\ observations = << >>

\* What the engine can report of an instruction's control flow.
Flows == {NullOpt}
            \cup {Some([kind |-> k, taken |-> TRUE]) : k \in {"DirectJump", "IndirectJump"}}
            \cup {Some([kind |-> "ConditionalBranch", taken |-> t]) : t \in BOOLEAN}

Observe(address, flow) ==
    LET observation == [program_counter |-> address, control_flow |-> flow]
    IN /\ PredictorAccepted
       /\ Len(observations) < MaxObservations
       /\ predictor' = ObserveBranch(config, predictor, observation)
       /\ observations' = Append(observations, observation)
       /\ UNCHANGED config

ForgetHistory ==
    /\ PredictorAccepted
    /\ predictor' = ResetPredictor(config, predictor)
    /\ observations' = << >>
    /\ UNCHANGED config

PredictorNext ==
    \/ ForgetHistory
    \/ \E address \in BranchAddresses, flow \in Flows : Observe(address, flow)

PredictorSpec == PredictorInit /\ [][PredictorNext]_predictor_vars

-----------------------------------------------------------------------------
IsBranch(observation) ==
    \E f \in observation.control_flow : f.kind = "ConditionalBranch"

Taken(observation) == \E f \in observation.control_flow : f.taken

\* The positions of the branches that share the table entry of an address.
Outcomes(address) ==
    {k \in DOMAIN observations :
        /\ IsBranch(observations[k])
        /\ (observations[k].program_counter \div 4) % config.table_entries
              = (address \div 4) % config.table_entries}

\* By how many the taken outcomes after position k lead over the others.
Lead(outcomes, k) ==
    Cardinality({i \in outcomes : i > k /\ Taken(observations[i])})
      - Cardinality({i \in outcomes : i > k /\ ~ Taken(observations[i])})

(***************************************************************************)
(* What a prediction is, from the history since the last reset alone.  A   *)
(* static one is the strategy's, whatever was observed.  A bimodal one is  *)
(* taken exactly if the taken outcomes of the branches that share the      *)
(* entry lead by two since some moment, or with the initial counter as a   *)
(* head start since the reset, and if from then on the others never lead   *)
(* by two: saturation makes the table forget all that was seen before.     *)
(***************************************************************************)
PredictionFollowsHistory ==
    PredictorAccepted =>
        \A address \in BranchAddresses :
            LET predicted == predict(config, predictor, address)
                outcomes == Outcomes(address)
                now == Len(observations)
                HeadStart(k) == IF k = 0 THEN config.initial_counter ELSE 0
            IN IF config.strategy = "BimodalTwoBit"
               THEN predicted <=>
                      \E since \in 0 .. now :
                          /\ HeadStart(since) + Lead(outcomes, since) >= 2
                          /\ \A k \in since .. now : Lead(outcomes, k) > -2
               ELSE predicted <=> config.strategy = "AlwaysTaken"

(***************************************************************************)
(* Learning is local and driven by errors, and the errors are counted as   *)
(* they happen: an observation is counted as incorrect exactly if it is a  *)
(* conditional branch whose outcome is not what was predicted before it    *)
(* was observed, and only such an observation changes a prediction, of the *)
(* addresses with the same table entry.                                    *)
(***************************************************************************)
ErrorDrivenStep ==
    LET seen == observations'[Len(observations')]
        wrong == /\ IsBranch(seen)
                 /\ predict(config, predictor, seen.program_counter) # Taken(seen)
    IN Len(observations') > Len(observations) =>
          /\ predictor'.statistics.incorrect
                = predictor.statistics.incorrect + (IF wrong THEN 1 ELSE 0)
          /\ \A address \in BranchAddresses :
                (predict(config, predictor, address)
                     # predict(config, predictor', address)) =>
                    wrong /\ Len(observations') \in Outcomes(address)'

ErrorDriven == [][ErrorDrivenStep]_predictor_vars

=============================================================================
