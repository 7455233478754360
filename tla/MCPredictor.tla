---------------------------- MODULE MCPredictor ----------------------------
(***************************************************************************)
(* PredictorCheck with 8-bit addresses.                                    *)
(***************************************************************************)
EXTENDS PredictorCheck, Bitwise

MCBitAnd(v, w) == v & w
MCBitOr(v, w) == v | w
MCBitXor(v, w) == v ^^ w

\* A strategy and a counter outside their enumerations included.
AllConfigurations ==
    [strategy : Strategies \cup {"Other"}, table_entries : 0 .. 33,
     initial_counter : 0 .. 4]
=============================================================================
