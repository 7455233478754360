------------------------------ MODULE MCCycle ------------------------------
(***************************************************************************)
(* CycleCheck with at most five cycles in the place of 2^64 - 1.                             *)
(***************************************************************************)
EXTENDS CycleCheck, Bitwise

MCBitAnd(v, w) == v & w
MCBitOr(v, w) == v | w
MCBitXor(v, w) == v ^^ w
=============================================================================
