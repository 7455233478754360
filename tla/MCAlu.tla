------------------------------- MODULE MCAlu -------------------------------
(***************************************************************************)
(* AluCheck with 2-bit bytes: all 65536 pairs of 8-bit words.              *)
(***************************************************************************)
EXTENDS AluCheck, Bitwise

MCBitAnd(v, w) == v & w
MCBitOr(v, w) == v | w
MCBitXor(v, w) == v ^^ w
=============================================================================
