------------------------------ MODULE MCCache ------------------------------
(***************************************************************************)
(* CacheCheck with 8-bit addresses and a 5-bit std::size_t.                *)
(***************************************************************************)
EXTENDS CacheCheck, Bitwise

MCBitAnd(v, w) == v & w
MCBitOr(v, w) == v | w
MCBitXor(v, w) == v ^^ w

AllConfigurations ==
    [capacity_bytes : 0 .. MaxSize, line_size_bytes : 0 .. MaxSize,
     associativity : 0 .. MaxSize]
=============================================================================
