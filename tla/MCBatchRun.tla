----------------------------- MODULE MCBatchRun -----------------------------
(***************************************************************************)
(* BatchRun on three-word programs made of every combination of a set of   *)
(* instructions, and on every combination of call arguments from small     *)
(* sets.                                                                   *)
(***************************************************************************)
EXTENDS BatchRun, MCPrograms

CONSTANTS Limit, Instructions, A0Values, A1Values, A2Values, A7Values

AllInstructions == {Ecall, Ebreak, AddA1, JumpBack, StoreA2, SetA0}

\* The first instruction makes a call, or changes an argument of a later one.
MCBatchInit ==
    /\ \E a0 \in A0Values, a1 \in A1Values, a2 \in A2Values, a7 \in A7Values :
           registers = RegisterFile(a0, a1, a2, a7)
    /\ \E first \in {Ecall, SetA0}, second, third \in Instructions :
           bytes = Image(<<first, second, third>>, SizeBytes)
    /\ program_counter = BaseAddress
    /\ step_limit = Limit
    /\ BatchInit

MCBatchSpec == MCBatchInit /\ [][BatchNext]_batch_vars
=============================================================================
