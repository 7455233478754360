----------------------------- MODULE MCMachine -----------------------------
(***************************************************************************)
(* Machine with 2-bit bytes: an address space of 256 bytes, three          *)
(* registers and a table in the place of the decoder.  The table has every *)
(* opcode, and for each opcode the functions and operands that take each   *)
(* of its paths; the words it does not list are undecodable.               *)
(***************************************************************************)
EXTENDS Machine, Bitwise, Sequences, TLC

CONSTANTS
    InitialX1, InitialX2,       \* values of the two registers
    StartAddresses,             \* initial program counters
    ProgramWords                \* what the first two words of memory hold

MCBitAnd(v, w) == v & w
MCBitOr(v, w) == v | w
MCBitXor(v, w) == v ^^ w

I(opcode, f3, f7, rd, rs1, rs2, imm) ==
    {[opcode |-> opcode, function3 |-> f3, function7 |-> f7, destination |-> rd,
      source1 |-> rs1, source2 |-> rs2, immediate |-> imm]}

Table ==
    << I("Lui", 0, 0, 1, 0, 0, 248),
       I("Auipc", 0, 0, 2, 0, 0, 16),
       I("OpImmediate", 0, 0, 1, 1, 0, 3),
       I("OpImmediate", 1, 32, 1, 1, 0, 1),
       I("OpImmediate", 5, 32, 2, 2, 0, 1),
       I("OpImmediate", 0, 0, 0, 1, 0, 1),
       I("Op", 0, 32, 2, 1, 2, 0),
       I("Op", 6, 1, 1, 1, 2, 0),
       I("Op", 0, 5, 1, 1, 2, 0),
       I("Jal", 0, 0, 1, 0, 0, 4),
       I("Jal", 0, 0, 0, 0, 0, 252),
       I("Jal", 0, 0, 1, 0, 0, 2),
       I("Jalr", 0, 0, 1, 1, 0, 1),
       I("Jalr", 0, 0, 2, 2, 0, 0),
       I("Jalr", 1, 0, 1, 1, 0, 0),
       I("Branch", 0, 0, 0, 0, 0, 252),
       I("Branch", 4, 0, 0, 1, 2, 8),
       I("Branch", 1, 0, 0, 1, 2, 2),
       I("Branch", 2, 0, 0, 1, 2, 8),
       I("Load", 0, 0, 2, 1, 0, 0),
       I("Load", 1, 0, 2, 1, 0, 0),
       I("Load", 2, 0, 2, 1, 0, 0),
       I("Load", 5, 0, 1, 1, 0, 1),
       I("Load", 3, 0, 1, 1, 0, 0),
       I("Store", 0, 0, 0, 1, 2, 0),
       I("Store", 1, 0, 0, 1, 2, 0),
       I("Store", 2, 0, 0, 1, 2, 0),
       I("Store", 3, 0, 0, 1, 2, 0),
       I("MiscMemory", 0, 0, 0, 0, 0, 0),
       I("MiscMemory", 1, 0, 0, 0, 0, 0),
       I("System", 0, 0, 0, 0, 0, 0),
       I("System", 0, 0, 0, 0, 0, 1),
       I("System", 0, 0, 0, 0, 0, 2) >>

MCDecode(raw) == IF raw \in DOMAIN Table THEN Table[raw] ELSE {}

\* Every word of the table and one that does not decode.
AllWords == 0 .. Len(Table)

\* The word an offset's byte belongs to, and its place in it.
InitialBytes(first, second) ==
    [o \in Offsets |->
        CASE o \in 0 .. 3 -> (first \div 4^o) % 4
          [] o \in 4 .. 7 -> (second \div 4^(o - 4)) % 4
          [] OTHER -> 1]

MCInit ==
    /\ \E x1 \in InitialX1, x2 \in InitialX2 :
           registers = (0 :> 0 @@ 1 :> x1 @@ 2 :> x2)
    /\ program_counter \in StartAddresses
    /\ \E first, second \in ProgramWords : bytes = InitialBytes(first, second)
    /\ MachineInit

MCSpec == MCInit /\ [][EngineStep]_machine_vars
=============================================================================
