----------------------------- MODULE MCPrograms -----------------------------
(***************************************************************************)
(* Small guest programs for the models of sessions: 8-bit words, eight     *)
(* registers (a0 to a5 are x1 to x6, a7 is x7) and a table in the place of *)
(* the decoder.                                                            *)
(***************************************************************************)
EXTENDS Integers, Bitwise, Sequences, TLC

MCBitAnd(v, w) == v & w
MCBitOr(v, w) == v | w
MCBitXor(v, w) == v ^^ w

LOCAL I(opcode, f3, rd, rs1, rs2, imm) ==
    {[opcode |-> opcode, function3 |-> f3, function7 |-> 0, destination |-> rd,
      source1 |-> rs1, source2 |-> rs2, immediate |-> imm]}

Ecall == 1
Ebreak == 2
AddA1 == 3           \* addi a1, a1, 5
JumpBack == 4        \* jal x0, -4
StoreA2 == 5         \* sw a2, 0(a1)
SetA0 == 6           \* lui a0, 2
BranchBack == 7      \* bne a0, a2, -8
Loop == 8            \* jal x0, 0

MCTable ==
    << I("System", 0, 0, 0, 0, 0),
       I("System", 0, 0, 0, 0, 1),
       I("OpImmediate", 0, 2, 2, 0, 5),
       I("Jal", 0, 0, 0, 0, 252),
       I("Store", 2, 0, 2, 3, 0),
       I("Lui", 0, 1, 0, 0, 2),
       I("Branch", 1, 0, 1, 3, 248),
       I("Jal", 0, 0, 0, 0, 0) >>

MCDecode(raw) == IF raw \in DOMAIN MCTable THEN MCTable[raw] ELSE {}

\* Memory of the given size that starts with the words of a program.
Image(program, size) ==
    [o \in 0 .. (size - 1) |->
        IF o \div 4 < Len(program)
        THEN (program[1 + o \div 4] \div 4^(o % 4)) % 4
        ELSE 3]

RegisterFile(a0, a1, a2, a7) ==
    [r \in 0 .. 7 |-> CASE r = 1 -> a0 [] r = 2 -> a1 [] r = 3 -> a2
                        [] r = 7 -> a7 [] OTHER -> 0]
=============================================================================
