------------------------------ MODULE MCHosted ------------------------------
(***************************************************************************)
(* Hosted with 8-bit addresses, a region from 194 to the end of the        *)
(* address space, and files of 132 bytes: two program headers at 52, three *)
(* instructions at 116.  sp is x2, a0 to a5 are x3 to x8, a7 is x9.        *)
(***************************************************************************)
EXTENDS Hosted, Bitwise

MCBitAnd(v, w) == v & w
MCBitOr(v, w) == v | w
MCBitXor(v, w) == v ^^ w

I(opcode, f3, rd, rs1, rs2, imm) ==
    {[opcode |-> opcode, function3 |-> f3, function7 |-> 0, destination |-> rd,
      source1 |-> rs1, source2 |-> rs2, immediate |-> imm]}

Ecall == 1
Ebreak == 2
ForExit == 3         \* a7 = 93
ExitCode4 == 4       \* a0 = 4, whose low byte is 0
ExitCode5 == 5       \* a0 = 5
Loop == 6
Push == 7            \* sw a7, -4(sp)

MCTable ==
    << I("System", 0, 0, 0, 0, 0),
       I("System", 0, 0, 0, 0, 1),
       I("Lui", 0, 9, 0, 0, 93),
       I("Lui", 0, 3, 0, 0, 4),
       I("Lui", 0, 3, 0, 0, 5),
       I("Jal", 0, 0, 0, 0, 0),
       I("Store", 2, 0, 2, 9, 252) >>

MCDecode(raw) == IF raw \in DOMAIN MCTable THEN MCTable[raw] ELSE {}

Header(type, offset, address, file_size, memory_size, executable, alignment) ==
    [type |-> type, file_offset |-> offset, virtual_address |-> address,
     file_size |-> file_size, memory_size |-> memory_size,
     executable |-> executable, alignment |-> alignment]

Load(offset, address, file_size, memory_size, alignment) ==
    Header("Load", offset, address, file_size, memory_size, TRUE, alignment)

Headers ==
    { Load(116, 196, 12, 12, 4),     \* text of three instructions
      Load(116, 196, 4, 8, 4),       \* text with a zero-filled tail
      Load(120, 204, 4, 4, 4),       \* adjacent to it
      Load(120, 202, 2, 6, 2),       \* overlapping it
      Load(118, 194, 3, 5, 0),       \* at the start of the region
      Load(116, 196, 0, 4, 1),       \* zero-filled only
      Load(116, 200, 0, 0, 0),       \* empty
      Load(116, 100, 0, 0, 0),       \* empty and outside memory
      Load(128, 236, 4, 6, 4),       \* reaching into a stack of 16 bytes
      Load(116, 252, 4, 4, 0),       \* at the end of the address space
      Load(116, 252, 4, 8, 0),       \* beyond it
      Load(116, 192, 4, 4, 0),       \* partly below the region
      Load(117, 196, 4, 4, 4),       \* offset and address not congruent
      Load(116, 196, 4, 4, 3),       \* not a power of two
      Load(130, 196, 3, 4, 0),       \* beyond the end of the file
      Load(116, 196, 5, 4, 0),       \* larger in the file than in memory
      Header("Load", 116, 204, 4, 4, FALSE, 4) }
    \cup { Header(type, 116, 196, 4, 4, TRUE, 4) :
             type \in {"Note", "Dynamic", "Interpreter", "Tls"} }

\* The file's bytes: a program at 116, and bytes that tell offsets apart.
Data(size, program) ==
    [o \in 0 .. (size - 1) |->
        IF o \in 116 .. 127
        THEN (program[1 + (o - 116) \div 4] \div 4^((o - 116) % 4)) % 4
        ELSE 1 + (o % 3)]

ExitProgram == <<ForExit, ExitCode5, Ecall>>

Image(size, errors, offset, entry_size, count, headers, entry, program) ==
    [size |-> size, identification_errors |-> errors,
     program_header_offset |-> offset, program_header_entry_size |-> entry_size,
     program_header_count |-> count, program_headers |-> headers,
     entry_point |-> entry, data |-> Data(size, program)]

GoodHeaders == <<Load(116, 196, 4, 8, 4), Load(120, 204, 4, 4, 4)>>

Programs ==
    {<<first, second, third>> :
        first, second \in {Ecall, ForExit, ExitCode4, ExitCode5, Push},
        third \in {Ecall, Ebreak, Loop}}

\* All pairs of headers, files whose own header is wrong in one or two ways,
\* and good files with programs that exit, trap, loop, push or make other calls.
MCImages ==
    { Image(132, {}, 52, 32, 2, <<first, second>>, entry, ExitProgram) :
        first, second \in Headers, entry \in {196, 198, 204} }
    \cup { Image(132, {first, second}, 52, 32, 2, GoodHeaders, 196, ExitProgram) :
             first, second \in ToSet(IdentificationChecks) }
    \cup { Image(size, {}, offset, entry_size, count, GoodHeaders, 196, ExitProgram) :
             size \in {51, 115, 132}, offset \in {48, 52, 68, 250},
             entry_size \in {31, 32}, count \in {0, 2, 15} }
    \cup { Image(132, {}, 52, 32, 1, <<Load(116, 196, 12, 12, 4)>>, 196, program) :
             program \in Programs }

Option(size, steps, debug) ==
    [stack_size |-> size, maximum_steps |-> steps, debug |-> debug]

MCOptions ==
    { Option(size, 6, FALSE) : size \in {0, 9, 16, 62, 63} }
    \cup { Option(16, 0, FALSE), Option(16, 2, FALSE), Option(16, 6, TRUE) }

\* The other callers have no options; 6 is the test runner's step_limit.
MCHostedInit == HostedInit /\ (caller # "rvemu" => options = Option(16, 6, FALSE))

MCHostedSpec == /\ MCHostedInit
                /\ [][HostedNext]_hosted_vars
                /\ WF_hosted_vars(LoadProgram \/ StartSession \/ ReturnStatus)
                /\ WF_hosted_vars(~ Debugging /\ RunGuest)
=============================================================================
