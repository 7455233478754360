---------------------------- MODULE MCBenchmark ----------------------------
(***************************************************************************)
(* Benchmark with 8-bit words and six registers: the three workloads with  *)
(* shorter loops, and an analyzer on three-word programs that walk through *)
(* memory, loop, overwrite themselves and trap.                            *)
(***************************************************************************)
EXTENDS Benchmark, Bitwise

MCBitAnd(v, w) == v & w
MCBitOr(v, w) == v | w
MCBitXor(v, w) == v ^^ w

Ecall == Instruction("System", 0, 0, 0, 0, 0, 0)
BranchBack == branch(1, 1, 2, -8)
SelfLoop == jump(0)
LibraryInstructions == <<Ecall, BranchBack, SelfLoop>>

MCInstructions == BenchmarkInstructions \o LibraryInstructions

MCDecode(raw) == IF raw \in DOMAIN MCInstructions THEN {MCInstructions[raw]} ELSE {}

Code(instruction) == CHOOSE raw \in DOMAIN MCInstructions :
                         MCInstructions[raw] = instruction
LoadWord == Code(load_word(3, 1))
StoreWord == Code(store_word(1, 3))
NextWord == Code(immediate_operation(1, 0, 1, 4))

MCPrograms ==
    { <<NextWord, StoreWord, Code(BranchBack)>>, <<LoadWord, NextWord, Code(BranchBack)>>,
      <<StoreWord, LoadWord, Code(BranchBack)>>, <<LoadWord, NextWord, LoadWord>>,
      <<NextWord, Code(SelfLoop), Code(Ecall)>>, <<Code(jump(-24)), NextWord, NextWord>> }

Geometry(capacity, line, ways) ==
    [capacity_bytes |-> capacity, line_size_bytes |-> line, associativity |-> ways]

\* A direct-mapped instruction cache of two lines, a two-way data cache of one set.
MCCaches == [instruction |-> Geometry(16, 8, 1), data |-> Geometry(16, 8, 2)]

MCBranches == [strategy |-> "BimodalTwoBit", table_entries |-> 2,
               initial_counter |-> 1]

MCCosts == [base_instruction_cycles |-> 1,
            instruction_cache_miss_penalty_cycles |-> 2,
            data_cache_miss_penalty_cycles |-> 5,
            branch_misprediction_penalty_cycles |-> 3]

LibraryInit ==
    /\ kind = "None"
    /\ phase = "library"
    /\ instruction_limit = 0
    /\ executed = 0
    /\ completed = FALSE
    /\ reports = << >>
    /\ \E address \in {188, 200, 216}, value \in {4, 7, 212} :
           registers = [r \in Registers |-> CASE r = 1 -> address [] r = 2 -> value
                                              [] r = 3 -> 16 [] OTHER -> 0]
    /\ program_counter = BaseAddress
    /\ \E program \in MCPrograms : bytes = load_program([o \in Offsets |-> 3], program)
    /\ step_result = NoResult
    /\ AnalyzerInit

MCBenchmarkInit == WorkloadInit \/ LibraryInit

MCBenchmarkSpec ==
    MCBenchmarkInit /\ [][BenchmarkNext \/ LibraryStep]_benchmark_vars
=============================================================================
