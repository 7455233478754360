----------------------------- MODULE Benchmark -----------------------------
(***************************************************************************)
(* BenchmarkWorkload and the loop of run_workload around it: every         *)
(* iteration resets one workload object, runs it for a fixed number of     *)
(* instructions with ExecutionEngine::run and reads what the analyzer      *)
(* counted.  How many iterations there are is the benchmark library's      *)
(* choice.                                                                 *)
(*                                                                         *)
(* A program is a sequence of decoded instructions; in memory each of them *)
(* is its number in BenchmarkInstructions, which Decode takes back to the  *)
(* instruction.                                                            *)
(***************************************************************************)
EXTENDS PerformanceAnalyzer, Sequences

CONSTANTS
    kDataBaseAddress,             \* the data of MemoryStride, 0x2000
    StrideBytes,                  \* their size, 1024
    BranchPeriod,                 \* the period of BranchPattern, 256
    InstructionLimits,            \* the values of kInstructionsPerIteration
    MaxIterations                 \* bound on the benchmark library's choice

Instruction(opcode, f3, f7, rd, rs1, rs2, immediate) ==
    [opcode |-> opcode, function3 |-> f3, function7 |-> f7, destination |-> rd,
     source1 |-> rs1, source2 |-> rs2, immediate |-> immediate % WordValues]

immediate_operation(rd, f3, rs1, immediate) ==
    Instruction("OpImmediate", f3, 0, rd, rs1, 0, immediate)
register_operation(rd, f3, rs1, rs2, f7) ==
    Instruction("Op", f3, f7, rd, rs1, rs2, 0)
load_word(rd, rs1) == Instruction("Load", 2, 0, rd, rs1, 0, 0)
store_word(rs1, rs2) == Instruction("Store", 2, 0, 0, rs1, rs2, 0)
branch(f3, rs1, rs2, offset) == Instruction("Branch", f3, 0, 0, rs1, rs2, offset)
jump(offset) == Instruction("Jal", 0, 0, 0, 0, 0, offset)
lui(rd, immediate) == Instruction("Lui", 0, 0, rd, 0, 0, immediate)

kIntegerMixProgram ==
    << immediate_operation(1, 0, 1, 1), immediate_operation(2, 0, 2, 3),
       register_operation(3, 4, 1, 2, 0), register_operation(4, 0, 3, 2, 1),
       register_operation(5, 0, 5, 4, 0), jump(-20) >>

kMemoryStrideProgram ==
    << load_word(3, 1), immediate_operation(3, 0, 3, 1), store_word(1, 3),
       immediate_operation(1, 0, 1, 4), branch(6, 1, 2, -16),
       lui(1, kDataBaseAddress), jump(-24) >>

kBranchPatternProgram ==
    << immediate_operation(1, 0, 1, 1), immediate_operation(2, 7, 1, 1),
       branch(0, 2, 0, 8), immediate_operation(3, 0, 3, 1),
       branch(1, 1, 4, -16), immediate_operation(1, 0, 0, 0), jump(-24) >>

BenchmarkInstructions ==
    kIntegerMixProgram \o kMemoryStrideProgram \o kBranchPatternProgram

\* The program lies below the data, both inside memory and both made of words.
ASSUME BenchmarkAssumption ==
    /\ {kDataBaseAddress, kDataBaseAddress + StrideBytes, BranchPeriod} \subseteq Word
    /\ StrideBytes \in Nat \ {0}
    /\ \A n \in {BaseAddress, kDataBaseAddress, StrideBytes} : n % 4 = 0
    /\ BaseAddress + 4 * Len(kMemoryStrideProgram) <= kDataBaseAddress
    /\ kDataBaseAddress + StrideBytes <= EndAddressExclusive
    /\ MaxIterations \in Nat
    /\ InstructionLimits \subseteq Nat
    /\ \A raw \in DOMAIN BenchmarkInstructions :
          Decode(raw) = {BenchmarkInstructions[raw]}

WorkloadKinds == {"IntegerMix", "MemoryStride", "BranchPattern"}

VARIABLES
    kind,                      \* BenchmarkWorkload::kind_, or "None"
    phase,                     \* where run_workload is
    instruction_limit,         \* the argument of ExecutionEngine::run
    executed,                  \* its loop counter
    completed,                 \* the local variable of run_workload
    reports                    \* what each completed iteration found

workload_vars == <<kind, phase, instruction_limit, executed, completed, reports>>
benchmark_vars == <<analyzer_vars, workload_vars>>

-----------------------------------------------------------------------------
\* The numbers, among BenchmarkInstructions, of the workload's instructions.
ProgramOf(workload) ==
    LET count == CASE workload = "IntegerMix" -> Len(kIntegerMixProgram)
                   [] workload = "MemoryStride" -> Len(kMemoryStrideProgram)
                   [] workload = "BranchPattern" -> Len(kBranchPatternProgram)
        first == CASE workload = "IntegerMix" -> 1
                   [] workload = "MemoryStride" -> 1 + Len(kIntegerMixProgram)
                   [] workload = "BranchPattern" ->
                          1 + Len(kIntegerMixProgram) + Len(kMemoryStrideProgram)
    IN [k \in 1 .. count |-> first + k - 1]

\* The registers reset() sets; the others are zero.
InitialRegister(workload, r) ==
    CASE workload = "IntegerMix" /\ r = 1 -> 1
      [] workload = "IntegerMix" /\ r = 2 -> 3
      [] workload = "MemoryStride" /\ r = 1 -> kDataBaseAddress
      [] workload = "MemoryStride" /\ r = 2 -> kDataBaseAddress + StrideBytes
      [] workload = "BranchPattern" /\ r = 4 -> BranchPeriod
      [] OTHER -> 0

\* Memory after load_program: write32 of every instruction, one word after the other.
load_program(contents, program) ==
    [o \in Offsets |->
        IF o \div 4 < Len(program)
        THEN write32(contents, BaseAddress + 4 * (o \div 4), program[1 + o \div 4])[o]
        ELSE contents[o]]

\* Mutant: clear() is left out.
ClearedMemory_kept == bytes

\* Memory::clear
ClearedMemory == [o \in Offsets |-> 0]

\* BenchmarkWorkload::reset
ResetWorkload ==
    /\ registers' = [r \in Registers |-> InitialRegister(kind, r)]
    /\ program_counter' = BaseAddress
    /\ bytes' = load_program(ClearedMemory, ProgramOf(kind))
    /\ AnalyzerReset
    /\ UNCHANGED step_result

-----------------------------------------------------------------------------
(***************************************************************************)
(* The constructor of BenchmarkWorkload ends with a reset of its own.      *)
(***************************************************************************)
WorkloadInit ==
    /\ kind \in WorkloadKinds
    /\ phase = "loop"
    /\ instruction_limit \in InstructionLimits
    /\ executed = 0
    /\ completed = FALSE
    /\ reports = << >>
    /\ registers = [r \in Registers |-> InitialRegister(kind, r)]
    /\ program_counter = BaseAddress
    /\ bytes = load_program([o \in Offsets |-> 0], ProgramOf(kind))
    /\ step_result = NoResult
    /\ AnalyzerInit

\* The next iteration: the reset, and the call of run.
StartIteration ==
    /\ phase = "loop"
    /\ Len(reports) < MaxIterations
    /\ ResetWorkload
    /\ phase' = "running"
    /\ executed' = 0
    /\ completed' = FALSE
    /\ UNCHANGED <<kind, instruction_limit, reports>>

\* ExecutionEngine::run, one iteration of its loop; a trap ends the benchmark.
RunInstruction ==
    /\ phase = "running"
    /\ executed < instruction_limit
    /\ AnalyzedStep
    /\ IF step_result'.kind = "Trap"
       THEN phase' = "skipped" /\ UNCHANGED executed
       ELSE executed' = executed + 1 /\ UNCHANGED phase
    /\ UNCHANGED <<kind, instruction_limit, completed, reports>>

(***************************************************************************)
(* run has returned InstructionLimitReached.  An estimate that overflows   *)
(* ends the benchmark with an error.                                       *)
(***************************************************************************)
CollectIteration ==
    /\ phase = "running"
    /\ executed = instruction_limit
    /\ \/ /\ estimate_cycles.kind = "Estimate"
          /\ phase' = "loop"
          /\ completed' = TRUE
          /\ reports' = Append(reports,
                 [statistics |-> <<instructions_observed,
                                   instruction_cache.statistics, load_statistics,
                                   store_statistics, branch_predictor.statistics>>,
                  estimate |-> estimate_cycles,
                  state |-> architecture])
       \/ /\ estimate_cycles.kind # "Estimate"
          /\ phase' = "skipped"
          /\ UNCHANGED <<completed, reports>>
    /\ UNCHANGED <<analyzer_vars, kind, instruction_limit, executed>>

\* The loop ends; the counters of the last iteration are added if it completed.
LeaveLoop ==
    /\ phase \in {"loop", "skipped"}
    /\ phase' = IF completed THEN "reported" ELSE "unreported"
    /\ UNCHANGED <<analyzer_vars, kind, instruction_limit, executed, completed, reports>>

BenchmarkEnds == phase \in {"reported", "unreported"} /\ UNCHANGED benchmark_vars

BenchmarkNext ==
    \/ StartIteration
    \/ RunInstruction
    \/ CollectIteration
    \/ LeaveLoop
    \/ BenchmarkEnds

BenchmarkSpec == WorkloadInit /\ [][BenchmarkNext]_benchmark_vars

\* An analyzer that a user of the library attaches to a machine of its own.
LibraryStep == kind = "None" /\ AnalyzerNext /\ UNCHANGED workload_vars

-----------------------------------------------------------------------------
(***************************************************************************)
(* Every iteration measures the same thing.  No workload traps (it stays   *)
(* in its loop and in its memory however long it runs), each completed     *)
(* iteration counted exactly the instructions run was asked for, and       *)
(* because reset leaves nothing of the iteration before it behind, not in  *)
(* the registers, memory, caches, counters or branch history, all of them  *)
(* report the same statistics, the same estimate and the same final state. *)
(***************************************************************************)
IterationsAgree ==
    /\ kind \in WorkloadKinds => step_result.kind # "Trap"
    /\ \A k \in DOMAIN reports :
          /\ reports[k] = reports[1]
          /\ reports[k].statistics[1] = instruction_limit
=============================================================================
