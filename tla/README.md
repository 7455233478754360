# TLA+ models of riscv-emulator

`riscv-emulator` is a single-threaded RV32IM user-mode emulator in C++: a
library (`src/src`, `src/include/rvemu`), a command line with an interactive
debugger (`src/app`), a runner for architectural tests (`src/tools`) and
benchmarks (`src/benchmarks`). This directory holds TLA+ models translated from
that code, the TLC configurations that check them on small instances, and
proofs checked by TLAPS.

## 1. Inventory

| Component | State | Operations | Talks to |
| --- | --- | --- | --- |
| `Memory` | base address, bytes of one region | `read8/16/32`, `read_span`, `write8/16/32`, `clear` | engine, syscalls, debugger, loader |
| `CpuState` | 32 registers, program counter | `read_register`, `write_register`, `set_program_counter`, `advance_program_counter`, `reset` | engine, session, debugger |
| `decode_instruction` | none | word to fields | engine |
| `ExecutionEngine` | none of its own | `step`, `run(limit)` | state, memory, observer |
| `ProgramSession` | none of its own | `step`, `run(limit[, breakpoints])` | engine, environment call handler |
| `LinuxSyscallEnvironment` | none of its own | `handle`: `write`, `exit`, `exit_group` | memory, output sink |
| `ExitEnvironment` (architectural tests) | none | `handle`: `exit` only | session |
| `StreamOutputSink` | two C++ streams | `write` | host streams (external) |
| `InteractiveDebugger` | statistics, breakpoints, stop flag | step, continue, break, delete, quit, and printing commands | session, state, memory |
| `SetAssociativeCache`, `SplitCacheModel` | lines, statistics | `access`, `observe`, `reset` | analyzer |
| `BranchPredictorModel` | counters, statistics | `observe`, `reset` | analyzer |
| `CycleEstimator` | costs | `estimate` | analyzer |
| `PerformanceAnalyzer` | the three above, a count | `observe`, `reset`, `estimate_cycles` | engine (as its observer) |
| `load_elf32` | none | validate an image, then write it to memory | memory |
| `initialize_freestanding_stack` | none | place the stack, set the stack pointer | memory layout, state |
| command line | options | `parse_arguments`, `with_loaded_program`, `run_program`, `run_debugger_program`, `run_cli` | all of the above |
| architectural-test runner | none | `run_with_loader`, `report_result` | loader, session |
| `BenchmarkWorkload`, `run_workload` | a machine and an analyzer | constructor, `reset`, `run`, the iterations of a benchmark | engine, analyzer |
| conformance scripts, tests, build files | - | host tooling | the programs |

A guest step flows through the layers: the engine fetches, decodes and executes
one instruction, and returns either an observation, which it also shows to the
observer, or a trap. The session turns the trap of an `ECALL` into a call of
the environment, which may read guest memory, write to the sink, and answer
"resume with this value", "exit" or "not handled". Batch runs and the debugger
both drive the session, the debugger in pieces.

Nothing runs concurrently and nothing is persisted, so the hard behaviour is of
other kinds. `PROJECT.json` lists each hazard at its line:

* numeric edges: signed arithmetic on unsigned words, wrap-around of program
  counters and addresses, bounds checks at the end of the region and of the
  address space, saturating counters, 64-bit overflow;
* atomicity inside a step: traps must be precise although an instruction has
  several effects, and an environment call is completed after it has trapped;
* one step of several failing: a partly mapped store, a sink that takes a part
  of a buffer, fails or throws, a program image with a bad last segment;
* long command sequences: the debugger keeps a stop flag, a sorted vector and a
  shared budget across commands, the caches an order across accesses;
* limits and liveness: strict step budgets, guests that never stop, `continue`
  at a breakpoint inside a loop;
* several layers that can each fail, by a result or by an exception, before one
  exit status has to say what happened;
* one object used for many measurements, which a reset must bring back to its
  first state.

## 2. Modules

The word type is a parameter. `Words` fixes a byte to `ByteValues` values (256
in the program) and a word to four bytes; everything else is stated for any
even `ByteValues`. TLC uses 2-bit bytes, hence 8-bit words and an address space
of 256 bytes, in which alignment, wrap-around, signs and little-endian order
work as in the program. The decoder is the exception: the instruction format is
made of 32-bit words, so `Decoder` has them at their real width, as sets of bit
positions. An `std::optional` is a set with at most one element.

| Module | Models |
| --- | --- |
| `Words` | fixed-width arithmetic |
| `Memory` | `memory.cpp`: bounds, alignment, byte order |
| `Alu` | the arithmetic of `execution_engine.cpp`: both `OP` tables, M extension, branch conditions, sign extension |
| `Decoder` | `instruction.cpp`: `decode_instruction` |
| `Machine` | `CpuState` and `ExecutionEngine::step`: one `Execute...` action per opcode and one per fetch failure |
| `LinuxSyscalls` | `linux_syscalls.cpp`, `StreamOutputSink`, `ExitEnvironment` |
| `ProgramSession` | `program_session.cpp`: the environment call protocol, the run loop, statistics |
| `BatchRun` | `run_program`: one session run under a limit. It is also the abstract specification of the debugger |
| `Debugger` | `rvemu_debugger.cpp` |
| `Boot` | the start of both host programs: configuration check, `elf_loader.cpp`, `stack.cpp` |
| `Hosted` | both host programs whole: `Boot`, then `BatchRun`, then the exit statuses of `run_cli` and `act_smoke_main.cpp` |
| `CommandLine` | `parse_arguments`, and `main` when it does not run a program |
| `CacheModel` | `SetAssociativeCache` |
| `BranchPredictor` | `BranchPredictorModel` |
| `CycleEstimator` | `CycleEstimator` |
| `PerformanceAnalyzer` | `SplitCacheModel` and `PerformanceAnalyzer`, composed with `Machine` |
| `Benchmark` | `benchmark_workload.cpp`, `run_workload` and `ExecutionEngine::run`, composed with `PerformanceAnalyzer` |
| `AluCheck`, `DecoderCheck`, `CacheCheck`, `PredictorCheck`, `CycleCheck` | the state machines that drive the pure modules, with the reference definitions |
| `WordTheorems` | lemmas about words, bits, quotients and powers of two |
| `MachineProofs`, `InstructionProofs` | proofs about `Machine`; about `AluCheck` and `DecoderCheck` |
| `SessionProofs`, `DebuggerProofs` | proofs about sessions and the debugger; the first holds the lemmas about sessions that the proofs about debugger and batch runs share |
| `HostedProofs` | proofs about `BatchRun`, `Boot` and `Hosted` |
| `CommandLineProofs` | proofs about `CommandLine` |
| `PerformanceProofs` | proofs about the performance models, the analyzer and the benchmark |
| `MC...` | TLC instances; `MCPrograms` holds guest programs |

How state and actions correspond to the code:

* **Machine.** `registers`, `program_counter` and `bytes` are the members of
  `CpuState` and `Memory`; `step_result` is the `StepResult` of the last step.
  `EngineStep` is one call of `ExecutionEngine::step`. `Trapped` is
  `instruction_trap`, `Retire` is the common end of the function. Decoding is
  the constant operator `Decode`; `DecodeAssumption` says that it gives at most
  one record with fields in range. `Decoder` models the real one.
* **Decoder.** Masks and shifts are intersections and translations of sets of
  bits, and `sign_extend` is the code's exclusive or and wrapping subtraction.
  `DecoderCheck` also holds the benchmark's encoders.
* **ProgramSession.** `SessionStep` is `ProgramSession::step`: the engine step
  and, after an `ECALL`, the handler's answer and what the session does with
  it, in one action, because no other code can run in between. `RunStep`,
  `RunAtLimit` and `RunAtBreakpoint` are the three things an iteration of `run`
  can do. `output` records what reached the host streams.
* **Debugger.** One action per command that changes state. `continue` is split
  where the code is: the step over the breakpoint (`ContinueCommand`), the
  start of the run, the iterations of the run, and the ways it can return; the
  variable `mode` says where control is. Commands that only print, and refused
  ones, change nothing: together they are `InspectCommand`.
* **Boot.** `load_elf32` writes to memory, so it is modelled at the grain at
  which it could fail half-way: one step for the file header, one per program
  header, one per byte written. `image` is a record of what the loader reads
  from the file, and `load_segments`, `previous_virtual_address`,
  `first_nonempty_address` and `previous_nonempty_end` are its local variables.
  A sequence of early returns is a sequence of names in the order of the code
  (`HeaderChecks`, `SegmentChecks`, `StackChecks`); the first that fails is
  returned. `caller` says who loads: `rvemu` checks its configuration first and
  builds a stack afterwards, the test runner does neither, and a user of the
  library may load into memory that is not zero (`FillByte`), so that a byte
  written as zero differs from one not written. In the two programs the
  allocation of guest memory or of the file's buffer may fail, and so may
  opening and reading the file.
* **Hosted.** `LoadProgram` is a step of `Boot`, `RunGuest` a step of
  `BatchRun`. In debugger mode the guest's steps are those of a batch run too,
  which is what `RefinesBatchRun` shows of `Debugger`; what is left of the user
  is `LeaveDebugger`. `ReturnStatus` is the end of `main`: `run_cli_status` for
  `rvemu`, `report_result_status` for the test runner, where an uncaught
  exception aborts the process.
* **CommandLine.** One action per kind of argument the loop of
  `parse_arguments` tells apart, `FinishParsing` for the tests after the loop,
  `ReturnFromMain` for help and usage errors. Texts are compared, never taken
  apart: `Dashed` and `Numeral` say what the parser finds out about one.
* **Benchmark.** The three programs are written with the benchmark's own
  helpers and decoded by table; data size and branch period are parameters.
  `StartIteration` is the reset and the call of `run`, `RunInstruction` one
  iteration of `ExecutionEngine::run`, `CollectIteration` what the benchmark
  reads afterwards. Two failures end the loop: a trap, and an estimate that
  overflows. `LibraryStep` is an analyzer attached to any other machine.
* **Performance models.** Caches and predictors are records, and their
  operations are operators on records, because the split cache model owns two
  caches. `AnalyzedStep` is an engine step together with the observer's call;
  a trapped step does not call it.

## 3. What TLC checks

Every property has a mutant in `PROJECT.json`, a plausible bug in the modelled
code under which TLC finds the property violated. They are the definitions
commented `Mutant`.

| Run | Shows | Bounds, and why they are enough |
| --- | --- | --- |
| `alu` | signed order, shifts, products and quotients agree with the definitions of the RISC-V manual; the two copies of the instruction table agree with each other and with the branches | all 65536 pairs of 8-bit operands; nothing in the code depends on the width except through the sign bit and the shift mask |
| `decoder` | exactly the eleven opcodes are accepted; format, register and function fields are the manual's, and immediates those of its figure, bit by bit; the benchmark's encoders invert the decoder | 32-bit words up to three bits away from an opcode with all other bits 0 or all 1. An immediate bit comes from one bit of the word, and a wrong sign or a borrow that stops early shows with one or two bits set |
| `machine` | precise traps, complete observations, stores read back, aligned accesses and program counters | every two-word program over a table with all opcodes and their error paths, register values around both ends of a region whose last word is half mapped. Wrap-around at the top of the address space is covered by the proofs, which hold for every region |
| `batch` | strict step limit, confinement of both environments, accounting of output | three-word programs over six instructions, every call argument from sets with a valid and an invalid member for each check, a sink that takes any prefix, fails or throws, on one of the two streams after it has taken a prefix (`ThrowingStreams`) |
| `debugger` | shared budget, stop flag, sorted breakpoints, refinement of a batch run, `continue` returns and makes progress | five programs (straight line, loops, self-modification, calls, traps), any command sequence, budget 6, which exceeds two loop iterations |
| `cache` | accepted configurations are exact; least-recently-used replacement and counts, against definitions over the trace | all 32768 configurations of a 5-bit size type, all traces of five accesses to six addresses, two of them in one block, with resets; five accesses fill a set of four ways and then evict from it or reuse it |
| `predictor` | every prediction is the one that the outcomes of its entry since the reset determine; an error is counted against the prediction made before the branch is learned; learning is local and error-driven | every strategy, table size up to 33 and initial counter, all traces of three observations on two aliasing branches and a third: three outcomes take a counter from either end past the middle |
| `cycles` | exact total or the right failure | all counts up to a maximum of 5 |
| `benchmark` | the counters of the parts agree, each completed step adds exactly its price and a trap nothing, no workload traps and all iterations measure the same | the three workloads with a data area of three words and a branch period of four, up to 60 instructions in an iteration, which is several turns of each loop, and three iterations; six other programs with twelve instructions between resets; a cycle maximum of 100 so that estimates overflow |
| `hosted` | a rejected image changes nothing, an accepted one is in memory byte for byte and is reported as it is, the stack is mapped and free, the exit status says what happened, and both programs end | all pairs of twenty-one program headers (adjacent, overlapping, empty, beyond each limit, misaligned, of each rejected type) with three entry points; every one or two defects of the file header; 75 guest programs that exit, trap, loop, push or make unknown calls; five stack sizes, step limits of 0, 2 and 6; a region of 62 bytes that ends with the address space |
| `command_line` | the parser accepts exactly the command language and gives each option its value | all lists of up to three arguments or option-value pairs, and longer lists with all combinations of size and base; numbers inside, at and beyond every limit |
| `act_status` | the finding below | as `hosted` |

Properties worth knowing when reading the code:

* `PreciseSteps`: a trap has changed nothing, and a completed instruction only
  its destination register and the bytes its observation reports.
* `EnvironmentConfined`: a handled call writes only `a0` and moves the program
  counter by four; exits and unhandled calls write nothing.
* `OutputAccounted`: a `write` that returns a count has delivered exactly that
  many bytes of memory to its stream, none but an empty one returns zero, and no
  other step delivers anything. An error means that nothing was delivered, with
  one exception: a host buffer that throws after it has taken a prefix.
  `handle_write` catches the exception and returns an I/O error, because nobody
  can tell it how much was taken.
* `RefinesBatchRun`: whatever commands are entered, the guest, its output and
  the statistics go through the steps of a batch run with the same limit.
* `ContinueProgresses`: the stop flag lets `continue` leave a breakpoint. The
  property assumes that the user eventually stops deleting breakpoints: to
  delete and add the breakpoint at the current address clears the flag, and the
  next `continue` stops there again at once.
* `CyclesPriced`: what a step adds to the estimate is computed from the caches
  and the branch history as they were before it and from the result the engine
  returned, not from the analyzer's own counters. An observer call that is
  missing, repeated or made for a trap, a part of the analyzer that is passed
  over, or a part that learns before it measures makes it false.
* `ErrorDriven`: `observe` predicts before it updates, counts the branch as
  incorrect by that prediction, and changes no other entry.
* `PredictionFollowsHistory`: the prediction is computed from the outcomes alone,
  with no counters: it is taken exactly if, since some moment, the taken outcomes
  of the entry lead by two and the others have never since led by two. The
  initial counter is a head start since the reset.
* `IterationsAgree`: a reset leaves nothing behind, and a workload stays in its
  loop and in its memory; each report is of as many instructions as the
  iteration was asked to run.
* `ExitStatusExplained`: the status is recovered from the final machine state.
  A guest status is the low byte of `a0` for `rvemu`, whether or not the whole
  word is zero for the test runner; every other end has a status of its own.
  `rvemu` returns 125 for those, and a guest may exit with 125 too.
* `ParsesTheLanguage`: the parser, which goes through the arguments once, agrees
  with a definition of the language that gives every argument a role.
* `LoadIsAllOrNothing`: no load fails after its first write. It also says that
  two of the stack's checks (`InvalidOccupiedRange`, `InvalidStackSize`) cannot
  fail for a loaded program, and that `write8` cannot throw in the loader: that
  branch of `WriteByte` is never taken.
* `MostRecentlyUsedFirst`, `StatisticsOfTrace`: the shifting of lines is true
  LRU, and hits are exactly the accesses whose reuse distance is small enough.

**Fairness.** `DebuggerSpec` has weak fairness of the debugger's steps inside a
`continue`, `HostedSpec` of loading, of starting the session and of returning
the status, and of the guest's steps when there is no debugger: all are code on
one thread that does not block. Nothing is assumed of the user
(`ContinueProgresses` has its assumption in the formula, `HostedTerminates`
leaves debugger mode out) or of the guest. The other runs need no fairness.

**Deadlock** is checked except where the behaviour really ends: in `cache`
and `predictor` a rejected configuration has no object to operate on, and in
`cycles` the counts stop at their maximum.

**Finding.** `README.md:646-647` of the repository says that the test runner's
exit status is 0, 1 or 2, with 2 for runner and infrastructure failures. The
runner allocates guest memory and the file's buffer outside any `try` block
(`tools/act_smoke.cpp:27`, and `main` in `act_smoke_main.cpp` has none), so a
failed allocation ends in `std::terminate`. The run `act_status` finds the
behaviour as a violation of `RunnerStatusDocumented`. `rvemu` catches the same
exceptions and returns 125.

## 4. What is proved

The theorems hold for every value of the constants that satisfies the named
assumptions of the modules, so for the 32-bit program as well as for the
instances of TLC, which evaluates every assumption it runs with.

| Theorem | States |
| --- | --- |
| `MachineTypeInvariant`, `AlignmentIsKept`, `StepsArePrecise`, `ControlFlowIsObserved`, `AccessesAreOneLine`, `StoresAreReadBack` | `MachineSpec` implies `[]TypeOK`, `AlignmentKept`, `PreciseSteps`, `ControlFlowObserved`, `[]OneLinePerAccess`, `[]StoresReadBack` |
| `SignedLessThan` | comparing with flipped sign bits is the signed order, at every width |
| `SignedOrderHolds`, `SignedDivisionHolds`, `ExactProductHolds`, `ArithmeticShiftHolds`, `TablesAgreeHolds` | the five invariants of the run `alu`, for words of every width |
| `DecodesAsManualHolds`, `EncodersInvertDecoderHolds` | the two invariants of the run `decoder`, for any number of flipped bits, hence for every 32-bit word |
| `BatchTypeInvariant`, `LimitIsStrict`, `RunsAreConfined`, `RunsAreAccounted` | `BatchSpec` implies `[]BatchTypeOK`, `[]StrictLimit`, `EnvironmentConfined`, `OutputAccounted` |
| `DebuggerInvariantHolds`, `StopsAreAtBreakpoints`, `BudgetIsCumulative`, `BreakpointsStaySorted` | `DebuggerSpec` implies its inductive invariant, `[]StopIsAtBreakpoint`, `[]CumulativeBudget`, `[]BreakpointsSorted` |
| `DebuggerRefinesBatchRun` | `DebuggerSpec => RefinesBatchRun`: the debugger implements a batch run |
| `DebuggingIsConfined` | `DebuggerSpec => EnvironmentConfined /\ OutputAccounted` |
| `HostedInvariantHolds`, `LoadsAreAllOrNothing`, `LoadedMemoryIsImage`, `LoadsAreReported`, `StacksAreReserved`, `ExitStatusIsExplained` | `HostedSpec` implies its inductive invariant and the five invariants of the run `hosted` |
| `ArgumentsAreParsed` | `CommandLineSpec => []ParsesTheLanguage`, for every argument list |
| `EstimatesAreExact` | `CycleSpec => []EstimateExact`, for every width of the counters |
| `CountersAlwaysAgree`, `StepsArePriced` | `CountersAgree` and `CyclesPriced`, for an analyzer attached to any machine (`AnalyzerSpec`) and under the benchmark (`BenchmarkSpec`) |
| `IterationsAlwaysAgree` | `BenchmarkSpec => []IterationsAgree`, for every instruction limit, number of iterations and analyzer |
| `AcceptedCachesExist`, `RecentBlocksStay`, `HitsAreReuses` | `CacheSpec` implies `[]AcceptedGeometry`, `[]MostRecentlyUsedFirst`, `[]StatisticsOfTrace` |
| `LearningIsErrorDriven`, `PredictionsFollowHistory` | `PredictorSpec` implies `ErrorDriven`, `[]PredictionFollowsHistory` |

**Assumptions.** `ByteAssumption` (bytes have an even number of values),
`WordBitsAssumption` (a word has `2^WordBits` values; that powers double is
proved, by counting subsets), `BitOperatorsAssumption` (the bit operators stay in
the word and work bit by bit), `RegionAssumption`, `RegisterAssumption`,
`DecodeAssumption` (at most one decoding, with fields in range; `ECALL` and
`EBREAK` are different words), `WriteSizeAssumption`, `DebuggerAssumption`,
`BootAssumption`, `ImagesAssumption` (an image has as many program headers as
its header says, unless the count is one the loader refuses, and fields that are
words), `OptionsAssumption`, `MaxSizeAssumption` and `PredictorCheckAssumption`
(`&` works bit by bit on sizes and table indices too), `CacheCheckAssumption`,
`AnalyzerAssumption` (the analyzer was built from accepted configurations, and
the costs fit their type), `MaxCyclesAssumption`, `CostsAssumption`. What is
said of images, options, configurations and costs is their type in C++ and
nothing else. `CommandLineAssumption` says which texts start with a dash (every
option, not the empty text), that a numeral starts with none and stands for a
natural number, and that the defaults are numbers within the address space.
`BenchmarkAssumption` says where the constants of `benchmark_workload.hpp` put
program and data: word-aligned, the seven words of the longest program below
the data, the data inside memory, each program word decoded to its instruction.

**Arguments.**

* *Machine.* `TypeOK` is inductive by itself, because every result is reduced
  to a word by the operators of `Words` and `Alu` (closure lemmas in
  `WordTheorems`). The other properties are about a single step from a typed
  state, and all rest on one lemma, `StepShape`: every step either traps and
  changes nothing, or retires an instruction with at most one access, which has
  passed the bounds and alignment checks. `StoresReadBack` needs in addition
  that the little-endian digits of a value determine it (`TwoDigitsOf`,
  `DivDiv`, `ModUnique`) and that a write changes only its own bytes
  (`WriteThenRead`, `StoreFrame`).
* *Arithmetic.* The magnitudes are exact integers once the most negative word is
  seen to be its own magnitude; products and quotients follow from the
  uniqueness of quotient and remainder, and the arithmetic shift from
  `PowerDoubles`. A recurrence that needs induction (a bitwise `and` of a number
  with itself, say) is proved by its least counterexample, `LeastNatural`.
* *Decoder.* Words are sets of bits. The sign extension, an exclusive or
  followed by a wrapping subtraction, is shown to copy the top bit by following
  the borrow; the rest is the position of each bit of an immediate.
* *Sessions.* `BatchTypeOK` is inductive; the type of every environment call
  result is a lemma of `SessionProofs`, which the debugger's proofs use too.
* *Debugger.* `DebuggerInvariant` is `DebuggerTypeOK`, `BudgetInvariant` (the
  counts before and inside the current run, together at most the maximum) and
  `StopInvariant` (the flag is clear while a `continue` is under way, and set only
  at a breakpoint). `CumulativeBudget` and `StopIsAtBreakpoint` are not inductive alone,
  because they do not speak of the run that a `continue` has under way.
  `BreakpointsSorted` rests on what `lower_bound`, insertion and removal do to a
  sorted sequence. For `RefinesBatchRun` each action is mapped to the step of
  `BatchRun` it makes; the total statistics are the debugger's plus the run's.
* *Boot and Hosted.* `LoaderInvariant` says, step by step, what has been
  validated (`SegmentsPlaced`, `SegmentsOrdered`, `EndsKnown`: the remembered
  addresses bound all segments so far, empty ones apart) and, while bytes are
  written, that the written part is the image and the rest untouched
  (`WritingInvariant`). Order and disjointness of the segments make every write
  land on a byte no other segment covers. `RunInvariant` and `StatusReturned`
  carry the facts from the loader through the run to the status.
* *Cycle estimate, analyzer.* Each checked operation is exact or fails;
  `AnalyzerInvariant` types the counters and relates those of caches, predictor
  and analyzer. An observation adds one to the instructions, and one to the
  misses or to the errors exactly when the cache or the predictor before it
  misses or is wrong; an estimate is linear in these counts, so the growth of an
  exact total is the price. `CountersAgree` is the plain part of this: relations
  between the counters, which a missing observation would not disturb.
* *Predictor.* `HistoryInvariant`: a counter is at least `v` exactly if the
  outcomes of its entry are `v` ahead since some moment and never, from then on,
  so far behind that the lower end would have been met (`AtLeast`, `Remembers`).
  One more outcome moves every lead by one (`LeadsShift`, `AheadGrows`), and at
  either end saturation is a moment that starts the count again
  (`RemembersOneMore`).
* *Cache.* `CacheHistory`: each set is `Stacked`, that is, way `w` holds the
  block that `w` others of its set were used after, and the statistics are
  those of the trace. An access raises by one the rank of the blocks that were
  younger than its own and gives it rank 0 (`UseMovesRanks`), and that is what
  moving the ways up to the selected one does to a stacked set
  (`AccessStacks`); the ways of two sets do not overlap (`SetsApart`). The last
  access is a hit exactly when the rank of its block was below the number of
  ways (`LastIsHit`).
* *Command line.* The language gives every argument a role that depends on the
  roles before it, by a recursive function. That the function exists for every
  list is proved by the least argument without a role (`RolesExist`), and from
  then on only its equation is used (`RoleOfEquation`). `ParserInvariant` says
  that the parser is always at the start of an item and that its local
  variables are what the arguments before it mean: each flag is set exactly if
  its option is there, and there once (`SeenOnce`), each value is the one the
  language gives it (`ValuesRead`), the path likewise (`PathRead`). When the
  parser rejects, the argument at which it does makes the whole list wrong
  (`RejectedIsWrong`), and at the end of the list nothing is left to object to
  but what `FinishParsing` tests (`FinishIsRight`). `ParsesTheLanguage` alone
  says nothing of a list that is half read.
* *Benchmark.* `IterationsAgree` compares iterations that are far apart, so the
  invariant says of each one where it is on a run that does not depend on the
  iteration: `ReachedAfter(workload, n, s)` holds of the one state `s` that the
  workload is in after `n` instructions (`OneIsReached`, again by the least
  difference). Completed instructions of the opcodes the workloads use are
  functions of machine and analyzer (`StateAfter`, `StepRuns`), and a reset
  gives `FirstState` whatever was there before (`ResetStarts`). That every
  instruction completes needs `LoopState`: the program is in memory as loaded,
  the program counter is at one of its words, and in `MemoryStride` the pointer
  is an aligned word of the data wherever it is used, at most the end of it
  before the comparison, and back at its start before the jump (`StrideAt`).
  Each of the twenty instructions is then shown to lead to a word of its own
  program; for the branches back this is a sum that wraps.

**Only model-checked.** The liveness properties `ContinueReturns`,
`ContinueProgresses` and `HostedTerminates`: liveness under fairness is beyond the
prover. `RunnerStatusDocumented` is the finding, and false. Every other property
of the runs has its theorem. The runs remain the evidence that the assumptions
can be met and that the properties can fail: each has its mutant.

## 5. What is not modelled

* The decoder inside the runs of the machine: `Decode` is a parameter of the
  proofs and a table in the runs, because instruction words have 32 bits and
  the words of the runs have 8. `Decoder` is checked by itself.
* How header fields are read from the bytes of a file: an image is a record of
  the fields.
* Characters: `parse_unsigned` and the debugger's line parser are modelled by
  what they return for a text. Diagnostics and printed state are left out.
* The test runner's check of its argument count, benchmark timing and the names
  of benchmark counters.
* A sink that reports a failure after it has taken bytes: `README.md:264-265` of
  the repository asks a failed result to consume none, and `StreamOutputSink`
  fails only when the host's buffer took nothing. A sink that throws may have
  taken a prefix, on the streams of `ThrowingStreams`. A host buffer whose
  `sputn` claims more bytes than it was given: the C++ standard library does not
  allow one.
* Counters of 64 bits are not wrapped, except in `CycleEstimator`, whose subject
  they are: the runs bound them far below.
* Conformance scripts, tests, build files: host tooling that runs the programs
  and holds no state of theirs.

## 6. Plan

The order follows the importance of the behaviour. All of it is done.

1. `Words`, `Memory`, `Alu`, `Machine`, with the proofs of the machine.
2. `LinuxSyscalls`, `ProgramSession`, `BatchRun`.
3. `Debugger`, with `BatchRun` as its abstract specification.
4. `CacheModel`, `BranchPredictor`, `CycleEstimator`.
5. `PerformanceAnalyzer`, composing 4 with `Machine`.
6. `Boot`: the ELF loader and the stack.
7. `Decoder`, `CommandLine`.
8. `Hosted`, composing 2 and 6, and `Benchmark`, composing 5 with its workloads.
9. Proofs: every safety invariant and action property of the runs, and the
   refinement of `BatchRun` by `Debugger`.

What could follow: a byte-level model of the ELF file in front of `Boot`, and
`Decoder` in place of the constant `Decode` in `Hosted`, both of which need words
of 32 bits and so are for the prover rather than for TLC.
