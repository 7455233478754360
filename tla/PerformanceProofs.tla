------------------------- MODULE PerformanceProofs -------------------------
(***************************************************************************)
(* The performance models, for every configuration: the cycle estimate,    *)
(* the counters of the analyzer, the geometry of an accepted cache, what   *)
(* the branch predictor learns, which blocks a cache holds, and that all   *)
(* iterations of a benchmark measure the same thing.                       *)
(***************************************************************************)
EXTENDS Benchmark, CycleCheck, CacheCheck, PredictorCheck, MachineProofs,
        FiniteSetTheorems, SequenceTheorems

(***************************************************************************)
(* checked_multiply compares with a quotient and so decides, without       *)
(* computing it, whether the product fits.                                 *)
(***************************************************************************)
LEMMA ProductFits ==
    ASSUME NEW left \in Nat \ {0}, NEW right \in Nat, NEW max \in Nat
    PROVE  right <= max \div left <=> left * right <= max
<1>1. PICK q \in Nat : q = max \div left
  OBVIOUS
<1>2. PICK r \in 0 .. (left - 1) : max = left * q + r
  BY <1>1
<1>3. ASSUME right <= q PROVE left * right <= max
  <2>1. PICK k \in Nat : q = right + k
    BY <1>3
  <2>2. left * q = left * right + left * k /\ left * k \in Nat
    BY <2>1
  <2>. QED
    BY <1>2, <2>2
<1>4. ASSUME right > q PROVE left * right > max
  <2>1. PICK k \in Nat : right = q + 1 + k
    BY <1>4
  <2>2. left * right = left * q + left + left * k /\ left * k \in Nat
    BY <2>1
  <2>. QED
    BY <1>2, <2>2
<1>. QED
  BY <1>1, <1>3, <1>4

LEMMA MultiplyExact ==
    ASSUME NEW left \in Nat, NEW right \in Nat
    PROVE  checked_multiply(left, right)
               = IF left * right <= MaxCycles THEN Some(left * right) ELSE NullOpt
<1>1. MaxCycles \in Nat /\ left * right \in Nat
  BY MaxCyclesAssumption
<1>2. left * right <= MaxCycles => (left * right) % (MaxCycles + 1) = left * right
  BY <1>1
<1>3. CASE left = 0
  BY <1>1, <1>2, <1>3 DEF checked_multiply
<1>4. CASE left # 0
  <2>1. right > MaxCycles \div left <=> ~ (left * right <= MaxCycles)
    BY <1>1, <1>4, ProductFits
  <2>. QED
    BY <1>1, <1>2, <1>4, <2>1 DEF checked_multiply
<1>. QED
  BY <1>3, <1>4

LEMMA AddExact ==
    ASSUME NEW t \in Nat, t <= MaxCycles, NEW value \in Nat
    PROVE  checked_add(Some(t), value)
               = IF t + value <= MaxCycles THEN Some(t + value) ELSE NullOpt
<1>1. MaxCycles \in Nat
  BY MaxCyclesAssumption
<1>2. t + value <= MaxCycles => (t + value) % (MaxCycles + 1) = t + value
  BY <1>1
<1>3. CASE t + value <= MaxCycles
  BY <1>1, <1>2, <1>3 DEF checked_add, Some
<1>4. CASE ~ (t + value <= MaxCycles)
  BY <1>1, <1>4 DEF checked_add, Some, NullOpt
<1>. QED
  BY <1>3, <1>4

LEMMA AddNothing ==
    ASSUME NEW value
    PROVE  checked_add(NullOpt, value) = NullOpt
BY DEF checked_add, NullOpt

LEMMA SomeValue ==
    ASSUME NEW v
    PROVE  (CHOOSE u \in Some(v) : TRUE) = v /\ Some(v) # NullOpt
BY DEF Some, NullOpt

(***************************************************************************)
(* The estimate, in exact arithmetic.  A total that has overflowed on the  *)
(* way would also overflow at the end, so the order of the sums does not   *)
(* matter.                                                                 *)
(***************************************************************************)
CycleEstimate(a, b, c, d) ==
    [kind |-> "Estimate",
     base_instruction_cycles |-> a,
     instruction_cache_miss_cycles |-> b,
     data_cache_miss_cycles |-> c,
     branch_misprediction_cycles |-> d,
     total_cycles |-> a + b + c + d]

ExactResult(a, b, c, d) ==
    IF a > MaxCycles THEN CycleEstimateFailure("BaseInstructionCostOverflow")
    ELSE IF b > MaxCycles THEN CycleEstimateFailure("InstructionCacheMissCostOverflow")
    ELSE IF c > MaxCycles THEN CycleEstimateFailure("DataCacheMissCostOverflow")
    ELSE IF d > MaxCycles THEN CycleEstimateFailure("BranchMispredictionCostOverflow")
    ELSE IF a + b + c + d > MaxCycles THEN CycleEstimateFailure("TotalOverflow")
    ELSE CycleEstimate(a, b, c, d)

LEMMA TotalExact ==
    ASSUME NEW a \in Nat, NEW b \in Nat, NEW c \in Nat, NEW d \in Nat,
           a <= MaxCycles
    PROVE  checked_add(checked_add(checked_add(Some(a), b), c), d)
               = IF a + b + c + d <= MaxCycles THEN Some(a + b + c + d)
                 ELSE NullOpt
<1>0. MaxCycles \in Nat
  BY MaxCyclesAssumption
<1>1. CASE ~ (a + b <= MaxCycles)
  BY <1>0, <1>1, AddExact, AddNothing
<1>2. CASE a + b <= MaxCycles
  <2>1. checked_add(Some(a), b) = Some(a + b) /\ a + b \in Nat
    BY <1>2, AddExact
  <2>2. CASE ~ (a + b + c <= MaxCycles)
    <3>1. checked_add(Some(a + b), c) = NullOpt
      BY <1>2, <2>1, <2>2, AddExact
    <3>. QED
      BY <1>0, <2>1, <2>2, <3>1, AddNothing
  <2>3. CASE a + b + c <= MaxCycles
    <3>1. checked_add(Some(a + b), c) = Some(a + b + c) /\ a + b + c \in Nat
      BY <1>2, <2>1, <2>3, AddExact
    <3>. QED
      BY <2>1, <2>3, <3>1, AddExact
  <2>. QED
    BY <2>2, <2>3
<1>. QED
  BY <1>1, <1>2

LEMMA EstimateOf ==
    ASSUME NEW price, NEW tally,
           NEW a, NEW b, NEW c, NEW d,
           tally.instructions \in Nat, price.base_instruction_cycles \in Nat,
           tally.instruction_cache_misses \in Nat,
           price.instruction_cache_miss_penalty_cycles \in Nat,
           tally.data_cache_misses \in Nat,
           price.data_cache_miss_penalty_cycles \in Nat,
           tally.branch_mispredictions \in Nat,
           price.branch_misprediction_penalty_cycles \in Nat,
           a = tally.instructions * price.base_instruction_cycles,
           b = tally.instruction_cache_misses
                 * price.instruction_cache_miss_penalty_cycles,
           c = tally.data_cache_misses * price.data_cache_miss_penalty_cycles,
           d = tally.branch_mispredictions
                 * price.branch_misprediction_penalty_cycles
    PROVE  /\ {a, b, c, d} \subseteq Nat
           /\ estimate(price, tally) = ExactResult(a, b, c, d)
<1>1. MaxCycles \in Nat /\ a \in Nat /\ b \in Nat /\ c \in Nat /\ d \in Nat
  BY MaxCyclesAssumption
<1>. DEFINE base == checked_multiply(tally.instructions, price.base_instruction_cycles)
            fetch == checked_multiply(tally.instruction_cache_misses,
                                      price.instruction_cache_miss_penalty_cycles)
            data == checked_multiply(tally.data_cache_misses,
                                     price.data_cache_miss_penalty_cycles)
            mispredicted == checked_multiply(tally.branch_mispredictions,
                                       price.branch_misprediction_penalty_cycles)
            Value(optional) == CHOOSE v \in optional : TRUE
            total == checked_add(checked_add(checked_add(base, Value(fetch)),
                                             Value(data)),
                                 Value(mispredicted))
<1>2. /\ base = IF a <= MaxCycles THEN Some(a) ELSE NullOpt
      /\ fetch = IF b <= MaxCycles THEN Some(b) ELSE NullOpt
      /\ data = IF c <= MaxCycles THEN Some(c) ELSE NullOpt
      /\ mispredicted = IF d <= MaxCycles THEN Some(d) ELSE NullOpt
  BY MultiplyExact
<1>3. estimate(price, tally) =
         IF base = NullOpt
         THEN CycleEstimateFailure("BaseInstructionCostOverflow")
         ELSE IF fetch = NullOpt
         THEN CycleEstimateFailure("InstructionCacheMissCostOverflow")
         ELSE IF data = NullOpt
         THEN CycleEstimateFailure("DataCacheMissCostOverflow")
         ELSE IF mispredicted = NullOpt
         THEN CycleEstimateFailure("BranchMispredictionCostOverflow")
         ELSE IF total = NullOpt
         THEN CycleEstimateFailure("TotalOverflow")
         ELSE [kind |-> "Estimate",
               base_instruction_cycles |-> Value(base),
               instruction_cache_miss_cycles |-> Value(fetch),
               data_cache_miss_cycles |-> Value(data),
               branch_misprediction_cycles |-> Value(mispredicted),
               total_cycles |-> Value(total)]
  BY Zenon DEF estimate
<1>some. \A v : Value(Some(v)) = v /\ Some(v) # NullOpt
  BY SomeValue
<1>4. CASE a <= MaxCycles /\ b <= MaxCycles /\ c <= MaxCycles /\ d <= MaxCycles
  <2>1. /\ base = Some(a) /\ fetch = Some(b) /\ data = Some(c)
        /\ mispredicted = Some(d)
    BY <1>2, <1>4
  <2>2. /\ Value(base) = a /\ Value(fetch) = b /\ Value(data) = c
        /\ Value(mispredicted) = d
        /\ base # NullOpt /\ fetch # NullOpt /\ data # NullOpt
        /\ mispredicted # NullOpt
    <3>. HIDE DEF base, fetch, data, mispredicted, Value
    <3>. QED
      BY <1>some, <2>1
  <2>3. total = IF a + b + c + d <= MaxCycles THEN Some(a + b + c + d) ELSE NullOpt
    <3>. HIDE DEF base, fetch, data, mispredicted, Value
    <3>1. total = checked_add(checked_add(checked_add(Some(a), b), c), d)
      BY <2>1, <2>2, Zenon
    <3>2. checked_add(checked_add(checked_add(Some(a), b), c), d)
             = IF a + b + c + d <= MaxCycles THEN Some(a + b + c + d) ELSE NullOpt
      <4>. DEFINE Sums(p, q, r, s) ==
               checked_add(checked_add(checked_add(Some(p), q), r), s)
                 = IF p + q + r + s <= MaxCycles THEN Some(p + q + r + s) ELSE NullOpt
      <4>1. \A p, q, r, s \in Nat : p <= MaxCycles => Sums(p, q, r, s)
        BY TotalExact, Zenon
      <4>2. Sums(a, b, c, d)
        <5>. HIDE DEF Sums
        <5>. QED
          BY <1>1, <1>4, <4>1
      <4>. QED
        BY <4>2
    <3>. HIDE DEF total
    <3>. QED
      BY <3>1, <3>2, Zenon
  <2>4. CASE a + b + c + d <= MaxCycles
    <3>1. total = Some(a + b + c + d) /\ Value(total) = a + b + c + d
          /\ total # NullOpt
      <4>. HIDE DEF total, Value
      <4>1. total = Some(a + b + c + d)
        BY <2>3, <2>4
      <4>. QED
        BY <1>some, <4>1
    <3>2. estimate(price, tally) = CycleEstimate(a, b, c, d)
      <4>. HIDE DEF base, fetch, data, mispredicted, Value, total
      <4>. QED
        BY <1>3, <2>2, <3>1, Zenon DEF CycleEstimate
    <3>. QED
      BY <1>1, <1>4, <2>4, <3>2 DEF ExactResult
  <2>5. CASE ~ (a + b + c + d <= MaxCycles)
    <3>1. estimate(price, tally) = CycleEstimateFailure("TotalOverflow")
      <4>. HIDE DEF base, fetch, data, mispredicted, Value, total
      <4>1. total = NullOpt
        BY <2>3, <2>5
      <4>. QED
        BY <1>3, <2>2, <4>1, Zenon
    <3>. QED
      BY <1>1, <1>4, <2>5, <3>1 DEF ExactResult
  <2>. QED
    BY <2>4, <2>5
<1>5. CASE ~ (a <= MaxCycles /\ b <= MaxCycles /\ c <= MaxCycles /\ d <= MaxCycles)
  <2>1. \A v : Some(v) # NullOpt
    BY SomeValue
  <2>. HIDE DEF base, fetch, data, mispredicted, Value, total
  <2>2. /\ base = NullOpt <=> a > MaxCycles
        /\ fetch = NullOpt <=> b > MaxCycles
        /\ data = NullOpt <=> c > MaxCycles
        /\ mispredicted = NullOpt <=> d > MaxCycles
    BY <1>1, <1>2, <2>1
  <2>3. a > MaxCycles \/ b > MaxCycles \/ c > MaxCycles \/ d > MaxCycles
    BY <1>1, <1>5
  <2>. QED
    BY <1>1, <1>3, <2>2, <2>3 DEF ExactResult
<1>. QED
  BY <1>4, <1>5

(***************************************************************************)
(* The inductive invariant of CycleSpec: the counts and the costs stay     *)
(* natural numbers.                                                        *)
(***************************************************************************)
CycleInvariant ==
    /\ costs \in [base_instruction_cycles : Nat,
                  instruction_cache_miss_penalty_cycles : Nat,
                  data_cache_miss_penalty_cycles : Nat,
                  branch_misprediction_penalty_cycles : Nat]
    /\ counts \in [Events -> Nat]

LEMMA ExactEstimate ==
    ASSUME NEW a \in Nat, NEW b \in Nat, NEW c \in Nat, NEW d \in Nat,
           ExactCosts = <<a, b, c, d>>,
           estimate(costs, counts) = ExactResult(a, b, c, d)
    PROVE  EstimateExact
<1>1. PICK result : result = estimate(costs, counts)
  OBVIOUS
<1>2. /\ ExactCosts[1] = a /\ ExactCosts[2] = b /\ ExactCosts[3] = c
      /\ ExactCosts[4] = d
      /\ ExactTotal = a + b + c + d
      /\ MaxCycles \in Nat
  BY MaxCyclesAssumption DEF ExactTotal
<1>. DEFINE overflows == {k \in 1 .. 4 : ExactCosts[k] > MaxCycles}
<1>3. ExactTotal <= MaxCycles => result = CycleEstimate(a, b, c, d)
  <2>. HAVE ExactTotal <= MaxCycles
  <2>1. /\ ~ (a > MaxCycles) /\ ~ (b > MaxCycles) /\ ~ (c > MaxCycles)
        /\ ~ (d > MaxCycles) /\ ~ (a + b + c + d > MaxCycles)
    BY <1>2
  <2>. QED
    BY <1>1, <2>1 DEF ExactResult
<1>4. ~ (ExactTotal <= MaxCycles) =>
         /\ result.kind = "Failure"
         /\ result.code = IF a > MaxCycles THEN "BaseInstructionCostOverflow"
                          ELSE IF b > MaxCycles
                          THEN "InstructionCacheMissCostOverflow"
                          ELSE IF c > MaxCycles THEN "DataCacheMissCostOverflow"
                          ELSE IF d > MaxCycles
                          THEN "BranchMispredictionCostOverflow"
                          ELSE "TotalOverflow"
  <2>. HAVE ~ (ExactTotal <= MaxCycles)
  <2>1. a + b + c + d > MaxCycles
    BY <1>2
  <2>2. \A code : /\ CycleEstimateFailure(code).kind = "Failure"
                  /\ CycleEstimateFailure(code).code = code
    BY DEF CycleEstimateFailure
  <2>. QED
    BY <1>1, <2>1, <2>2 DEF ExactResult
<1>5. /\ 1 \in overflows <=> a > MaxCycles
      /\ 2 \in overflows <=> b > MaxCycles
      /\ 3 \in overflows <=> c > MaxCycles
      /\ 4 \in overflows <=> d > MaxCycles
      /\ overflows \subseteq {1, 2, 3, 4}
  BY <1>2
<1>6. /\ FailureCodes[1] = "BaseInstructionCostOverflow"
      /\ FailureCodes[2] = "InstructionCacheMissCostOverflow"
      /\ FailureCodes[3] = "DataCacheMissCostOverflow"
      /\ FailureCodes[4] = "BranchMispredictionCostOverflow"
  BY DEF FailureCodes
<1>. HIDE DEF overflows
<1>7. ~ (ExactTotal <= MaxCycles) =>
         /\ result.kind = "Failure"
         /\ overflows = {} => result.code = "TotalOverflow"
         /\ \A k \in overflows :
               (\A j \in overflows : k <= j) => result.code = FailureCodes[k]
  <2>. HAVE ~ (ExactTotal <= MaxCycles)
  <2>1. overflows = {} => result.code = "TotalOverflow"
    BY <1>4, <1>5
  <2>2. ASSUME NEW k \in overflows, \A j \in overflows : k <= j
        PROVE  result.code = FailureCodes[k]
    <3>1. /\ k \in {1, 2, 3, 4}
          /\ k = 2 => 1 \notin overflows
          /\ k = 3 => 1 \notin overflows /\ 2 \notin overflows
          /\ k = 4 => 1 \notin overflows /\ 2 \notin overflows /\ 3 \notin overflows
      BY <1>5, <2>2
    <3>. QED
      BY <1>4, <1>5, <1>6, <3>1
  <2>. QED
    BY <1>4, <2>1, <2>2
<1>. QED
  BY <1>1, <1>2, <1>3, <1>7 DEF EstimateExact, CycleEstimate, overflows

(***************************************************************************)
(* estimate never wraps: for every set of costs and every counts it        *)
(* returns the exact costs, or the code of what does not fit in 64 bits.   *)
(***************************************************************************)
THEOREM EstimatesAreExact == CycleSpec => []EstimateExact
<1>1. CycleInit => CycleInvariant
  <2>. SUFFICES ASSUME CycleInit PROVE CycleInvariant
    OBVIOUS
  <2>1. Costs \subseteq Nat
    BY CostsAssumption, MaxCyclesAssumption
  <2>2. costs \in [base_instruction_cycles : Nat,
                   instruction_cache_miss_penalty_cycles : Nat,
                   data_cache_miss_penalty_cycles : Nat,
                   branch_misprediction_penalty_cycles : Nat]
    BY <2>1 DEF CycleInit
  <2>. QED
    BY <2>2 DEF CycleInit, CycleInvariant
<1>2. CycleInvariant /\ [CycleNext]_cycle_vars => CycleInvariant'
  BY DEF CycleInvariant, CycleNext, CountEvent, cycle_vars
<1>3. CycleInvariant => EstimateExact
  <2>. SUFFICES ASSUME CycleInvariant PROVE EstimateExact
    OBVIOUS
  <2>1. /\ counts.instructions \in Nat
        /\ counts.instruction_cache_misses \in Nat
        /\ counts.data_cache_misses \in Nat
        /\ counts.branch_mispredictions \in Nat
    BY DEF CycleInvariant, Events
  <2>2. /\ costs.base_instruction_cycles \in Nat
        /\ costs.instruction_cache_miss_penalty_cycles \in Nat
        /\ costs.data_cache_miss_penalty_cycles \in Nat
        /\ costs.branch_misprediction_penalty_cycles \in Nat
    BY Zenon DEF CycleInvariant
  <2>3. PICK a, b, c, d :
            /\ a = counts.instructions * costs.base_instruction_cycles
            /\ b = counts.instruction_cache_misses
                     * costs.instruction_cache_miss_penalty_cycles
            /\ c = counts.data_cache_misses * costs.data_cache_miss_penalty_cycles
            /\ d = counts.branch_mispredictions
                     * costs.branch_misprediction_penalty_cycles
    OBVIOUS
  <2>4. ExactCosts = <<a, b, c, d>>
    BY <2>3, Zenon DEF ExactCosts
  <2>5. /\ {a, b, c, d} \subseteq Nat
        /\ estimate(costs, counts) = ExactResult(a, b, c, d)
    BY <2>1, <2>2, <2>3, EstimateOf, ZenonT(40)
  <2>6. a \in Nat /\ b \in Nat /\ c \in Nat /\ d \in Nat
    BY <2>5
  <2>. QED
    BY <2>4, <2>5, <2>6, ExactEstimate, Zenon
<1>. QED
  BY <1>1, <1>2, <1>3, PTL DEF CycleSpec

-----------------------------------------------------------------------------
(***************************************************************************)
(* What a completed instruction reports: the address it was fetched from,  *)
(* at most one data access, and then no transfer of control.               *)
(***************************************************************************)
OneEffect(observation) ==
    /\ observation.program_counter = program_counter
    /\ \/ observation.data_memory_access = NullOpt
       \/ \E a : /\ observation.data_memory_access = Some(a)
                 /\ a.kind \in {"Load", "Store"}
                 /\ observation.control_flow = NullOpt

LEMMA RetireEffect ==
    ASSUME NEW i, NEW v, NEW next, NEW accessed, NEW flow,
           Retire(i, v, next, accessed, flow),
           \/ accessed = NullOpt
           \/ \E a : accessed = Some(a) /\ a.kind \in {"Load", "Store"}
                     /\ flow = NullOpt
    PROVE  OneEffect(step_result')
<1>1. /\ step_result'.data_memory_access = accessed
      /\ step_result'.control_flow = flow
      /\ step_result'.program_counter = program_counter
  BY DEF Retire, ExecutionObservation
<1>. QED
  BY <1>1 DEF OneEffect

LEMMA TrapIsNoObservation ==
    ASSUME NEW cause, NEW v, Trapped(cause, v)
    PROVE  step_result'.kind = "Trap"
BY DEF Trapped, Trap

LEMMA StepEffect ==
    ASSUME EngineStep
    PROVE  step_result'.kind = "Completed" => OneEffect(step_result')
<1>. SUFFICES ASSUME step_result'.kind = "Completed"
              PROVE  OneEffect(step_result')
  OBVIOUS
<1>1. ~ \E cause, v : Trapped(cause, v)
  BY TrapIsNoObservation
<1>2. PICK raw \in Fetched : \E i \in Decode(raw) : Execute(raw, i)
  BY <1>1 DEF EngineStep, FetchMisaligned, FetchFault, Undecodable
<1>3. PICK i \in Decode(raw) : Execute(raw, i)
  BY <1>2
<1>4. ASSUME NEW v, NEW next, NEW flow, Retire(i, v, next, NullOpt, flow)
      PROVE  OneEffect(step_result')
  BY <1>4, RetireEffect
<1>5. ASSUME NEW v, NEW next, NEW a, Retire(i, v, next, Some(a), NullOpt),
             a.kind \in {"Load", "Store"}
      PROVE  OneEffect(step_result')
  BY <1>5, RetireEffect
<1>lui. CASE ExecuteLui(raw, i)
  BY <1>lui, <1>4 DEF ExecuteLui
<1>auipc. CASE ExecuteAuipc(raw, i)
  BY <1>auipc, <1>4 DEF ExecuteAuipc
<1>opi. CASE ExecuteOpImmediate(raw, i)
  BY <1>opi, <1>1, <1>4 DEF ExecuteOpImmediate, RetireResult
<1>op. CASE ExecuteOp(raw, i)
  BY <1>op, <1>1, <1>4 DEF ExecuteOp, RetireResult
<1>jal. CASE ExecuteJal(raw, i)
  BY <1>jal, <1>1, <1>4 DEF ExecuteJal, TransferTo
<1>jalr. CASE ExecuteJalr(raw, i)
  BY <1>jalr, <1>1, <1>4 DEF ExecuteJalr, TransferTo
<1>branch. CASE ExecuteBranch(raw, i)
  BY <1>branch, <1>1, <1>4 DEF ExecuteBranch, TransferTo
<1>load. CASE ExecuteLoad(raw, i)
  <2>. DEFINE a == [kind |-> "Load", address |-> EffectiveAddress(i),
                    width |-> data_access_width(i.function3)]
  <2>1. \E v : Retire(i, v, SequentialProgramCounter, Some(a), NullOpt)
    BY <1>load, <1>1, Zenon DEF ExecuteLoad
  <2>2. a.kind = "Load"
    OBVIOUS
  <2>. HIDE DEF a
  <2>. QED
    BY <1>5, <2>1, <2>2
<1>store. CASE ExecuteStore(raw, i)
  <2>. DEFINE a == [kind |-> "Store", address |-> EffectiveAddress(i),
                    width |-> data_access_width(i.function3)]
  <2>1. Retire(i, NullOpt, SequentialProgramCounter, Some(a), NullOpt)
    BY <1>store, <1>1, Zenon DEF ExecuteStore
  <2>2. a.kind = "Store"
    OBVIOUS
  <2>. HIDE DEF a
  <2>. QED
    BY <1>5, <2>1, <2>2
<1>misc. CASE ExecuteMiscMemory(raw, i)
  BY <1>misc, <1>1, <1>4 DEF ExecuteMiscMemory
<1>system. CASE ExecuteSystem(raw, i)
  BY <1>system, <1>1 DEF ExecuteSystem
<1>. QED
  BY <1>3, <1>lui, <1>auipc, <1>opi, <1>op, <1>jal, <1>jalr, <1>branch, <1>load,
     <1>store, <1>misc, <1>system DEF Execute

(***************************************************************************)
(* The inductive invariant of the analyzer: beside CountersAgree, every    *)
(* counter is a natural number, each cache counts an access once, as a hit *)
(* or a miss, and each prediction once, as correct or incorrect.           *)
(***************************************************************************)
CountedOnce(s) ==
    /\ s.accesses \in Nat /\ s.hits \in Nat /\ s.misses \in Nat
    /\ s.accesses = s.hits + s.misses

PredictedOnce(s) ==
    /\ s.predictions \in Nat /\ s.correct \in Nat /\ s.incorrect \in Nat
    /\ s.predictions = s.correct + s.incorrect

AnalyzerInvariant ==
    /\ instructions_observed \in Nat
    /\ CountedOnce(instruction_cache.statistics)
    /\ CountedOnce(data_cache.statistics)
    /\ CountedOnce(load_statistics)
    /\ CountedOnce(store_statistics)
    /\ PredictedOnce(branch_predictor.statistics)
    /\ CountersAgree

LEMMA RecordAccess ==
    ASSUME NEW s, CountedOnce(s), NEW hit
    PROVE  /\ CountedOnce(record_access(s, hit))
           /\ record_access(s, hit).accesses = s.accesses + 1
           /\ record_access(s, hit).hits = s.hits + (IF hit THEN 1 ELSE 0)
           /\ record_access(s, hit).misses = s.misses + (IF hit THEN 0 ELSE 1)
<1>1. /\ record_access(s, hit).accesses = s.accesses + 1
      /\ record_access(s, hit).hits = s.hits + (IF hit THEN 1 ELSE 0)
      /\ record_access(s, hit).misses = s.misses + (IF hit THEN 0 ELSE 1)
  BY DEF record_access
<1>. QED
  BY <1>1 DEF CountedOnce

(***************************************************************************)
(* What one observation adds to the counts the estimate is made of.        *)
(***************************************************************************)
Grows(before, after, does) == after = before + (IF does THEN 1 ELSE 0)

WrongGuess(c, p, observation) ==
    /\ IsPredicted(observation)
    /\ predict(c, p, observation.program_counter)
          # \E f \in observation.control_flow : f.taken

LEMMA ObservedBranch ==
    ASSUME NEW c, NEW p, NEW observation, PredictedOnce(p.statistics)
    PROVE  LET s == ObserveBranch(c, p, observation).statistics
           IN /\ PredictedOnce(s)
              /\ Grows(p.statistics.predictions, s.predictions,
                       IsPredicted(observation))
              /\ Grows(p.statistics.incorrect, s.incorrect,
                       WrongGuess(c, p, observation))
<1>. DEFINE s == ObserveBranch(c, p, observation).statistics
<1>1. CASE ~ IsPredicted(observation)
  <2>1. s = p.statistics /\ ~ WrongGuess(c, p, observation)
    BY <1>1 DEF ObserveBranch, WrongGuess
  <2>. HIDE DEF s
  <2>2. /\ PredictedOnce(s)
        /\ Grows(p.statistics.predictions, s.predictions, IsPredicted(observation))
        /\ Grows(p.statistics.incorrect, s.incorrect, WrongGuess(c, p, observation))
    BY <1>1, <2>1 DEF PredictedOnce, Grows
  <2>. QED
    BY <2>2 DEF s
<1>2. CASE IsPredicted(observation)
  <2>1. PICK right : /\ right \in BOOLEAN
                     /\ right = (predict(c, p, observation.program_counter)
                                   = \E f \in observation.control_flow : f.taken)
    OBVIOUS
  <2>2. /\ s.predictions = p.statistics.predictions + 1
        /\ s.correct = Count(p.statistics.correct, right)
        /\ s.incorrect = Count(p.statistics.incorrect, ~ right)
    BY <1>2, <2>1, Zenon DEF ObserveBranch
  <2>3. WrongGuess(c, p, observation) <=> ~ right
    BY <1>2, <2>1, Zenon DEF WrongGuess
  <2>. HIDE DEF s
  <2>4. /\ PredictedOnce(s)
        /\ Grows(p.statistics.predictions, s.predictions, IsPredicted(observation))
        /\ Grows(p.statistics.incorrect, s.incorrect, WrongGuess(c, p, observation))
    <3>1. CASE right
      BY <1>2, <2>2, <2>3, <3>1 DEF PredictedOnce, Count, Grows
    <3>2. CASE ~ right
      BY <1>2, <2>2, <2>3, <3>2 DEF PredictedOnce, Count, Grows
    <3>. QED
      BY <3>1, <3>2
  <2>. QED
    BY <2>4 DEF s
<1>. QED
  BY <1>1, <1>2

ObservedGrowth(observation) ==
    /\ Grows(instructions_observed, instructions_observed', TRUE)
    /\ Grows(instruction_cache.statistics.misses,
             instruction_cache'.statistics.misses, MissesFetch)
    /\ Grows(data_cache.statistics.misses, data_cache'.statistics.misses,
             MissesData(observation))
    /\ Grows(branch_predictor.statistics.incorrect,
             branch_predictor'.statistics.incorrect, Mispredicts(observation))

LEMMA AccessRecords ==
    ASSUME NEW c, NEW k, NEW address
    PROVE  access(c, k, address).statistics
               = record_access(k.statistics, Hits(c, k, address))
BY DEF access

LEMMA ObserveCounts ==
    ASSUME AnalyzerInvariant, NEW observation, OneEffect(observation),
           AnalyzerObserve(observation)
    PROVE  AnalyzerInvariant' /\ ObservedGrowth(observation)
<1>1. /\ CountedOnce(instruction_cache'.statistics)
      /\ instruction_cache'.statistics.accesses = instruction_cache.statistics.accesses + 1
      /\ Grows(instruction_cache.statistics.misses,
               instruction_cache'.statistics.misses, MissesFetch)
  <2>. PICK hit : /\ hit = Hits(cache_configuration.instruction, instruction_cache,
                              observation.program_counter)
    OBVIOUS
  <2>0. MissesFetch <=> ~ hit
    BY DEF MissesFetch, OneEffect
  <2>1. instruction_cache'.statistics = record_access(instruction_cache.statistics, hit)
    BY AccessRecords DEF AnalyzerObserve, ObserveAccesses
  <2>2. CountedOnce(instruction_cache.statistics)
    BY DEF AnalyzerInvariant
  <2>3. /\ instruction_cache'.statistics.misses
            = instruction_cache.statistics.misses + (IF hit THEN 0 ELSE 1)
        /\ CountedOnce(instruction_cache'.statistics)
        /\ instruction_cache'.statistics.accesses
            = instruction_cache.statistics.accesses + 1
    BY <2>1, <2>2, RecordAccess
  <2>. QED
    BY <2>0, <2>2, <2>3 DEF Grows, CountedOnce
<1>2. /\ PredictedOnce(branch_predictor'.statistics)
      /\ IF IsPredicted(observation)
         THEN branch_predictor'.statistics.predictions
                = branch_predictor.statistics.predictions + 1
         ELSE branch_predictor'.statistics.predictions
                = branch_predictor.statistics.predictions
      /\ Grows(branch_predictor.statistics.incorrect,
               branch_predictor'.statistics.incorrect, Mispredicts(observation))
  <2>1. PICK s : s = branch_predictor'.statistics
    OBVIOUS
  <2>2. PredictedOnce(branch_predictor.statistics)
    BY DEF AnalyzerInvariant
  <2>3. /\ PredictedOnce(s)
        /\ Grows(branch_predictor.statistics.predictions, s.predictions,
                 IsPredicted(observation))
        /\ Grows(branch_predictor.statistics.incorrect, s.incorrect,
                 WrongGuess(branch_configuration, branch_predictor, observation))
    BY <2>1, <2>2, ObservedBranch DEF AnalyzerObserve
  <2>4. Mispredicts(observation)
           <=> WrongGuess(branch_configuration, branch_predictor, observation)
    BY Zenon DEF Mispredicts, WrongGuess, IsPredicted, OneEffect
  <2>. QED
    BY <2>1, <2>2, <2>3, <2>4 DEF Grows, PredictedOnce
<1>3. instructions_observed' = instructions_observed + 1
  BY DEF AnalyzerObserve
<1>4. /\ CountedOnce(data_cache.statistics) /\ CountedOnce(load_statistics)
      /\ CountedOnce(store_statistics) /\ CountersAgree
      /\ instructions_observed \in Nat
      /\ PredictedOnce(branch_predictor.statistics)
  BY DEF AnalyzerInvariant
<1>7. instructions_observed' \in Nat
  BY <1>3, <1>4
<1>. DEFINE DataCounts(accessed) ==
       /\ CountedOnce(data_cache'.statistics)
       /\ CountedOnce(load_statistics')
       /\ CountedOnce(store_statistics')
       /\ \A column \in {"accesses", "hits", "misses"} :
             load_statistics'[column] + store_statistics'[column]
                 = data_cache'.statistics[column]
       /\ data_cache'.statistics.accesses
             = data_cache.statistics.accesses + (IF accessed THEN 1 ELSE 0)
       /\ Grows(data_cache.statistics.misses, data_cache'.statistics.misses,
                MissesData(observation))
<1>5. CASE observation.data_memory_access = NullOpt
  <2>1. /\ load_statistics' = load_statistics
        /\ store_statistics' = store_statistics
        /\ data_cache' = data_cache
    BY <1>5, Zenon DEF AnalyzerObserve, ObserveAccesses, Recorded, NullOpt
  <2>2. DataCounts(FALSE)
    <3>1. ~ MissesData(observation)
      BY <1>5 DEF MissesData, NullOpt
    <3>. QED
      BY <1>4, <2>1, <3>1 DEF CountedOnce, CountersAgree, Grows
  <2>3. CountersAgree'
    <3>. HIDE DEF DataCounts
    <3>1. /\ instruction_cache.statistics.accesses = instructions_observed
          /\ data_cache.statistics.accesses + branch_predictor.statistics.predictions
               <= instructions_observed
      BY <1>4 DEF CountersAgree
    <3>. QED
      BY <1>1, <1>2, <1>3, <1>4, <2>2, <3>1
      DEF CountersAgree, DataCounts, CountedOnce, PredictedOnce
  <2>. QED
    <3>1. AnalyzerInvariant'
      BY <1>1, <1>2, <1>7, <2>2, <2>3, Zenon DEF AnalyzerInvariant
    <3>2. ObservedGrowth(observation)
      BY <1>1, <1>2, <1>3, <1>5, <2>2 DEF ObservedGrowth, Grows
    <3>. QED
      BY <3>1, <3>2
<1>6. CASE observation.data_memory_access # NullOpt
  <2>1. PICK a : /\ observation.data_memory_access = Some(a)
                 /\ a.kind \in {"Load", "Store"}
                 /\ observation.control_flow = NullOpt
    BY <1>6 DEF OneEffect
  <2>2. PICK hit : hit = Hits(cache_configuration.data, data_cache, a.address)
    OBVIOUS
  <2>3. data_cache'.statistics = record_access(data_cache.statistics, hit)
    <3>1. data_cache' = access(cache_configuration.data, data_cache, a.address)
      BY <1>6, <2>1 DEF AnalyzerObserve, ObserveAccesses, Some
    <3>. QED
      BY <2>2, <3>1, AccessRecords
  <2>4. DataHit(observation) = hit /\ MissesData(observation) = ~ hit
    BY <2>1, <2>2 DEF DataHit, MissesData, Some, Hits
  <2>5. /\ load_statistics' = IF a.kind = "Load"
                              THEN record_access(load_statistics, hit)
                              ELSE load_statistics
        /\ store_statistics' = IF a.kind = "Store"
                               THEN record_access(store_statistics, hit)
                               ELSE store_statistics
    BY <2>1, <2>4 DEF AnalyzerObserve, ObserveAccesses, Recorded, Some
  <2>6. DataCounts(TRUE)
    <3>1. /\ CountedOnce(record_access(data_cache.statistics, hit))
          /\ data_cache'.statistics.accesses = data_cache.statistics.accesses + 1
          /\ data_cache'.statistics.hits
               = data_cache.statistics.hits + (IF hit THEN 1 ELSE 0)
          /\ data_cache'.statistics.misses
               = data_cache.statistics.misses + (IF hit THEN 0 ELSE 1)
      BY <1>4, <2>3, RecordAccess
    <3>4. Grows(data_cache.statistics.misses, data_cache'.statistics.misses,
                MissesData(observation))
      <4>1. CASE hit
        BY <2>4, <3>1, <4>1, Zenon DEF Grows
      <4>2. CASE ~ hit
        BY <2>4, <3>1, <4>2, Zenon DEF Grows
      <4>. QED
        BY <4>1, <4>2
    <3>2. CASE a.kind = "Load"
      <4>1. /\ CountedOnce(load_statistics')
            /\ load_statistics'.accesses = load_statistics.accesses + 1
            /\ load_statistics'.hits = load_statistics.hits + (IF hit THEN 1 ELSE 0)
            /\ load_statistics'.misses = load_statistics.misses + (IF hit THEN 0 ELSE 1)
            /\ store_statistics' = store_statistics
        BY <1>4, <2>5, <3>2, RecordAccess
      <4>. QED
        BY <1>4, <2>3, <3>1, <3>4, <4>1 DEF CountedOnce, CountersAgree
    <3>3. CASE a.kind = "Store"
      <4>1. /\ CountedOnce(store_statistics')
            /\ store_statistics'.accesses = store_statistics.accesses + 1
            /\ store_statistics'.hits = store_statistics.hits + (IF hit THEN 1 ELSE 0)
            /\ store_statistics'.misses
                 = store_statistics.misses + (IF hit THEN 0 ELSE 1)
            /\ load_statistics' = load_statistics
        BY <1>4, <2>5, <3>3, RecordAccess
      <4>. QED
        BY <1>4, <2>3, <3>1, <3>4, <4>1 DEF CountedOnce, CountersAgree
    <3>. QED
      BY <2>1, <3>2, <3>3
  <2>7. ~ IsPredicted(observation)
    BY <2>1 DEF IsPredicted, NullOpt
  <2>8. CountersAgree'
    <3>. HIDE DEF DataCounts
    <3>1. /\ instruction_cache.statistics.accesses = instructions_observed
          /\ data_cache.statistics.accesses + branch_predictor.statistics.predictions
               <= instructions_observed
      BY <1>4 DEF CountersAgree
    <3>. QED
      BY <1>1, <1>2, <1>3, <1>4, <2>6, <2>7, <3>1
      DEF CountersAgree, DataCounts, CountedOnce, PredictedOnce
  <2>. QED
    <3>1. AnalyzerInvariant'
      BY <1>1, <1>2, <1>7, <2>6, <2>8, Zenon DEF AnalyzerInvariant
    <3>2. ObservedGrowth(observation)
      BY <1>1, <1>2, <1>3, <1>6, <2>6 DEF ObservedGrowth, Grows
    <3>. QED
      BY <3>1, <3>2
<1>. QED
  BY <1>5, <1>6

LEMMA EmptyCounts == AnalyzerInit => AnalyzerInvariant
BY DEF AnalyzerInit, AnalyzerInvariant, CountersAgree, CountedOnce, PredictedOnce,
       EmptyCache, ZeroCacheStatistics, NewPredictor, ZeroPredictionStatistics

LEMMA ResetCounts ==
    ASSUME AnalyzerReset
    PROVE  /\ AnalyzerInvariant'
           /\ instructions_observed' = 0
           /\ instruction_cache'.statistics.misses = 0
           /\ data_cache'.statistics.misses = 0
           /\ branch_predictor'.statistics.incorrect = 0
BY DEF AnalyzerReset, AnalyzerInvariant, CountersAgree, CountedOnce, PredictedOnce,
       ResetCache, EmptyCache, ZeroCacheStatistics, ResetPredictor, NewPredictor,
       ZeroPredictionStatistics

LEMMA StepCounts ==
    ASSUME AnalyzerInvariant, AnalyzedStep
    PROVE  /\ AnalyzerInvariant'
           /\ \/ step_result'.kind = "Completed" /\ ObservedGrowth(step_result')
              \/ step_result'.kind = "Trap" /\ UNCHANGED analyzer
<1>1. CASE step_result'.kind = "Completed" /\ AnalyzerObserve(step_result')
  <2>1. OneEffect(step_result')
    BY <1>1, StepEffect DEF AnalyzedStep
  <2>. QED
    BY <1>1, <2>1, ObserveCounts
<1>2. CASE step_result'.kind = "Trap" /\ UNCHANGED analyzer
  BY <1>2, Zenon DEF analyzer, AnalyzerInvariant, CountersAgree
<1>. QED
  BY <1>1, <1>2 DEF AnalyzedStep

-----------------------------------------------------------------------------
(***************************************************************************)
(* The price of a step.                                                    *)
(***************************************************************************)
Says(result, total) ==
    /\ result.kind = "Estimate" <=> total <= MaxCycles
    /\ total <= MaxCycles => result.total_cycles = total

LEMMA ResultKind ==
    ASSUME NEW a \in Nat, NEW b \in Nat, NEW c \in Nat, NEW d \in Nat
    PROVE  Says(ExactResult(a, b, c, d), a + b + c + d)
<1>1. MaxCycles \in Nat
  BY MaxCyclesAssumption
<1>2. CASE a + b + c + d <= MaxCycles
  <2>1. ExactResult(a, b, c, d) = CycleEstimate(a, b, c, d)
    BY <1>1, <1>2 DEF ExactResult
  <2>2. /\ CycleEstimate(a, b, c, d).kind = "Estimate"
        /\ CycleEstimate(a, b, c, d).total_cycles = a + b + c + d
    BY DEF CycleEstimate
  <2>. QED
    BY <1>2, <2>1, <2>2 DEF Says
<1>3. CASE ~ (a + b + c + d <= MaxCycles)
  <2>1. \A code : CycleEstimateFailure(code).kind = "Failure"
    BY DEF CycleEstimateFailure
  <2>2. ExactResult(a, b, c, d).kind = "Failure"
    BY <1>1, <1>3, <2>1 DEF ExactResult
  <2>. QED
    BY <1>3, <2>2 DEF Says
<1>. QED
  BY <1>2, <1>3

LEMMA CostsTyped ==
    /\ cycle_costs.base_instruction_cycles \in Nat \ {0}
    /\ cycle_costs.instruction_cache_miss_penalty_cycles \in Nat
    /\ cycle_costs.data_cache_miss_penalty_cycles \in Nat
    /\ cycle_costs.branch_misprediction_penalty_cycles \in Nat
<1>1. /\ cycle_costs.base_instruction_cycles \in 1 .. MaxCycles
      /\ cycle_costs.instruction_cache_miss_penalty_cycles \in 0 .. MaxCycles
      /\ cycle_costs.data_cache_miss_penalty_cycles \in 0 .. MaxCycles
      /\ cycle_costs.branch_misprediction_penalty_cycles \in 0 .. MaxCycles
  BY AnalyzerAssumption, Zenon
<1>. QED
  BY <1>1, MaxCyclesAssumption

LEMMA EstimateOfCounts ==
    ASSUME NEW n \in Nat, NEW m1 \in Nat, NEW m2 \in Nat, NEW m3 \in Nat,
           NEW result, NEW total,
           result = estimate(cycle_costs, [instructions |-> n,
                                           instruction_cache_misses |-> m1,
                                           data_cache_misses |-> m2,
                                           branch_mispredictions |-> m3]),
           total = n * cycle_costs.base_instruction_cycles
                     + m1 * cycle_costs.instruction_cache_miss_penalty_cycles
                     + m2 * cycle_costs.data_cache_miss_penalty_cycles
                     + m3 * cycle_costs.branch_misprediction_penalty_cycles
    PROVE  total \in Nat /\ Says(result, total)
<1>. DEFINE tally == [instructions |-> n, instruction_cache_misses |-> m1,
                      data_cache_misses |-> m2, branch_mispredictions |-> m3]
<1>1. /\ tally.instructions = n /\ tally.instruction_cache_misses = m1
      /\ tally.data_cache_misses = m2 /\ tally.branch_mispredictions = m3
  OBVIOUS
<1>2. PICK a, b, c, d : /\ a = n * cycle_costs.base_instruction_cycles
                        /\ b = m1 * cycle_costs.instruction_cache_miss_penalty_cycles
                        /\ c = m2 * cycle_costs.data_cache_miss_penalty_cycles
                        /\ d = m3 * cycle_costs.branch_misprediction_penalty_cycles
  OBVIOUS
<1>3. /\ {a, b, c, d} \subseteq Nat
      /\ estimate(cycle_costs, tally) = ExactResult(a, b, c, d)
  <2>. HIDE DEF tally
  <2>0. /\ cycle_costs.base_instruction_cycles \in Nat
        /\ cycle_costs.instruction_cache_miss_penalty_cycles \in Nat
        /\ cycle_costs.data_cache_miss_penalty_cycles \in Nat
        /\ cycle_costs.branch_misprediction_penalty_cycles \in Nat
    BY CostsTyped
  <2>1. /\ tally.instructions \in Nat /\ tally.instruction_cache_misses \in Nat
        /\ tally.data_cache_misses \in Nat /\ tally.branch_mispredictions \in Nat
    BY <1>1
  <2>2. /\ a = tally.instructions * cycle_costs.base_instruction_cycles
        /\ b = tally.instruction_cache_misses
                 * cycle_costs.instruction_cache_miss_penalty_cycles
        /\ c = tally.data_cache_misses * cycle_costs.data_cache_miss_penalty_cycles
        /\ d = tally.branch_mispredictions
                 * cycle_costs.branch_misprediction_penalty_cycles
    BY <1>1, <1>2, Zenon
  <2>. QED
    BY <2>0, <2>1, <2>2, EstimateOf, ZenonT(40)
<1>4. a \in Nat /\ b \in Nat /\ c \in Nat /\ d \in Nat
  BY <1>3
<1>5. a + b + c + d \in Nat
  BY <1>4
<1>. HIDE DEF tally
<1>6. Says(ExactResult(a, b, c, d), a + b + c + d)
  BY <1>4, ResultKind, Zenon
<1>7. total = a + b + c + d
  BY <1>2, Zenon
<1>8. result = ExactResult(a, b, c, d)
  BY <1>3, Zenon DEF tally
<1>. QED
  BY <1>5, <1>6, <1>7, <1>8, Zenon

(***************************************************************************)
(* The arithmetic of a step: the total of the counts after it, from the    *)
(* total before it.                                                        *)
(***************************************************************************)
Adds(m, n, cycles, added) ==
    /\ m * cycles \in Nat /\ n * cycles \in Nat /\ added \in Nat
    /\ n * cycles = m * cycles + added

LEMMA PenaltyAdded ==
    ASSUME NEW m \in Nat, NEW n \in Nat, NEW cycles \in Nat, NEW does \in BOOLEAN,
           Grows(m, n, does)
    PROVE  Adds(m, n, cycles, Penalty(does, cycles))
<1>1. m * cycles \in Nat /\ n * cycles \in Nat
  OBVIOUS
<1>2. CASE ~ does
  BY <1>1, <1>2 DEF Grows, Penalty, Adds
<1>3. CASE does
  <2>1. n = m + 1
    BY <1>3 DEF Grows
  <2>2. n * cycles = m * cycles + cycles
    BY <2>1
  <2>. QED
    BY <1>1, <1>3, <2>2 DEF Penalty, Adds
<1>. QED
  BY <1>2, <1>3

LEMMA PriceOfStep ==
    ASSUME AnalyzerInvariant, AnalyzerInvariant',
           NEW instructs \in BOOLEAN, NEW fetches \in BOOLEAN,
           NEW accesses \in BOOLEAN, NEW branches \in BOOLEAN,
           Grows(instructions_observed, instructions_observed', instructs),
           Grows(instruction_cache.statistics.misses,
                 instruction_cache'.statistics.misses, fetches),
           Grows(data_cache.statistics.misses, data_cache'.statistics.misses, accesses),
           Grows(branch_predictor.statistics.incorrect,
                 branch_predictor'.statistics.incorrect, branches)
    PROVE  LET before == estimate_cycles
               after == estimate_cycles'
           IN after.kind = "Estimate" =>
                 /\ before.kind = "Estimate"
                 /\ after.total_cycles - before.total_cycles
                      = Penalty(instructs, cycle_costs.base_instruction_cycles)
                          + Penalty(fetches,
                                    cycle_costs.instruction_cache_miss_penalty_cycles)
                          + Penalty(accesses,
                                    cycle_costs.data_cache_miss_penalty_cycles)
                          + Penalty(branches,
                                    cycle_costs.branch_misprediction_penalty_cycles)
<1>1. PICK n, m1, m2, m3, p, q1, q2, q3 :
         /\ n = instructions_observed /\ p = instructions_observed'
         /\ m1 = instruction_cache.statistics.misses
         /\ q1 = instruction_cache'.statistics.misses
         /\ m2 = data_cache.statistics.misses
         /\ q2 = data_cache'.statistics.misses
         /\ m3 = branch_predictor.statistics.incorrect
         /\ q3 = branch_predictor'.statistics.incorrect
  OBVIOUS
<1>2. PICK c0, c1, c2, c3 :
         /\ c0 = cycle_costs.base_instruction_cycles
         /\ c1 = cycle_costs.instruction_cache_miss_penalty_cycles
         /\ c2 = cycle_costs.data_cache_miss_penalty_cycles
         /\ c3 = cycle_costs.branch_misprediction_penalty_cycles
  OBVIOUS
<1>3. /\ n \in Nat /\ m1 \in Nat /\ m2 \in Nat /\ m3 \in Nat
      /\ p \in Nat /\ q1 \in Nat /\ q2 \in Nat /\ q3 \in Nat
  BY <1>1 DEF AnalyzerInvariant, CountedOnce, PredictedOnce
<1>4. c0 \in Nat \ {0} /\ c1 \in Nat /\ c2 \in Nat /\ c3 \in Nat
  BY <1>2, CostsTyped
<1>5. PICK before, after : before = estimate_cycles /\ after = estimate_cycles'
  OBVIOUS
<1>6. PICK t \in Nat : /\ t = n * c0 + m1 * c1 + m2 * c2 + m3 * c3
                       /\ Says(before, t)
  <2>1. before = estimate(cycle_costs, [instructions |-> n,
                                        instruction_cache_misses |-> m1,
                                        data_cache_misses |-> m2,
                                        branch_mispredictions |-> m3])
    BY <1>1, <1>5 DEF estimate_cycles
  <2>2. PICK t : t = n * c0 + m1 * c1 + m2 * c2 + m3 * c3
    OBVIOUS
  <2>3. t = n * cycle_costs.base_instruction_cycles
             + m1 * cycle_costs.instruction_cache_miss_penalty_cycles
             + m2 * cycle_costs.data_cache_miss_penalty_cycles
             + m3 * cycle_costs.branch_misprediction_penalty_cycles
    BY <1>2, <2>2, Zenon
  <2>4. t \in Nat /\ Says(before, t)
    BY <1>3, <2>1, <2>3, EstimateOfCounts, Zenon
  <2>. QED
    BY <2>2, <2>4, Zenon
<1>7. PICK u \in Nat : /\ u = p * c0 + q1 * c1 + q2 * c2 + q3 * c3
                       /\ Says(after, u)
  <2>1. after = estimate(cycle_costs, [instructions |-> p,
                                       instruction_cache_misses |-> q1,
                                       data_cache_misses |-> q2,
                                       branch_mispredictions |-> q3])
    BY <1>1, <1>5 DEF estimate_cycles
  <2>2. PICK u : u = p * c0 + q1 * c1 + q2 * c2 + q3 * c3
    OBVIOUS
  <2>3. u = p * cycle_costs.base_instruction_cycles
             + q1 * cycle_costs.instruction_cache_miss_penalty_cycles
             + q2 * cycle_costs.data_cache_miss_penalty_cycles
             + q3 * cycle_costs.branch_misprediction_penalty_cycles
    BY <1>2, <2>2, Zenon
  <2>4. u \in Nat /\ Says(after, u)
    BY <1>3, <2>1, <2>3, EstimateOfCounts, Zenon
  <2>. QED
    BY <2>2, <2>4, Zenon
<1>grows. /\ Grows(n, p, instructs) /\ Grows(m1, q1, fetches)
          /\ Grows(m2, q2, accesses) /\ Grows(m3, q3, branches)
  BY <1>1, Zenon
<1>8. PICK f0, f1, f2, f3 : /\ f0 = Penalty(instructs, c0)
                            /\ f1 = Penalty(fetches, c1)
                            /\ f2 = Penalty(accesses, c2)
                            /\ f3 = Penalty(branches, c3)
  OBVIOUS
<1>9. Adds(n, p, c0, f0)
  <2>1. c0 \in Nat
    BY <1>4
  <2>. QED
    BY <1>3, <1>8, <1>grows, <2>1, PenaltyAdded, Zenon
<1>10. Adds(m1, q1, c1, f1)
  BY <1>3, <1>4, <1>8, <1>grows, PenaltyAdded, Zenon
<1>11. Adds(m2, q2, c2, f2)
  BY <1>3, <1>4, <1>8, <1>grows, PenaltyAdded, Zenon
<1>12. Adds(m3, q3, c3, f3)
  BY <1>3, <1>4, <1>8, <1>grows, PenaltyAdded, Zenon
<1>13. u = t + (f0 + f1 + f2 + f3)
  BY <1>6, <1>7, <1>9, <1>10, <1>11, <1>12 DEF Adds
<1>14. PICK f : f = f0 + f1 + f2 + f3
  OBVIOUS
<1>15. f \in Nat /\ u = t + f
  BY <1>9, <1>10, <1>11, <1>12, <1>13, <1>14 DEF Adds
<1>16. after.kind = "Estimate" =>
          /\ before.kind = "Estimate"
          /\ after.total_cycles - before.total_cycles = f
  BY <1>6, <1>7, <1>15, MaxCyclesAssumption DEF Says
<1>. QED
  BY <1>2, <1>5, <1>8, <1>14, <1>16, Zenon

LEMMA ObservedIsPriced ==
    ASSUME AnalyzerInvariant, AnalyzerInvariant', step_result'.kind = "Completed",
           ObservedGrowth(step_result')
    PROVE  PricedStep
<1>1. PICK instructs, fetches, accesses, branches :
         /\ instructs = TRUE
         /\ fetches = MissesFetch
         /\ accesses = MissesData(step_result')
         /\ branches = Mispredicts(step_result')
  OBVIOUS
<1>2. /\ instructs \in BOOLEAN /\ fetches \in BOOLEAN
      /\ accesses \in BOOLEAN /\ branches \in BOOLEAN
  BY <1>1, Zenon DEF MissesFetch, MissesData, Mispredicts
<1>3. /\ Grows(instructions_observed, instructions_observed', instructs)
      /\ Grows(instruction_cache.statistics.misses,
               instruction_cache'.statistics.misses, fetches)
      /\ Grows(data_cache.statistics.misses, data_cache'.statistics.misses, accesses)
      /\ Grows(branch_predictor.statistics.incorrect,
               branch_predictor'.statistics.incorrect, branches)
  BY <1>1, Zenon DEF ObservedGrowth
<1>4. PICK before, after : before = estimate_cycles /\ after = estimate_cycles'
  OBVIOUS
<1>5. after.kind = "Estimate" =>
         /\ before.kind = "Estimate"
         /\ after.total_cycles - before.total_cycles
              = Penalty(instructs, cycle_costs.base_instruction_cycles)
                  + Penalty(fetches, cycle_costs.instruction_cache_miss_penalty_cycles)
                  + Penalty(accesses, cycle_costs.data_cache_miss_penalty_cycles)
                  + Penalty(branches, cycle_costs.branch_misprediction_penalty_cycles)
  BY <1>2, <1>3, <1>4, PriceOfStep, Zenon
<1>6. Penalty(instructs, cycle_costs.base_instruction_cycles)
         = cycle_costs.base_instruction_cycles
  BY <1>1 DEF Penalty
<1>7. after.kind = "Estimate" =>
         /\ before.kind = "Estimate"
         /\ after.total_cycles - before.total_cycles = Price(step_result')
  BY <1>1, <1>5, <1>6, Zenon DEF Price
<1>. QED
  BY <1>4, <1>7, Zenon DEF PricedStep

LEMMA IdleIsPriced ==
    ASSUME AnalyzerInvariant, AnalyzerInvariant', UNCHANGED analyzer,
           step_result'.kind = "Trap"
    PROVE  PricedStep
<1>0. PICK no \in BOOLEAN : no = FALSE
  OBVIOUS
<1>1. /\ Grows(instructions_observed, instructions_observed', no)
      /\ Grows(instruction_cache.statistics.misses,
               instruction_cache'.statistics.misses, no)
      /\ Grows(data_cache.statistics.misses, data_cache'.statistics.misses, no)
      /\ Grows(branch_predictor.statistics.incorrect,
               branch_predictor'.statistics.incorrect, no)
  BY <1>0 DEF Grows, AnalyzerInvariant, CountedOnce, PredictedOnce, analyzer
<1>2. PICK before, after : before = estimate_cycles /\ after = estimate_cycles'
  OBVIOUS
<1>3. \A cycles : Penalty(no, cycles) = 0
  BY <1>0 DEF Penalty
<1>4. after.kind = "Estimate" =>
         /\ before.kind = "Estimate"
         /\ after.total_cycles - before.total_cycles
              = Penalty(no, cycle_costs.base_instruction_cycles)
                  + Penalty(no, cycle_costs.instruction_cache_miss_penalty_cycles)
                  + Penalty(no, cycle_costs.data_cache_miss_penalty_cycles)
                  + Penalty(no, cycle_costs.branch_misprediction_penalty_cycles)
  BY <1>0, <1>1, <1>2, PriceOfStep, Zenon
<1>5. after.kind = "Estimate" =>
         /\ before.kind = "Estimate"
         /\ after.total_cycles - before.total_cycles = 0
  BY <1>3, <1>4
<1>6. step_result'.kind # "Completed"
  OBVIOUS
<1>. QED
  BY <1>2, <1>5, <1>6, Zenon DEF PricedStep

LEMMA StepIsPriced ==
    ASSUME AnalyzerInvariant, AnalyzerInvariant',
           \/ step_result'.kind = "Completed" /\ ObservedGrowth(step_result')
           \/ step_result'.kind = "Trap" /\ UNCHANGED analyzer
    PROVE  PricedStep
BY IdleIsPriced, ObservedIsPriced

-----------------------------------------------------------------------------
(***************************************************************************)
(* The invariant holds of an analyzer on any machine, and of the analyzer  *)
(* of a benchmark.                                                         *)
(***************************************************************************)
LEMMA AnalyzerInvariantHolds == AnalyzerSpec => []AnalyzerInvariant
<1>1. AnalyzerInvariant /\ [AnalyzerNext]_analyzer_vars => AnalyzerInvariant'
  <2>1. ASSUME AnalyzerInvariant, UNCHANGED analyzer_vars
        PROVE  AnalyzerInvariant'
    BY <2>1, Zenon DEF analyzer_vars, AnalyzerInvariant, CountersAgree
  <2>. QED
    BY <2>1, StepCounts, ResetCounts DEF AnalyzerNext
<1>. QED
  BY <1>1, EmptyCounts, PTL DEF AnalyzerSpec

LEMMA BenchmarkStepCases ==
    ASSUME [BenchmarkNext]_benchmark_vars
    PROVE  \/ AnalyzedStep
           \/ AnalyzerReset /\ UNCHANGED step_result
           \/ UNCHANGED analyzer_vars
BY DEF BenchmarkNext, StartIteration, ResetWorkload, RunInstruction, CollectIteration,
       LeaveLoop, BenchmarkEnds, benchmark_vars

LEMMA BenchmarkInvariantHolds == BenchmarkSpec => []AnalyzerInvariant
<1>1. WorkloadInit => AnalyzerInvariant
  BY EmptyCounts DEF WorkloadInit
<1>2. AnalyzerInvariant /\ [BenchmarkNext]_benchmark_vars => AnalyzerInvariant'
  <2>1. ASSUME AnalyzerInvariant, UNCHANGED analyzer_vars
        PROVE  AnalyzerInvariant'
    BY <2>1, Zenon DEF analyzer_vars, AnalyzerInvariant, CountersAgree
  <2>. QED
    BY <2>1, BenchmarkStepCases, StepCounts, ResetCounts
<1>. QED
  BY <1>1, <1>2, PTL DEF BenchmarkSpec

(***************************************************************************)
(* The counters of the analyzer agree, whatever machine it observes and    *)
(* whenever it is reset, and so do those that a benchmark reports.         *)
(***************************************************************************)
THEOREM CountersAlwaysAgree ==
    /\ AnalyzerSpec => []CountersAgree
    /\ BenchmarkSpec => []CountersAgree
<1>1. AnalyzerInvariant => CountersAgree
  BY DEF AnalyzerInvariant
<1>. QED
  BY <1>1, AnalyzerInvariantHolds, BenchmarkInvariantHolds, PTL

(***************************************************************************)
(* Every step of the engine that completes an instruction adds exactly its *)
(* price to the estimate, the base cost and the penalties the caches and   *)
(* the branch history before it say; a step that traps adds nothing, and   *)
(* an estimate that has overflowed does not come back until a reset.       *)
(***************************************************************************)
THEOREM StepsArePriced ==
    /\ AnalyzerSpec => CyclesPriced
    /\ BenchmarkSpec => CyclesPriced
<1>1. ASSUME AnalyzerInvariant, AnalyzerInvariant',
             \/ AnalyzedStep
             \/ AnalyzerReset /\ UNCHANGED step_result
             \/ UNCHANGED analyzer_vars
      PROVE  [PricedStep]_analyzer_vars
  <2>1. CASE AnalyzerReset /\ UNCHANGED step_result
    BY <2>1, Zenon DEF PricedStep
  <2>. QED
    BY <1>1, <2>1, StepCounts, StepIsPriced
<1>2. AnalyzerInvariant /\ AnalyzerInvariant' /\ [AnalyzerNext]_analyzer_vars
         => [PricedStep]_analyzer_vars
  BY <1>1 DEF AnalyzerNext, machine_vars
<1>3. AnalyzerInvariant /\ AnalyzerInvariant' /\ [BenchmarkNext]_benchmark_vars
         => [PricedStep]_analyzer_vars
  BY <1>1, BenchmarkStepCases
<1>4. AnalyzerSpec => CyclesPriced
  BY <1>2, AnalyzerInvariantHolds, PTL DEF AnalyzerSpec, CyclesPriced
<1>5. BenchmarkSpec => CyclesPriced
  BY <1>3, BenchmarkInvariantHolds, PTL DEF BenchmarkSpec, CyclesPriced
<1>. QED
  BY <1>4, <1>5

-----------------------------------------------------------------------------
(***************************************************************************)
(* The geometry of a cache.                                                *)
(***************************************************************************)
LEMMA AccessInOneLine ==
    ASSUME NEW line \in Nat \ {0}, line % 4 = 0, NEW width \in {1, 2, 4},
           NEW address \in Nat, address % width = 0
    PROVE  address \div line = (address + width - 1) \div line
<1>1. PICK k \in Nat : line = 4 * k
  <2>1. line = 4 * (line \div 4) /\ line \div 4 \in Nat
    OBVIOUS
  <2>. QED
    BY <2>1
<1>2. PICK q, r : q = address \div line /\ r = address % line
  OBVIOUS
<1>3. q \in Nat /\ r \in 0 .. (line - 1) /\ address = line * q + r
  BY <1>2
<1>4. PICK n : n = k * q
  OBVIOUS
<1>5. n \in Nat /\ line * q = 4 * n /\ address = 4 * n + r
  BY <1>1, <1>3, <1>4
<1>6. r % width = 0
  BY <1>3, <1>5
<1>7. r + width - 1 \in 0 .. (line - 1)
  BY <1>1, <1>3, <1>6
<1>8. (address + width - 1) = line * q + (r + width - 1)
  BY <1>3, <1>5
<1>9. (address + width - 1) \div line = q
  BY <1>3, <1>7, <1>8, ModUnique
<1>. QED
  BY <1>2, <1>9

LEMMA GeometryOfAccepted ==
    ASSUME NEW c, c.capacity_bytes \in 0 .. MaxSize, c.line_size_bytes \in 0 .. MaxSize,
           c.associativity \in 0 .. MaxSize, CacheConfigurationError(c) = NullOpt
    PROVE  /\ c.line_size_bytes \in 4 .. MaxSize
           /\ c.line_size_bytes % 4 = 0
           /\ c.associativity \in 1 .. MaxSize
           /\ SetCapacity(c) = c.line_size_bytes * c.associativity
           /\ SetCapacity(c) \in Nat \ {0}
           /\ set_count(c) \in Nat \ {0}
           /\ c.capacity_bytes = set_count(c) * SetCapacity(c)
<1>0. MaxSize \in Nat /\ IsBitAnd(MaxSize)
  BY MaxSizeAssumption
<1>some. \A v : Some(v) # NullOpt
  BY SomeValue
<1>1. /\ c.capacity_bytes # 0
      /\ ~ LineTooSmall(c)
      /\ is_power_of_two(c.line_size_bytes)
      /\ c.associativity # 0
      /\ ~ (c.associativity > MaxSize \div c.line_size_bytes)
      /\ c.capacity_bytes % SetCapacity(c) = 0
  BY <1>some, Zenon DEF CacheConfigurationError
<1>2. PICK cap, line, ways, size : /\ cap = c.capacity_bytes
                                   /\ line = c.line_size_bytes
                                   /\ ways = c.associativity
                                   /\ size = SetCapacity(c)
  OBVIOUS
<1>3. line \in 4 .. MaxSize /\ line \in Nat \ {0}
  BY <1>0, <1>1, <1>2 DEF LineTooSmall
<1>4. line % 4 = 0
  BY <1>0, <1>1, <1>2, <1>3, PowerOfTwoIsWords
<1>5. ways \in 1 .. MaxSize /\ ways \in Nat /\ cap \in Nat \ {0}
  BY <1>0, <1>1, <1>2
<1>6. line * ways <= MaxSize
  <2>1. ways <= MaxSize \div line
    BY <1>0, <1>1, <1>2, <1>3, <1>5
  <2>. QED
    BY <1>0, <1>3, <1>5, <2>1, ProductFits
<1>7. line * ways \in Nat \ {0}
  BY <1>3, <1>5
<1>8. size = line * ways
  <2>1. size = (line * ways) % (MaxSize + 1)
    BY <1>2 DEF SetCapacity
  <2>. QED
    BY <1>0, <1>6, <1>7, <2>1
<1>9. /\ cap % size = 0 /\ size \in Nat \ {0}
  BY <1>1, <1>2, <1>7, <1>8
<1>10. cap \div size \in Nat /\ cap = size * (cap \div size)
  BY <1>5, <1>9
<1>11. cap \div size # 0
  BY <1>5, <1>9, <1>10
<1>12. set_count(c) = cap \div size
  BY <1>2 DEF set_count
<1>13. cap = (cap \div size) * size
  BY <1>9, <1>10
<1>. QED
  BY <1>2, <1>3, <1>4, <1>5, <1>8, <1>9, <1>10, <1>11, <1>12, <1>13

\* The configuration does not change, and every configuration is one of size_t.
ConfigurationTyped ==
    /\ configuration.capacity_bytes \in 0 .. MaxSize
    /\ configuration.line_size_bytes \in 0 .. MaxSize
    /\ configuration.associativity \in 0 .. MaxSize

LEMMA ConfigurationStays == CacheSpec => []ConfigurationTyped
<1>1. CacheInit => ConfigurationTyped
  <2>. SUFFICES ASSUME CacheInit PROVE ConfigurationTyped
    OBVIOUS
  <2>1. configuration \in [capacity_bytes : 0 .. MaxSize,
                           line_size_bytes : 0 .. MaxSize,
                           associativity : 0 .. MaxSize]
    BY CacheCheckAssumption DEF CacheInit
  <2>. QED
    BY <2>1, Zenon DEF ConfigurationTyped
<1>2. ConfigurationTyped /\ [CacheNext]_cache_vars => ConfigurationTyped'
  BY Zenon DEF ConfigurationTyped, CacheNext, Access, Reset, cache_vars
<1>. QED
  BY <1>1, <1>2, PTL DEF CacheSpec

(***************************************************************************)
(* What validate_configuration accepts is a cache: its sets, ways and      *)
(* lines make up the capacity, although the product of line size and       *)
(* associativity is computed in a type it could overflow, and no aligned   *)
(* access crosses a line.                                                  *)
(***************************************************************************)
THEOREM AcceptedCachesExist == CacheSpec => []AcceptedGeometry
<1>1. ConfigurationTyped => AcceptedGeometry
  <2>. SUFFICES ASSUME ConfigurationTyped, Accepted PROVE AcceptedGeometry
    BY DEF AcceptedGeometry
  <2>1. PICK cap, line, ways, sets : /\ cap = configuration.capacity_bytes
                                     /\ line = configuration.line_size_bytes
                                     /\ ways = configuration.associativity
                                     /\ sets = set_count(configuration)
    OBVIOUS
  <2>2. /\ line \in 4 .. MaxSize /\ line % 4 = 0 /\ ways \in 1 .. MaxSize
        /\ sets \in Nat \ {0} /\ cap = sets * SetCapacity(configuration)
        /\ SetCapacity(configuration) = line * ways
    BY <2>1, GeometryOfAccepted DEF ConfigurationTyped, Accepted
  <2>3. line \in Nat \ {0} /\ ways \in Nat
    BY <2>2, MaxSizeAssumption
  <2>4. cap = sets * (line * ways)
    BY <2>2
  <2>5. cap = sets * line * ways
    BY <2>2, <2>3, <2>4
  <2>6. ASSUME NEW width \in {1, 2, 4}, NEW address \in Word, address % width = 0
        PROVE  block_number(configuration, address)
                   = block_number(configuration, address + width - 1)
    <3>1. address \in Nat
      BY WordIsInt
    <3>2. address \div line = (address + width - 1) \div line
      BY <2>2, <2>3, <2>6, <3>1, AccessInOneLine
    <3>. QED
      BY <2>1, <3>2 DEF block_number
  <2>. QED
    BY <2>1, <2>5, <2>6 DEF AcceptedGeometry
<1>. QED
  BY <1>1, ConfigurationStays, PTL

-----------------------------------------------------------------------------
(***************************************************************************)
(* The branch predictor.  Its invariant: the table of an accepted bimodal  *)
(* predictor has a two-bit counter for every index a mask can give.        *)
(***************************************************************************)
Bimodal == PredictorAccepted /\ config.strategy = "BimodalTwoBit"

Observations == [program_counter : BranchAddresses, control_flow : Flows]

PredictorTyped ==
    /\ config \in PredictorConfigurations
    /\ observations \in Seq(Observations)
    /\ PredictedOnce(predictor.statistics)
    /\ Bimodal => predictor.counters \in [0 .. (config.table_entries - 1) -> 0 .. 3]

\* The entry of the table that an address has.
EntryOf(address) == (address \div 4) % config.table_entries

LEMMA BimodalTable ==
    ASSUME config \in PredictorConfigurations, Bimodal
    PROVE  /\ config.table_entries \in Nat \ {0}
           /\ is_power_of_two(config.table_entries)
           /\ IsBitAnd(config.table_entries)
           /\ config.initial_counter \in 0 .. 3
<1>some. \A v : Some(v) # NullOpt
  BY SomeValue
<1>1. /\ ~ (config.initial_counter > StronglyTaken)
      /\ config.table_entries # 0
      /\ is_power_of_two(config.table_entries)
  BY <1>some, Zenon DEF Bimodal, PredictorAccepted, PredictorConfigurationError
<1>2. /\ config.table_entries \in Nat /\ config.initial_counter \in Nat
      /\ IsBitAnd(config.table_entries)
  BY PredictorCheckAssumption
<1>. QED
  BY <1>1, <1>2 DEF StronglyTaken

LEMMA IndexIsEntry ==
    ASSUME config \in PredictorConfigurations, Bimodal, NEW address \in Word
    PROVE  /\ table_index(config, address) = EntryOf(address)
           /\ EntryOf(address) \in 0 .. (config.table_entries - 1)
<1>1. PICK t : t = config.table_entries
  OBVIOUS
<1>2. t \in Nat \ {0} /\ is_power_of_two(t) /\ IsBitAnd(t)
  BY <1>1, BimodalTable
<1>3. PICK v : v = address \div 4
  OBVIOUS
<1>4. v \in Nat /\ v <= MaxWord /\ MaxWord \in Nat /\ IsBitAnd(MaxWord)
  <2>1. address \in Nat /\ address <= MaxWord /\ MaxWord \in Nat
    BY WordIsInt, WordConstants, WordInt, WordSizes DEF Word, MaxWord
  <2>. QED
    BY <1>3, <2>1, BitOperatorsAssumption
<1>5. BitAnd(v, t - 1) = v % t
  <2>1. CASE t <= MaxWord
    BY <1>2, <1>4, <2>1, MaskIsRemainder
  <2>2. CASE t > MaxWord
    <3>1. v \in 0 .. t /\ t \in 1 .. t
      BY <1>2, <1>4, <2>2
    <3>. QED
      BY <1>2, <3>1, MaskIsRemainder
  <2>. QED
    BY <1>2, <1>4, <2>1, <2>2
<1>6. v % t \in 0 .. (t - 1)
  BY <1>2, <1>4
<1>. QED
  BY <1>1, <1>3, <1>5, <1>6 DEF table_index, EntryOf

LEMMA TrainedTyped ==
    ASSUME NEW n \in 0 .. 3, NEW taken
    PROVE  /\ trained(n, taken) \in 0 .. 3
           /\ taken => trained(n, taken) = IF n < 3 THEN n + 1 ELSE 3
           /\ ~ taken => trained(n, taken) = IF n > 0 THEN n - 1 ELSE 0
BY DEF trained, StronglyTaken, StronglyNotTaken

\* What an observation does to the table.
LEMMA ObservedCounters ==
    ASSUME PredictorTyped, Bimodal, NEW address \in BranchAddresses, NEW flow \in Flows,
           Observe(address, flow),
           NEW seen, seen = [program_counter |-> address, control_flow |-> flow]
    PROVE  /\ observations' = Append(observations, seen)
           /\ config' = config
           /\ predictor'.counters =
                IF IsBranch(seen)
                THEN [predictor.counters EXCEPT ![EntryOf(address)]
                         = trained(@, Taken(seen))]
                ELSE predictor.counters
<1>1. /\ observations' = Append(observations, seen)
      /\ config' = config
      /\ predictor' = ObserveBranch(config, predictor, seen)
  BY Zenon DEF Observe
<1>2. address \in Word
  BY PredictorCheckAssumption
<1>3. table_index(config, address) = EntryOf(address)
  BY <1>2, IndexIsEntry DEF PredictorTyped
<1>4. seen.program_counter = address
  OBVIOUS
<1>5. CASE ~ IsBranch(seen)
  BY <1>1, <1>5 DEF ObserveBranch, IsPredicted, IsBranch
<1>6. CASE IsBranch(seen)
  <2>1. predictor'.counters = update(config, predictor, address, Taken(seen))
    BY <1>1, <1>4, <1>6, Zenon DEF ObserveBranch, IsPredicted, IsBranch, Taken
  <2>. QED
    BY <1>1, <1>3, <1>6, <2>1 DEF update, Bimodal
<1>. QED
  BY <1>5, <1>6

LEMMA PredictorTypedHolds == PredictorSpec => []PredictorTyped
<1>1. PredictorInit => PredictorTyped
  <2>. SUFFICES ASSUME PredictorInit PROVE PredictorTyped
    OBVIOUS
  <2>1. ASSUME Bimodal
        PROVE  predictor.counters \in [0 .. (config.table_entries - 1) -> 0 .. 3]
    <3>1. config \in PredictorConfigurations
      BY DEF PredictorInit
    <3>2. predictor.counters = [k \in 0 .. (config.table_entries - 1)
                                   |-> config.initial_counter]
      BY <2>1 DEF PredictorInit, Bimodal, NewPredictor, counter_count
    <3>. QED
      BY <2>1, <3>1, <3>2, BimodalTable
  <2>2. predictor.statistics = ZeroPredictionStatistics
    BY DEF PredictorInit, NewPredictor
  <2>3. PredictedOnce(ZeroPredictionStatistics)
    BY DEF PredictedOnce, ZeroPredictionStatistics
  <2>. QED
    BY <2>1, <2>2, <2>3 DEF PredictorInit, PredictorTyped
<1>2. ASSUME PredictorTyped, [PredictorNext]_predictor_vars
      PROVE  PredictorTyped'
  <2>1. CASE UNCHANGED predictor_vars
    BY <1>2, <2>1, Zenon DEF predictor_vars, PredictorTyped, Bimodal, PredictorAccepted
  <2>2. CASE ForgetHistory
    <3>1. config' = config /\ observations' = << >>
      BY <2>2 DEF ForgetHistory
    <3>2. ASSUME Bimodal
          PROVE  predictor'.counters \in [0 .. (config.table_entries - 1) -> 0 .. 3]
      <4>1. predictor'.counters = [k \in 0 .. (config.table_entries - 1)
                                     |-> config.initial_counter]
        BY <2>2, <3>2 DEF ForgetHistory, Bimodal, ResetPredictor, NewPredictor,
                          counter_count
      <4>. QED
        BY <1>2, <3>2, <4>1, BimodalTable DEF PredictorTyped
    <3>3. Bimodal' = Bimodal
      BY <3>1, Zenon DEF Bimodal, PredictorAccepted
    <3>4. PredictedOnce(predictor'.statistics)
      BY <2>2 DEF ForgetHistory, ResetPredictor, NewPredictor, PredictedOnce,
                  ZeroPredictionStatistics
    <3>. QED
      BY <1>2, <3>1, <3>2, <3>3, <3>4 DEF PredictorTyped
  <2>3. CASE \E address \in BranchAddresses, flow \in Flows : Observe(address, flow)
    <3>1. PICK address \in BranchAddresses, flow \in Flows : Observe(address, flow)
      BY <2>3
    <3>2. PICK seen : seen = [program_counter |-> address, control_flow |-> flow]
      OBVIOUS
    <3>3. /\ observations' = Append(observations, seen)
          /\ config' = config
      BY <3>1, <3>2, Zenon DEF Observe
    <3>4. seen \in Observations
      BY <3>2 DEF Observations
    <3>5. observations' \in Seq(Observations)
      BY <1>2, <3>3, <3>4 DEF PredictorTyped
    <3>6. ASSUME Bimodal
          PROVE  predictor'.counters \in [0 .. (config.table_entries - 1) -> 0 .. 3]
      <4>1. predictor'.counters =
                IF IsBranch(seen)
                THEN [predictor.counters EXCEPT ![EntryOf(address)]
                         = trained(@, Taken(seen))]
                ELSE predictor.counters
        BY <1>2, <3>1, <3>2, <3>6, ObservedCounters, Zenon
      <4>2. EntryOf(address) \in 0 .. (config.table_entries - 1)
        BY <1>2, <3>6, IndexIsEntry, PredictorCheckAssumption DEF PredictorTyped
      <4>3. predictor.counters \in [0 .. (config.table_entries - 1) -> 0 .. 3]
        BY <1>2, <3>6 DEF PredictorTyped
      <4>4. trained(predictor.counters[EntryOf(address)], Taken(seen)) \in 0 .. 3
        BY <4>2, <4>3, TrainedTyped
      <4>. QED
        BY <4>1, <4>2, <4>3, <4>4
    <3>7. Bimodal' = Bimodal
      BY <3>3, Zenon DEF Bimodal, PredictorAccepted
    <3>8. PredictedOnce(predictor'.statistics)
      <4>1. predictor' = ObserveBranch(config, predictor, seen)
        BY <3>1, <3>2, Zenon DEF Observe
      <4>. QED
        BY <1>2, <4>1, ObservedBranch DEF PredictorTyped
    <3>. QED
      BY <1>2, <3>3, <3>5, <3>6, <3>7, <3>8 DEF PredictorTyped
  <2>. QED
    BY <1>2, <2>1, <2>2, <2>3 DEF PredictorNext
<1>. QED
  BY <1>1, <1>2, PTL DEF PredictorSpec

(***************************************************************************)
(* Predictions in terms of the counters.                                   *)
(***************************************************************************)
LEMMA StaticPrediction ==
    ASSUME PredictorAccepted, config.strategy # "BimodalTwoBit",
           NEW p, NEW q, NEW address
    PROVE  predict(config, p, address) = predict(config, q, address)
<1>some. \A v : Some(v) # NullOpt
  BY SomeValue
<1>1. config.strategy \in Strategies
  BY <1>some, Zenon DEF PredictorAccepted, PredictorConfigurationError
<1>2. config.strategy \in {"AlwaysNotTaken", "AlwaysTaken"}
  BY <1>1 DEF Strategies
<1>. QED
  BY <1>2 DEF predict

LEMMA BimodalPrediction ==
    ASSUME config \in PredictorConfigurations, Bimodal, NEW p, NEW address \in Word
    PROVE  predict(config, p, address) = (p.counters[EntryOf(address)] >= 2)
<1>1. predict(config, p, address)
         = (p.counters[table_index(config, address)] >= WeaklyTaken)
  BY DEF predict, Bimodal
<1>. QED
  BY <1>1, IndexIsEntry DEF WeaklyTaken

LEMMA LastObservation ==
    ASSUME observations \in Seq(Observations), NEW seen \in Observations,
           observations' = Append(observations, seen)
    PROVE  /\ Len(observations') = Len(observations) + 1
           /\ Len(observations) \in Nat
           /\ DOMAIN observations' = 1 .. (Len(observations) + 1)
           /\ DOMAIN observations = 1 .. Len(observations)
           /\ observations'[Len(observations) + 1] = seen
           /\ \A k \in 1 .. Len(observations) : observations'[k] = observations[k]
OBVIOUS

(***************************************************************************)
(* Learning is local and driven by errors, whatever the strategy, the      *)
(* table and its size: an observation is counted as incorrect exactly if   *)
(* it is a branch with another outcome than was predicted before it, and   *)
(* only then changes a prediction, of the addresses with the same entry.   *)
(***************************************************************************)
THEOREM LearningIsErrorDriven == PredictorSpec => ErrorDriven
<1>1. ASSUME PredictorTyped, NEW address \in BranchAddresses, NEW flow \in Flows,
             Observe(address, flow)
      PROVE  ErrorDrivenStep
  <2>1. PICK seen : seen = [program_counter |-> address, control_flow |-> flow]
    OBVIOUS
  <2>2. /\ observations' = Append(observations, seen)
        /\ config' = config
        /\ PredictorAccepted
    BY <1>1, <2>1, Zenon DEF Observe
  <2>3. seen \in Observations /\ seen.program_counter = address
    BY <2>1 DEF Observations
  <2>4. /\ Len(observations') = Len(observations) + 1
        /\ Len(observations) \in Nat
        /\ DOMAIN observations' = 1 .. (Len(observations) + 1)
        /\ observations'[Len(observations) + 1] = seen
    BY <1>1, <2>2, <2>3, LastObservation DEF PredictorTyped
  <2>0. Grows(predictor.statistics.incorrect, predictor'.statistics.incorrect,
              WrongGuess(config, predictor, seen))
    <3>1. predictor' = ObserveBranch(config, predictor, seen)
      BY <1>1, <2>1, Zenon DEF Observe
    <3>. QED
      BY <1>1, <3>1, ObservedBranch DEF PredictorTyped
  <2>wrong. WrongGuess(config, predictor, seen)
              <=> IsBranch(seen) /\ predict(config, predictor, address) # Taken(seen)
    BY <2>3, Zenon DEF WrongGuess, IsPredicted, IsBranch, Taken
  <2>5. SUFFICES ASSUME NEW other \in BranchAddresses,
                        predict(config, predictor, other)
                          # predict(config, predictor', other)
                 PROVE  /\ IsBranch(seen)
                        /\ Len(observations') \in Outcomes(other)'
                        /\ predict(config, predictor, address) # Taken(seen)
    <3>1. observations'[Len(observations')] = seen
      BY <2>4
    <3>2. \/ WrongGuess(config, predictor, seen)
             /\ predictor'.statistics.incorrect = predictor.statistics.incorrect + 1
          \/ ~ WrongGuess(config, predictor, seen)
             /\ predictor'.statistics.incorrect = predictor.statistics.incorrect + 0
      BY <2>0, Zenon DEF Grows
    <3>. QED
      BY <2>3, <2>wrong, <3>1, <3>2, Zenon DEF ErrorDrivenStep
  <2>6. Bimodal
    BY <2>2, <2>5, StaticPrediction DEF Bimodal
  <2>7. config \in PredictorConfigurations /\ address \in Word /\ other \in Word
    BY <1>1, PredictorCheckAssumption DEF PredictorTyped
  <2>8. PICK e, d : e = EntryOf(address) /\ d = EntryOf(other)
    OBVIOUS
  <2>9. PICK before, after : before = predictor.counters /\ after = predictor'.counters
    OBVIOUS
  <2>10. /\ predict(config, predictor, other) = (before[d] >= 2)
         /\ predict(config, predictor', other) = (after[d] >= 2)
         /\ predict(config, predictor, address) = (before[e] >= 2)
    BY <2>6, <2>7, <2>8, <2>9, BimodalPrediction
  <2>11. e \in 0 .. (config.table_entries - 1) /\ d \in 0 .. (config.table_entries - 1)
    BY <2>6, <2>7, <2>8, IndexIsEntry
  <2>12. after = IF IsBranch(seen)
                 THEN [before EXCEPT ![e] = trained(@, Taken(seen))] ELSE before
    BY <1>1, <2>1, <2>6, <2>8, <2>9, ObservedCounters, Zenon
  <2>13. before \in [0 .. (config.table_entries - 1) -> 0 .. 3]
    BY <1>1, <2>6, <2>9 DEF PredictorTyped
  <2>14. after # before
    BY <2>5, <2>10
  <2>15. IsBranch(seen)
    BY <2>12, <2>14
  <2>16. d = e
    BY <2>5, <2>10, <2>11, <2>12, <2>13, <2>15
  <2>17. predict(config, predictor, address) # Taken(seen)
    <3>1. after[e] = trained(before[e], Taken(seen)) /\ before[e] \in 0 .. 3
      BY <2>11, <2>12, <2>13, <2>15
    <3>2. (before[e] >= 2) # (after[e] >= 2)
      BY <2>5, <2>10, <2>16
    <3>3. Taken(seen) \in BOOLEAN
      BY DEF Taken
    <3>4. CASE Taken(seen)
      <4>1. after[e] = IF before[e] < 3 THEN before[e] + 1 ELSE 3
        BY <3>1, <3>4, TrainedTyped
      <4>2. ~ (before[e] >= 2)
        BY <3>1, <3>2, <4>1
      <4>. QED
        BY <2>10, <3>3, <3>4, <4>2
    <3>5. CASE ~ Taken(seen)
      <4>1. after[e] = IF before[e] > 0 THEN before[e] - 1 ELSE 0
        BY <3>1, <3>5, TrainedTyped
      <4>2. before[e] >= 2
        BY <3>1, <3>2, <4>1
      <4>. QED
        BY <2>10, <3>3, <3>5, <4>2
    <3>. QED
      BY <3>4, <3>5
  <2>18. Len(observations') \in Outcomes(other)'
    <3>1. /\ Len(observations') \in DOMAIN observations'
          /\ observations'[Len(observations')] = seen
      BY <2>4
    <3>2. (seen.program_counter \div 4) % config.table_entries
             = (other \div 4) % config.table_entries
      BY <2>3, <2>8, <2>16 DEF EntryOf
    <3>. QED
      BY <2>2, <2>15, <3>1, <3>2 DEF Outcomes
  <2>. QED
    BY <2>15, <2>17, <2>18
<1>2. ASSUME PredictorTyped, ForgetHistory
      PROVE  ErrorDrivenStep
  <2>1. ~ (Len(observations') > Len(observations))
    BY <1>2 DEF ForgetHistory, PredictorTyped
  <2>. QED
    BY <2>1 DEF ErrorDrivenStep
<1>3. PredictorTyped /\ [PredictorNext]_predictor_vars => [ErrorDrivenStep]_predictor_vars
  BY <1>1, <1>2 DEF PredictorNext
<1>. QED
  BY <1>3, PredictorTypedHolds, PTL DEF PredictorSpec, ErrorDriven

-----------------------------------------------------------------------------
(***************************************************************************)
(* What a counter remembers.  D[k] is the lead of the taken outcomes of an *)
(* entry after position k, of n positions; a counter is at least v exactly *)
(* if the lead, with the initial counter as a head start, was v or more    *)
(* since some moment and never so far behind that the counter, had it been *)
(* at its upper end then, would now be below v.                            *)
(***************************************************************************)
HeadStart(k, initial) == IF k = 0 THEN initial ELSE 0

AtLeast(v, n, D, initial) ==
    \E since \in 0 .. n :
        /\ HeadStart(since, initial) + D[since] >= v
        /\ \A k \in since .. n : 3 + D[k] >= v

Remembers(counter, n, D, initial) ==
    \A v \in 1 .. 3 : counter >= v <=> AtLeast(v, n, D, initial)

LEMMA HistoryStarts ==
    ASSUME NEW initial \in 0 .. 3, NEW D, D[0] = 0
    PROVE  Remembers(initial, 0, D, initial)
<1>. SUFFICES ASSUME NEW v \in 1 .. 3
              PROVE  initial >= v <=> AtLeast(v, 0, D, initial)
  BY DEF Remembers
<1>1. 0 .. 0 = {0}
  OBVIOUS
<1>. QED
  BY <1>1 DEF AtLeast, HeadStart

\* A taken outcome shifts all leads up by one, another one down by one.
LeadShifts(n, D, E, d) ==
    /\ D \in [0 .. n -> Int] /\ D[n] = 0
    /\ E \in [0 .. (n + 1) -> Int] /\ E[n + 1] = 0
    /\ d \in (-1) .. 1
    /\ \A k \in 0 .. n : E[k] = D[k] + d

LEMMA LeadsShift ==
    ASSUME NEW n \in Nat, NEW D, NEW E, NEW d, LeadShifts(n, D, E, d),
           NEW initial \in 0 .. 3, NEW v \in 1 .. 3
    PROVE  AtLeast(v, n + 1, E, initial) <=> AtLeast(v - d, n, D, initial)
<1>. USE DEF LeadShifts
<1>1. ASSUME AtLeast(v, n + 1, E, initial)
      PROVE  AtLeast(v - d, n, D, initial)
  <2>1. PICK since \in 0 .. (n + 1) :
           /\ HeadStart(since, initial) + E[since] >= v
           /\ \A k \in since .. (n + 1) : 3 + E[k] >= v
    BY <1>1 DEF AtLeast
  <2>2. since # n + 1
    <3>1. ASSUME since = n + 1 PROVE FALSE
      <4>1. HeadStart(since, initial) = 0 /\ E[since] = 0
        BY <3>1 DEF HeadStart
      <4>. QED
        BY <2>1, <4>1
    <3>. QED
      BY <3>1
  <2>3. since \in 0 .. n
    BY <2>2
  <2>4. HeadStart(since, initial) \in 0 .. 3
    BY <2>3 DEF HeadStart
  <2>5. HeadStart(since, initial) + D[since] >= v - d
    <3>1. E[since] = D[since] + d /\ D[since] \in Int
      BY <2>3
    <3>2. PICK h, x : h = HeadStart(since, initial) /\ x = D[since]
      OBVIOUS
    <3>3. h \in 0 .. 3 /\ x \in Int /\ h + (x + d) >= v
      BY <2>1, <2>4, <3>1, <3>2, Zenon
    <3>4. h + x >= v - d
      BY <3>3
    <3>. QED
      BY <3>2, <3>4
  <2>6. ASSUME NEW k \in since .. n
        PROVE  3 + D[k] >= v - d
    <3>1. k \in 0 .. n /\ k \in since .. (n + 1)
      BY <2>3
    <3>2. E[k] = D[k] + d /\ D[k] \in Int /\ 3 + E[k] >= v
      BY <2>1, <3>1
    <3>. QED
      BY <3>2
  <2>. QED
    BY <2>3, <2>5, <2>6 DEF AtLeast
<1>2. ASSUME AtLeast(v - d, n, D, initial)
      PROVE  AtLeast(v, n + 1, E, initial)
  <2>1. PICK since \in 0 .. n :
           /\ HeadStart(since, initial) + D[since] >= v - d
           /\ \A k \in since .. n : 3 + D[k] >= v - d
    BY <1>2 DEF AtLeast
  <2>2. since \in 0 .. (n + 1) /\ HeadStart(since, initial) \in 0 .. 3
    BY DEF HeadStart
  <2>3. HeadStart(since, initial) + E[since] >= v
    <3>1. E[since] = D[since] + d /\ D[since] \in Int
      OBVIOUS
    <3>2. PICK h, x : h = HeadStart(since, initial) /\ x = D[since]
      OBVIOUS
    <3>3. h \in 0 .. 3 /\ x \in Int /\ h + x >= v - d
      BY <2>1, <2>2, <3>1, <3>2, Zenon
    <3>4. h + (x + d) >= v
      BY <3>3
    <3>. QED
      BY <3>1, <3>2, <3>4
  <2>4. ASSUME NEW k \in since .. (n + 1)
        PROVE  3 + E[k] >= v
    <3>1. CASE k = n + 1
      BY <3>1
    <3>2. CASE k # n + 1
      <4>1. k \in 0 .. n /\ k \in since .. n
        BY <3>2
      <4>2. E[k] = D[k] + d /\ D[k] \in Int /\ 3 + D[k] >= v - d
        BY <2>1, <4>1
      <4>3. PICK x : x = D[k]
        OBVIOUS
      <4>4. x \in Int /\ 3 + x >= v - d
        BY <4>2, <4>3
      <4>5. 3 + (x + d) >= v
        BY <4>4
      <4>. QED
        BY <4>2, <4>3, <4>5
    <3>. QED
      BY <3>1, <3>2
  <2>. QED
    BY <2>2, <2>3, <2>4 DEF AtLeast
<1>. QED
  BY <1>1, <1>2

\* Every counter is at least 0, and none is more than 3.
LEMMA LeadsAtTheEnds ==
    ASSUME NEW n \in Nat, NEW D \in [0 .. n -> Int], D[n] = 0, NEW initial \in 0 .. 3
    PROVE  AtLeast(0, n, D, initial) /\ ~ AtLeast(4, n, D, initial)
<1>1. AtLeast(0, n, D, initial)
  <2>1. n \in 0 .. n /\ HeadStart(n, initial) + D[n] >= 0
    BY DEF HeadStart
  <2>2. ASSUME NEW k \in n .. n
        PROVE  3 + D[k] >= 0
    <3>1. k = n
      OBVIOUS
    <3>. QED
      BY <3>1
  <2>. QED
    BY <2>1, <2>2 DEF AtLeast
<1>2. ASSUME AtLeast(4, n, D, initial)
      PROVE  FALSE
  <2>1. PICK since \in 0 .. n : \A k \in since .. n : 3 + D[k] >= 4
    BY <1>2 DEF AtLeast
  <2>2. n \in since .. n
    OBVIOUS
  <2>3. 3 + D[n] >= 4
    BY <2>1, <2>2
  <2>. QED
    BY <2>3
<1>. QED
  BY <1>1, <1>2

TrainedBy(counter, d) == IF d = 0 THEN counter ELSE trained(counter, d = 1)

LEMMA RemembersOneMore ==
    ASSUME NEW n \in Nat, NEW D, NEW E, NEW d, LeadShifts(n, D, E, d),
           NEW initial \in 0 .. 3, NEW before \in 0 .. 3,
           Remembers(before, n, D, initial),
           NEW after, after = TrainedBy(before, d)
    PROVE  Remembers(after, n + 1, E, initial)
<1>0. d \in (-1) .. 1 /\ D \in [0 .. n -> Int] /\ D[n] = 0
  BY DEF LeadShifts
<1>. SUFFICES ASSUME NEW v \in 1 .. 3
              PROVE  after >= v <=> AtLeast(v, n + 1, E, initial)
  BY DEF Remembers
<1>1. AtLeast(v, n + 1, E, initial) <=> AtLeast(v - d, n, D, initial)
  BY LeadsShift, Zenon
<1>2. before >= v - d <=> AtLeast(v - d, n, D, initial)
  <2>1. CASE v - d \in 1 .. 3
    BY <2>1 DEF Remembers
  <2>2. CASE v - d = 0
    <3>1. before >= v - d
      BY <2>2
    <3>2. AtLeast(0, n, D, initial)
      BY <1>0, LeadsAtTheEnds
    <3>. QED
      BY <2>2, <3>1, <3>2
  <2>3. CASE v - d = 4
    <3>1. ~ (before >= v - d)
      BY <2>3
    <3>2. ~ AtLeast(4, n, D, initial)
      BY <1>0, LeadsAtTheEnds
    <3>. QED
      BY <2>3, <3>1, <3>2
  <2>4. v - d \in 0 .. 4
    BY <1>0
  <2>. QED
    BY <2>1, <2>2, <2>3, <2>4
<1>3. after >= v <=> before >= v - d
  <2>1. CASE d = 0
    BY <2>1 DEF TrainedBy
  <2>2. CASE d = 1
    <3>0. after = trained(before, TRUE)
      <4>1. d # 0 /\ (d = 1) = TRUE
        BY <2>2
      <4>. QED
        BY <4>1, Zenon DEF TrainedBy
    <3>1. after = IF before < 3 THEN before + 1 ELSE 3
      BY <3>0, TrainedTyped
    <3>. QED
      BY <2>2, <3>1
  <2>3. CASE d = -1
    <3>1. after = trained(before, FALSE)
      <4>1. d # 0 /\ (d = 1) = FALSE
        BY <2>3
      <4>. QED
        BY <4>1, Zenon DEF TrainedBy
    <3>2. after = IF before > 0 THEN before - 1 ELSE 0
      BY <3>1, TrainedTyped
    <3>. QED
      BY <2>3, <3>2
  <2>. QED
    BY <1>0, <2>1, <2>2, <2>3
<1>. QED
  BY <1>1, <1>2, <1>3

OutcomesAt(e) ==
    {k \in DOMAIN observations :
        IsBranch(observations[k]) /\ EntryOf(observations[k].program_counter) = e}

TakenAt(e) == {k \in OutcomesAt(e) : Taken(observations[k])}

\* The lead of the outcomes T over the others of S after position k.
Ahead(S, T, k) == Cardinality({i \in T : i > k}) - Cardinality({i \in S \ T : i > k})

AheadFrom(n, S, T) == [k \in 0 .. n |-> Ahead(S, T, k)]

HistoryInvariant ==
    Bimodal =>
        \A e \in 0 .. (config.table_entries - 1) :
            Remembers(predictor.counters[e], Len(observations),
                      AheadFrom(Len(observations), OutcomesAt(e), TakenAt(e)),
                      config.initial_counter)

LEMMA PartsAreFinite ==
    ASSUME NEW n \in Nat, NEW R \in SUBSET (1 .. n), NEW k
    PROVE  /\ IsFiniteSet({i \in R : i > k})
           /\ Cardinality({i \in R : i > k}) \in Nat
<1>1. IsFiniteSet(1 .. n)
  BY FS_Interval
<1>2. {i \in R : i > k} \in SUBSET (1 .. n)
  OBVIOUS
<1>3. IsFiniteSet({i \in R : i > k})
  BY <1>1, <1>2, FS_Subset
<1>. QED
  BY <1>3, FS_CardinalityType

LEMMA AheadTyped ==
    ASSUME NEW n \in Nat, NEW S \in SUBSET (1 .. n), NEW T \in SUBSET S
    PROVE  /\ AheadFrom(n, S, T) \in [0 .. n -> Int]
           /\ AheadFrom(n, S, T)[n] = 0
<1>1. T \in SUBSET (1 .. n) /\ S \ T \in SUBSET (1 .. n)
  OBVIOUS
<1>2. ASSUME NEW k \in 0 .. n
      PROVE  Ahead(S, T, k) \in Int
  <2>1. /\ Cardinality({i \in T : i > k}) \in Nat
        /\ Cardinality({i \in S \ T : i > k}) \in Nat
    BY <1>1, PartsAreFinite
  <2>. QED
    BY <2>1 DEF Ahead
<1>3. Ahead(S, T, n) = 0
  <2>1. {i \in T : i > n} = {} /\ {i \in S \ T : i > n} = {}
    <3>1. ASSUME NEW R \in SUBSET (1 .. n)
          PROVE  {i \in R : i > n} = {}
      <4>1. \A i \in R : ~ (i > n)
        OBVIOUS
      <4>. QED
        BY <4>1, Zenon
    <3>. QED
      BY <1>1, <3>1, Zenon
  <2>2. Cardinality({}) = 0
    BY FS_EmptySet
  <2>. QED
    BY <2>1, <2>2 DEF Ahead
<1>. QED
  BY <1>2, <1>3 DEF AheadFrom

LEMMA OneMoreAfter ==
    ASSUME NEW n \in Nat, NEW R \in SUBSET (1 .. n), NEW k \in 0 .. n
    PROVE  Cardinality({i \in R \cup {n + 1} : i > k})
             = Cardinality({i \in R : i > k}) + 1
<1>1. IsFiniteSet({i \in R : i > k})
  BY PartsAreFinite
<1>2. {i \in R \cup {n + 1} : i > k} = {i \in R : i > k} \cup {n + 1}
  OBVIOUS
<1>3. n + 1 \notin {i \in R : i > k}
  OBVIOUS
<1>. QED
  BY <1>1, <1>2, <1>3, FS_AddElement

LEMMA AheadGrows ==
    ASSUME NEW n \in Nat, NEW S \in SUBSET (1 .. n), NEW T \in SUBSET S,
           NEW k \in 0 .. n, NEW taken \in BOOLEAN,
           NEW U, U = S \cup {n + 1},
           NEW V, V = IF taken THEN T \cup {n + 1} ELSE T
    PROVE  Ahead(U, V, k) = Ahead(S, T, k) + (IF taken THEN 1 ELSE -1)
<1>1. T \in SUBSET (1 .. n) /\ S \ T \in SUBSET (1 .. n)
  OBVIOUS
<1>0. n + 1 \notin S /\ n + 1 \notin T
  <2>1. n + 1 \notin 1 .. n
    OBVIOUS
  <2>. QED
    BY <1>1, <2>1, Zenon
<1>2. PICK a, b : /\ a = Cardinality({i \in T : i > k})
                  /\ b = Cardinality({i \in S \ T : i > k})
  OBVIOUS
<1>3. a \in Nat /\ b \in Nat
  BY <1>1, <1>2, PartsAreFinite
<1>4. CASE taken
  <2>1. V = T \cup {n + 1} /\ U \ V = S \ T
    BY <1>0, <1>4, Zenon
  <2>2. Cardinality({i \in V : i > k}) = a + 1
    <3>1. Cardinality({i \in T \cup {n + 1} : i > k})
             = Cardinality({i \in T : i > k}) + 1
      BY <1>1, OneMoreAfter, Zenon
    <3>. QED
      BY <1>2, <2>1, <3>1, Zenon
  <2>. QED
    BY <1>2, <1>3, <1>4, <2>1, <2>2 DEF Ahead
<1>5. CASE ~ taken
  <2>1. V = T /\ U \ V = (S \ T) \cup {n + 1}
    BY <1>0, <1>5, Zenon
  <2>2. Cardinality({i \in U \ V : i > k}) = b + 1
    <3>1. Cardinality({i \in (S \ T) \cup {n + 1} : i > k})
             = Cardinality({i \in S \ T : i > k}) + 1
      BY <1>1, OneMoreAfter, Zenon
    <3>. QED
      BY <1>2, <2>1, <3>1, Zenon
  <2>. QED
    BY <1>2, <1>3, <1>5, <2>1, <2>2 DEF Ahead
<1>. QED
  BY <1>4, <1>5

LEMMA OutcomesGrow ==
    ASSUME observations \in Seq(Observations), NEW seen \in Observations,
           observations' = Append(observations, seen), config' = config,
           NEW e
    PROVE  LET last == Len(observations) + 1
               here == IsBranch(seen) /\ EntryOf(seen.program_counter) = e
           IN /\ OutcomesAt(e)' = IF here THEN OutcomesAt(e) \cup {last}
                                  ELSE OutcomesAt(e)
              /\ TakenAt(e)' = IF here /\ Taken(seen) THEN TakenAt(e) \cup {last}
                               ELSE TakenAt(e)
<1>. DEFINE last == Len(observations) + 1
            here == IsBranch(seen) /\ EntryOf(seen.program_counter) = e
<1>1. /\ Len(observations) \in Nat
      /\ DOMAIN observations' = 1 .. last
      /\ DOMAIN observations = 1 .. Len(observations)
      /\ observations'[last] = seen
      /\ \A k \in 1 .. Len(observations) : observations'[k] = observations[k]
  BY LastObservation
<1>2. /\ DOMAIN observations' = DOMAIN observations \cup {last}
      /\ last \notin DOMAIN observations
      /\ \A k \in DOMAIN observations : observations'[k] = observations[k]
  BY <1>1
<1>. DEFINE At(seq, k) == /\ IsBranch(seq[k])
                          /\ EntryOf(seq[k].program_counter) = e
<1>3. \A a : EntryOf(a)' = EntryOf(a)
  BY DEF EntryOf
<1>4. /\ OutcomesAt(e) = {k \in DOMAIN observations : At(observations, k)}
      /\ OutcomesAt(e)' = {k \in DOMAIN observations' : At(observations', k)}
  BY DEF OutcomesAt, EntryOf
<1>5. /\ \A k \in DOMAIN observations : At(observations', k) <=> At(observations, k)
      /\ At(observations', last) <=> here
  BY <1>1, <1>2
<1>. HIDE DEF At, last, here
<1>6. OutcomesAt(e)' = IF here THEN OutcomesAt(e) \cup {last} ELSE OutcomesAt(e)
  BY <1>2, <1>4, <1>5
<1>7. OutcomesAt(e) \subseteq DOMAIN observations
  BY <1>4
<1>8. TakenAt(e)' = {k \in OutcomesAt(e)' : Taken(observations'[k])}
  BY Zenon DEF TakenAt
<1>9. TakenAt(e) = {k \in OutcomesAt(e) : Taken(observations[k])}
  BY DEF TakenAt
<1>10. Taken(observations'[last]) <=> Taken(seen)
  BY <1>1 DEF last
<1>11. \A k \in OutcomesAt(e) : Taken(observations'[k]) <=> Taken(observations[k])
  BY <1>2, <1>7
<1>12. TakenAt(e)' = IF here /\ Taken(seen) THEN TakenAt(e) \cup {last} ELSE TakenAt(e)
  BY <1>6, <1>8, <1>9, <1>10, <1>11
<1>. QED
  BY <1>6, <1>12, Zenon DEF last, here

LEMMA ObserveRemembers ==
    ASSUME PredictorTyped, HistoryInvariant, Bimodal,
           NEW address \in BranchAddresses, NEW flow \in Flows, Observe(address, flow),
           NEW e \in 0 .. (config.table_entries - 1)
    PROVE  Remembers(predictor'.counters[e], Len(observations'),
                     AheadFrom(Len(observations'), OutcomesAt(e)', TakenAt(e)'),
                     config.initial_counter)
<1>1. PICK seen : seen = [program_counter |-> address, control_flow |-> flow]
  OBVIOUS
<1>2. seen \in Observations /\ seen.program_counter = address
  BY <1>1 DEF Observations
<1>3. /\ observations' = Append(observations, seen)
      /\ config' = config
      /\ predictor'.counters =
           IF IsBranch(seen)
           THEN [predictor.counters EXCEPT ![EntryOf(address)] = trained(@, Taken(seen))]
           ELSE predictor.counters
  BY <1>1, ObservedCounters, Zenon
<1>4. PICK S, T, U, V, last, taken :
         /\ S = OutcomesAt(e) /\ T = TakenAt(e)
         /\ U = OutcomesAt(e)' /\ V = TakenAt(e)'
         /\ last = Len(observations) + 1 /\ taken = Taken(seen)
  OBVIOUS
<1>5. PICK here : here = (IsBranch(seen) /\ EntryOf(address) = e)
  OBVIOUS
<1>6. /\ U = IF here THEN S \cup {last} ELSE S
      /\ V = IF here /\ taken THEN T \cup {last} ELSE T
  <2>1. observations \in Seq(Observations)
    BY DEF PredictorTyped
  <2>2. LET l == Len(observations) + 1
            h == IsBranch(seen) /\ EntryOf(seen.program_counter) = e
        IN /\ OutcomesAt(e)' = IF h THEN OutcomesAt(e) \cup {l} ELSE OutcomesAt(e)
           /\ TakenAt(e)' = IF h /\ Taken(seen) THEN TakenAt(e) \cup {l} ELSE TakenAt(e)
    BY <1>2, <1>3, <2>1, OutcomesGrow, Zenon
  <2>. QED
    BY <1>2, <1>4, <1>5, <2>2, Zenon
<1>7. PICK n, counter, initial : /\ n = Len(observations)
                                  /\ counter = predictor.counters[e]
                                  /\ initial = config.initial_counter
  OBVIOUS
<1>8. predictor.counters \in [0 .. (config.table_entries - 1) -> 0 .. 3]
  BY DEF PredictorTyped
<1>9. /\ counter \in 0 .. 3 /\ initial \in 0 .. 3
      /\ Remembers(counter, n, AheadFrom(n, S, T), initial)
  BY <1>4, <1>7, <1>8, BimodalTable DEF HistoryInvariant, PredictorTyped
<1>10. /\ n \in Nat /\ last = n + 1 /\ Len(observations') = n + 1
       /\ S \in SUBSET (1 .. n) /\ T \in SUBSET S
       /\ U \in SUBSET (1 .. (n + 1)) /\ V \in SUBSET U
       /\ taken \in BOOLEAN /\ here \in BOOLEAN
  <2>1. DOMAIN observations = 1 .. n /\ n \in Nat
    BY <1>7 DEF PredictorTyped
  <2>2. Len(observations') = n + 1
    BY <1>2, <1>3, <1>7, LastObservation DEF PredictorTyped
  <2>3. S \subseteq DOMAIN observations /\ T \subseteq S
    BY <1>4 DEF OutcomesAt, TakenAt
  <2>4. last = n + 1 /\ taken \in BOOLEAN /\ here \in BOOLEAN
    BY <1>4, <1>5, <1>7 DEF Taken
  <2>5. S \in SUBSET (1 .. n) /\ T \in SUBSET S
    BY <2>1, <2>3
  <2>6. U \in SUBSET (1 .. (n + 1)) /\ V \in SUBSET U
    <3>1. 1 .. n \subseteq 1 .. (n + 1) /\ n + 1 \in 1 .. (n + 1)
      BY <2>1
    <3>2. CASE here
      BY <1>6, <2>4, <2>5, <3>1, <3>2, Zenon
    <3>3. CASE ~ here
      BY <1>6, <2>5, <3>1, <3>3, Zenon
    <3>. QED
      BY <3>2, <3>3
  <2>. QED
    BY <2>1, <2>2, <2>4, <2>5, <2>6
<1>11. PICK d : d = IF ~ here THEN 0 ELSE IF taken THEN 1 ELSE -1
  OBVIOUS
<1>12. d \in (-1) .. 1
  BY <1>11
<1>13. ASSUME NEW k \in 0 .. n
       PROVE  Ahead(U, V, k) = Ahead(S, T, k) + d
  <2>1. CASE here
    <3>1. U = S \cup {n + 1} /\ V = IF taken THEN T \cup {n + 1} ELSE T
      BY <1>6, <1>10, <2>1
    <3>2. Ahead(U, V, k) = Ahead(S, T, k) + (IF taken THEN 1 ELSE -1)
      BY <1>10, <3>1, AheadGrows
    <3>. QED
      BY <1>11, <2>1, <3>2
  <2>2. CASE ~ here
    <3>1. U = S /\ V = T /\ d = 0
      BY <1>6, <1>11, <2>2
    <3>2. Ahead(S, T, k) \in Int
      <4>1. AheadFrom(n, S, T) \in [0 .. n -> Int]
        BY <1>10, AheadTyped
      <4>2. AheadFrom(n, S, T)[k] = Ahead(S, T, k)
        BY DEF AheadFrom
      <4>. QED
        BY <4>1, <4>2
    <3>. QED
      BY <3>1, <3>2
  <2>. QED
    BY <2>1, <2>2
<1>14. PICK after : after = predictor'.counters[e]
  OBVIOUS
<1>15. after = TrainedBy(counter, d)
  <2>1. CASE here
    <3>1. after = trained(counter, taken)
      BY <1>3, <1>4, <1>5, <1>7, <1>8, <1>14, <2>1
    <3>2. d # 0 /\ (d = 1) = taken
      BY <1>10, <1>11, <2>1
    <3>. QED
      BY <3>1, <3>2, Zenon DEF TrainedBy
  <2>2. CASE ~ here
    <3>1. after = counter
      BY <1>3, <1>5, <1>7, <1>8, <1>14, <2>2
    <3>. QED
      BY <1>11, <2>2, <3>1 DEF TrainedBy
  <2>. QED
    BY <2>1, <2>2
<1>16. PICK D, E : D = AheadFrom(n, S, T) /\ E = AheadFrom(n + 1, U, V)
  OBVIOUS
<1>17. /\ D \in [0 .. n -> Int] /\ D[n] = 0
       /\ E \in [0 .. (n + 1) -> Int] /\ E[n + 1] = 0
  <2>1. n + 1 \in Nat
    BY <1>10
  <2>. QED
    BY <1>10, <1>16, <2>1, AheadTyped
<1>18. \A k \in 0 .. n : E[k] = D[k] + d
  <2>1. \A k \in 0 .. n : D[k] = Ahead(S, T, k) /\ E[k] = Ahead(U, V, k)
    BY <1>10, <1>16 DEF AheadFrom
  <2>. QED
    BY <1>13, <2>1
<1>19. Remembers(after, n + 1, E, initial)
  <2>1. n \in Nat
    BY <1>10
  <2>2. Remembers(counter, n, D, initial)
    BY <1>9, <1>16, Zenon
  <2>3. counter \in 0 .. 3 /\ initial \in 0 .. 3
    BY <1>9
  <2>4. LeadShifts(n, D, E, d)
    BY <1>12, <1>17, <1>18, Zenon DEF LeadShifts
  <2>. QED
    BY <1>15, <2>1, <2>2, <2>3, <2>4, RemembersOneMore, Zenon
<1>. QED
  BY <1>4, <1>7, <1>10, <1>14, <1>16, <1>19, Zenon

LEMMA HistoryInvariantHolds == PredictorSpec => []HistoryInvariant
<1>1. PredictorInit => HistoryInvariant
  <2>. SUFFICES ASSUME PredictorInit, Bimodal,
                       NEW e \in 0 .. (config.table_entries - 1)
                PROVE  Remembers(predictor.counters[e], Len(observations),
                                 AheadFrom(Len(observations), OutcomesAt(e), TakenAt(e)),
                                 config.initial_counter)
    BY DEF HistoryInvariant
  <2>1. predictor.counters[e] = config.initial_counter
    BY DEF PredictorInit, Bimodal, NewPredictor, counter_count
  <2>2. OutcomesAt(e) = {} /\ TakenAt(e) = {} /\ Len(observations) = 0
    BY DEF PredictorInit, OutcomesAt, TakenAt
  <2>3. config.initial_counter \in 0 .. 3
    BY BimodalTable DEF PredictorInit
  <2>4. AheadFrom(0, {}, {})[0] = 0
    BY AheadTyped
  <2>. QED
    BY <2>1, <2>2, <2>3, <2>4, HistoryStarts
<1>2. ASSUME PredictorTyped, HistoryInvariant, [PredictorNext]_predictor_vars
      PROVE  HistoryInvariant'
  <2>1. CASE UNCHANGED predictor_vars
    <3>1. /\ Bimodal' = Bimodal /\ config' = config /\ predictor' = predictor
          /\ observations' = observations
      BY <2>1, Zenon DEF predictor_vars, Bimodal, PredictorAccepted
    <3>2. \A e : OutcomesAt(e)' = OutcomesAt(e) /\ TakenAt(e)' = TakenAt(e)
      BY <2>1, Zenon DEF predictor_vars, OutcomesAt, TakenAt, EntryOf
    <3>. QED
      BY <1>2, <3>1, <3>2 DEF HistoryInvariant
  <2>2. CASE ForgetHistory
    <3>1. config' = config /\ observations' = << >>
      BY <2>2 DEF ForgetHistory
    <3>2. Bimodal' = Bimodal
      BY <3>1, Zenon DEF Bimodal, PredictorAccepted
    <3>3. ASSUME Bimodal, NEW e \in 0 .. (config.table_entries - 1)
          PROVE  Remembers(predictor'.counters[e], Len(observations'),
                           AheadFrom(Len(observations'), OutcomesAt(e)', TakenAt(e)'),
                           config.initial_counter)
      <4>1. predictor'.counters[e] = config.initial_counter
        BY <2>2, <3>3 DEF ForgetHistory, Bimodal, ResetPredictor, NewPredictor,
                          counter_count
      <4>2. OutcomesAt(e)' = {} /\ TakenAt(e)' = {} /\ Len(observations') = 0
        BY <3>1 DEF OutcomesAt, TakenAt
      <4>3. config.initial_counter \in 0 .. 3
        BY <1>2, <3>3, BimodalTable DEF PredictorTyped
      <4>4. AheadFrom(0, {}, {})[0] = 0
        BY AheadTyped
      <4>. QED
        BY <4>1, <4>2, <4>3, <4>4, HistoryStarts
    <3>. QED
      BY <3>1, <3>2, <3>3 DEF HistoryInvariant
  <2>3. CASE \E address \in BranchAddresses, flow \in Flows : Observe(address, flow)
    <3>1. PICK address \in BranchAddresses, flow \in Flows : Observe(address, flow)
      BY <2>3
    <3>2. config' = config
      BY <3>1, Zenon DEF Observe
    <3>3. Bimodal' = Bimodal
      BY <3>2, Zenon DEF Bimodal, PredictorAccepted
    <3>4. ASSUME Bimodal, NEW e \in 0 .. (config.table_entries - 1)
          PROVE  Remembers(predictor'.counters[e], Len(observations'),
                           AheadFrom(Len(observations'), OutcomesAt(e)', TakenAt(e)'),
                           config.initial_counter)
      BY <1>2, <3>1, <3>4, ObserveRemembers
    <3>. QED
      BY <3>2, <3>3, <3>4 DEF HistoryInvariant
  <2>. QED
    BY <1>2, <2>1, <2>2, <2>3 DEF PredictorNext
<1>. QED
  BY <1>1, <1>2, PredictorTypedHolds, PTL DEF PredictorSpec

(***************************************************************************)
(* The history since the last reset decides every prediction, for every    *)
(* strategy, table, trace and initial counter: a static one is the         *)
(* strategy's, and a bimodal one is taken exactly if the taken outcomes of *)
(* its entry lead by two since some moment, counting the initial counter   *)
(* since the reset, and the others have not led by two since then.         *)
(***************************************************************************)
THEOREM PredictionsFollowHistory == PredictorSpec => []PredictionFollowsHistory
<1>1. ASSUME PredictorTyped, HistoryInvariant, Bimodal, NEW address \in BranchAddresses
      PROVE  LET outcomes == Outcomes(address)
                 now == Len(observations)
                 Start(k) == IF k = 0 THEN config.initial_counter ELSE 0
             IN predict(config, predictor, address) <=>
                   \E since \in 0 .. now :
                      /\ Start(since) + Lead(outcomes, since) >= 2
                      /\ \A k \in since .. now : Lead(outcomes, k) > -2
  <2>1. config \in PredictorConfigurations /\ address \in Word
    BY <1>1, PredictorCheckAssumption DEF PredictorTyped
  <2>2. PICK e, counter, S, T, n, initial :
           /\ e = EntryOf(address) /\ counter = predictor.counters[e]
           /\ S = OutcomesAt(e) /\ T = TakenAt(e) /\ n = Len(observations)
           /\ initial = config.initial_counter
    OBVIOUS
  <2>3. e \in 0 .. (config.table_entries - 1)
    BY <1>1, <2>1, <2>2, IndexIsEntry
  <2>4. PICK D : D = AheadFrom(n, S, T)
    OBVIOUS
  <2>5. Remembers(counter, n, D, initial)
    BY <1>1, <2>2, <2>3, <2>4 DEF HistoryInvariant
  <2>6. predict(config, predictor, address) = (counter >= 2)
    BY <1>1, <2>1, <2>2, BimodalPrediction
  <2>7. Outcomes(address) = S
    BY <2>2 DEF Outcomes, OutcomesAt, EntryOf
  <2>8. n \in Nat /\ S \in SUBSET (1 .. n) /\ T \in SUBSET S /\ initial \in 0 .. 3
    BY <1>1, <2>1, <2>2, BimodalTable DEF PredictorTyped, OutcomesAt, TakenAt
  <2>9. D \in [0 .. n -> Int]
    BY <2>4, <2>8, AheadTyped
  <2>10. ASSUME NEW k \in 0 .. n
         PROVE  D[k] = Lead(S, k)
    <3>1. /\ {i \in T : i > k} = {i \in S : i > k /\ Taken(observations[i])}
          /\ {i \in S \ T : i > k} = {i \in S : i > k /\ ~ Taken(observations[i])}
      BY <2>2 DEF TakenAt
    <3>2. D[k] = Ahead(S, T, k)
      BY <2>4 DEF AheadFrom
    <3>. QED
      BY <3>1, <3>2, Zenon DEF Ahead, Lead
  <2>11. counter >= 2 <=> AtLeast(2, n, D, initial)
    <3>1. 2 \in 1 .. 3
      OBVIOUS
    <3>. QED
      BY <2>5, <3>1 DEF Remembers
  <2>12. AtLeast(2, n, D, initial) <=>
            \E since \in 0 .. n :
               /\ HeadStart(since, initial) + Lead(S, since) >= 2
               /\ \A k \in since .. n : Lead(S, k) > -2
    <3>1. ASSUME NEW since \in 0 .. n
          PROVE  (\A k \in since .. n : 3 + D[k] >= 2)
                    <=> \A k \in since .. n : Lead(S, k) > -2
      <4>1. ASSUME NEW k \in since .. n
            PROVE  3 + D[k] >= 2 <=> Lead(S, k) > -2
        <5>1. k \in 0 .. n
          BY <2>8
        <5>2. D[k] \in Int /\ D[k] = Lead(S, k)
          BY <2>9, <2>10, <5>1
        <5>. QED
          BY <5>2
      <4>. QED
        BY <4>1, Zenon
    <3>. QED
      BY <2>10, <3>1, Zenon DEF AtLeast
  <2>. QED
    BY <2>2, <2>6, <2>7, <2>11, <2>12, Zenon DEF HeadStart
<1>2. ASSUME PredictorAccepted, config.strategy # "BimodalTwoBit", NEW address
      PROVE  predict(config, predictor, address) <=> config.strategy = "AlwaysTaken"
  <2>1. \A v : Some(v) # NullOpt
    BY SomeValue
  <2>2. config.strategy \in Strategies
    BY <1>2, <2>1, Zenon DEF PredictorAccepted, PredictorConfigurationError
  <2>3. config.strategy \in {"AlwaysNotTaken", "AlwaysTaken"}
    BY <1>2, <2>2 DEF Strategies
  <2>. QED
    BY <2>3 DEF predict
<1>3. PredictorTyped /\ HistoryInvariant => PredictionFollowsHistory
  BY <1>1, <1>2, Zenon DEF PredictionFollowsHistory, Bimodal
<1>. QED
  BY <1>3, PredictorTypedHolds, HistoryInvariantHolds, PTL

-----------------------------------------------------------------------------
\* The last of a set of positions.
LastOf(k, S) == k \in S /\ \A i \in S : i <= k

LEMMA MaxIsLast ==
    ASSUME NEW n \in Nat, NEW S \in SUBSET (1 .. n), S # {}
    PROVE  LastOf(Max(S), S)
<1>. DEFINE D == {n - k : k \in S}
<1>1. D \in SUBSET Nat /\ D # {}
  <2>1. \A k \in S : n - k \in Nat
    OBVIOUS
  <2>. QED
    BY <2>1, Zenon
<1>2. PICK d \in D : \A c \in D : d <= c
  <2>. HIDE DEF D
  <2>. QED
    BY <1>1, LeastNatural
<1>3. PICK m \in S : d = n - m
  OBVIOUS
<1>4. \A k \in S : m >= k
  BY <1>2, <1>3
<1>5. \E x \in S : \A y \in S : x >= y
  BY <1>4
<1>6. Max(S) \in S /\ \A y \in S : Max(S) >= y
  BY <1>5 DEF Max
<1>7. \A y \in S : y <= Max(S)
  BY <1>6
<1>. QED
  BY <1>6, <1>7 DEF LastOf

-----------------------------------------------------------------------------
(***************************************************************************)
(* Least-recently-used replacement.  S is the set of the blocks of one set *)
(* that were used, and L[b] the time of b's last use: the rank of a block  *)
(* is the number of younger ones, and a set is stacked when way w holds    *)
(* the block of rank w.                                                    *)
(***************************************************************************)
YoungerThan(S, L, b) == {d \in S : L[d] > L[b]}

Rank(S, L, b) == Cardinality(YoungerThan(S, L, b))

HoldsRank(S, L, sets, F, way) ==
    \E b \in S : Rank(S, L, b) = way /\ F[way] = CacheLine(b \div sets, TRUE)

Stacked(S, L, sets, ways, F) ==
    \A way \in 0 .. (ways - 1) :
        IF way >= Cardinality(S) THEN ~ F[way].valid
        ELSE HoldsRank(S, L, sets, F, way)

\* The last uses are times, and no two blocks were used at the same time.
UseTimes(S, L) ==
    /\ IsFiniteSet(S)
    /\ \A b \in S : L[b] \in Nat
    /\ \A b, d \in S : L[b] = L[d] => b = d

(***************************************************************************)
(* An older block has the larger rank, and ranks are below the number of   *)
(* blocks.                                                                 *)
(***************************************************************************)
LEMMA RankBound ==
    ASSUME NEW S, NEW L, UseTimes(S, L), NEW b \in S
    PROVE  /\ IsFiniteSet(YoungerThan(S, L, b))
           /\ Rank(S, L, b) \in Nat
           /\ Cardinality(S) \in Nat
           /\ Rank(S, L, b) < Cardinality(S)
<1>1. PICK Y : Y = YoungerThan(S, L, b)
  OBVIOUS
<1>2. Y \in SUBSET S /\ b \notin Y /\ IsFiniteSet(S)
  <2>1. ~ (L[b] > L[b])
    BY DEF UseTimes
  <2>. QED
    BY <1>1, <2>1, Zenon DEF YoungerThan, UseTimes
<1>3. /\ IsFiniteSet(Y)
      /\ Cardinality(Y) <= Cardinality(S)
      /\ Cardinality(S) = Cardinality(Y) => S = Y
  BY <1>2, FS_Subset
<1>4. Cardinality(Y) \in Nat /\ Cardinality(S) \in Nat
  BY <1>2, <1>3, FS_CardinalityType
<1>5. S # Y
  BY <1>2
<1>6. Cardinality(Y) < Cardinality(S)
  BY <1>3, <1>4, <1>5
<1>. QED
  BY <1>1, <1>3, <1>4, <1>6, Zenon DEF Rank

LEMMA RankOrder ==
    ASSUME NEW S, NEW L, UseTimes(S, L), NEW b \in S, NEW d \in S, L[b] < L[d]
    PROVE  Rank(S, L, d) < Rank(S, L, b)
<1>1. PICK Y, Z : Y = YoungerThan(S, L, b) /\ Z = YoungerThan(S, L, d)
  OBVIOUS
<1>2. IsFiniteSet(Y)
  BY <1>1, RankBound
<1>3. Z \in SUBSET Y
  <2>1. \A x \in S : L[x] > L[d] => L[x] > L[b]
    BY DEF UseTimes
  <2>. QED
    BY <1>1, <2>1, Zenon DEF YoungerThan
<1>4. d \in Y /\ d \notin Z
  <2>1. L[d] > L[b] /\ ~ (L[d] > L[d])
    BY DEF UseTimes
  <2>. QED
    BY <1>1, <2>1, Zenon DEF YoungerThan
<1>5. /\ Cardinality(Z) <= Cardinality(Y)
      /\ Cardinality(Y) = Cardinality(Z) => Y = Z
  BY <1>2, <1>3, FS_Subset
<1>6. Cardinality(Y) \in Nat /\ Cardinality(Z) \in Nat
  BY <1>1, RankBound DEF Rank
<1>7. Y # Z
  BY <1>4
<1>8. Cardinality(Z) < Cardinality(Y)
  BY <1>5, <1>6, <1>7
<1>. QED
  BY <1>1, <1>8, Zenon DEF Rank

LEMMA RankDecides ==
    ASSUME NEW S, NEW L, UseTimes(S, L), NEW b \in S, NEW d \in S
    PROVE  /\ Rank(S, L, b) = Rank(S, L, d) => b = d
           /\ Rank(S, L, b) < Rank(S, L, d) <=> L[d] < L[b]
<1>1. L[b] \in Nat /\ L[d] \in Nat /\ (L[b] = L[d] => b = d)
  BY Zenon DEF UseTimes
<1>2. Rank(S, L, b) \in Nat /\ Rank(S, L, d) \in Nat
  BY RankBound
<1>3. L[b] < L[d] => Rank(S, L, d) < Rank(S, L, b)
  BY RankOrder
<1>4. L[d] < L[b] => Rank(S, L, b) < Rank(S, L, d)
  BY RankOrder
<1>. QED
  BY <1>1, <1>2, <1>3, <1>4

(***************************************************************************)
(* Using a block makes it the youngest, and puts those it overtakes back   *)
(* by one.                                                                 *)
(***************************************************************************)
UsedNow(S, L, a, T, M) ==
    /\ T = S \cup {a}
    /\ M[a] \in Nat
    /\ \A b \in S : M[a] > L[b]
    /\ \A b \in S \ {a} : M[b] = L[b]

LEMMA UseMovesRanks ==
    ASSUME NEW S, NEW L, UseTimes(S, L), NEW a, NEW T, NEW M, UsedNow(S, L, a, T, M)
    PROVE  /\ Rank(T, M, a) = 0
           /\ \A b \in S \ {a} :
                 Rank(T, M, b) = IF a \in S /\ L[a] > L[b] THEN Rank(S, L, b)
                                 ELSE Rank(S, L, b) + 1
           /\ Cardinality(T) = IF a \in S THEN Cardinality(S) ELSE Cardinality(S) + 1
<1>1. Rank(T, M, a) = 0
  <2>1. \A b \in T : ~ (M[b] > M[a])
    <3>1. ASSUME NEW b \in S \ {a}
          PROVE  ~ (M[b] > M[a])
      <4>1. M[b] = L[b] /\ M[a] > L[b] /\ L[b] \in Nat /\ M[a] \in Nat
        BY Zenon DEF UsedNow, UseTimes
      <4>. QED
        BY <4>1
    <3>2. ~ (M[a] > M[a])
      BY DEF UsedNow
    <3>. QED
      BY <3>1, <3>2, Zenon DEF UsedNow
  <2>2. YoungerThan(T, M, a) = {}
    BY <2>1, Zenon DEF YoungerThan
  <2>. QED
    BY <2>2, FS_EmptySet DEF Rank
<1>2. ASSUME NEW b \in S \ {a}
      PROVE  Rank(T, M, b) = IF a \in S /\ L[a] > L[b] THEN Rank(S, L, b)
                             ELSE Rank(S, L, b) + 1
  <2>1. PICK Y : Y = YoungerThan(S, L, b)
    OBVIOUS
  <2>2. IsFiniteSet(Y)
    BY <2>1, RankBound
  <2>3. M[b] = L[b] /\ M[a] > M[b]
    BY Zenon DEF UsedNow
  <2>4. YoungerThan(T, M, b) = Y \cup {a}
    <3>1. ASSUME NEW d \in S \ {a}
          PROVE  M[d] > M[b] <=> L[d] > L[b]
      BY <2>3, Zenon DEF UsedNow
    <3>. QED
      BY <2>1, <2>3, <3>1, Zenon DEF YoungerThan, UsedNow
  <2>5. Cardinality(Y \cup {a}) = IF a \in Y THEN Cardinality(Y) ELSE Cardinality(Y) + 1
    BY <2>2, FS_AddElement
  <2>6. a \in Y <=> a \in S /\ L[a] > L[b]
    BY <2>1, Zenon DEF YoungerThan
  <2>. QED
    BY <2>1, <2>4, <2>5, <2>6, Zenon DEF Rank
<1>3. Cardinality(T) = IF a \in S THEN Cardinality(S) ELSE Cardinality(S) + 1
  BY FS_AddElement DEF UsedNow, UseTimes
<1>. QED
  BY <1>1, <1>2, <1>3

(***************************************************************************)
(* The ways of a stacked set: a block is in the way of its rank if it is   *)
(* in any, and the free ways are those past the number of blocks.          *)
(***************************************************************************)
SameSet(S, sets, a) == \A b \in S : b \div sets = a \div sets => b = a

HoldingWays(F, ways, tag) == {way \in 0 .. (ways - 1) : F[way] = CacheLine(tag, TRUE)}

EmptyWays(F, ways) == {way \in 0 .. (ways - 1) : ~ F[way].valid}

LEMMA LineIsValid ==
    ASSUME NEW tag
    PROVE  CacheLine(tag, TRUE).valid = TRUE /\ CacheLine(tag, TRUE).tag = tag
BY DEF CacheLine

LEMMA SameLine ==
    ASSUME NEW x, NEW y, CacheLine(x, TRUE) = CacheLine(y, TRUE)
    PROVE  x = y
BY LineIsValid

LEMMA HoldingIsRank ==
    ASSUME NEW S, NEW L, UseTimes(S, L), NEW sets, NEW ways \in Nat, NEW F,
           Stacked(S, L, sets, ways, F), NEW a, SameSet(S, sets, a)
    PROVE  HoldingWays(F, ways, a \div sets)
             = IF a \in S /\ Rank(S, L, a) < ways THEN {Rank(S, L, a)} ELSE {}
<1>1. ASSUME NEW way \in HoldingWays(F, ways, a \div sets)
      PROVE  a \in S /\ Rank(S, L, a) = way /\ way < ways
  <2>1. way \in 0 .. (ways - 1) /\ F[way] = CacheLine(a \div sets, TRUE)
    BY DEF HoldingWays
  <2>2. ~ (way >= Cardinality(S))
    BY <2>1, LineIsValid DEF Stacked
  <2>3. HoldsRank(S, L, sets, F, way)
    BY <2>1, <2>2 DEF Stacked
  <2>4. PICK b \in S : Rank(S, L, b) = way /\ F[way] = CacheLine(b \div sets, TRUE)
    BY <2>3 DEF HoldsRank
  <2>5. b = a
    <3>1. b \div sets = a \div sets
      BY <2>1, <2>4, SameLine
    <3>. QED
      BY <3>1 DEF SameSet
  <2>6. way < ways
    BY <2>1
  <2>. QED
    BY <2>4, <2>5, <2>6
<1>2. ASSUME a \in S, Rank(S, L, a) < ways
      PROVE  Rank(S, L, a) \in HoldingWays(F, ways, a \div sets)
  <2>1. PICK way : way = Rank(S, L, a)
    OBVIOUS
  <2>2. /\ way \in 0 .. (ways - 1) /\ ~ (way >= Cardinality(S))
    <3>1. way \in Nat /\ Cardinality(S) \in Nat /\ way < Cardinality(S) /\ way < ways
      BY <1>2, <2>1, RankBound
    <3>. QED
      BY <3>1
  <2>3. PICK b \in S : Rank(S, L, b) = way /\ F[way] = CacheLine(b \div sets, TRUE)
    BY <2>2 DEF Stacked, HoldsRank
  <2>4. b = a
    BY <1>2, <2>1, <2>3, RankDecides
  <2>. QED
    BY <2>1, <2>2, <2>3, <2>4 DEF HoldingWays
<1>. QED
  BY <1>1, <1>2, Zenon

LEMMA EmptyArePast ==
    ASSUME NEW S, NEW L, UseTimes(S, L), NEW sets, NEW ways \in Nat, NEW F,
           Stacked(S, L, sets, ways, F), NEW way \in 0 .. (ways - 1)
    PROVE  way \in EmptyWays(F, ways) <=> way >= Cardinality(S)
<1>1. CASE way >= Cardinality(S)
  BY <1>1 DEF EmptyWays, Stacked
<1>2. CASE ~ (way >= Cardinality(S))
  <2>1. PICK b \in S : F[way] = CacheLine(b \div sets, TRUE)
    BY <1>2 DEF Stacked, HoldsRank
  <2>2. F[way].valid = TRUE
    BY <2>1, LineIsValid
  <2>. QED
    BY <1>2, <2>2 DEF EmptyWays
<1>. QED
  BY <1>1, <1>2

LEMMA MinIs ==
    ASSUME NEW S, NEW m \in S, \A k \in S : m <= k, S \subseteq Int
    PROVE  Min(S) = m
<1>1. \E x \in S : \A y \in S : x <= y
  OBVIOUS
<1>2. Min(S) \in S /\ \A y \in S : Min(S) <= y
  BY <1>1 DEF Min
<1>3. PICK x : x = Min(S)
  OBVIOUS
<1>4. x \in Int /\ m \in Int /\ x <= m /\ m <= x
  BY <1>2, <1>3, Zenon
<1>. QED
  BY <1>3, <1>4

(***************************************************************************)
(* access on one set, F before and G after: the ways up to the selected    *)
(* one move back, and the block is put in way 0.                           *)
(***************************************************************************)
SelectedOf(F, ways, tag) ==
    CASE HoldingWays(F, ways, tag) # {} -> Min(HoldingWays(F, ways, tag))
      [] HoldingWays(F, ways, tag) = {} /\ EmptyWays(F, ways) # {}
            -> Min(EmptyWays(F, ways))
      [] OTHER -> ways - 1

Moved(F, G, ways, tag, selected) ==
    \A k \in 0 .. (ways - 1) :
        G[k] = IF k = 0 THEN CacheLine(tag, TRUE)
               ELSE IF k <= selected THEN F[k - 1] ELSE F[k]

LEMMA SelectedIs ==
    ASSUME NEW S, NEW L, UseTimes(S, L), NEW sets, NEW ways \in Nat \ {0}, NEW F,
           Stacked(S, L, sets, ways, F), NEW a, SameSet(S, sets, a)
    PROVE  SelectedOf(F, ways, a \div sets)
             = IF a \in S /\ Rank(S, L, a) < ways THEN Rank(S, L, a)
               ELSE IF Cardinality(S) < ways THEN Cardinality(S)
               ELSE ways - 1
<1>1. PICK H, E, n : /\ H = HoldingWays(F, ways, a \div sets)
                     /\ E = EmptyWays(F, ways)
                     /\ n = Cardinality(S)
  OBVIOUS
<1>2. n \in Nat
  BY <1>1, FS_CardinalityType DEF UseTimes
<1>3. CASE a \in S /\ Rank(S, L, a) < ways
  <2>1. PICK r : r = Rank(S, L, a)
    OBVIOUS
  <2>2. r \in Nat
    BY <1>3, <2>1, RankBound
  <2>3. H = {r}
    BY <1>1, <1>3, <2>1, HoldingIsRank
  <2>4. Min(H) = r
    BY <2>2, <2>3, MinIs
  <2>5. H # {}
    BY <2>3
  <2>6. SelectedOf(F, ways, a \div sets) = Min(H)
    BY <1>1, <2>5 DEF SelectedOf
  <2>. QED
    BY <1>3, <2>1, <2>4, <2>6
<1>4. CASE ~ (a \in S /\ Rank(S, L, a) < ways)
  <2>1. H = {}
    BY <1>1, <1>4, HoldingIsRank
  <2>2. \A way \in 0 .. (ways - 1) : way \in E <=> way >= n
    BY <1>1, EmptyArePast
  <2>3. CASE n < ways
    <3>1. n \in E
      BY <1>2, <2>2, <2>3
    <3>2. \A k \in E : n <= k
      BY <1>1, <2>2 DEF EmptyWays
    <3>3. E \subseteq Int
      BY <1>1 DEF EmptyWays
    <3>4. Min(E) = n
      BY <3>1, <3>2, <3>3, MinIs
    <3>5. SelectedOf(F, ways, a \div sets) = Min(E)
      BY <1>1, <2>1, <3>1 DEF SelectedOf
    <3>. QED
      BY <1>1, <1>4, <2>3, <3>4, <3>5
  <2>4. CASE ~ (n < ways)
    <3>1. E = {}
      BY <1>1, <1>2, <2>2, <2>4 DEF EmptyWays
    <3>2. SelectedOf(F, ways, a \div sets) = ways - 1
      BY <1>1, <2>1, <3>1 DEF SelectedOf
    <3>. QED
      BY <1>1, <1>4, <2>4, <3>2
  <2>. QED
    BY <2>3, <2>4
<1>. QED
  BY <1>3, <1>4

(***************************************************************************)
(* An access keeps a set stacked: one lemma for each way to select a way.  *)
(***************************************************************************)
LEMMA PutBack ==
    ASSUME NEW S, NEW L, UseTimes(S, L), NEW sets, NEW F, NEW G, NEW way \in Nat,
           HoldsRank(S, L, sets, F, way), G[way + 1] = F[way],
           NEW a, NEW T, NEW M, UsedNow(S, L, a, T, M),
           a \in S => Rank(S, L, a) > way
    PROVE  HoldsRank(T, M, sets, G, way + 1)
<1>1. PICK b \in S : Rank(S, L, b) = way /\ F[way] = CacheLine(b \div sets, TRUE)
  BY DEF HoldsRank
<1>2. b # a
  BY <1>1
<1>3. ~ (a \in S /\ L[a] > L[b])
  <2>1. ASSUME a \in S PROVE ~ (L[a] > L[b])
    <3>1. L[a] < L[b]
      BY <1>1, <2>1, RankDecides
    <3>. QED
      BY <2>1, <3>1 DEF UseTimes
  <2>. QED
    BY <2>1
<1>4. Rank(T, M, b) = way + 1
  BY <1>1, <1>2, <1>3, UseMovesRanks
<1>5. b \in T
  BY DEF UsedNow
<1>. QED
  BY <1>1, <1>4, <1>5, Zenon DEF HoldsRank

LEMMA StayBehind ==
    ASSUME NEW S, NEW L, UseTimes(S, L), NEW sets, NEW F, NEW G, NEW way \in Nat,
           HoldsRank(S, L, sets, F, way), G[way] = F[way],
           NEW a \in S, NEW T, NEW M, UsedNow(S, L, a, T, M),
           Rank(S, L, a) < way
    PROVE  HoldsRank(T, M, sets, G, way)
<1>1. PICK b \in S : Rank(S, L, b) = way /\ F[way] = CacheLine(b \div sets, TRUE)
  BY DEF HoldsRank
<1>2. b # a /\ L[a] > L[b]
  <2>1. L[b] < L[a] /\ Rank(S, L, a) \in Nat
    BY <1>1, RankDecides, RankBound
  <2>2. L[a] \in Nat /\ L[b] \in Nat
    BY Zenon DEF UseTimes
  <2>. QED
    BY <2>1, <2>2
<1>3. Rank(T, M, b) = way
  BY <1>1, <1>2, UseMovesRanks
<1>4. b \in T
  BY DEF UsedNow
<1>. QED
  BY <1>1, <1>3, <1>4, Zenon DEF HoldsRank

LEMMA NowFirst ==
    ASSUME NEW S, NEW L, UseTimes(S, L), NEW sets, NEW G,
           NEW a, NEW T, NEW M, UsedNow(S, L, a, T, M),
           G[0] = CacheLine(a \div sets, TRUE)
    PROVE  HoldsRank(T, M, sets, G, 0)
<1>1. Rank(T, M, a) = 0 /\ a \in T
  BY UseMovesRanks DEF UsedNow
<1>. QED
  BY <1>1, Zenon DEF HoldsRank

LEMMA AccessStacks ==
    ASSUME NEW S, NEW L, UseTimes(S, L), NEW sets, NEW ways \in Nat \ {0}, NEW F, NEW G,
           Stacked(S, L, sets, ways, F), NEW a, SameSet(S, sets, a),
           NEW T, NEW M, UsedNow(S, L, a, T, M),
           Moved(F, G, ways, a \div sets, SelectedOf(F, ways, a \div sets))
    PROVE  Stacked(T, M, sets, ways, G)
<1>1. PICK n, m, s : /\ n = Cardinality(S) /\ m = Cardinality(T)
                     /\ s = SelectedOf(F, ways, a \div sets)
  OBVIOUS
<1>2. n \in Nat /\ m = (IF a \in S THEN n ELSE n + 1)
  <2>1. Cardinality(S) \in Nat
    BY FS_CardinalityType DEF UseTimes
  <2>2. Cardinality(T) = IF a \in S THEN Cardinality(S) ELSE Cardinality(S) + 1
    BY UseMovesRanks
  <2>. QED
    BY <1>1, <2>1, <2>2, Zenon
<1>3. s = IF a \in S /\ Rank(S, L, a) < ways THEN Rank(S, L, a)
          ELSE IF n < ways THEN n ELSE ways - 1
  BY <1>1, SelectedIs
<1>4. a \in S => Rank(S, L, a) \in Nat /\ Rank(S, L, a) < n
  BY <1>1, RankBound
<1>5. m \in Nat \ {0} /\ s \in Nat
  BY <1>2, <1>3, <1>4
<1>6. \A way \in 0 .. (ways - 1) : way >= n => ~ F[way].valid
  BY <1>1 DEF Stacked
<1>7. \A way \in 0 .. (ways - 1) : way < n => HoldsRank(S, L, sets, F, way)
  BY <1>1, <1>2 DEF Stacked
<1>8. \A k \in 0 .. (ways - 1) :
          G[k] = IF k = 0 THEN CacheLine(a \div sets, TRUE)
                 ELSE IF k <= s THEN F[k - 1] ELSE F[k]
  BY <1>1 DEF Moved
<1>9. ASSUME NEW k \in 0 .. (ways - 1)
      PROVE  IF k >= m THEN ~ G[k].valid ELSE HoldsRank(T, M, sets, G, k)
  <2>1. CASE k = 0
    <3>1. G[0] = CacheLine(a \div sets, TRUE)
      BY <1>8, <2>1
    <3>2. HoldsRank(T, M, sets, G, 0)
      BY <3>1, NowFirst
    <3>. QED
      BY <1>5, <2>1, <3>2
  <2>2. CASE k # 0 /\ k <= s
    <3>1. PICK j : j = k - 1
      OBVIOUS
    <3>2. j \in Nat /\ k = j + 1 /\ j \in 0 .. (ways - 1) /\ G[j + 1] = F[j] /\ j < s
      <4>1. j \in Nat /\ k = j + 1 /\ j \in 0 .. (ways - 1) /\ j < s
        BY <1>5, <2>2, <3>1
      <4>2. G[k] = F[k - 1]
        BY <1>8, <2>2
      <4>. QED
        BY <3>1, <4>1, <4>2, Zenon
    <3>3. j < n
      BY <1>2, <1>3, <1>4, <3>2
    <3>4. a \in S => Rank(S, L, a) > j
      BY <1>2, <1>3, <1>4, <3>2
    <3>5. HoldsRank(S, L, sets, F, j)
      BY <1>7, <3>2, <3>3
    <3>6. HoldsRank(T, M, sets, G, j + 1)
      BY <3>2, <3>4, <3>5, PutBack
    <3>7. ~ (k >= m)
      BY <1>2, <1>3, <1>4, <3>2, <3>3, <3>4
    <3>. QED
      BY <3>2, <3>6, <3>7
  <2>3. CASE k # 0 /\ ~ (k <= s)
    <3>1. G[k] = F[k] /\ k \in Nat /\ k > s
      <4>1. G[k] = F[k]
        BY <1>8, <2>3
      <4>2. k \in Nat /\ k > s
        BY <1>5, <2>3
      <4>. QED
        BY <4>1, <4>2
    <3>2. CASE a \in S /\ Rank(S, L, a) < ways
      <4>1. s = Rank(S, L, a) /\ m = n
        BY <1>2, <1>3, <3>2
      <4>2. CASE k >= n
        BY <1>6, <3>1, <4>1, <4>2
      <4>3. CASE ~ (k >= n)
        <5>1. HoldsRank(S, L, sets, F, k) /\ Rank(S, L, a) < k
          BY <1>2, <1>4, <1>7, <3>1, <3>2, <4>1, <4>3
        <5>2. HoldsRank(T, M, sets, G, k)
          BY <3>1, <3>2, <5>1, StayBehind
        <5>. QED
          BY <4>1, <4>3, <5>2
      <4>. QED
        BY <4>2, <4>3
    <3>3. CASE ~ (a \in S /\ Rank(S, L, a) < ways)
      <4>1. n < ways /\ s = n
        BY <1>2, <1>3, <3>1, <3>3
      <4>2. k >= m /\ k >= n
        BY <1>2, <1>4, <3>1, <3>3, <4>1
      <4>. QED
        BY <1>6, <3>1, <4>2
    <3>. QED
      BY <3>2, <3>3
  <2>. QED
    BY <2>1, <2>2, <2>3
<1>. QED
  BY <1>1, <1>9, Zenon DEF Stacked

(***************************************************************************)
(* The blocks of a set in a trace of addresses and their last uses, as     *)
(* CacheCheck defines them, for any trace.                                 *)
(***************************************************************************)
UsesOf(t, line, b) == {k \in 1 .. Len(t) : t[k] \div line = b}

UsedIn(t, line, sets, set) ==
    {b \in {t[k] \div line : k \in 1 .. Len(t)} : b % sets = set}

LastIn(t, line, sets, set) ==
    [b \in UsedIn(t, line, sets, set) |-> Max(UsesOf(t, line, b))]

LEMMA UsedIsUsed ==
    ASSUME NEW t, NEW line, NEW sets, NEW set, NEW b
    PROVE  b \in UsedIn(t, line, sets, set) <=> UsesOf(t, line, b) # {} /\ b % sets = set
BY Zenon DEF UsedIn, UsesOf

LEMMA LastIsLast ==
    ASSUME NEW t \in Seq(Nat), NEW line, NEW sets, NEW set,
           NEW b \in UsedIn(t, line, sets, set)
    PROVE  /\ LastIn(t, line, sets, set)[b] = Max(UsesOf(t, line, b))
           /\ LastOf(LastIn(t, line, sets, set)[b], UsesOf(t, line, b))
           /\ LastIn(t, line, sets, set)[b] \in 1 .. Len(t)
           /\ t[LastIn(t, line, sets, set)[b]] \div line = b
<1>1. PICK U, k : U = UsesOf(t, line, b) /\ k = LastIn(t, line, sets, set)[b]
  OBVIOUS
<1>2. k = Max(U)
  BY <1>1, Zenon DEF LastIn
<1>3. Len(t) \in Nat
  OBVIOUS
<1>4. U \in SUBSET (1 .. Len(t)) /\ U # {}
  <2>1. U # {}
    BY <1>1, UsedIsUsed
  <2>2. U \in SUBSET (1 .. Len(t))
    BY <1>1, Zenon DEF UsesOf
  <2>. QED
    BY <2>1, <2>2, Zenon
<1>5. LastOf(k, U)
  BY <1>2, <1>3, <1>4, MaxIsLast
<1>6. k \in 1 .. Len(t) /\ t[k] \div line = b
  BY <1>1, <1>5, Zenon DEF LastOf, UsesOf
<1>. QED
  BY <1>1, <1>2, <1>5, <1>6, Zenon

LEMMA UsedIsFinite ==
    ASSUME NEW t \in Seq(Nat), NEW line, NEW sets, NEW set
    PROVE  IsFiniteSet(UsedIn(t, line, sets, set))
<1>. DEFINE I == 1 .. Len(t)
            B == {t[k] \div line : k \in I}
            f == [k \in I |-> t[k] \div line]
<1>1. IsFiniteSet(I)
  <2>1. 1 \in Int /\ Len(t) \in Int
    OBVIOUS
  <2>. QED
    BY <2>1, FS_Interval
<1>2. f \in [I -> B] /\ \A b \in B : \E k \in I : f[k] = b
  BY Zenon
<1>3. f \in Surjection(I, B)
  <2>. HIDE DEF I, B, f
  <2>. QED
    BY <1>2, Zenon DEF Surjection
<1>4. IsFiniteSet(B)
  <2>. HIDE DEF I, B, f
  <2>. QED
    BY <1>1, <1>3, FS_Surjection
<1>5. UsedIn(t, line, sets, set) \in SUBSET B
  BY Zenon DEF UsedIn
<1>. HIDE DEF I, B, f
<1>. QED
  BY <1>4, <1>5, FS_Subset

LEMMA UsesAreTimed ==
    ASSUME NEW t \in Seq(Nat), NEW line, NEW sets, NEW set
    PROVE  UseTimes(UsedIn(t, line, sets, set), LastIn(t, line, sets, set))
<1>1. PICK S, L : S = UsedIn(t, line, sets, set) /\ L = LastIn(t, line, sets, set)
  OBVIOUS
<1>2. IsFiniteSet(S)
  BY <1>1, UsedIsFinite
<1>3. \A b \in S : L[b] \in 1 .. Len(t) /\ t[L[b]] \div line = b
  BY <1>1, LastIsLast
<1>4. \A b \in S : L[b] \in Nat
  BY <1>3
<1>5. \A b, d \in S : L[b] = L[d] => b = d
  BY <1>3, Zenon
<1>. QED
  BY <1>1, <1>2, <1>4, <1>5, Zenon DEF UseTimes

(***************************************************************************)
(* One more address: its block is now the last used of its set, and the    *)
(* other sets are as they were.                                            *)
(***************************************************************************)
LEMMA AppendUses ==
    ASSUME NEW t \in Seq(Nat), NEW x \in Nat, NEW line, NEW b
    PROVE  UsesOf(Append(t, x), line, b)
             = IF x \div line = b THEN UsesOf(t, line, b) \cup {Len(t) + 1}
               ELSE UsesOf(t, line, b)
<1>1. PICK u, n : u = Append(t, x) /\ n = Len(t)
  OBVIOUS
<1>2. n \in Nat /\ Len(u) = n + 1 /\ u[n + 1] = x /\ \A k \in 1 .. n : u[k] = t[k]
  BY <1>1
<1>3. \A k : k \in 1 .. (n + 1) <=> k \in 1 .. n \/ k = n + 1
  BY <1>2
<1>4. n + 1 \notin 1 .. n
  BY <1>2
<1>5. UsesOf(u, line, b) = IF x \div line = b THEN UsesOf(t, line, b) \cup {n + 1}
                           ELSE UsesOf(t, line, b)
  BY <1>1, <1>2, <1>3, <1>4, Zenon DEF UsesOf
<1>. QED
  BY <1>1, <1>5

LEMMA AppendedIsUsed ==
    ASSUME NEW t \in Seq(Nat), NEW x \in Nat, NEW line, NEW sets, NEW set,
           NEW a, a = x \div line, a % sets = set
    PROVE  UsedNow(UsedIn(t, line, sets, set), LastIn(t, line, sets, set), a,
                   UsedIn(Append(t, x), line, sets, set),
                   LastIn(Append(t, x), line, sets, set))
<1>1. PICK u, n : u = Append(t, x) /\ n = Len(t)
  OBVIOUS
<1>2. PICK S, L, T, M : /\ S = UsedIn(t, line, sets, set) /\ L = LastIn(t, line, sets, set)
                        /\ T = UsedIn(u, line, sets, set) /\ M = LastIn(u, line, sets, set)
  OBVIOUS
<1>3. u \in Seq(Nat) /\ n \in Nat /\ Len(u) = n + 1
  BY <1>1
<1>4. \A b : UsesOf(u, line, b) = IF a = b THEN UsesOf(t, line, b) \cup {n + 1}
                                  ELSE UsesOf(t, line, b)
  BY <1>1, AppendUses
<1>5. T = S \cup {a}
  <2>1. \A b : b \in S <=> UsesOf(t, line, b) # {} /\ b % sets = set
    BY <1>2, UsedIsUsed
  <2>2. \A b : b \in T <=> UsesOf(u, line, b) # {} /\ b % sets = set
    BY <1>2, UsedIsUsed
  <2>. QED
    BY <1>4, <2>1, <2>2, Zenon
<1>6. \A b \in T : LastOf(M[b], UsesOf(u, line, b)) /\ M[b] = Max(UsesOf(u, line, b))
                     /\ M[b] \in 1 .. Len(u)
  BY <1>2, <1>3, LastIsLast
<1>7. \A b \in S : L[b] = Max(UsesOf(t, line, b)) /\ L[b] \in 1 .. n
  BY <1>1, <1>2, LastIsLast
<1>8. M[a] = n + 1
  <2>1. a \in T /\ n + 1 \in UsesOf(u, line, a)
    BY <1>4, <1>5, Zenon
  <2>2. n + 1 <= M[a] /\ M[a] \in 1 .. (n + 1)
    BY <1>3, <1>6, <2>1, Zenon DEF LastOf
  <2>. QED
    BY <1>3, <2>2
<1>9. M[a] \in Nat /\ \A b \in S : M[a] > L[b]
  BY <1>3, <1>7, <1>8
<1>10. \A b \in S \ {a} : M[b] = L[b]
  BY <1>4, <1>5, <1>6, <1>7, Zenon
<1>. QED
  BY <1>1, <1>2, <1>5, <1>9, <1>10, Zenon DEF UsedNow

LEMMA OthersStay ==
    ASSUME NEW t \in Seq(Nat), NEW x \in Nat, NEW line, NEW sets, NEW set,
           (x \div line) % sets # set
    PROVE  /\ UsedIn(Append(t, x), line, sets, set) = UsedIn(t, line, sets, set)
           /\ LastIn(Append(t, x), line, sets, set) = LastIn(t, line, sets, set)
<1>1. PICK u, a : u = Append(t, x) /\ a = x \div line
  OBVIOUS
<1>2. \A b : b # a => UsesOf(u, line, b) = UsesOf(t, line, b)
  BY <1>1, AppendUses
<1>3. UsedIn(u, line, sets, set) = UsedIn(t, line, sets, set)
  <2>1. \A b : b \in UsedIn(u, line, sets, set) <=> UsesOf(u, line, b) # {} /\ b % sets = set
    BY UsedIsUsed
  <2>2. \A b : b \in UsedIn(t, line, sets, set) <=> UsesOf(t, line, b) # {} /\ b % sets = set
    BY UsedIsUsed
  <2>. QED
    BY <1>1, <1>2, <2>1, <2>2, Zenon
<1>4. \A b \in UsedIn(t, line, sets, set) : UsesOf(u, line, b) = UsesOf(t, line, b)
  <2>1. \A b \in UsedIn(t, line, sets, set) : b % sets = set
    BY UsedIsUsed
  <2>. QED
    BY <1>1, <1>2, <2>1, Zenon
<1>5. LastIn(u, line, sets, set) = LastIn(t, line, sets, set)
  BY <1>3, <1>4, Zenon DEF LastIn
<1>. QED
  BY <1>1, <1>3, <1>5

(***************************************************************************)
(* The lines of the cache, set by set.  The ways of two sets do not        *)
(* overlap, and a set index and a tag name one block.                      *)
(***************************************************************************)
WaysOf(lines, ways, set) == [way \in 0 .. (ways - 1) |-> lines[set * ways + way]]

LinesStacked(lines, t, line, sets, ways) ==
    /\ DOMAIN lines = 0 .. (sets * ways - 1)
    /\ \A set \in 0 .. (sets - 1) :
          Stacked(UsedIn(t, line, sets, set), LastIn(t, line, sets, set), sets, ways,
                  WaysOf(lines, ways, set))

LEMMA NextSetIsBehind ==
    ASSUME NEW s \in Nat, NEW r \in Nat, s < r, NEW ways \in Nat
    PROVE  s * ways + ways <= r * ways
<1>1. PICK d : d = r - s - 1
  OBVIOUS
<1>2. d \in Nat /\ r = s + 1 + d
  BY <1>1
<1>3. r * ways = s * ways + ways + d * ways
  <2>1. (s + 1 + d) * ways = s * ways + ways + d * ways
    BY <1>2
  <2>. QED
    BY <1>2, <2>1
<1>4. d * ways \in Nat /\ s * ways \in Nat
  BY <1>2
<1>. QED
  BY <1>3, <1>4

LEMMA SetsApart ==
    ASSUME NEW sets \in Nat \ {0}, NEW ways \in Nat \ {0},
           NEW s \in 0 .. (sets - 1), NEW r \in 0 .. (sets - 1), s # r,
           NEW k \in 0 .. (ways - 1), NEW i \in 0 .. (ways - 1)
    PROVE  r * ways + i # s * ways + k
<1>1. s \in Nat /\ r \in Nat /\ ways \in Nat /\ s * ways \in Nat /\ r * ways \in Nat
  OBVIOUS
<1>2. CASE s < r
  <2>1. s * ways + ways <= r * ways
    BY <1>1, <1>2, NextSetIsBehind
  <2>. QED
    BY <1>1, <2>1
<1>3. CASE r < s
  <2>1. r * ways + ways <= s * ways
    BY <1>1, <1>3, NextSetIsBehind
  <2>. QED
    BY <1>1, <2>1
<1>. QED
  BY <1>1, <1>2, <1>3

LEMMA SetsInside ==
    ASSUME NEW sets \in Nat \ {0}, NEW ways \in Nat \ {0},
           NEW s \in 0 .. (sets - 1), NEW k \in 0 .. (ways - 1)
    PROVE  s * ways \in Nat /\ s * ways + k \in 0 .. (sets * ways - 1)
<1>1. s \in Nat /\ sets \in Nat /\ ways \in Nat /\ s < sets
      /\ s * ways \in Nat /\ sets * ways \in Nat
  OBVIOUS
<1>2. s * ways + ways <= sets * ways
  BY <1>1, NextSetIsBehind
<1>. QED
  BY <1>1, <1>2

LEMMA BlockOfSetAndTag ==
    ASSUME NEW sets \in Nat \ {0}, NEW a \in Nat, NEW b \in Nat,
           a % sets = b % sets, a \div sets = b \div sets
    PROVE  a = b
<1>1. /\ a = sets * (a \div sets) + (a % sets)
      /\ b = sets * (b \div sets) + (b % sets)
  OBVIOUS
<1>. QED
  BY <1>1, Zenon

LEMMA OneBlockPerTag ==
    ASSUME NEW t \in Seq(Nat), NEW line \in Nat \ {0}, NEW sets \in Nat \ {0},
           NEW a \in Nat
    PROVE  SameSet(UsedIn(t, line, sets, a % sets), sets, a)
<1>1. ASSUME NEW b \in UsedIn(t, line, sets, a % sets)
      PROVE  b \in Nat /\ b % sets = a % sets
  <2>1. PICK k \in 1 .. Len(t) : b = t[k] \div line
    BY <1>1, Zenon DEF UsedIn
  <2>2. t[k] \in Nat
    OBVIOUS
  <2>3. b \in Nat
    BY <2>1, <2>2, DivBound
  <2>4. b % sets = a % sets
    BY <1>1, Zenon DEF UsedIn
  <2>. QED
    BY <2>3, <2>4
<1>. QED
  BY <1>1, BlockOfSetAndTag DEF SameSet

(***************************************************************************)
(* access is the move of one set, and leaves the lines of the others.      *)
(***************************************************************************)
LEMMA SelectedInSet ==
    ASSUME NEW c, NEW cc, NEW address, NEW F,
           F = WaysOf(cc.lines, c.associativity, set_index(c, address))
    PROVE  /\ HitWays(c, cc, address)
                = HoldingWays(F, c.associativity, tag_of(c, address))
           /\ FreeWays(c, cc, address) = EmptyWays(F, c.associativity)
           /\ selected_way(c, cc, address)
                = SelectedOf(F, c.associativity, tag_of(c, address))
<1>1. \A way \in Ways(c) : F[way] = cc.lines[set_begin(c, address) + way]
  BY Zenon DEF WaysOf, Ways, set_begin
<1>2. HitWays(c, cc, address) = HoldingWays(F, c.associativity, tag_of(c, address))
  BY <1>1, Zenon DEF HitWays, HoldingWays, Ways
<1>3. FreeWays(c, cc, address) = EmptyWays(F, c.associativity)
  BY <1>1, Zenon DEF FreeWays, EmptyWays, Ways
<1>4. selected_way(c, cc, address)
        = SelectedOf(F, c.associativity, tag_of(c, address))
  BY <1>2, <1>3 DEF selected_way, SelectedOf, Hits, ReplacedWay
<1>. QED
  BY <1>2, <1>3, <1>4, Zenon

LEMMA SelectedIsWay ==
    ASSUME NEW S, NEW L, UseTimes(S, L), NEW sets, NEW ways \in Nat \ {0}, NEW F,
           Stacked(S, L, sets, ways, F), NEW a, SameSet(S, sets, a)
    PROVE  SelectedOf(F, ways, a \div sets) \in 0 .. (ways - 1)
<1>1. Cardinality(S) \in Nat /\ (a \in S => Rank(S, L, a) \in Nat)
  <2>1. Cardinality(S) \in Nat
    BY FS_CardinalityType DEF UseTimes
  <2>2. a \in S => Rank(S, L, a) \in Nat
    BY RankBound
  <2>. QED
    BY <2>1, <2>2
<1>2. SelectedOf(F, ways, a \div sets)
        = IF a \in S /\ Rank(S, L, a) < ways THEN Rank(S, L, a)
          ELSE IF Cardinality(S) < ways THEN Cardinality(S)
          ELSE ways - 1
  BY SelectedIs
<1>. QED
  BY <1>1, <1>2

MovedLines(lines, begin, tag, selected) ==
    [k \in DOMAIN lines |->
        CASE k = begin -> CacheLine(tag, TRUE)
          [] k \in (begin + 1) .. (begin + selected) -> lines[k - 1]
          [] OTHER -> lines[k]]

LEMMA WayBehind ==
    ASSUME NEW b \in Nat, NEW k \in Nat \ {0}, NEW selected \in Nat, NEW ways \in Nat,
           k <= selected, k < ways
    PROVE  /\ b + k \in (b + 1) .. (b + selected)
           /\ k - 1 \in 0 .. (ways - 1)
           /\ (b + k) - 1 = b + (k - 1)
OBVIOUS

LinesMoved(lines, after, b, tag, selected) ==
    \A k \in DOMAIN lines :
        /\ k = b => after[k] = CacheLine(tag, TRUE)
        /\ k \in (b + 1) .. (b + selected) => after[k] = lines[k - 1]
        /\ k # b /\ k \notin (b + 1) .. (b + selected) => after[k] = lines[k]

LEMMA MovedLine ==
    ASSUME NEW lines, NEW b \in Nat, NEW tag, NEW selected \in Nat
    PROVE  LinesMoved(lines, MovedLines(lines, b, tag, selected), b, tag, selected)
<1>1. PICK after : after = MovedLines(lines, b, tag, selected)
  OBVIOUS
<1>2. b \notin (b + 1) .. (b + selected)
  OBVIOUS
<1>3. ASSUME NEW k \in DOMAIN lines
      PROVE  /\ k = b => after[k] = CacheLine(tag, TRUE)
             /\ k \in (b + 1) .. (b + selected) => after[k] = lines[k - 1]
             /\ k # b /\ k \notin (b + 1) .. (b + selected) => after[k] = lines[k]
  <2>1. after[k] = CASE k = b -> CacheLine(tag, TRUE)
                     [] k \in (b + 1) .. (b + selected) -> lines[k - 1]
                     [] OTHER -> lines[k]
    BY <1>1, Zenon DEF MovedLines
  <2>2. CASE k = b
    BY <1>2, <2>1, <2>2, Zenon
  <2>3. CASE k \in (b + 1) .. (b + selected)
    BY <1>2, <2>1, <2>3, Zenon
  <2>4. CASE k # b /\ k \notin (b + 1) .. (b + selected)
    BY <2>1, <2>4, Zenon
  <2>. QED
    BY <2>2, <2>3, <2>4, Zenon
<1>4. LinesMoved(lines, after, b, tag, selected)
  BY <1>3, Zenon DEF LinesMoved
<1>. QED
  BY <1>1, <1>4, Zenon

LEMMA AccessMoves ==
    ASSUME NEW sets \in Nat \ {0}, NEW ways \in Nat \ {0}, NEW set \in 0 .. (sets - 1),
           NEW lines, DOMAIN lines = 0 .. (sets * ways - 1), NEW tag,
           NEW selected \in 0 .. (ways - 1), NEW after,
           after = MovedLines(lines, set * ways, tag, selected)
    PROVE  Moved(WaysOf(lines, ways, set), WaysOf(after, ways, set), ways, tag, selected)
<1>1. PICK b : b = set * ways
  OBVIOUS
<1>2. b \in Nat /\ \A k \in 0 .. (ways - 1) : b + k \in DOMAIN lines
  BY <1>1, SetsInside
<1>3. \A k \in DOMAIN lines :
        /\ k = b => after[k] = CacheLine(tag, TRUE)
        /\ k \in (b + 1) .. (b + selected) => after[k] = lines[k - 1]
        /\ k # b /\ k \notin (b + 1) .. (b + selected) => after[k] = lines[k]
  <2>1. selected \in Nat /\ after = MovedLines(lines, b, tag, selected)
    BY <1>1
  <2>2. LinesMoved(lines, MovedLines(lines, b, tag, selected), b, tag, selected)
    BY <1>2, <2>1, MovedLine, Zenon
  <2>. QED
    BY <2>1, <2>2, Zenon DEF LinesMoved
<1>4. Moved(WaysOf(lines, ways, set), WaysOf(after, ways, set), ways, tag, selected)
  <2>. SUFFICES ASSUME NEW k \in 0 .. (ways - 1)
                PROVE  WaysOf(after, ways, set)[k]
                         = IF k = 0 THEN CacheLine(tag, TRUE)
                           ELSE IF k <= selected THEN WaysOf(lines, ways, set)[k - 1]
                           ELSE WaysOf(lines, ways, set)[k]
    BY Zenon DEF Moved
  <2>1. WaysOf(after, ways, set)[k] = after[b + k] /\ WaysOf(lines, ways, set)[k] = lines[b + k]
    BY <1>1, Zenon DEF WaysOf
  <2>2. b + k \in DOMAIN lines
    BY <1>2
  <2>3. CASE k = 0
    <3>1. b + k = b
      BY <1>2, <2>3
    <3>2. after[b + k] = CacheLine(tag, TRUE)
      BY <1>3, <2>2, <3>1, Zenon
    <3>. QED
      BY <2>1, <2>3, <3>2, Zenon
  <2>4. CASE k # 0 /\ k <= selected
    <3>1. /\ b + k \in (b + 1) .. (b + selected)
          /\ k - 1 \in 0 .. (ways - 1) /\ (b + k) - 1 = b + (k - 1)
      <4>1. /\ b \in Nat /\ k \in Nat \ {0} /\ selected \in Nat /\ ways \in Nat
            /\ k <= selected /\ k < ways
        BY <1>2, <2>4
      <4>. QED
        BY <4>1, WayBehind, Zenon
    <3>2. after[b + k] = lines[(b + k) - 1]
      BY <1>3, <2>2, <3>1, Zenon
    <3>3. WaysOf(lines, ways, set)[k - 1] = lines[b + (k - 1)]
      BY <1>1, <3>1, Zenon DEF WaysOf
    <3>. QED
      BY <2>1, <2>4, <3>1, <3>2, <3>3, Zenon
  <2>5. CASE k # 0 /\ ~ (k <= selected)
    <3>1. b + k # b /\ b + k \notin (b + 1) .. (b + selected)
      BY <1>2, <2>5
    <3>2. after[b + k] = lines[b + k]
      BY <1>3, <2>2, <3>1, Zenon
    <3>. QED
      BY <2>1, <2>5, <3>2, Zenon
  <2>. QED
    BY <2>3, <2>4, <2>5, Zenon
<1>. QED
  BY <1>4, Zenon

OtherSetsStay(lines, after, sets, ways, set) ==
    \A r \in 0 .. (sets - 1) : r # set => WaysOf(after, ways, r) = WaysOf(lines, ways, r)

LEMMA AccessLeaves ==
    ASSUME NEW sets \in Nat \ {0}, NEW ways \in Nat \ {0}, NEW set \in 0 .. (sets - 1),
           NEW lines, DOMAIN lines = 0 .. (sets * ways - 1), NEW tag,
           NEW selected \in 0 .. (ways - 1)
    PROVE  OtherSetsStay(lines, MovedLines(lines, set * ways, tag, selected), sets, ways, set)
<1>1. PICK b, after : b = set * ways /\ after = MovedLines(lines, set * ways, tag, selected)
  OBVIOUS
<1>2. b \in Nat /\ \A k \in 0 .. (ways - 1) : b + k \in DOMAIN lines
  BY <1>1, SetsInside
<1>3. \A k \in DOMAIN lines :
        /\ k = b => after[k] = CacheLine(tag, TRUE)
        /\ k \in (b + 1) .. (b + selected) => after[k] = lines[k - 1]
        /\ k # b /\ k \notin (b + 1) .. (b + selected) => after[k] = lines[k]
  <2>1. selected \in Nat /\ after = MovedLines(lines, b, tag, selected)
    BY <1>1
  <2>2. LinesMoved(lines, MovedLines(lines, b, tag, selected), b, tag, selected)
    BY <1>2, <2>1, MovedLine, Zenon
  <2>. QED
    BY <2>1, <2>2, Zenon DEF LinesMoved
<1>4. ASSUME NEW r \in 0 .. (sets - 1), r # set, NEW i \in 0 .. (ways - 1)
      PROVE  after[r * ways + i] = lines[r * ways + i]
  <2>1. PICK m : m = r * ways + i
    OBVIOUS
  <2>2. m \in DOMAIN lines /\ m \in Int
    <3>1. m \in DOMAIN lines
      BY <2>1, SetsInside
    <3>. QED
      BY <3>1
  <2>3. \A k \in 0 .. (ways - 1) : m # b + k
    BY <1>1, <1>4, <2>1, SetsApart
  <2>4. m # b /\ m \notin (b + 1) .. (b + selected)
    <3>1. m # b + 0
      BY <2>3
    <3>2. m \in (b + 1) .. (b + selected) => m - b \in 0 .. (ways - 1) /\ m = b + (m - b)
      BY <1>2, <2>2
    <3>3. m # b
      BY <1>2, <3>1
    <3>. QED
      BY <2>3, <3>2, <3>3, Zenon
  <2>5. after[m] = lines[m]
    BY <1>3, <2>2, <2>4
  <2>. QED
    BY <2>1, <2>5, Zenon
<1>5. OtherSetsStay(lines, after, sets, ways, set)
  BY <1>4, Zenon DEF OtherSetsStay, WaysOf
<1>. QED
  BY <1>1, <1>5, Zenon

\* The cache holds block a when it was used and fewer than ways are younger.
HitsByRank(c, cc, address, t, a, line, sets, ways) ==
    Hits(c, cc, address)
        <=> /\ a \in UsedIn(t, line, sets, a % sets)
            /\ Rank(UsedIn(t, line, sets, a % sets),
                    LastIn(t, line, sets, a % sets), a) < ways

LEMMA AccessKeepsStacks ==
    ASSUME NEW c, NEW cc, NEW t \in Seq(Nat), NEW address \in Nat,
           NEW line \in Nat \ {0}, line = c.line_size_bytes,
           NEW ways \in Nat \ {0}, ways = c.associativity,
           NEW sets \in Nat \ {0}, sets = set_count(c),
           LinesStacked(cc.lines, t, line, sets, ways)
    PROVE  /\ LinesStacked(access(c, cc, address).lines, Append(t, address), line, sets, ways)
           /\ HitsByRank(c, cc, address, t, address \div line, line, sets, ways)
<1>1. PICK a, set, tag, F, S, L, u, T, M, lines, after, selected :
         /\ a = address \div line
         /\ set = a % sets /\ tag = a \div sets
         /\ lines = cc.lines /\ after = access(c, cc, address).lines
         /\ F = WaysOf(lines, ways, set)
         /\ S = UsedIn(t, line, sets, set) /\ L = LastIn(t, line, sets, set)
         /\ u = Append(t, address)
         /\ T = UsedIn(u, line, sets, set) /\ M = LastIn(u, line, sets, set)
         /\ selected = SelectedOf(F, ways, tag)
  OBVIOUS
<1>2. a \in Nat /\ set \in 0 .. (sets - 1)
  <2>1. a \in Nat
    <3>1. address \div line \in 0 .. address
      BY DivBound
    <3>. QED
      BY <1>1, <3>1
  <2>2. a % sets \in 0 .. (sets - 1)
    BY <2>1
  <2>. QED
    BY <1>1, <2>1, <2>2
<1>3. /\ set_index(c, address) = set /\ tag_of(c, address) = tag
      /\ set_begin(c, address) = set * ways
  BY <1>1 DEF set_index, tag_of, set_begin, block_number
<1>4. /\ HitWays(c, cc, address) = HoldingWays(F, ways, tag)
      /\ selected_way(c, cc, address) = selected
  <2>1. F = WaysOf(cc.lines, c.associativity, set_index(c, address))
    BY <1>1, <1>3, Zenon
  <2>2. /\ HitWays(c, cc, address) = HoldingWays(F, c.associativity, tag_of(c, address))
        /\ selected_way(c, cc, address)
             = SelectedOf(F, c.associativity, tag_of(c, address))
    BY <2>1, SelectedInSet
  <2>. QED
    BY <1>1, <1>3, <2>2, Zenon
<1>5. UseTimes(S, L) /\ SameSet(S, sets, a) /\ UsedNow(S, L, a, T, M)
  <2>1. UseTimes(S, L)
    BY <1>1, UsesAreTimed
  <2>2. SameSet(S, sets, a)
    BY <1>1, <1>2, OneBlockPerTag
  <2>3. UsedNow(S, L, a, T, M)
    BY <1>1, AppendedIsUsed
  <2>. QED
    BY <2>1, <2>2, <2>3
<1>6. DOMAIN lines = 0 .. (sets * ways - 1) /\ Stacked(S, L, sets, ways, F)
  BY <1>1, <1>2, Zenon DEF LinesStacked
<1>7. selected \in 0 .. (ways - 1)
  BY <1>1, <1>5, <1>6, SelectedIsWay
<1>8. after = MovedLines(lines, set * ways, tag, selected)
  <2>1. access(c, cc, address).lines
          = MovedLines(cc.lines, set_begin(c, address), tag_of(c, address),
                       selected_way(c, cc, address))
    BY DEF access, MovedLines
  <2>. QED
    BY <1>1, <1>3, <1>4, <2>1, Zenon
<1>9. /\ Moved(F, WaysOf(after, ways, set), ways, tag, selected)
      /\ \A r \in 0 .. (sets - 1) :
            r # set => WaysOf(after, ways, r) = WaysOf(lines, ways, r)
  <2>1. /\ sets \in Nat \ {0} /\ ways \in Nat \ {0} /\ set \in 0 .. (sets - 1)
        /\ DOMAIN lines = 0 .. (sets * ways - 1) /\ selected \in 0 .. (ways - 1)
        /\ after = MovedLines(lines, set * ways, tag, selected)
    BY <1>2, <1>6, <1>7, <1>8
  <2>2. Moved(WaysOf(lines, ways, set), WaysOf(after, ways, set), ways, tag, selected)
    BY <2>1, AccessMoves, Zenon
  <2>3. OtherSetsStay(lines, MovedLines(lines, set * ways, tag, selected), sets, ways, set)
    BY <2>1, AccessLeaves, Zenon
  <2>. QED
    BY <1>1, <2>1, <2>2, <2>3, ZenonT(40) DEF OtherSetsStay
<1>10. Stacked(T, M, sets, ways, WaysOf(after, ways, set))
  <2>1. PICK G : G = WaysOf(after, ways, set)
    OBVIOUS
  <2>2. Moved(F, G, ways, a \div sets, SelectedOf(F, ways, a \div sets))
    BY <1>1, <1>9, <2>1, Zenon
  <2>3. Stacked(T, M, sets, ways, G)
    BY <1>5, <1>6, <2>2, AccessStacks, Zenon
  <2>. QED
    BY <2>1, <2>3, Zenon
<1>11. ASSUME NEW r \in 0 .. (sets - 1)
       PROVE  Stacked(UsedIn(u, line, sets, r), LastIn(u, line, sets, r), sets, ways,
                      WaysOf(after, ways, r))
  <2>1. CASE r = set
    BY <1>1, <1>10, <2>1, Zenon
  <2>2. CASE r # set
    <3>1. /\ UsedIn(u, line, sets, r) = UsedIn(t, line, sets, r)
          /\ LastIn(u, line, sets, r) = LastIn(t, line, sets, r)
      BY <1>1, <2>2, OthersStay
    <3>2. WaysOf(after, ways, r) = WaysOf(lines, ways, r)
      BY <1>9, <2>2, Zenon
    <3>3. Stacked(UsedIn(t, line, sets, r), LastIn(t, line, sets, r), sets, ways,
                  WaysOf(lines, ways, r))
      BY <1>1, Zenon DEF LinesStacked
    <3>. QED
      BY <3>1, <3>2, <3>3, Zenon
  <2>. QED
    BY <2>1, <2>2, Zenon
<1>12. DOMAIN after = 0 .. (sets * ways - 1)
  BY <1>6, <1>8, Zenon DEF MovedLines
<1>13. Hits(c, cc, address) <=> a \in S /\ Rank(S, L, a) < ways
  <2>1. HoldingWays(F, ways, a \div sets)
          = IF a \in S /\ Rank(S, L, a) < ways THEN {Rank(S, L, a)} ELSE {}
    BY <1>5, <1>6, HoldingIsRank
  <2>2. Hits(c, cc, address) <=> HoldingWays(F, ways, a \div sets) # {}
    BY <1>1, <1>4, Zenon DEF Hits
  <2>. QED
    BY <2>1, <2>2, Zenon
<1>. QED
  BY <1>1, <1>11, <1>12, <1>13, Zenon DEF LinesStacked, HitsByRank

(***************************************************************************)
(* Hits of a trace.  An access is a hit when its reuse distance is below   *)
(* the number of ways, which is a matter of the addresses up to it; the    *)
(* last access is a hit when its block is used and its rank is below the   *)
(* number of ways.                                                         *)
(***************************************************************************)
Between(t, line, sets, j, k) ==
    {b \in {t[i] \div line : i \in (j + 1) .. (k - 1)} : b % sets = (t[k] \div line) % sets}
        \ {t[k] \div line}

HitAt(t, line, sets, ways, k) ==
    \E j \in 1 .. (k - 1) :
        /\ t[j] \div line = t[k] \div line
        /\ Cardinality(Between(t, line, sets, j, k)) < ways

LEMMA EarlierHitsStay ==
    ASSUME NEW t \in Seq(Nat), NEW x \in Nat, NEW line, NEW sets, NEW ways,
           NEW k \in 1 .. Len(t)
    PROVE  HitAt(Append(t, x), line, sets, ways, k) <=> HitAt(t, line, sets, ways, k)
<1>1. PICK u : u = Append(t, x)
  OBVIOUS
<1>2. \A i \in 1 .. k : u[i] = t[i]
  BY <1>1
<1>3. u[k] = t[k]
  BY <1>1
<1>4. \A j \in 1 .. (k - 1) : u[j] = t[j] /\ \A i \in (j + 1) .. (k - 1) : u[i] = t[i]
  BY <1>1
<1>5. \A j \in 1 .. (k - 1) : Between(u, line, sets, j, k) = Between(t, line, sets, j, k)
  BY <1>3, <1>4, Zenon DEF Between
<1>. QED
  BY <1>1, <1>3, <1>4, <1>5, Zenon DEF HitAt

LEMMA LastIsHit ==
    ASSUME NEW t \in Seq(Nat), NEW x \in Nat, NEW line, NEW sets, NEW ways \in Nat,
           NEW a, a = x \div line, NEW S, S = UsedIn(t, line, sets, a % sets),
           NEW L, L = LastIn(t, line, sets, a % sets)
    PROVE  HitAt(Append(t, x), line, sets, ways, Len(t) + 1)
             <=> a \in S /\ Rank(S, L, a) < ways
<1>1. PICK u, n : u = Append(t, x) /\ n = Len(t)
  OBVIOUS
<1>2. /\ n \in Nat /\ u[n + 1] = x /\ (n + 1) - 1 = n
      /\ \A i \in 1 .. n : u[i] = t[i]
  BY <1>1
<1>. DEFINE B(j) == Between(u, line, sets, j, n + 1)
<1>3. \A j, b : b \in B(j) <=> /\ \E i \in (j + 1) .. n : b = u[i] \div line
                               /\ b % sets = a % sets /\ b # a
  BY <1>2, Zenon DEF Between
<1>4. \A j \in 1 .. n : \A i \in (j + 1) .. n : i \in 1 .. n
  BY <1>2
<1>5. UseTimes(S, L)
  BY UsesAreTimed
<1>6. \A b \in S : /\ LastOf(L[b], UsesOf(t, line, b))
                   /\ L[b] \in 1 .. n /\ t[L[b]] \div line = b /\ b % sets = a % sets
  <2>1. \A b \in S : LastOf(L[b], UsesOf(t, line, b)) /\ L[b] \in 1 .. n
                       /\ t[L[b]] \div line = b
    BY <1>1, LastIsLast
  <2>2. \A b \in S : b % sets = a % sets
    BY UsedIsUsed
  <2>. QED
    BY <2>1, <2>2, Zenon
<1>7. ASSUME NEW i \in 1 .. n, (u[i] \div line) % sets = a % sets
      PROVE  u[i] \div line \in S /\ i <= L[u[i] \div line]
  <2>1. PICK b : b = u[i] \div line
    OBVIOUS
  <2>2. i \in UsesOf(t, line, b)
    BY <1>1, <1>2, <2>1, Zenon DEF UsesOf
  <2>3. b \in S
    <3>1. UsesOf(t, line, b) # {}
      BY <2>2, Zenon
    <3>2. b % sets = a % sets
      BY <1>7, <2>1, Zenon
    <3>. QED
      BY <3>1, <3>2, UsedIsUsed
  <2>4. i <= L[b]
    BY <1>6, <2>2, <2>3, Zenon DEF LastOf
  <2>. QED
    BY <2>1, <2>3, <2>4, Zenon
<1>8. ASSUME NEW j \in 1 .. n, u[j] \div line = a
      PROVE  a \in S /\ j <= L[a] /\ YoungerThan(S, L, a) \in SUBSET B(j)
             /\ IsFiniteSet(B(j))
  <2>1. a \in S /\ j <= L[a]
    BY <1>7, <1>8, Zenon
  <2>2. ASSUME NEW d \in S, L[d] > L[a]
        PROVE  d \in B(j)
    <3>1. L[d] \in (j + 1) .. n /\ d # a
      <4>1. L[d] \in 1 .. n /\ L[a] \in 1 .. n
        BY <1>6, <2>1, <2>2, Zenon
      <4>. QED
        BY <2>1, <2>2, <4>1
    <3>2. u[L[d]] \div line = d /\ d % sets = a % sets
      BY <1>2, <1>6, <2>2, Zenon
    <3>. QED
      BY <1>3, <3>1, <3>2, Zenon
  <2>3. B(j) \in SUBSET S
    <3>1. ASSUME NEW b \in B(j)
          PROVE  b \in S
      <4>1. PICK i \in (j + 1) .. n : b = u[i] \div line
        BY <1>3, <3>1, Zenon
      <4>2. b % sets = a % sets /\ i \in 1 .. n
        BY <1>3, <1>4, <3>1, Zenon
      <4>. QED
        BY <1>7, <4>1, <4>2, Zenon
    <3>. HIDE DEF B
    <3>. QED
      BY <3>1, Zenon
  <2>4. IsFiniteSet(B(j))
    <3>1. IsFiniteSet(S)
      BY <1>5 DEF UseTimes
    <3>. HIDE DEF B
    <3>. QED
      BY <2>3, <3>1, FS_Subset
  <2>. HIDE DEF B
  <2>. QED
    BY <2>1, <2>2, <2>4, Zenon DEF YoungerThan
<1>9. ASSUME HitAt(u, line, sets, ways, n + 1)
      PROVE  a \in S /\ Rank(S, L, a) < ways
  <2>1. PICK j \in 1 .. n : u[j] \div line = a /\ Cardinality(B(j)) < ways
    BY <1>2, <1>9, Zenon DEF HitAt
  <2>2. a \in S /\ YoungerThan(S, L, a) \in SUBSET B(j) /\ IsFiniteSet(B(j))
    BY <1>8, <2>1, Zenon
  <2>. HIDE DEF B
  <2>3. Rank(S, L, a) <= Cardinality(B(j)) /\ Cardinality(B(j)) \in Nat
    BY <2>2, FS_Subset, FS_CardinalityType DEF Rank
  <2>4. Rank(S, L, a) \in Nat
    BY <1>5, <2>2, RankBound
  <2>. QED
    BY <2>1, <2>2, <2>3, <2>4
<1>10. ASSUME a \in S, Rank(S, L, a) < ways
       PROVE  HitAt(u, line, sets, ways, n + 1)
  <2>1. PICK j : j = L[a]
    OBVIOUS
  <2>2. j \in 1 .. n /\ u[j] \div line = a
    BY <1>2, <1>6, <1>10, <2>1, Zenon
  <2>3. ASSUME NEW b \in B(j)
        PROVE  b \in YoungerThan(S, L, a)
    <3>1. PICK i \in (j + 1) .. n : b = u[i] \div line
      BY <1>3, <2>3, Zenon
    <3>2. b % sets = a % sets
      BY <1>3, <2>3, Zenon
    <3>3. i \in 1 .. n
      BY <1>4, <2>2, Zenon
    <3>4. b \in S /\ i <= L[b]
      BY <1>7, <3>1, <3>2, <3>3, Zenon
    <3>5. L[b] \in 1 .. n
      BY <1>6, <3>4, Zenon
    <3>6. L[b] > L[a]
      BY <1>2, <2>1, <2>2, <3>3, <3>4, <3>5
    <3>. QED
      BY <3>4, <3>6 DEF YoungerThan
  <2>4. IsFiniteSet(YoungerThan(S, L, a)) /\ Rank(S, L, a) \in Nat
    BY <1>5, <1>10, RankBound
  <2>. HIDE DEF B
  <2>5. B(j) \in SUBSET YoungerThan(S, L, a)
    BY <2>3, Zenon
  <2>6. Cardinality(B(j)) <= Rank(S, L, a) /\ Cardinality(B(j)) \in Nat
    BY <2>4, <2>5, FS_Subset, FS_CardinalityType DEF Rank
  <2>7. Cardinality(B(j)) < ways
    BY <1>10, <2>4, <2>6
  <2>. QED
    BY <1>2, <2>2, <2>7, Zenon DEF HitAt, B
<1>. QED
  BY <1>1, <1>9, <1>10, Zenon

HitsOf(t, line, sets, ways) == {k \in 1 .. Len(t) : HitAt(t, line, sets, ways, k)}

Counted(statistics, t, line, sets, ways) ==
    /\ statistics.accesses = Len(t)
    /\ statistics.hits = Cardinality(HitsOf(t, line, sets, ways))
    /\ statistics.misses \in Nat
    /\ statistics.hits + statistics.misses = Len(t)

LEMMA HitsGrow ==
    ASSUME NEW t \in Seq(Nat), NEW x \in Nat, NEW line, NEW sets, NEW ways
    PROVE  /\ Cardinality(HitsOf(t, line, sets, ways)) \in Nat
           /\ Cardinality(HitsOf(Append(t, x), line, sets, ways))
                = IF HitAt(Append(t, x), line, sets, ways, Len(t) + 1)
                  THEN Cardinality(HitsOf(t, line, sets, ways)) + 1
                  ELSE Cardinality(HitsOf(t, line, sets, ways))
<1>1. PICK u, n, H, K : /\ u = Append(t, x) /\ n = Len(t)
                        /\ H = HitsOf(t, line, sets, ways)
                        /\ K = HitsOf(u, line, sets, ways)
  OBVIOUS
<1>2. n \in Nat /\ Len(u) = n + 1 /\ u \in Seq(Nat)
  BY <1>1
<1>3. \A k : k \in 1 .. (n + 1) <=> k \in 1 .. n \/ k = n + 1
  BY <1>2
<1>4. n + 1 \notin 1 .. n
  BY <1>2
<1>5. H \in SUBSET (1 .. n) /\ n + 1 \notin H
  BY <1>1, <1>4, Zenon DEF HitsOf
<1>6. IsFiniteSet(H)
  <2>1. IsFiniteSet(1 .. n)
    BY <1>2, FS_Interval
  <2>. QED
    BY <1>5, <2>1, FS_Subset
<1>7. \A k \in 1 .. n : HitAt(u, line, sets, ways, k) <=> HitAt(t, line, sets, ways, k)
  BY <1>1, EarlierHitsStay, Zenon
<1>8. K = IF HitAt(u, line, sets, ways, n + 1) THEN H \cup {n + 1} ELSE H
  BY <1>1, <1>2, <1>3, <1>4, <1>7, Zenon DEF HitsOf
<1>9. Cardinality(H) \in Nat /\ Cardinality(H \cup {n + 1}) = Cardinality(H) + 1
  BY <1>5, <1>6, FS_CardinalityType, FS_AddElement
<1>10. Cardinality(K) = IF HitAt(u, line, sets, ways, n + 1) THEN Cardinality(H) + 1
                        ELSE Cardinality(H)
  BY <1>8, <1>9, Zenon
<1>. QED
  BY <1>1, <1>9, <1>10, Zenon

LEMMA AccessIsCounted ==
    ASSUME NEW t \in Seq(Nat), NEW x \in Nat, NEW line, NEW sets, NEW ways, NEW statistics,
           Counted(statistics, t, line, sets, ways), NEW hit,
           hit <=> HitAt(Append(t, x), line, sets, ways, Len(t) + 1)
    PROVE  Counted(record_access(statistics, hit), Append(t, x), line, sets, ways)
<1>1. PICK h, g, m, n, after : /\ h = Cardinality(HitsOf(t, line, sets, ways))
                               /\ g = Cardinality(HitsOf(Append(t, x), line, sets, ways))
                               /\ m = statistics.misses /\ n = Len(t)
                               /\ after = record_access(statistics, hit)
  OBVIOUS
<1>2. h \in Nat /\ g = (IF hit THEN h + 1 ELSE h)
  <2>1. h \in Nat
    BY <1>1, HitsGrow
  <2>2. g = IF HitAt(Append(t, x), line, sets, ways, Len(t) + 1) THEN h + 1 ELSE h
    BY <1>1, HitsGrow
  <2>. QED
    BY <2>1, <2>2
<1>3. m \in Nat /\ n \in Nat /\ h + m = n /\ Len(Append(t, x)) = n + 1
  BY <1>1 DEF Counted
<1>4. statistics.hits = h /\ statistics.accesses = n
  BY <1>1 DEF Counted
<1>5. /\ after.accesses = n + 1
      /\ after.hits = h + (IF hit THEN 1 ELSE 0)
      /\ after.misses = m + (IF hit THEN 0 ELSE 1)
  BY <1>1, <1>4 DEF record_access
<1>6. CASE hit
  <2>1. after.accesses = n + 1 /\ after.hits = h + 1 /\ after.misses = m /\ g = h + 1
    BY <1>2, <1>3, <1>5, <1>6
  <2>2. (h + 1) + m = n + 1
    BY <1>2, <1>3
  <2>. QED
    BY <1>1, <1>3, <2>1, <2>2, Zenon DEF Counted
<1>7. CASE ~ hit
  <2>1. after.accesses = n + 1 /\ after.hits = h /\ after.misses = m + 1 /\ g = h
    BY <1>2, <1>3, <1>5, <1>7
  <2>2. h + (m + 1) = n + 1 /\ m + 1 \in Nat
    BY <1>2, <1>3
  <2>. QED
    BY <1>1, <1>3, <2>1, <2>2, Zenon DEF Counted
<1>. QED
  BY <1>6, <1>7

LEMMA EmptyIsStacked ==
    ASSUME NEW c, NEW line \in Nat \ {0}, line = c.line_size_bytes,
           NEW ways \in Nat \ {0}, NEW sets \in Nat \ {0},
           c.capacity_bytes = line * (sets * ways)
    PROVE  /\ LinesStacked(EmptyCache(c).lines, << >>, line, sets, ways)
           /\ Counted(EmptyCache(c).statistics, << >>, line, sets, ways)
<1>1. PICK lines : lines = EmptyCache(c).lines
  OBVIOUS
<1>2. c.capacity_bytes \div c.line_size_bytes = sets * ways
  <2>1. PICK m : m = sets * ways
    OBVIOUS
  <2>2. m \in Nat /\ 0 \in 0 .. (line - 1)
    BY <2>1
  <2>3. (line * m + 0) \div line = m
    BY <2>2, ModUnique
  <2>4. line * m + 0 = line * m
    BY <2>2
  <2>. QED
    BY <2>1, <2>3, <2>4, Zenon
<1>3. lines = [k \in 0 .. (sets * ways - 1) |-> CacheLine(0, FALSE)]
  <2>1. lines = [k \in 0 .. (c.capacity_bytes \div c.line_size_bytes - 1) |->
                   CacheLine(0, FALSE)]
    BY <1>1 DEF EmptyCache
  <2>. QED
    BY <1>2, <2>1, Zenon
<1>4. CacheLine(0, FALSE).valid = FALSE
  BY DEF CacheLine
<1>5. ASSUME NEW set \in 0 .. (sets - 1), NEW way \in 0 .. (ways - 1)
      PROVE  ~ WaysOf(lines, ways, set)[way].valid
  <2>1. set * ways + way \in 0 .. (sets * ways - 1)
    BY <1>5, SetsInside
  <2>2. WaysOf(lines, ways, set)[way] = CacheLine(0, FALSE)
    BY <1>3, <1>5, <2>1, Zenon DEF WaysOf
  <2>. QED
    BY <1>4, <2>2, Zenon
<1>6. \A set : UsedIn(<< >>, line, sets, set) = {}
  <2>1. 1 .. Len(<< >>) = {}
    OBVIOUS
  <2>. QED
    BY <2>1, Zenon DEF UsedIn
<1>7. \A way \in 0 .. (ways - 1) : way >= Cardinality({})
  BY FS_EmptySet
<1>8. LinesStacked(lines, << >>, line, sets, ways)
  BY <1>3, <1>5, <1>6, <1>7, Zenon DEF LinesStacked, Stacked
<1>9. HitsOf(<< >>, line, sets, ways) = {}
  <2>1. 1 .. Len(<< >>) = {}
    OBVIOUS
  <2>. QED
    BY <2>1, Zenon DEF HitsOf
<1>10. Counted(EmptyCache(c).statistics, << >>, line, sets, ways)
  <2>1. Cardinality({}) = 0 /\ Len(<< >>) = 0
    BY FS_EmptySet
  <2>2. EmptyCache(c).statistics = [accesses |-> 0, hits |-> 0, misses |-> 0]
    BY DEF EmptyCache, ZeroCacheStatistics
  <2>3. PICK statistics : statistics = EmptyCache(c).statistics
    OBVIOUS
  <2>4. statistics.accesses = 0 /\ statistics.hits = 0 /\ statistics.misses = 0
    BY <2>2, <2>3
  <2>5. 0 + 0 = 0 /\ 0 \in Nat
    OBVIOUS
  <2>6. Counted(statistics, << >>, line, sets, ways)
    BY <1>9, <2>1, <2>4, <2>5, Zenon DEF Counted
  <2>. QED
    BY <2>3, <2>6, Zenon
<1>. QED
  BY <1>1, <1>8, <1>10, Zenon

(***************************************************************************)
(* The invariant: every set of an accepted cache is stacked by the trace,  *)
(* and the statistics are the trace's.                                     *)
(***************************************************************************)
CacheHistory ==
    Accepted =>
        /\ trace \in Seq(Nat)
        /\ LinesStacked(cache.lines, trace, configuration.line_size_bytes,
                        set_count(configuration), configuration.associativity)
        /\ Counted(cache.statistics, trace, configuration.line_size_bytes,
                   set_count(configuration), configuration.associativity)

LEMMA AcceptedSizes ==
    ASSUME NEW c, c.capacity_bytes \in 0 .. MaxSize, c.line_size_bytes \in 0 .. MaxSize,
           c.associativity \in 0 .. MaxSize, CacheConfigurationError(c) = NullOpt
    PROVE  /\ c.line_size_bytes \in Nat \ {0} /\ c.associativity \in Nat \ {0}
           /\ set_count(c) \in Nat \ {0}
           /\ c.capacity_bytes = c.line_size_bytes * (set_count(c) * c.associativity)
<1>1. PICK line, ways, sets, size : /\ line = c.line_size_bytes /\ ways = c.associativity
                                    /\ sets = set_count(c) /\ size = SetCapacity(c)
  OBVIOUS
<1>2. /\ line \in 4 .. MaxSize /\ ways \in 1 .. MaxSize /\ size = line * ways
      /\ sets \in Nat \ {0} /\ c.capacity_bytes = sets * size
  BY <1>1, GeometryOfAccepted
<1>3. line \in Nat \ {0} /\ ways \in Nat \ {0}
  BY <1>2, MaxSizeAssumption
<1>4. sets * (line * ways) = line * (sets * ways)
  BY <1>2, <1>3
<1>5. c.capacity_bytes = line * (sets * ways)
  BY <1>2, <1>4, Zenon
<1>. QED
  BY <1>1, <1>2, <1>3, <1>5, Zenon

LEMMA EmptyHistory ==
    ASSUME NEW c, c.capacity_bytes \in 0 .. MaxSize, c.line_size_bytes \in 0 .. MaxSize,
           c.associativity \in 0 .. MaxSize, CacheConfigurationError(c) = NullOpt
    PROVE  /\ << >> \in Seq(Nat)
           /\ LinesStacked(EmptyCache(c).lines, << >>, c.line_size_bytes, set_count(c),
                           c.associativity)
           /\ Counted(EmptyCache(c).statistics, << >>, c.line_size_bytes, set_count(c),
                      c.associativity)
<1>1. PICK line, ways, sets : /\ line = c.line_size_bytes /\ ways = c.associativity
                              /\ sets = set_count(c)
  OBVIOUS
<1>2. /\ line \in Nat \ {0} /\ ways \in Nat \ {0} /\ sets \in Nat \ {0}
      /\ c.capacity_bytes = line * (sets * ways)
  BY <1>1, AcceptedSizes
<1>3. /\ LinesStacked(EmptyCache(c).lines, << >>, line, sets, ways)
      /\ Counted(EmptyCache(c).statistics, << >>, line, sets, ways)
  BY <1>1, <1>2, EmptyIsStacked, Zenon
<1>4. << >> \in Seq(Nat)
  OBVIOUS
<1>. QED
  BY <1>1, <1>3, <1>4, Zenon

LEMMA AccessHistory ==
    ASSUME NEW c, c.capacity_bytes \in 0 .. MaxSize, c.line_size_bytes \in 0 .. MaxSize,
           c.associativity \in 0 .. MaxSize, CacheConfigurationError(c) = NullOpt,
           NEW cc, NEW t \in Seq(Nat), NEW address \in Nat,
           LinesStacked(cc.lines, t, c.line_size_bytes, set_count(c), c.associativity),
           Counted(cc.statistics, t, c.line_size_bytes, set_count(c), c.associativity)
    PROVE  /\ Append(t, address) \in Seq(Nat)
           /\ LinesStacked(access(c, cc, address).lines, Append(t, address),
                           c.line_size_bytes, set_count(c), c.associativity)
           /\ Counted(access(c, cc, address).statistics, Append(t, address),
                      c.line_size_bytes, set_count(c), c.associativity)
<1>1. PICK line, ways, sets, a, S, L :
         /\ line = c.line_size_bytes /\ ways = c.associativity /\ sets = set_count(c)
         /\ a = address \div line
         /\ S = UsedIn(t, line, sets, a % sets) /\ L = LastIn(t, line, sets, a % sets)
  OBVIOUS
<1>2. line \in Nat \ {0} /\ ways \in Nat \ {0} /\ sets \in Nat \ {0} /\ ways \in Nat
  BY <1>1, AcceptedSizes
<1>3. LinesStacked(cc.lines, t, line, sets, ways) /\ Counted(cc.statistics, t, line, sets, ways)
  BY <1>1, Zenon
<1>4. /\ LinesStacked(access(c, cc, address).lines, Append(t, address), line, sets, ways)
      /\ Hits(c, cc, address) <=> a \in S /\ Rank(S, L, a) < ways
  <2>1. /\ LinesStacked(access(c, cc, address).lines, Append(t, address), line, sets, ways)
        /\ HitsByRank(c, cc, address, t, address \div line, line, sets, ways)
    BY <1>1, <1>2, <1>3, AccessKeepsStacks
  <2>. QED
    BY <1>1, <2>1, Zenon DEF HitsByRank
<1>5. HitAt(Append(t, address), line, sets, ways, Len(t) + 1)
        <=> a \in S /\ Rank(S, L, a) < ways
  BY <1>1, <1>2, LastIsHit
<1>6. Counted(record_access(cc.statistics, Hits(c, cc, address)), Append(t, address),
              line, sets, ways)
  BY <1>3, <1>4, <1>5, AccessIsCounted, Zenon
<1>7. access(c, cc, address).statistics = record_access(cc.statistics, Hits(c, cc, address))
  BY DEF access
<1>8. Append(t, address) \in Seq(Nat)
  OBVIOUS
<1>. QED
  BY <1>1, <1>4, <1>6, <1>7, <1>8, Zenon

LEMMA CacheHistoryHolds == CacheSpec => []CacheHistory
<1>1. CacheInit /\ ConfigurationTyped => CacheHistory
  <2>. SUFFICES ASSUME CacheInit, ConfigurationTyped, Accepted PROVE CacheHistory
    BY DEF CacheHistory
  <2>1. cache = EmptyCache(configuration) /\ trace = << >>
    BY DEF CacheInit
  <2>. QED
    BY <2>1, EmptyHistory DEF CacheHistory, ConfigurationTyped, Accepted
<1>2. ConfigurationTyped /\ CacheHistory /\ [CacheNext]_cache_vars => CacheHistory'
  <2>. SUFFICES ASSUME ConfigurationTyped, CacheHistory, [CacheNext]_cache_vars
                PROVE  CacheHistory'
    OBVIOUS
  <2>1. CASE Reset
    <3>1. /\ cache' = EmptyCache(configuration) /\ trace' = << >>
          /\ configuration' = configuration /\ Accepted
      BY <2>1 DEF Reset, ResetCache
    <3>2. /\ << >> \in Seq(Nat)
          /\ LinesStacked(EmptyCache(configuration).lines, << >>,
                          configuration.line_size_bytes, set_count(configuration),
                          configuration.associativity)
          /\ Counted(EmptyCache(configuration).statistics, << >>,
                     configuration.line_size_bytes, set_count(configuration),
                     configuration.associativity)
      BY <3>1, EmptyHistory DEF ConfigurationTyped, Accepted
    <3>. QED
      BY <3>1, <3>2, Zenon DEF CacheHistory
  <2>2. ASSUME NEW address \in Addresses, Access(address)
        PROVE  CacheHistory'
    <3>1. /\ cache' = access(configuration, cache, address)
          /\ trace' = Append(trace, address)
          /\ configuration' = configuration /\ Accepted
      BY <2>2 DEF Access
    <3>2. address \in Nat
      BY CacheCheckAssumption, WordInt
    <3>3. /\ trace \in Seq(Nat)
          /\ LinesStacked(cache.lines, trace, configuration.line_size_bytes,
                          set_count(configuration), configuration.associativity)
          /\ Counted(cache.statistics, trace, configuration.line_size_bytes,
                     set_count(configuration), configuration.associativity)
      BY <3>1, Zenon DEF CacheHistory
    <3>4. /\ Append(trace, address) \in Seq(Nat)
          /\ LinesStacked(access(configuration, cache, address).lines,
                          Append(trace, address), configuration.line_size_bytes,
                          set_count(configuration), configuration.associativity)
          /\ Counted(access(configuration, cache, address).statistics,
                     Append(trace, address), configuration.line_size_bytes,
                     set_count(configuration), configuration.associativity)
      BY <3>1, <3>2, <3>3, AccessHistory DEF ConfigurationTyped, Accepted
    <3>. QED
      BY <3>1, <3>4, Zenon DEF CacheHistory
  <2>3. CASE UNCHANGED cache_vars
    BY <2>3, Zenon DEF cache_vars, CacheHistory, Accepted
  <2>. QED
    BY <2>1, <2>2, <2>3 DEF CacheNext
<1>. QED
  BY <1>1, <1>2, ConfigurationStays, PTL DEF CacheSpec

(***************************************************************************)
(* SetAssociativeCache::access keeps, for every geometry the constructor   *)
(* accepts and every sequence of addresses and resets, the most recently   *)
(* used blocks of each set in the order of their last use, although it     *)
(* only ever rotates the ways up to the one it selected.                   *)
(***************************************************************************)
THEOREM RecentBlocksStay == CacheSpec => []MostRecentlyUsedFirst
<1>1. CacheHistory => MostRecentlyUsedFirst
  <2>. SUFFICES ASSUME CacheHistory, Accepted PROVE MostRecentlyUsedFirst
    BY DEF MostRecentlyUsedFirst
  <2>1. PICK line, ways, sets, t : /\ line = configuration.line_size_bytes
                                   /\ ways = configuration.associativity
                                   /\ sets = set_count(configuration) /\ t = trace
    OBVIOUS
  <2>2. t \in Seq(Nat) /\ LinesStacked(cache.lines, t, line, sets, ways)
    BY <2>1, Zenon DEF CacheHistory
  <2>3. DOMAIN t = 1 .. Len(t)
    BY <2>2
  <2>4. \A set : UsedBlocks(set, 1, Len(trace)) = UsedIn(t, line, sets, set)
    BY <2>1, Zenon DEF UsedBlocks, UsedIn, Block, SetOf, block_number
  <2>5. \A b : LastUse(b) = Max(UsesOf(t, line, b))
    BY <2>1, <2>3, Zenon DEF LastUse, UsesOf, Block, block_number
  <2>6. ASSUME NEW set \in 0 .. (sets - 1), NEW way \in 0 .. (ways - 1),
               NEW S, S = UsedBlocks(set, 1, Len(trace))
        PROVE  IF way >= Cardinality(S) THEN ~ cache.lines[set * ways + way].valid
               ELSE \E b \in S :
                       /\ Cardinality({d \in S : LastUse(d) > LastUse(b)}) = way
                       /\ cache.lines[set * ways + way] = CacheLine(b \div sets, TRUE)
    <3>1. PICK L : L = LastIn(t, line, sets, set)
      OBVIOUS
    <3>2. S = UsedIn(t, line, sets, set)
      BY <2>4, <2>6, Zenon
    <3>3. Stacked(S, L, sets, ways, WaysOf(cache.lines, ways, set))
      BY <2>2, <3>1, <3>2, Zenon DEF LinesStacked
    <3>4. WaysOf(cache.lines, ways, set)[way] = cache.lines[set * ways + way]
      BY <2>6, Zenon DEF WaysOf
    <3>5. \A b \in S : L[b] = LastUse(b)
      BY <2>2, <2>5, <3>1, <3>2, LastIsLast
    <3>6. \A b \in S : YoungerThan(S, L, b) = {d \in S : LastUse(d) > LastUse(b)}
      BY <3>5, Zenon DEF YoungerThan
    <3>7. CASE way >= Cardinality(S)
      BY <3>3, <3>4, <3>7, Zenon DEF Stacked
    <3>8. CASE ~ (way >= Cardinality(S))
      BY <3>3, <3>4, <3>6, <3>8, Zenon DEF Stacked, HoldsRank, Rank
    <3>. QED
      BY <3>7, <3>8, Zenon
  <2>. QED
    BY <2>1, <2>6 DEF MostRecentlyUsedFirst, Ways
<1>. QED
  BY <1>1, CacheHistoryHolds, PTL

(***************************************************************************)
(* CacheStatistics count, for every accepted geometry and every trace,     *)
(* exactly the accesses whose reuse distance is below the associativity as *)
(* hits, and the others as misses.                                         *)
(***************************************************************************)
THEOREM HitsAreReuses == CacheSpec => []StatisticsOfTrace
<1>1. CacheHistory => StatisticsOfTrace
  <2>. SUFFICES ASSUME CacheHistory, Accepted PROVE StatisticsOfTrace
    BY DEF StatisticsOfTrace
  <2>1. PICK line, ways, sets, t : /\ line = configuration.line_size_bytes
                                   /\ ways = configuration.associativity
                                   /\ sets = set_count(configuration) /\ t = trace
    OBVIOUS
  <2>2. t \in Seq(Nat) /\ Counted(cache.statistics, t, line, sets, ways)
    BY <2>1, Zenon DEF CacheHistory
  <2>3. DOMAIN t = 1 .. Len(t)
    BY <2>2
  <2>4. \A k : IsHit(k) <=> HitAt(t, line, sets, ways, k)
    <3>1. \A j, k : UsedBlocks(SetOf(Block(k)), j + 1, k - 1) \ {Block(k)}
                      = Between(t, line, sets, j, k)
      BY <2>1, Zenon DEF UsedBlocks, Between, Block, SetOf, block_number
    <3>. QED
      BY <2>1, <3>1, Zenon DEF IsHit, HitAt, Block, block_number
  <2>5. {k \in DOMAIN trace : IsHit(k)} = HitsOf(t, line, sets, ways)
    BY <2>1, <2>3, <2>4, Zenon DEF HitsOf
  <2>. QED
    BY <2>1, <2>2, <2>5, Zenon DEF StatisticsOfTrace, Counted
<1>. QED
  BY <1>1, CacheHistoryHolds, PTL

-----------------------------------------------------------------------------
(***************************************************************************)
(* The iterations of a benchmark.  What an iteration measures is decided   *)
(* by the state reset leaves: one instruction is a function of the machine *)
(* and the analyzer.  The operators below are that function, for the       *)
(* opcodes the workloads use.                                              *)
(***************************************************************************)
MeasuredState ==
    [registers |-> registers, program_counter |-> program_counter, bytes |-> bytes,
     instruction_cache |-> instruction_cache, data_cache |-> data_cache,
     load_statistics |-> load_statistics, store_statistics |-> store_statistics,
     branch_predictor |-> branch_predictor,
     instructions_observed |-> instructions_observed]

Operand(s, r) == IF r = 0 THEN 0 ELSE s.registers[r]
AddressOf(i, s) == WrapAdd(Operand(s, i.source1), i.immediate)
BranchOf(i, s) == evaluate_branch(i, Operand(s, i.source1), Operand(s, i.source2))
TakenIn(i, s) == i.opcode = "Jal" \/ (i.opcode = "Branch" /\ BranchOf(i, s) = Some(TRUE))

ResultOf(i, s) ==
    CASE i.opcode = "OpImmediate" -> execute_op_immediate(i, Operand(s, i.source1))
      [] i.opcode = "Op" ->
             execute_op(i, Operand(s, i.source1), Operand(s, i.source2))
      [] i.opcode = "Lui" -> Some(i.immediate)
      [] i.opcode = "Jal" -> Some(WrapAdd(s.program_counter, 4))
      [] i.opcode = "Load" -> Some(read32(s.bytes, AddressOf(i, s)))
      [] OTHER -> NullOpt

RegistersAfter(i, s) ==
    IF ResultOf(i, s) = NullOpt \/ i.destination = 0 THEN s.registers
    ELSE [s.registers EXCEPT ![i.destination] = CHOOSE v \in ResultOf(i, s) : TRUE]

BytesAfter(i, s) ==
    IF i.opcode = "Store"
    THEN write32(s.bytes, AddressOf(i, s), Operand(s, i.source2)) ELSE s.bytes

NextAddress(i, s) ==
    WrapAdd(s.program_counter, IF TakenIn(i, s) THEN i.immediate ELSE 4)

AccessesOf(i, s) ==
    IF i.opcode \in {"Load", "Store"}
    THEN Some([kind |-> i.opcode, address |-> AddressOf(i, s), width |-> 4])
    ELSE NullOpt

FlowOf(i, s) ==
    CASE i.opcode = "Jal" -> Some([kind |-> "DirectJump", taken |-> TRUE])
      [] i.opcode = "Branch" -> Some([kind |-> "ConditionalBranch",
                                      taken |-> TakenIn(i, s)])
      [] OTHER -> NullOpt

ObservationOf(i, s) ==
    [kind |-> "Completed", instruction |-> i, program_counter |-> s.program_counter,
     next_program_counter |-> NextAddress(i, s),
     data_memory_access |-> AccessesOf(i, s), control_flow |-> FlowOf(i, s)]

\* The instruction i completes in the state s.
Completes(i, s) ==
    \/ i.opcode \in {"OpImmediate", "Op"} /\ ResultOf(i, s) # NullOpt
    \/ i.opcode = "Lui"
    \/ i.opcode = "Jal" /\ NextAddress(i, s) % 4 = 0
    \/ /\ i.opcode = "Branch"
       /\ BranchOf(i, s) \in {Some(TRUE), Some(FALSE)}
       /\ NextAddress(i, s) % 4 = 0
    \/ /\ i.opcode \in {"Load", "Store"}
       /\ i.function3 = 2
       /\ AccessError(AddressOf(i, s), 4) = {}

ExecutedAs(i) ==
    /\ registers' = RegistersAfter(i, MeasuredState)
    /\ program_counter' = NextAddress(i, MeasuredState)
    /\ bytes' = BytesAfter(i, MeasuredState)
    /\ step_result' = ObservationOf(i, MeasuredState)

LEMMA StateParts ==
    /\ MeasuredState.registers = registers
    /\ MeasuredState.program_counter = program_counter
    /\ MeasuredState.bytes = bytes
    /\ \A r : Operand(MeasuredState, r) = read_register(r)
    /\ \A i : AddressOf(i, MeasuredState) = EffectiveAddress(i)
BY DEF MeasuredState, Operand, read_register, AddressOf, EffectiveAddress

LEMMA RetireIs ==
    ASSUME NEW i, bytes' = BytesAfter(i, MeasuredState),
           Retire(i, ResultOf(i, MeasuredState), NextAddress(i, MeasuredState),
                  AccessesOf(i, MeasuredState), FlowOf(i, MeasuredState))
    PROVE  ExecutedAs(i)
<1>. DEFINE s == MeasuredState
<1>0. s.registers = registers /\ s.program_counter = program_counter
  BY StateParts
<1>1. program_counter' = NextAddress(i, s)
  BY DEF Retire
<1>2. step_result' = ObservationOf(i, s)
  BY <1>0, Zenon DEF Retire, ExecutionObservation, ObservationOf
<1>3. registers' = RegistersAfter(i, s)
  <2>. DEFINE u == CHOOSE u \in ResultOf(i, s) : TRUE
  <2>1. registers' = IF ResultOf(i, s) = NullOpt THEN registers
                     ELSE write_register(i.destination, u)
    BY Zenon DEF Retire
  <2>2. RegistersAfter(i, s) = IF ResultOf(i, s) = NullOpt \/ i.destination = 0
                               THEN s.registers
                               ELSE [s.registers EXCEPT ![i.destination] = u]
    BY Zenon DEF RegistersAfter
  <2>. HIDE DEF u, s
  <2>. QED
    BY <1>0, <2>1, <2>2 DEF write_register
<1>. QED
  BY <1>1, <1>2, <1>3 DEF ExecutedAs

LEMMA LuiRuns ==
    ASSUME NEW raw, NEW i, ExecuteLui(raw, i)
    PROVE  ExecutedAs(i)
<1>1. /\ i.opcode = "Lui" /\ bytes' = bytes
      /\ Retire(i, Some(i.immediate), SequentialProgramCounter, NullOpt, NullOpt)
  BY DEF ExecuteLui
<1>2. /\ AccessesOf(i, MeasuredState) = NullOpt /\ FlowOf(i, MeasuredState) = NullOpt
      /\ NextAddress(i, MeasuredState) = SequentialProgramCounter
      /\ ResultOf(i, MeasuredState) = Some(i.immediate)
      /\ BytesAfter(i, MeasuredState) = bytes
  BY <1>1, StateParts DEF AccessesOf, FlowOf, NextAddress, SequentialProgramCounter,
     TakenIn, ResultOf, BytesAfter
<1>. QED
  BY <1>1, <1>2, RetireIs

LEMMA AluRuns ==
    ASSUME NEW raw, NEW i, Completes(i, MeasuredState),
           ExecuteOpImmediate(raw, i) \/ ExecuteOp(raw, i)
    PROVE  ExecutedAs(i)
<1>. DEFINE v == ResultOf(i, MeasuredState)
<1>1. /\ i.opcode \in {"OpImmediate", "Op"}
      /\ v # NullOpt
      /\ RetireResult(raw, i, v)
  BY StateParts DEF ExecuteOpImmediate, ExecuteOp, ResultOf, Completes
<1>2. /\ AccessesOf(i, MeasuredState) = NullOpt /\ FlowOf(i, MeasuredState) = NullOpt
      /\ NextAddress(i, MeasuredState) = SequentialProgramCounter
      /\ BytesAfter(i, MeasuredState) = bytes
  BY <1>1, StateParts DEF AccessesOf, FlowOf, NextAddress, SequentialProgramCounter,
     TakenIn, BytesAfter
<1>3. Retire(i, v, SequentialProgramCounter, NullOpt, NullOpt) /\ bytes' = bytes
  BY <1>1, Zenon DEF RetireResult
<1>. HIDE DEF v
<1>. QED
  BY <1>2, <1>3, RetireIs DEF v

LEMMA JalRuns ==
    ASSUME NEW raw, NEW i, Completes(i, MeasuredState), ExecuteJal(raw, i)
    PROVE  ExecutedAs(i)
<1>1. i.opcode = "Jal"
  BY DEF ExecuteJal
<1>2. /\ AccessesOf(i, MeasuredState) = NullOpt
      /\ FlowOf(i, MeasuredState) = TakenFlow("DirectJump")
      /\ NextAddress(i, MeasuredState) = WrapAdd(program_counter, i.immediate)
      /\ ResultOf(i, MeasuredState) = Some(SequentialProgramCounter)
      /\ BytesAfter(i, MeasuredState) = bytes
  BY <1>1, StateParts DEF AccessesOf, FlowOf, NextAddress, SequentialProgramCounter,
     TakenIn, ResultOf, BytesAfter, TakenFlow
<1>3. is_instruction_aligned(WrapAdd(program_counter, i.immediate))
  BY <1>1, <1>2 DEF Completes, is_instruction_aligned
<1>4. /\ Retire(i, Some(SequentialProgramCounter), WrapAdd(program_counter, i.immediate),
                NullOpt, TakenFlow("DirectJump"))
      /\ bytes' = bytes
  BY <1>3, Zenon DEF ExecuteJal, TransferTo
<1>. QED
  BY <1>2, <1>4, RetireIs

LEMMA BranchRuns ==
    ASSUME NEW raw, NEW i, Completes(i, MeasuredState), ExecuteBranch(raw, i)
    PROVE  ExecutedAs(i)
<1>. DEFINE taken == BranchOf(i, MeasuredState)
<1>1. i.opcode = "Branch" /\ taken \in {Some(TRUE), Some(FALSE)}
  BY DEF ExecuteBranch, Completes
<1>0. taken = evaluate_branch(i, read_register(i.source1), read_register(i.source2))
  BY StateParts DEF BranchOf
<1>d. Some(TRUE) # Some(FALSE) /\ Some(TRUE) # NullOpt /\ Some(FALSE) # NullOpt
  BY DEF Some, NullOpt
<1>2. /\ AccessesOf(i, MeasuredState) = NullOpt
      /\ ResultOf(i, MeasuredState) = NullOpt
      /\ BytesAfter(i, MeasuredState) = bytes
  BY <1>1, StateParts DEF AccessesOf, ResultOf, BytesAfter
<1>3. CASE taken = Some(TRUE)
  <2>1. TakenIn(i, MeasuredState) = TRUE
    BY <1>1, <1>3 DEF TakenIn
  <2>2. /\ FlowOf(i, MeasuredState) = TakenFlow("ConditionalBranch")
        /\ NextAddress(i, MeasuredState) = WrapAdd(program_counter, i.immediate)
    BY <1>1, <2>1, StateParts DEF FlowOf, NextAddress, TakenFlow
  <2>3. is_instruction_aligned(WrapAdd(program_counter, i.immediate))
    BY <1>1, <2>2 DEF Completes, is_instruction_aligned
  <2>4. TransferTo(i, WrapAdd(program_counter, i.immediate), NullOpt,
                   "ConditionalBranch")
    BY <1>0, <1>d, <1>3, Zenon DEF ExecuteBranch
  <2>5. /\ Retire(i, NullOpt, WrapAdd(program_counter, i.immediate), NullOpt,
                  TakenFlow("ConditionalBranch"))
        /\ bytes' = bytes
    BY <2>3, <2>4, Zenon DEF TransferTo
  <2>. QED
    BY <1>2, <2>2, <2>5, RetireIs
<1>4. CASE taken = Some(FALSE)
  <2>1. TakenIn(i, MeasuredState) = FALSE
    BY <1>1, <1>d, <1>4 DEF TakenIn
  <2>2. /\ FlowOf(i, MeasuredState)
              = Some([kind |-> "ConditionalBranch", taken |-> FALSE])
        /\ NextAddress(i, MeasuredState) = SequentialProgramCounter
    BY <1>1, <2>1, StateParts DEF FlowOf, NextAddress, SequentialProgramCounter
  <2>3. /\ Retire(i, NullOpt, SequentialProgramCounter, NullOpt,
                  Some([kind |-> "ConditionalBranch", taken |-> FALSE]))
        /\ bytes' = bytes
    BY <1>0, <1>d, <1>4, Zenon DEF ExecuteBranch
  <2>. QED
    BY <1>2, <2>2, <2>3, RetireIs
<1>. QED
  BY <1>1, <1>3, <1>4

LEMMA AccessRuns ==
    ASSUME NEW raw, NEW i, Completes(i, MeasuredState),
           ExecuteLoad(raw, i) \/ ExecuteStore(raw, i)
    PROVE  ExecutedAs(i)
<1>. DEFINE a == [kind |-> i.opcode, address |-> EffectiveAddress(i), width |-> 4]
<1>1. i.opcode \in {"Load", "Store"} /\ i.function3 = 2
  BY DEF ExecuteLoad, ExecuteStore, Completes
<1>2. /\ data_access_width(i.function3) = 4
      /\ AccessError(EffectiveAddress(i), 4) = {}
  <2>1. AccessError(AddressOf(i, MeasuredState), 4) = {}
    BY <1>1 DEF Completes
  <2>. QED
    BY <1>1, <2>1, StateParts DEF data_access_width
<1>d. {"Misalignment"} # {} /\ {"OutOfBounds"} # {}
  OBVIOUS
<1>3. /\ AccessesOf(i, MeasuredState) = Some(a)
      /\ FlowOf(i, MeasuredState) = NullOpt
      /\ NextAddress(i, MeasuredState) = SequentialProgramCounter
  BY <1>1, StateParts DEF AccessesOf, FlowOf, NextAddress, SequentialProgramCounter,
     TakenIn
<1>4. CASE ExecuteLoad(raw, i)
  <2>0. i.opcode = "Load"
    BY <1>4 DEF ExecuteLoad
  <2>1. LoadedValue(i.function3, EffectiveAddress(i)) = read32(bytes, EffectiveAddress(i))
    BY <1>1 DEF LoadedValue
  <2>2. /\ ResultOf(i, MeasuredState) = Some(read32(bytes, EffectiveAddress(i)))
        /\ BytesAfter(i, MeasuredState) = bytes
    BY <2>0, StateParts DEF ResultOf, BytesAfter
  <2>3. LoadError(i) = {} /\ i.function3 \in {0, 1, 2, 4, 5}
    BY <1>1, <1>2 DEF LoadError
  <2>4. /\ Retire(i, Some(LoadedValue(i.function3, EffectiveAddress(i))),
                  SequentialProgramCounter,
                  Some([kind |-> "Load", address |-> EffectiveAddress(i),
                        width |-> data_access_width(i.function3)]), NullOpt)
        /\ bytes' = bytes
    BY <1>4, <1>d, <2>3, Zenon DEF ExecuteLoad
  <2>5. Retire(i, Some(read32(bytes, EffectiveAddress(i))), SequentialProgramCounter,
               Some(a), NullOpt)
    BY <1>2, <2>0, <2>1, <2>4, Zenon
  <2>. HIDE DEF a
  <2>. QED
    BY <1>3, <2>2, <2>4, <2>5, RetireIs
<1>5. CASE ExecuteStore(raw, i)
  <2>0. i.opcode = "Store"
    BY <1>5 DEF ExecuteStore
  <2>1. StoredBytes(4, EffectiveAddress(i), read_register(i.source2))
          = write32(bytes, EffectiveAddress(i), read_register(i.source2))
    BY DEF StoredBytes
  <2>2. /\ ResultOf(i, MeasuredState) = NullOpt
        /\ BytesAfter(i, MeasuredState)
              = write32(bytes, EffectiveAddress(i), read_register(i.source2))
    BY <2>0, StateParts DEF ResultOf, BytesAfter
  <2>3. i.function3 \in {0, 1, 2} /\ AccessError(EffectiveAddress(i),
                                                 data_access_width(i.function3)) = {}
    BY <1>1, <1>2
  <2>4. /\ Retire(i, NullOpt, SequentialProgramCounter,
                  Some([kind |-> "Store", address |-> EffectiveAddress(i),
                        width |-> data_access_width(i.function3)]), NullOpt)
        /\ bytes' = StoredBytes(data_access_width(i.function3), EffectiveAddress(i),
                                read_register(i.source2))
    BY <1>5, <1>d, <2>3, Zenon DEF ExecuteStore
  <2>5. Retire(i, NullOpt, SequentialProgramCounter, Some(a), NullOpt)
    BY <1>2, <2>0, <2>4, Zenon
  <2>6. bytes' = BytesAfter(i, MeasuredState)
    BY <1>2, <2>1, <2>2, <2>4, Zenon
  <2>. HIDE DEF a
  <2>. QED
    BY <1>3, <2>2, <2>5, <2>6, RetireIs
<1>. QED
  BY <1>4, <1>5

LEMMA ExecuteRuns ==
    ASSUME NEW raw, NEW i, Completes(i, MeasuredState), Execute(raw, i)
    PROVE  ExecutedAs(i)
<1>1. i.opcode \in {"OpImmediate", "Op", "Lui", "Jal", "Branch", "Load", "Store"}
  BY DEF Completes
<1>2. ~ (ExecuteAuipc(raw, i) \/ ExecuteJalr(raw, i) \/ ExecuteMiscMemory(raw, i)
         \/ ExecuteSystem(raw, i))
  BY <1>1 DEF ExecuteAuipc, ExecuteJalr, ExecuteMiscMemory, ExecuteSystem
<1>. QED
  BY <1>2, LuiRuns, AluRuns, JalRuns, BranchRuns, AccessRuns, Zenon DEF Execute

(***************************************************************************)
(* The analyzer is a function of its state and the observation as well.    *)
(***************************************************************************)
CountedIn(kind_, statistics, held, accesses) ==
    IF \E a \in accesses : a.kind = kind_
    THEN record_access(statistics,
                       \E a \in accesses : Hits(cache_configuration.data, held, a.address))
    ELSE statistics

DataCacheAfter(i, s) ==
    IF i.opcode \in {"Load", "Store"}
    THEN access(cache_configuration.data, s.data_cache, AddressOf(i, s))
    ELSE s.data_cache

StateAfter(i, s) ==
    [registers |-> RegistersAfter(i, s),
     program_counter |-> NextAddress(i, s),
     bytes |-> BytesAfter(i, s),
     instruction_cache |-> access(cache_configuration.instruction,
                                  s.instruction_cache, s.program_counter),
     data_cache |-> DataCacheAfter(i, s),
     load_statistics |-> CountedIn("Load", s.load_statistics, s.data_cache,
                                   AccessesOf(i, s)),
     store_statistics |-> CountedIn("Store", s.store_statistics, s.data_cache,
                                    AccessesOf(i, s)),
     branch_predictor |-> ObserveBranch(branch_configuration, s.branch_predictor,
                                        ObservationOf(i, s)),
     instructions_observed |-> s.instructions_observed + 1]

LEMMA ObserveRuns ==
    ASSUME NEW i, ExecutedAs(i), AnalyzerObserve(step_result')
    PROVE  MeasuredState' = StateAfter(i, MeasuredState)
<1>. DEFINE s == MeasuredState
            o == ObservationOf(i, MeasuredState)
<1>1. /\ s.instruction_cache = instruction_cache /\ s.data_cache = data_cache
      /\ s.load_statistics = load_statistics /\ s.store_statistics = store_statistics
      /\ s.branch_predictor = branch_predictor
      /\ s.instructions_observed = instructions_observed
      /\ s.program_counter = program_counter
  BY DEF MeasuredState
<1>2. /\ o.data_memory_access = AccessesOf(i, s)
      /\ o.program_counter = s.program_counter
  BY DEF ObservationOf
<1>3. step_result' = o
  BY DEF ExecutedAs
<1>4. AnalyzerObserve(o)
  BY <1>3
<1>. HIDE DEF s, o
<1>5. /\ instruction_cache' = access(cache_configuration.instruction,
                                     s.instruction_cache, s.program_counter)
      /\ branch_predictor' = ObserveBranch(branch_configuration, s.branch_predictor, o)
      /\ instructions_observed' = s.instructions_observed + 1
  BY <1>1, <1>2, <1>4 DEF AnalyzerObserve, ObserveAccesses
<1>6. ASSUME NEW k, NEW statistics
      PROVE  Recorded(k, statistics, o)
               = CountedIn(k, statistics, s.data_cache, AccessesOf(i, s))
  BY <1>1, <1>2, Zenon DEF Recorded, DataHit, CountedIn
<1>7. /\ load_statistics' = CountedIn("Load", s.load_statistics, s.data_cache,
                                      AccessesOf(i, s))
      /\ store_statistics' = CountedIn("Store", s.store_statistics, s.data_cache,
                                       AccessesOf(i, s))
  BY <1>1, <1>4, <1>6, Zenon DEF AnalyzerObserve, ObserveAccesses
<1>8. data_cache' = DataCacheAfter(i, s)
  <2>1. \/ AccessesOf(i, s) = NullOpt /\ data_cache' = s.data_cache
        \/ \E a \in AccessesOf(i, s) :
              data_cache' = access(cache_configuration.data, s.data_cache, a.address)
    BY <1>1, <1>2, <1>4, Zenon DEF AnalyzerObserve, ObserveAccesses
  <2>2. CASE i.opcode \in {"Load", "Store"}
    <3>. DEFINE a == [kind |-> i.opcode, address |-> AddressOf(i, s), width |-> 4]
    <3>1. AccessesOf(i, s) = {a} /\ a.address = AddressOf(i, s)
      BY <2>2 DEF AccessesOf, Some
    <3>. HIDE DEF a
    <3>. QED
      BY <2>1, <2>2, <3>1, Zenon DEF DataCacheAfter, NullOpt
  <2>3. CASE i.opcode \notin {"Load", "Store"}
    BY <2>1, <2>3, Zenon DEF DataCacheAfter, AccessesOf, NullOpt
  <2>. QED
    BY <2>2, <2>3
<1>9. /\ registers' = RegistersAfter(i, s) /\ program_counter' = NextAddress(i, s)
      /\ bytes' = BytesAfter(i, s)
  BY DEF ExecutedAs, s
<1>10. MeasuredState' =
         [registers |-> registers', program_counter |-> program_counter',
          bytes |-> bytes', instruction_cache |-> instruction_cache',
          data_cache |-> data_cache', load_statistics |-> load_statistics',
          store_statistics |-> store_statistics', branch_predictor |-> branch_predictor',
          instructions_observed |-> instructions_observed']
  BY Zenon DEF MeasuredState
<1>11. MeasuredState' = StateAfter(i, s)
  BY <1>5, <1>7, <1>8, <1>9, <1>10, Zenon DEF StateAfter, o, s
<1>. QED
  BY <1>11 DEF s

LEMMA StepRuns ==
    ASSUME NEW i, Decode(read32(bytes, program_counter)) = {i},
           is_instruction_aligned(program_counter),
           AccessError(program_counter, 4) = {},
           Completes(i, MeasuredState), AnalyzedStep
    PROVE  /\ step_result'.kind = "Completed"
           /\ MeasuredState' = StateAfter(i, MeasuredState)
<1>. DEFINE raw == read32(bytes, program_counter)
<1>1. Fetched = {raw}
  BY DEF Fetched, Some
<1>2. EngineStep
  BY DEF AnalyzedStep
<1>3. Execute(raw, i)
  <2>1. ~ FetchMisaligned /\ ~ FetchFault
    BY Zenon DEF FetchMisaligned, FetchFault
  <2>2. ~ Undecodable
    BY <1>1, Zenon DEF Undecodable, NullOpt
  <2>3. \E r \in Fetched : \E j \in Decode(r) : Execute(r, j)
    BY <1>2, <2>1, <2>2, Zenon DEF EngineStep
  <2>4. PICK r \in Fetched : \E j \in Decode(r) : Execute(r, j)
    BY <2>3
  <2>5. r = raw
    BY <1>1, Zenon
  <2>6. PICK j \in Decode(r) : Execute(r, j)
    BY <2>4
  <2>7. j = i
    BY <2>5, <2>6, Zenon
  <2>. HIDE DEF raw
  <2>. QED
    BY <2>5, <2>6, <2>7
<1>4. ExecutedAs(i)
  BY <1>3, ExecuteRuns
<1>5. step_result'.kind = "Completed"
  BY <1>4 DEF ExecutedAs, ObservationOf
<1>6. AnalyzerObserve(step_result')
  BY <1>5 DEF AnalyzedStep
<1>. QED
  BY <1>4, <1>5, <1>6, ObserveRuns

(***************************************************************************)
(* The states an iteration runs through, from the one reset leaves.        *)
(***************************************************************************)
FirstState(workload) ==
    [registers |-> [r \in Registers |-> InitialRegister(workload, r)],
     program_counter |-> BaseAddress,
     bytes |-> load_program([o \in Offsets |-> 0], ProgramOf(workload)),
     instruction_cache |-> EmptyCache(cache_configuration.instruction),
     data_cache |-> EmptyCache(cache_configuration.data),
     load_statistics |-> ZeroCacheStatistics,
     store_statistics |-> ZeroCacheStatistics,
     branch_predictor |-> NewPredictor(branch_configuration),
     instructions_observed |-> 0]

DecodedAt(s) == CHOOSE i \in Decode(read32(s.bytes, s.program_counter)) : TRUE

Advance(s) == StateAfter(DecodedAt(s), s)

\* An iteration of the workload is in the state s after n instructions.
ReachedAfter(workload, n, s) ==
    \E f : /\ f[0] = FirstState(workload)
           /\ \A j \in 0 .. (n - 1) : f[j + 1] = Advance(f[j])
           /\ f[n] = s

LEMMA FirstIsReached ==
    ASSUME NEW workload
    PROVE  ReachedAfter(workload, 0, FirstState(workload))
<1>. DEFINE f == [j \in {0} |-> FirstState(workload)]
<1>1. f[0] = FirstState(workload) /\ \A j \in 0 .. (0 - 1) : f[j + 1] = Advance(f[j])
  OBVIOUS
<1>. HIDE DEF f
<1>. QED
  BY <1>1 DEF ReachedAfter

LEMMA NextIsReached ==
    ASSUME NEW workload, NEW n \in Nat, NEW s, ReachedAfter(workload, n, s)
    PROVE  ReachedAfter(workload, n + 1, Advance(s))
<1>1. PICK f : /\ f[0] = FirstState(workload)
               /\ \A j \in 0 .. (n - 1) : f[j + 1] = Advance(f[j])
               /\ f[n] = s
  BY DEF ReachedAfter
<1>. DEFINE g == [j \in 0 .. (n + 1) |-> IF j <= n THEN f[j] ELSE Advance(s)]
<1>2. g[0] = FirstState(workload) /\ g[n + 1] = Advance(s)
  BY <1>1
<1>3. ASSUME NEW j \in 0 .. ((n + 1) - 1)
      PROVE  g[j + 1] = Advance(g[j])
  <2>1. g[j] = f[j]
    OBVIOUS
  <2>2. CASE j = n
    BY <1>1, <2>1, <2>2
  <2>3. CASE j # n
    <3>1. j \in 0 .. (n - 1) /\ g[j + 1] = f[j + 1]
      BY <2>3
    <3>. QED
      BY <1>1, <2>1, <3>1
  <2>. QED
    BY <2>2, <2>3
<1>. HIDE DEF g
<1>. QED
  BY <1>2, <1>3 DEF ReachedAfter

\* By the least index at which two runs differ.
LEMMA OneIsReached ==
    ASSUME NEW workload, NEW n \in Nat, NEW s, NEW t,
           ReachedAfter(workload, n, s), ReachedAfter(workload, n, t)
    PROVE  s = t
<1>1. PICK f : /\ f[0] = FirstState(workload)
               /\ \A j \in 0 .. (n - 1) : f[j + 1] = Advance(f[j])
               /\ f[n] = s
  BY DEF ReachedAfter
<1>2. PICK g : /\ g[0] = FirstState(workload)
               /\ \A j \in 0 .. (n - 1) : g[j + 1] = Advance(g[j])
               /\ g[n] = t
  BY DEF ReachedAfter
<1>. DEFINE Differ == {j \in 0 .. n : f[j] # g[j]}
<1>3. ASSUME Differ # {}
      PROVE  FALSE
  <2>0. Differ \in SUBSET Nat
    OBVIOUS
  <2>1. PICK m \in Differ : \A j \in Differ : m <= j
    <3>. HIDE DEF Differ
    <3>. QED
      BY <1>3, <2>0, LeastNatural
  <2>2. m \in 0 .. n /\ f[m] # g[m]
    BY <2>1
  <2>5. m # 0
    BY <1>1, <1>2, <2>2, Zenon
  <2>3. m - 1 \in 0 .. (n - 1) /\ m - 1 \notin Differ /\ (m - 1) + 1 = m
    BY <2>1, <2>2, <2>5
  <2>4. f[m - 1] = g[m - 1]
    BY <2>3
  <2>6. f[(m - 1) + 1] = g[(m - 1) + 1]
    BY <1>1, <1>2, <2>3, <2>4, Zenon
  <2>. QED
    BY <2>2, <2>3, <2>6
<1>4. f[n] = g[n]
  BY <1>3
<1>. QED
  BY <1>1, <1>2, <1>4

\* What CollectIteration appends, as a function of the state.
ReportOf(s) ==
    [statistics |-> <<s.instructions_observed, s.instruction_cache.statistics,
                      s.load_statistics, s.store_statistics,
                      s.branch_predictor.statistics>>,
     estimate |-> estimate(cycle_costs,
                     [instructions |-> s.instructions_observed,
                      instruction_cache_misses |-> s.instruction_cache.statistics.misses,
                      data_cache_misses |-> s.data_cache.statistics.misses,
                      branch_mispredictions |-> s.branch_predictor.statistics.incorrect]),
     state |-> <<s.registers, s.program_counter, s.bytes>>]

\* The one report an iteration of the workload can make.
ReportAfter(workload, n) == ReportOf(CHOOSE s : ReachedAfter(workload, n, s))

LEMMA ReportIsDecided ==
    ASSUME NEW workload, NEW n \in Nat, NEW s, ReachedAfter(workload, n, s)
    PROVE  ReportOf(s) = ReportAfter(workload, n)
<1>. DEFINE t == CHOOSE u : ReachedAfter(workload, n, u)
<1>1. ReachedAfter(workload, n, t)
  OBVIOUS
<1>2. s = t
  BY <1>1, OneIsReached
<1>. QED
  BY <1>2, Zenon DEF ReportAfter

LEMMA ResetStarts ==
    ASSUME ResetWorkload
    PROVE  MeasuredState' = FirstState(kind)
<1>1. MeasuredState' =
         [registers |-> registers', program_counter |-> program_counter',
          bytes |-> bytes', instruction_cache |-> instruction_cache',
          data_cache |-> data_cache', load_statistics |-> load_statistics',
          store_statistics |-> store_statistics', branch_predictor |-> branch_predictor',
          instructions_observed |-> instructions_observed']
  BY Zenon DEF MeasuredState
<1>2. /\ registers' = [r \in Registers |-> InitialRegister(kind, r)]
      /\ program_counter' = BaseAddress
      /\ bytes' = load_program([o \in Offsets |-> 0], ProgramOf(kind))
  BY Zenon DEF ResetWorkload, ClearedMemory
<1>3. /\ instruction_cache' = EmptyCache(cache_configuration.instruction)
      /\ data_cache' = EmptyCache(cache_configuration.data)
      /\ load_statistics' = ZeroCacheStatistics
      /\ store_statistics' = ZeroCacheStatistics
      /\ branch_predictor' = NewPredictor(branch_configuration)
      /\ instructions_observed' = 0
  BY Zenon DEF ResetWorkload, AnalyzerReset, ResetCache, ResetPredictor
<1>. QED
  BY <1>1, <1>2, <1>3, Zenon DEF FirstState

LEMMA ReportIsOfState ==
    [statistics |-> <<instructions_observed, instruction_cache.statistics,
                      load_statistics, store_statistics, branch_predictor.statistics>>,
     estimate |-> estimate_cycles, state |-> architecture] = ReportOf(MeasuredState)
<1>. DEFINE s == MeasuredState
<1>1. /\ s.registers = registers /\ s.program_counter = program_counter
      /\ s.bytes = bytes
      /\ s.instruction_cache = instruction_cache /\ s.data_cache = data_cache
      /\ s.load_statistics = load_statistics /\ s.store_statistics = store_statistics
      /\ s.branch_predictor = branch_predictor
      /\ s.instructions_observed = instructions_observed
  BY DEF MeasuredState
<1>. HIDE DEF s
<1>2. [statistics |-> <<instructions_observed, instruction_cache.statistics,
                      load_statistics, store_statistics, branch_predictor.statistics>>,
       estimate |-> estimate_cycles, state |-> architecture] = ReportOf(s)
  BY <1>1, Zenon DEF ReportOf, estimate_cycles, architecture
<1>. QED
  BY <1>2 DEF s

-----------------------------------------------------------------------------
(***************************************************************************)
(* No workload leaves its loop.  The inductive invariant of a running      *)
(* iteration: the program is in memory as loaded and the program counter   *)
(* is at one of its words; the pointer of MemoryStride is a word of the    *)
(* data wherever it is used, and the end it is compared with stays.        *)
(***************************************************************************)
WordAddress(k) == BaseAddress + 4 * (k - 1)

DataEnd == kDataBaseAddress + StrideBytes

StrideAt(k, s) ==
    /\ s.registers[2] = DataEnd
    /\ k \in 1 .. 4 => s.registers[1] \in kDataBaseAddress .. (DataEnd - 4)
    /\ k = 5 => s.registers[1] \in kDataBaseAddress .. DataEnd
    /\ k \in 1 .. 5 => s.registers[1] % 4 = 0
    /\ k = 7 => s.registers[1] = kDataBaseAddress

TypedState(s) == s.registers \in [Registers -> Word] /\ s.bytes \in Contents

ProgramIntact(workload, s) ==
    \A k \in DOMAIN ProgramOf(workload) :
        read32(s.bytes, WordAddress(k)) = ProgramOf(workload)[k]

AtWord(workload, k, s) ==
    /\ k \in DOMAIN ProgramOf(workload)
    /\ s.program_counter = WordAddress(k)
    /\ workload = "MemoryStride" => StrideAt(k, s)

LoopState(workload, s) ==
    /\ TypedState(s)
    /\ ProgramIntact(workload, s)
    /\ \E k \in DOMAIN ProgramOf(workload) : AtWord(workload, k, s)

\* Three programs, one table.
LEMMA ProgramLengths ==
    /\ Len(kIntegerMixProgram) = 6
    /\ Len(kMemoryStrideProgram) = 7
    /\ Len(kBranchPatternProgram) = 7
    /\ \E S : {kIntegerMixProgram, kMemoryStrideProgram, kBranchPatternProgram}
                 \subseteq Seq(S)
<1>1. /\ Len(kIntegerMixProgram) = 6 /\ DOMAIN kIntegerMixProgram = 1 .. 6
      /\ kIntegerMixProgram = [k \in 1 .. 6 |-> kIntegerMixProgram[k]]
  BY DEF kIntegerMixProgram
<1>2. /\ Len(kMemoryStrideProgram) = 7 /\ DOMAIN kMemoryStrideProgram = 1 .. 7
      /\ kMemoryStrideProgram = [k \in 1 .. 7 |-> kMemoryStrideProgram[k]]
  BY DEF kMemoryStrideProgram
<1>3. /\ Len(kBranchPatternProgram) = 7 /\ DOMAIN kBranchPatternProgram = 1 .. 7
      /\ kBranchPatternProgram = [k \in 1 .. 7 |-> kBranchPatternProgram[k]]
  BY DEF kBranchPatternProgram
<1>. DEFINE S == {kIntegerMixProgram[k] : k \in 1 .. 6}
                 \cup {kMemoryStrideProgram[k] : k \in 1 .. 7}
                 \cup {kBranchPatternProgram[k] : k \in 1 .. 7}
<1>4. /\ \A k \in 1 .. 6 : kIntegerMixProgram[k] \in S
      /\ \A k \in 1 .. 7 : kMemoryStrideProgram[k] \in S
      /\ \A k \in 1 .. 7 : kBranchPatternProgram[k] \in S
  OBVIOUS
<1>. HIDE DEF S
<1>5. /\ kIntegerMixProgram \in [1 .. 6 -> S]
      /\ kMemoryStrideProgram \in [1 .. 7 -> S]
      /\ kBranchPatternProgram \in [1 .. 7 -> S]
  BY <1>1, <1>2, <1>3, <1>4, Zenon
<1>6. ASSUME NEW n \in Nat, NEW p \in [1 .. n -> S]
      PROVE  p \in Seq(S)
  OBVIOUS
<1>7. {kIntegerMixProgram, kMemoryStrideProgram, kBranchPatternProgram} \subseteq Seq(S)
  BY <1>5, <1>6
<1>. QED
  BY <1>1, <1>2, <1>3, <1>7

\* The instruction at a word of a workload.
CodeOf(workload) ==
    CASE workload = "IntegerMix" -> kIntegerMixProgram
      [] workload = "MemoryStride" -> kMemoryStrideProgram
      [] workload = "BranchPattern" -> kBranchPatternProgram

LEMMA TableOfPrograms ==
    ASSUME NEW workload \in WorkloadKinds
    PROVE  /\ Len(CodeOf(workload)) \in {6, 7}
           /\ DOMAIN ProgramOf(workload) = 1 .. Len(CodeOf(workload))
           /\ Len(ProgramOf(workload)) = Len(CodeOf(workload))
           /\ DOMAIN BenchmarkInstructions = 1 .. 20
           /\ \A k \in DOMAIN ProgramOf(workload) :
                 /\ ProgramOf(workload)[k] \in 1 .. 20
                 /\ BenchmarkInstructions[ProgramOf(workload)[k]] = CodeOf(workload)[k]
<1>1. PICK S : {kIntegerMixProgram, kMemoryStrideProgram, kBranchPatternProgram}
                  \subseteq Seq(S)
  BY ProgramLengths
<1>. DEFINE first == kIntegerMixProgram \o kMemoryStrideProgram
<1>a. /\ kIntegerMixProgram \in Seq(S) /\ kMemoryStrideProgram \in Seq(S)
      /\ kBranchPatternProgram \in Seq(S)
  BY <1>1
<1>b. /\ first \in Seq(S)
      /\ Len(first) = Len(kIntegerMixProgram) + Len(kMemoryStrideProgram)
      /\ \A j \in 1 .. Len(kIntegerMixProgram) + Len(kMemoryStrideProgram) :
            first[j] = IF j <= Len(kIntegerMixProgram) THEN kIntegerMixProgram[j]
                       ELSE kMemoryStrideProgram[j - Len(kIntegerMixProgram)]
  BY <1>a, ConcatProperties
<1>. HIDE DEF first
<1>2. /\ first \in Seq(S) /\ Len(first) = 13
      /\ \A j \in 1 .. 6 : first[j] = kIntegerMixProgram[j]
      /\ \A j \in 7 .. 13 : first[j] = kMemoryStrideProgram[j - 6]
  BY <1>b, ProgramLengths
<1>. DEFINE all == first \o kBranchPatternProgram
<1>c. /\ all \in Seq(S)
      /\ Len(all) = Len(first) + Len(kBranchPatternProgram)
      /\ \A j \in 1 .. Len(first) + Len(kBranchPatternProgram) :
            all[j] = IF j <= Len(first) THEN first[j]
                     ELSE kBranchPatternProgram[j - Len(first)]
  BY <1>a, <1>2, ConcatProperties
<1>4. BenchmarkInstructions = all
  BY Zenon DEF BenchmarkInstructions, first
<1>. HIDE DEF all
<1>3. /\ DOMAIN all = 1 .. 20
      /\ \A j \in 1 .. 6 : all[j] = kIntegerMixProgram[j]
      /\ \A j \in 7 .. 13 : all[j] = kMemoryStrideProgram[j - 6]
      /\ \A j \in 14 .. 20 : all[j] = kBranchPatternProgram[j - 13]
  <2>1. /\ DOMAIN all = 1 .. 20
        /\ \A j \in 1 .. 13 : all[j] = first[j]
        /\ \A j \in 14 .. 20 : all[j] = kBranchPatternProgram[j - 13]
    BY <1>c, <1>2, ProgramLengths
  <2>. QED
    BY <1>2, <2>1
<1>5. /\ DOMAIN BenchmarkInstructions = 1 .. 20
      /\ \A j \in 1 .. 6 : BenchmarkInstructions[j] = kIntegerMixProgram[j]
      /\ \A j \in 7 .. 13 : BenchmarkInstructions[j] = kMemoryStrideProgram[j - 6]
      /\ \A j \in 14 .. 20 : BenchmarkInstructions[j] = kBranchPatternProgram[j - 13]
  BY <1>3, <1>4, Zenon
<1>6. CASE workload = "IntegerMix"
  <2>1. CodeOf(workload) = kIntegerMixProgram
    BY <1>6 DEF CodeOf
  <2>2. ProgramOf(workload) = [k \in 1 .. 6 |-> 1 + k - 1]
    BY <1>6, ProgramLengths DEF ProgramOf
  <2>. QED
    BY <1>5, <2>1, <2>2, ProgramLengths
<1>7. CASE workload = "MemoryStride"
  <2>1. CodeOf(workload) = kMemoryStrideProgram
    BY <1>7 DEF CodeOf
  <2>2. ProgramOf(workload) = [k \in 1 .. 7 |-> 1 + 6 + k - 1]
    BY <1>7, ProgramLengths DEF ProgramOf
  <2>. QED
    BY <1>5, <2>1, <2>2, ProgramLengths
<1>8. CASE workload = "BranchPattern"
  <2>1. CodeOf(workload) = kBranchPatternProgram
    BY <1>8 DEF CodeOf
  <2>2. ProgramOf(workload) = [k \in 1 .. 7 |-> 1 + 6 + 7 + k - 1]
    BY <1>8, ProgramLengths DEF ProgramOf
  <2>. QED
    BY <1>5, <2>1, <2>2, ProgramLengths
<1>. QED
  BY <1>6, <1>7, <1>8 DEF WorkloadKinds

(***************************************************************************)
(* Where the program and the data are.                                     *)
(***************************************************************************)
LEMMA Layout ==
    /\ BaseAddress \in Nat /\ kDataBaseAddress \in Nat /\ StrideBytes \in Nat
    /\ SizeBytes \in Nat /\ WordValues \in Nat \ {0}
    /\ DataEnd \in Word /\ DataEnd \in Nat /\ DataEnd % 4 = 0 /\ DataEnd < WordValues
    /\ BaseAddress % 4 = 0 /\ kDataBaseAddress % 4 = 0
    /\ kDataBaseAddress + 4 <= DataEnd
    /\ BaseAddress + 28 <= kDataBaseAddress
    /\ DataEnd <= BaseAddress + SizeBytes
<1>1. /\ BaseAddress \in Nat /\ kDataBaseAddress \in Nat /\ SizeBytes \in Nat
      /\ WordValues \in Nat \ {0} /\ StrideBytes \in Nat \ {0}
  BY RegionAssumption, BenchmarkAssumption, WordIsInt, WordSizes
<1>2. /\ BaseAddress % 4 = 0 /\ kDataBaseAddress % 4 = 0 /\ StrideBytes % 4 = 0
  BY BenchmarkAssumption
<1>3. /\ DataEnd \in Word /\ DataEnd <= BaseAddress + SizeBytes
      /\ BaseAddress + 28 <= kDataBaseAddress
  BY BenchmarkAssumption, ProgramLengths DEF DataEnd, EndAddressExclusive
<1>4. DataEnd = kDataBaseAddress + StrideBytes
  BY DEF DataEnd
<1>5. DataEnd % 4 = 0 /\ StrideBytes >= 4
  BY <1>1, <1>2, <1>4
<1>6. DataEnd < WordValues
  BY <1>1, <1>3 DEF Word
<1>. QED
  BY <1>1, <1>2, <1>3, <1>4, <1>5, <1>6

LEMMA WordIsMapped ==
    ASSUME NEW workload \in WorkloadKinds, NEW k \in DOMAIN ProgramOf(workload)
    PROVE  /\ k \in 1 .. 7
           /\ WordAddress(k) \in Word
           /\ WordAddress(k) % 4 = 0
           /\ WordAddress(k) + 4 <= kDataBaseAddress
           /\ InBounds(WordAddress(k), 4)
           /\ AccessError(WordAddress(k), 4) = {}
<1>1. k \in 1 .. 7
  BY TableOfPrograms
<1>2. /\ WordAddress(k) \in Nat /\ WordAddress(k) >= BaseAddress
      /\ WordAddress(k) + 4 <= BaseAddress + 28
  BY <1>1, Layout DEF WordAddress
<1>3. WordAddress(k) % 4 = 0
  BY <1>1, Layout DEF WordAddress
<1>4. WordAddress(k) \in Word
  BY <1>2, Layout DEF Word
<1>5. InBounds(WordAddress(k), 4)
  BY <1>2, Layout DEF InBounds
<1>. QED
  BY <1>1, <1>2, <1>3, <1>4, <1>5, Layout DEF AccessError, Aligned

LEMMA DataIsMapped ==
    ASSUME NEW address \in kDataBaseAddress .. (DataEnd - 4), address % 4 = 0
    PROVE  /\ address \in Word /\ InBounds(address, 4)
           /\ AccessError(address, 4) = {}
<1>1. address \in Nat /\ address >= kDataBaseAddress /\ address + 4 <= DataEnd
  BY Layout
<1>2. address \in Word
  BY <1>1, Layout DEF Word
<1>3. InBounds(address, 4)
  BY <1>1, Layout DEF InBounds
<1>. QED
  BY <1>2, <1>3 DEF AccessError, Aligned

\* Adding an immediate that stands for a number of either sign.
LEMMA AddImmediate ==
    ASSUME NEW v \in Nat, NEW d \in Int, v + d \in Word
    PROVE  WrapAdd(v, d % WordValues) = v + d
<1>. DEFINE n == WordValues
            m == d % n
            q == d \div n
<1>1. n \in Nat \ {0}
  BY WordSizes
<1>2. m \in 0 .. (n - 1) /\ q \in Int /\ d = n * q + m
  BY <1>1
<1>3. v + d \in 0 .. (n - 1)
  BY DEF Word
<1>. HIDE DEF n, m, q
<1>4. n * q \in Int /\ v + m = n * (0 - q) + (v + d)
  <2>1. n * q \in Int /\ n * (0 - q) = 0 - n * q
    BY <1>1, <1>2
  <2>. QED
    BY <1>1, <1>2, <1>3, <2>1
<1>5. 0 - q \in Nat
  <2>1. CASE q >= 1
    <3>1. n * q >= n
      BY <1>1, <1>2, <2>1
    <3>. QED
      BY <1>1, <1>2, <1>3, <3>1
  <2>. QED
    BY <1>2, <2>1
<1>6. (v + m) % n = v + d
  BY <1>1, <1>3, <1>4, <1>5, ModUnique
<1>. QED
  BY <1>6 DEF WrapAdd, n, m

LEMMA DecodesTo ==
    ASSUME NEW workload \in WorkloadKinds, NEW s, ProgramIntact(workload, s),
           NEW k \in DOMAIN ProgramOf(workload), s.program_counter = WordAddress(k)
    PROVE  /\ Decode(read32(s.bytes, s.program_counter)) = {CodeOf(workload)[k]}
           /\ DecodedAt(s) = CodeOf(workload)[k]
           /\ CodeOf(workload)[k] \in DecodedInstruction
<1>. DEFINE raw == ProgramOf(workload)[k]
            i == CodeOf(workload)[k]
<1>1. raw \in 1 .. 20 /\ BenchmarkInstructions[raw] = i
  BY TableOfPrograms
<1>2. raw \in DOMAIN BenchmarkInstructions /\ raw \in Word
  <2>1. DOMAIN BenchmarkInstructions = 1 .. 20
    BY TableOfPrograms
  <2>2. 1 .. 20 \subseteq Word
    BY Layout DEF Word
  <2>. HIDE DEF raw
  <2>. QED
    BY <1>1, <2>1, <2>2, Zenon
<1>3. Decode(raw) = {BenchmarkInstructions[raw]}
  BY <1>2, BenchmarkAssumption
<1>4. read32(s.bytes, s.program_counter) = raw
  BY DEF ProgramIntact
<1>. HIDE DEF raw, i
<1>5. Decode(raw) = {i}
  BY <1>1, <1>3
<1>6. i \in DecodedInstruction
  BY <1>2, <1>5, DecodeAssumption
<1>7. DecodedAt(s) = i
  <2>1. DecodedAt(s) \in {i}
    BY <1>4, <1>5, Zenon DEF DecodedAt
  <2>. QED
    BY <2>1
<1>8. Decode(read32(s.bytes, s.program_counter)) = {i}
  BY <1>4, <1>5, Zenon
<1>. QED
  BY <1>6, <1>7, <1>8 DEF i

(***************************************************************************)
(* One instruction: registers stay words, memory stays memory, and a store *)
(* into the data leaves the program alone.                                 *)
(***************************************************************************)
LEMMA OperandTyped ==
    ASSUME NEW s, TypedState(s), NEW r \in Registers
    PROVE  Operand(s, r) \in Word
BY WordConstants DEF TypedState, Operand

LEMMA AfterTyped ==
    ASSUME NEW s, TypedState(s), s.program_counter \in Word,
           NEW i \in DecodedInstruction, Completes(i, s)
    PROVE  /\ TypedState(StateAfter(i, s))
           /\ \A r \in Registers :
                 /\ r # i.destination => RegistersAfter(i, s)[r] = s.registers[r]
                 /\ \A v : (r = i.destination /\ r # 0 /\ ResultOf(i, s) = {v})
                              => RegistersAfter(i, s)[r] = v
<1>1. /\ i.source1 \in Registers /\ i.source2 \in Registers
      /\ i.destination \in Registers /\ i.immediate \in Word
  BY DEF DecodedInstruction
<1>2. Operand(s, i.source1) \in Word /\ Operand(s, i.source2) \in Word
  BY <1>1, OperandTyped
<1>3. AddressOf(i, s) \in Word
  BY <1>1, <1>2, AddClosed, WordIsInt DEF AddressOf
<1>4. s.registers \in [Registers -> Word] /\ s.bytes \in Contents
  BY DEF TypedState
<1>5. ResultOf(i, s) \subseteq Word
  <2>1. CASE i.opcode = "OpImmediate"
    <3>1. ResultOf(i, s) = execute_op_immediate(i, Operand(s, i.source1))
      BY <2>1 DEF ResultOf
    <3>. QED
      BY <1>1, <1>2, <3>1, OpImmediateClosed
  <2>2. CASE i.opcode = "Op"
    <3>1. ResultOf(i, s) = execute_op(i, Operand(s, i.source1), Operand(s, i.source2))
      BY <2>2 DEF ResultOf
    <3>. QED
      BY <1>2, <3>1, OpClosed
  <2>3. CASE i.opcode = "Lui"
    BY <1>1, <2>3 DEF ResultOf, Some
  <2>4. CASE i.opcode = "Jal"
    <3>1. s.program_counter \in Int
      BY WordIsInt
    <3>2. WrapAdd(s.program_counter, 4) \in Word
      BY <3>1, AddClosed
    <3>. QED
      BY <2>4, <3>2 DEF ResultOf, Some
  <2>5. CASE i.opcode = "Load"
    <3>1. AccessError(AddressOf(i, s), 4) = {}
      BY <2>5 DEF Completes
    <3>2. InBounds(AddressOf(i, s), 4)
      BY <3>1, NoErrorInBounds
    <3>3. read32(s.bytes, AddressOf(i, s)) \in Word
      BY <1>3, <1>4, <3>2, Read32Typed
    <3>. QED
      BY <2>5, <3>3 DEF ResultOf, Some
  <2>6. CASE i.opcode \in {"Branch", "Store"}
    BY <2>6 DEF ResultOf, NullOpt
  <2>. QED
    BY <2>1, <2>2, <2>3, <2>4, <2>5, <2>6 DEF Completes
<1>. DEFINE u == CHOOSE v \in ResultOf(i, s) : TRUE
<1>6. /\ ResultOf(i, s) # NullOpt => u \in Word
      /\ \A v : ResultOf(i, s) = {v} => u = v
  <2>1. ResultOf(i, s) # {} => u \in ResultOf(i, s)
    OBVIOUS
  <2>. HIDE DEF u
  <2>. QED
    BY <1>5, <2>1 DEF NullOpt
<1>7. RegistersAfter(i, s) = IF ResultOf(i, s) = NullOpt \/ i.destination = 0
                             THEN s.registers
                             ELSE [s.registers EXCEPT ![i.destination] = u]
  BY Zenon DEF RegistersAfter
<1>. HIDE DEF u
<1>8. RegistersAfter(i, s) \in [Registers -> Word]
  BY <1>1, <1>4, <1>6, <1>7
<1>9. BytesAfter(i, s) \in Contents
  <2>1. CASE i.opcode = "Store"
    <3>1. AccessError(AddressOf(i, s), 4) = {}
      BY <2>1 DEF Completes
    <3>2. InBounds(AddressOf(i, s), 4)
      BY <3>1, NoErrorInBounds
    <3>3. write32(s.bytes, AddressOf(i, s), Operand(s, i.source2)) \in Contents
      BY <1>2, <1>3, <1>4, <3>2, WritesTyped
    <3>. QED
      BY <2>1, <3>3 DEF BytesAfter
  <2>2. CASE i.opcode # "Store"
    BY <1>4, <2>2 DEF BytesAfter
  <2>. QED
    BY <2>1, <2>2
<1>10. /\ StateAfter(i, s).registers = RegistersAfter(i, s)
       /\ StateAfter(i, s).bytes = BytesAfter(i, s)
  BY DEF StateAfter
<1>11. TypedState(StateAfter(i, s))
  BY <1>8, <1>9, <1>10 DEF TypedState
<1>12. ASSUME NEW r \in Registers
       PROVE  /\ r # i.destination => RegistersAfter(i, s)[r] = s.registers[r]
              /\ \A v : (r = i.destination /\ r # 0 /\ ResultOf(i, s) = {v})
                           => RegistersAfter(i, s)[r] = v
  BY <1>1, <1>4, <1>6, <1>7 DEF NullOpt
<1>. QED
  BY <1>11, <1>12

LEMMA AfterIntact ==
    ASSUME NEW workload \in WorkloadKinds, NEW s, TypedState(s),
           ProgramIntact(workload, s), NEW i,
           i.opcode = "Store" => /\ AddressOf(i, s) \in Word
                                 /\ AddressOf(i, s) >= kDataBaseAddress
    PROVE  ProgramIntact(workload, StateAfter(i, s))
<1>1. StateAfter(i, s).bytes = BytesAfter(i, s)
  BY DEF StateAfter
<1>2. CASE i.opcode # "Store"
  BY <1>1, <1>2 DEF BytesAfter, ProgramIntact
<1>3. CASE i.opcode = "Store"
  <2>. DEFINE a == AddressOf(i, s)
              b == write32(s.bytes, a, Operand(s, i.source2))
  <2>1. a \in Word /\ a >= kDataBaseAddress /\ a \in Nat
    BY <1>3, WordIsInt
  <2>2. ASSUME NEW k \in DOMAIN ProgramOf(workload)
        PROVE  read32(b, WordAddress(k)) = read32(s.bytes, WordAddress(k))
    <3>. DEFINE o == Offset(WordAddress(k))
    <3>1. /\ WordAddress(k) \in Word /\ WordAddress(k) + 4 <= kDataBaseAddress
          /\ InBounds(WordAddress(k), 4) /\ WordAddress(k) \in Nat
      BY WordIsMapped, WordIsInt
    <3>2. /\ o \in Nat /\ \A n \in 0 .. (4 - 1) : o + n \in Offsets
      BY <3>1, InBoundsOffsets
    <3>3. ASSUME NEW n \in 0 .. 3
          PROVE  b[o + n] = s.bytes[o + n]
      <4>1. BaseAddress + (o + n) = WordAddress(k) + n
        BY <3>1, Layout DEF Offset
      <4>2. BaseAddress + (o + n) \notin a .. (a + 4 - 1)
        BY <2>1, <3>1, <4>1, Layout
      <4>3. o + n \in Offsets
        BY <3>2
      <4>4. s.bytes \in Contents /\ 4 \in {1, 2, 4}
        BY DEF TypedState
      <4>. QED
        BY <2>1, <4>2, <4>3, <4>4, StoreFrame
    <3>4. b[o + 0] = s.bytes[o + 0] /\ b[o + 1] = s.bytes[o + 1]
          /\ b[o + 2] = s.bytes[o + 2] /\ b[o + 3] = s.bytes[o + 3]
      BY <3>3
    <3>5. b[o] = s.bytes[o]
      BY <3>2, <3>4
    <3>. HIDE DEF b, o
    <3>. QED
      BY <3>4, <3>5 DEF read32, o
  <2>3. StateAfter(i, s).bytes = b
    BY <1>1, <1>3 DEF BytesAfter
  <2>. HIDE DEF b
  <2>. QED
    BY <2>2, <2>3 DEF ProgramIntact
<1>. QED
  BY <1>2, <1>3

\* What remains to be shown of each instruction of each workload.
LEMMA StaysInLoop ==
    ASSUME NEW workload \in WorkloadKinds, NEW s, TypedState(s),
           ProgramIntact(workload, s), NEW k \in DOMAIN ProgramOf(workload),
           s.program_counter = WordAddress(k), NEW i, i = CodeOf(workload)[k],
           Completes(i, s),
           i.opcode = "Store" => /\ AddressOf(i, s) \in Word
                                 /\ AddressOf(i, s) >= kDataBaseAddress,
           NEW j \in DOMAIN ProgramOf(workload), NextAddress(i, s) = WordAddress(j),
           workload = "MemoryStride" => StrideAt(j, StateAfter(i, s))
    PROVE  LoopState(workload, StateAfter(i, s))
<1>1. i \in DecodedInstruction
  BY DecodesTo
<1>2. s.program_counter \in Word
  BY WordIsMapped
<1>3. TypedState(StateAfter(i, s))
  BY <1>1, <1>2, AfterTyped
<1>4. ProgramIntact(workload, StateAfter(i, s))
  BY AfterIntact
<1>5. StateAfter(i, s).program_counter = NextAddress(i, s)
  BY DEF StateAfter
<1>6. AtWord(workload, j, StateAfter(i, s))
  BY <1>5 DEF AtWord
<1>. QED
  BY <1>3, <1>4, <1>6 DEF LoopState

LEMMA GoesOn ==
    ASSUME NEW workload \in WorkloadKinds, NEW s, NEW i,
           NEW k \in DOMAIN ProgramOf(workload), k + 1 \in DOMAIN ProgramOf(workload),
           s.program_counter = WordAddress(k), ~ TakenIn(i, s)
    PROVE  NextAddress(i, s) = WordAddress(k + 1) /\ NextAddress(i, s) % 4 = 0
<1>1. k \in 1 .. 7 /\ WordAddress(k) \in Nat
  BY WordIsMapped, WordIsInt
<1>2. WordAddress(k + 1) = WordAddress(k) + 4
  BY <1>1, Layout DEF WordAddress
<1>3. WordAddress(k) + 4 \in 0 .. (WordValues - 1) /\ WordAddress(k + 1) % 4 = 0
  BY <1>2, WordIsMapped DEF Word
<1>4. (WordAddress(k) + 4) % WordValues = WordAddress(k) + 4
  BY <1>1, <1>3, Layout
<1>. QED
  BY <1>2, <1>3, <1>4 DEF NextAddress, WrapAdd

LEMMA JumpsBack ==
    ASSUME NEW workload \in WorkloadKinds, NEW s, NEW i,
           NEW k \in DOMAIN ProgramOf(workload), NEW j \in DOMAIN ProgramOf(workload),
           s.program_counter = WordAddress(k), TakenIn(i, s),
           i.immediate = (4 * (j - k)) % WordValues
    PROVE  NextAddress(i, s) = WordAddress(j) /\ NextAddress(i, s) % 4 = 0
<1>1. k \in 1 .. 7 /\ j \in 1 .. 7 /\ WordAddress(k) \in Nat
      /\ WordAddress(j) \in Word /\ WordAddress(j) % 4 = 0
  BY WordIsMapped, WordIsInt
<1>2. WordAddress(j) = WordAddress(k) + 4 * (j - k) /\ 4 * (j - k) \in Int
  BY <1>1, Layout DEF WordAddress
<1>3. WrapAdd(WordAddress(k), (4 * (j - k)) % WordValues) = WordAddress(j)
  BY <1>1, <1>2, AddImmediate
<1>. QED
  BY <1>1, <1>3 DEF NextAddress

\* The instructions that compute, where memory does not matter.
LEMMA ComputeStays ==
    ASSUME NEW workload \in WorkloadKinds, NEW s, TypedState(s),
           ProgramIntact(workload, s), NEW k \in DOMAIN ProgramOf(workload),
           k + 1 \in DOMAIN ProgramOf(workload),
           s.program_counter = WordAddress(k), NEW i, i = CodeOf(workload)[k],
           \/ i.opcode \in {"OpImmediate", "Op"} /\ ResultOf(i, s) # NullOpt
           \/ i.opcode = "Lui",
           workload = "MemoryStride" => StrideAt(k + 1, StateAfter(i, s))
    PROVE  Completes(i, s) /\ LoopState(workload, StateAfter(i, s))
<1>1. Completes(i, s) /\ ~ TakenIn(i, s) /\ i.opcode # "Store"
  BY DEF Completes, TakenIn
<1>2. NextAddress(i, s) = WordAddress(k + 1)
  BY <1>1, GoesOn
<1>. QED
  BY <1>1, <1>2, StaysInLoop

LEMMA JumpStays ==
    ASSUME NEW workload \in WorkloadKinds, NEW s, TypedState(s),
           ProgramIntact(workload, s), NEW k \in DOMAIN ProgramOf(workload),
           s.program_counter = WordAddress(k), NEW i, i = CodeOf(workload)[k],
           i.opcode = "Jal", NEW j \in DOMAIN ProgramOf(workload),
           i.immediate = (4 * (j - k)) % WordValues,
           workload = "MemoryStride" => StrideAt(j, StateAfter(i, s))
    PROVE  Completes(i, s) /\ LoopState(workload, StateAfter(i, s))
<1>1. TakenIn(i, s)
  BY DEF TakenIn
<1>2. NextAddress(i, s) = WordAddress(j) /\ NextAddress(i, s) % 4 = 0
  BY <1>1, JumpsBack
<1>3. Completes(i, s) /\ i.opcode # "Store"
  BY <1>2 DEF Completes
<1>. QED
  BY <1>2, <1>3, StaysInLoop

LEMMA BranchStays ==
    ASSUME NEW workload \in WorkloadKinds, NEW s, TypedState(s),
           ProgramIntact(workload, s), NEW k \in DOMAIN ProgramOf(workload),
           k + 1 \in DOMAIN ProgramOf(workload),
           s.program_counter = WordAddress(k), NEW i, i = CodeOf(workload)[k],
           i.opcode = "Branch", BranchOf(i, s) \in {Some(TRUE), Some(FALSE)},
           NEW j \in DOMAIN ProgramOf(workload),
           i.immediate = (4 * (j - k)) % WordValues,
           workload = "MemoryStride" =>
               IF TakenIn(i, s) THEN StrideAt(j, StateAfter(i, s))
               ELSE StrideAt(k + 1, StateAfter(i, s))
    PROVE  Completes(i, s) /\ LoopState(workload, StateAfter(i, s))
<1>1. NextAddress(i, s) % 4 = 0
  BY GoesOn, JumpsBack
<1>2. Completes(i, s) /\ i.opcode # "Store"
  BY <1>1 DEF Completes
<1>3. CASE TakenIn(i, s)
  <2>1. NextAddress(i, s) = WordAddress(j)
    BY <1>3, JumpsBack
  <2>. QED
    BY <1>2, <1>3, <2>1, StaysInLoop
<1>4. CASE ~ TakenIn(i, s)
  <2>1. NextAddress(i, s) = WordAddress(k + 1)
    BY <1>4, GoesOn
  <2>. QED
    BY <1>2, <1>4, <2>1, StaysInLoop
<1>. QED
  BY <1>3, <1>4

\* The functions of the workloads' arithmetic and branches are supported ones.
LEMMA SupportedFunctions ==
    ASSUME NEW i, NEW s
    PROVE  /\ (i.opcode = "OpImmediate" /\ i.function3 \in {0, 7}) =>
                 ResultOf(i, s) # NullOpt
           /\ (i.opcode = "Op" /\ i.function7 = 0 /\ i.function3 \in {0, 4}) =>
                 ResultOf(i, s) # NullOpt
           /\ (i.opcode = "Op" /\ i.function7 = 1 /\ i.function3 = 0) =>
                 ResultOf(i, s) # NullOpt
           /\ i.function3 \in {0, 1, 6} => BranchOf(i, s) \in {Some(TRUE), Some(FALSE)}
<1>1. \A v : Some(v) # NullOpt
  BY SomeValue
<1>2. ASSUME i.opcode = "OpImmediate", i.function3 \in {0, 7}
      PROVE  \E v : ResultOf(i, s) = Some(v)
  BY <1>2 DEF ResultOf, execute_op_immediate
<1>3. ASSUME i.opcode = "Op", i.function7 = 0, i.function3 \in {0, 4}
      PROVE  \E v : ResultOf(i, s) = Some(v)
  BY <1>3 DEF ResultOf, execute_op, execute_base_op
<1>4. ASSUME i.opcode = "Op", i.function7 = 1, i.function3 = 0
      PROVE  \E v : ResultOf(i, s) = Some(v)
  BY <1>4 DEF ResultOf, execute_op, execute_m_extension
<1>5. ASSUME i.function3 \in {0, 1, 6}
      PROVE  BranchOf(i, s) \in {Some(TRUE), Some(FALSE)}
  <2>. DEFINE a == Operand(s, i.source1)
              b == Operand(s, i.source2)
  <2>1. BranchOf(i, s) \in {Some(a = b), Some(a # b), Some(a < b)}
    BY <1>5 DEF BranchOf, evaluate_branch
  <2>2. (a = b) \in BOOLEAN /\ (a # b) \in BOOLEAN /\ (a < b) \in BOOLEAN
    OBVIOUS
  <2>. HIDE DEF a, b
  <2>. QED
    BY <2>1, <2>2 DEF Some
<1>. QED
  BY <1>1, <1>2, <1>3, <1>4, <1>5, Zenon

LEMMA IntegerMixStays ==
    ASSUME NEW s, LoopState("IntegerMix", s)
    PROVE  /\ Completes(DecodedAt(s), s)
           /\ LoopState("IntegerMix", StateAfter(DecodedAt(s), s))
<1>. DEFINE workload == "IntegerMix"
            code == CodeOf(workload)
<1>0. workload \in WorkloadKinds /\ workload # "MemoryStride"
  BY DEF WorkloadKinds
<1>1. /\ TypedState(s) /\ ProgramIntact(workload, s)
  BY DEF LoopState
<1>2. PICK k \in DOMAIN ProgramOf(workload) : s.program_counter = WordAddress(k)
  BY DEF LoopState, AtWord
<1>3. code = kIntegerMixProgram /\ DOMAIN ProgramOf(workload) = 1 .. 6
  BY <1>0, TableOfPrograms, ProgramLengths DEF CodeOf
<1>. DEFINE i == code[k]
<1>4. DecodedAt(s) = i
  BY <1>0, <1>1, <1>2, DecodesTo
<1>5. k \in 1 .. 5 =>
         \/ i.opcode = "OpImmediate" /\ i.function3 = 0
         \/ i.opcode = "Op" /\ i.function7 = 0 /\ i.function3 \in {0, 4}
         \/ i.opcode = "Op" /\ i.function7 = 1 /\ i.function3 = 0
  BY <1>3 DEF kIntegerMixProgram, immediate_operation, register_operation, Instruction
<1>6. k = 6 => i.opcode = "Jal" /\ i.immediate = (4 * (1 - k)) % WordValues
  BY <1>3 DEF kIntegerMixProgram, jump, Instruction
<1>. HIDE DEF workload, i, code
<1>7. CASE k \in 1 .. 5
  <2>1. k + 1 \in DOMAIN ProgramOf(workload)
    BY <1>3, <1>7
  <2>2. i.opcode \in {"OpImmediate", "Op"} /\ ResultOf(i, s) # NullOpt
    BY <1>5, <1>7, SupportedFunctions
  <2>. QED
    BY <1>0, <1>1, <1>2, <1>4, <2>1, <2>2, ComputeStays DEF i, code, workload
<1>8. CASE k = 6
  <2>1. 1 \in DOMAIN ProgramOf(workload)
    BY <1>3
  <2>. QED
    BY <1>0, <1>1, <1>2, <1>4, <1>6, <1>8, <2>1, JumpStays DEF i, code, workload
<1>. QED
  BY <1>2, <1>3, <1>7, <1>8

LEMMA BranchPatternStays ==
    ASSUME NEW s, LoopState("BranchPattern", s)
    PROVE  /\ Completes(DecodedAt(s), s)
           /\ LoopState("BranchPattern", StateAfter(DecodedAt(s), s))
<1>. DEFINE workload == "BranchPattern"
            code == CodeOf(workload)
<1>0. workload \in WorkloadKinds /\ workload # "MemoryStride"
  BY DEF WorkloadKinds
<1>1. /\ TypedState(s) /\ ProgramIntact(workload, s)
  BY DEF LoopState
<1>2. PICK k \in DOMAIN ProgramOf(workload) : s.program_counter = WordAddress(k)
  BY DEF LoopState, AtWord
<1>3. code = kBranchPatternProgram /\ DOMAIN ProgramOf(workload) = 1 .. 7
  BY <1>0, TableOfPrograms, ProgramLengths DEF CodeOf
<1>. DEFINE i == code[k]
<1>4. DecodedAt(s) = i
  BY <1>0, <1>1, <1>2, DecodesTo
<1>5. k \in {1, 2, 4, 6} => i.opcode = "OpImmediate" /\ i.function3 \in {0, 7}
  BY <1>3 DEF kBranchPatternProgram, immediate_operation, Instruction
<1>6. k \in {3, 5} => /\ i.opcode = "Branch" /\ i.function3 \in {0, 1}
                      /\ \E j \in {1, 5} : i.immediate = (4 * (j - k)) % WordValues
  BY <1>3 DEF kBranchPatternProgram, branch, Instruction
<1>7. k = 7 => i.opcode = "Jal" /\ i.immediate = (4 * (1 - k)) % WordValues
  BY <1>3 DEF kBranchPatternProgram, jump, Instruction
<1>. HIDE DEF workload, i, code
<1>8. CASE k \in {1, 2, 4, 6}
  <2>1. k + 1 \in DOMAIN ProgramOf(workload)
    BY <1>3, <1>8
  <2>2. i.opcode \in {"OpImmediate", "Op"} /\ ResultOf(i, s) # NullOpt
    BY <1>5, <1>8, SupportedFunctions
  <2>. QED
    BY <1>0, <1>1, <1>2, <1>4, <2>1, <2>2, ComputeStays DEF i, code, workload
<1>9. CASE k \in {3, 5}
  <2>1. k + 1 \in DOMAIN ProgramOf(workload)
    BY <1>3, <1>9
  <2>2. PICK j \in {1, 5} : i.immediate = (4 * (j - k)) % WordValues
    BY <1>6, <1>9
  <2>3. j \in DOMAIN ProgramOf(workload)
    BY <1>3
  <2>4. i.opcode = "Branch" /\ BranchOf(i, s) \in {Some(TRUE), Some(FALSE)}
    BY <1>6, <1>9, SupportedFunctions
  <2>. QED
    BY <1>0, <1>1, <1>2, <1>4, <2>1, <2>2, <2>3, <2>4, BranchStays
       DEF i, code, workload
<1>10. CASE k = 7
  <2>1. 1 \in DOMAIN ProgramOf(workload)
    BY <1>3
  <2>. QED
    BY <1>0, <1>1, <1>2, <1>4, <1>7, <1>10, <2>1, JumpStays DEF i, code, workload
<1>. QED
  BY <1>2, <1>3, <1>8, <1>9, <1>10

LEMMA AccessStays ==
    ASSUME NEW workload \in WorkloadKinds, NEW s, TypedState(s),
           ProgramIntact(workload, s), NEW k \in DOMAIN ProgramOf(workload),
           k + 1 \in DOMAIN ProgramOf(workload),
           s.program_counter = WordAddress(k), NEW i, i = CodeOf(workload)[k],
           i.opcode \in {"Load", "Store"}, i.function3 = 2,
           AddressOf(i, s) \in kDataBaseAddress .. (DataEnd - 4),
           AddressOf(i, s) % 4 = 0,
           workload = "MemoryStride" => StrideAt(k + 1, StateAfter(i, s))
    PROVE  Completes(i, s) /\ LoopState(workload, StateAfter(i, s))
<1>1. AddressOf(i, s) \in Word /\ AccessError(AddressOf(i, s), 4) = {}
  BY DataIsMapped
<1>2. Completes(i, s) /\ ~ TakenIn(i, s)
  BY <1>1 DEF Completes, TakenIn
<1>3. NextAddress(i, s) = WordAddress(k + 1)
  BY <1>2, GoesOn
<1>4. AddressOf(i, s) >= kDataBaseAddress
  BY Layout
<1>. QED
  BY <1>1, <1>2, <1>3, <1>4, StaysInLoop

\* The decoder returns an instruction with register 3, so the machine has one.
LEMMA LoadsUseRegisters == 0 .. 3 \subseteq Registers
<1>. DEFINE workload == "MemoryStride"
            code == CodeOf(workload)
<1>1. /\ workload \in WorkloadKinds /\ code = kMemoryStrideProgram
      /\ 1 \in DOMAIN ProgramOf(workload)
  BY TableOfPrograms, ProgramLengths DEF WorkloadKinds, CodeOf
<1>. HIDE DEF workload
<1>2. /\ ProgramOf(workload)[1] \in 1 .. 20
      /\ BenchmarkInstructions[ProgramOf(workload)[1]] = code[1]
  BY <1>1, TableOfPrograms
<1>3. /\ ProgramOf(workload)[1] \in Word
      /\ ProgramOf(workload)[1] \in DOMAIN BenchmarkInstructions
  BY <1>1, <1>2, TableOfPrograms, Layout DEF Word
<1>4. code[1] \in DecodedInstruction
  BY <1>2, <1>3, BenchmarkAssumption, DecodeAssumption
<1>5. code[1].destination = 3
  BY <1>1 DEF kMemoryStrideProgram, load_word, Instruction
<1>6. 3 \in Registers
  BY <1>4, <1>5 DEF DecodedInstruction
<1>. QED
  BY <1>6, RegisterAssumption DEF Registers

LEMMA MemoryStrideStays ==
    ASSUME NEW s, LoopState("MemoryStride", s)
    PROVE  /\ Completes(DecodedAt(s), s)
           /\ LoopState("MemoryStride", StateAfter(DecodedAt(s), s))
<1>. DEFINE workload == "MemoryStride"
            code == CodeOf(workload)
<1>0. workload \in WorkloadKinds
  BY DEF WorkloadKinds
<1>1. /\ TypedState(s) /\ ProgramIntact(workload, s)
  BY DEF LoopState
<1>2. PICK k \in DOMAIN ProgramOf(workload) :
         s.program_counter = WordAddress(k) /\ StrideAt(k, s)
  BY DEF LoopState, AtWord
<1>3. code = kMemoryStrideProgram /\ DOMAIN ProgramOf(workload) = 1 .. 7
  BY <1>0, TableOfPrograms, ProgramLengths DEF CodeOf
<1>. DEFINE i == code[k]
            t == StateAfter(i, s)
            p == s.registers[1]
<1>4. DecodedAt(s) = i /\ i \in DecodedInstruction
  BY <1>0, <1>1, <1>2, DecodesTo
<1>k1. k = 1 => /\ i.opcode = "Load" /\ i.function3 = 2 /\ i.destination = 3
                /\ i.source1 = 1 /\ i.immediate = 0 % WordValues
  BY <1>3 DEF kMemoryStrideProgram, load_word, Instruction
<1>k2. k = 2 => i.opcode = "OpImmediate" /\ i.function3 = 0 /\ i.destination = 3
  BY <1>3 DEF kMemoryStrideProgram, immediate_operation, Instruction
<1>k3. k = 3 => /\ i.opcode = "Store" /\ i.function3 = 2 /\ i.destination = 0
                /\ i.source1 = 1 /\ i.immediate = 0 % WordValues
  BY <1>3 DEF kMemoryStrideProgram, store_word, Instruction
<1>k4. k = 4 => /\ i.opcode = "OpImmediate" /\ i.function3 = 0 /\ i.destination = 1
                /\ i.source1 = 1 /\ i.immediate = 4 % WordValues
  BY <1>3 DEF kMemoryStrideProgram, immediate_operation, Instruction
<1>k5. k = 5 => /\ i.opcode = "Branch" /\ i.function3 = 6 /\ i.destination = 0
                /\ i.source1 = 1 /\ i.source2 = 2
                /\ i.immediate = (4 * (1 - k)) % WordValues
  BY <1>3 DEF kMemoryStrideProgram, branch, Instruction
<1>k6. k = 6 => /\ i.opcode = "Lui" /\ i.destination = 1
                /\ i.immediate = kDataBaseAddress % WordValues
  BY <1>3 DEF kMemoryStrideProgram, lui, Instruction
<1>k7. k = 7 => /\ i.opcode = "Jal" /\ i.destination = 0
                /\ i.immediate = (4 * (1 - k)) % WordValues
  BY <1>3 DEF kMemoryStrideProgram, jump, Instruction
<1>. HIDE DEF workload, i, code
<1>5. 0 \in Registers /\ 1 \in Registers /\ 2 \in Registers /\ 3 \in Registers
  BY LoadsUseRegisters
<1>6. s.registers \in [Registers -> Word] /\ p \in Word /\ p \in Nat
  BY <1>1, <1>5, WordIsInt DEF TypedState
<1>7. s.registers[2] = DataEnd
  BY <1>2 DEF StrideAt
<1>8. s.program_counter \in Word
  BY <1>0, <1>2, WordIsMapped
<1>9. t.registers = RegistersAfter(i, s)
  BY DEF StateAfter
<1>10. Operand(s, 1) = p /\ Operand(s, 2) = DataEnd
  BY <1>7 DEF Operand
<1>. HIDE DEF p, t
<1>11. ASSUME Completes(i, s), i.destination \notin {1, 2}
       PROVE  t.registers[1] = p /\ t.registers[2] = DataEnd
  BY <1>1, <1>4, <1>5, <1>7, <1>8, <1>9, <1>11, AfterTyped DEF p
<1>12. ASSUME Completes(i, s), i.destination = 1, NEW v, ResultOf(i, s) = {v}
       PROVE  t.registers[1] = v /\ t.registers[2] = DataEnd
  BY <1>1, <1>4, <1>5, <1>7, <1>8, <1>9, <1>12, AfterTyped
<1>13. k \in 1 .. 5 => p % 4 = 0
  BY <1>2 DEF StrideAt, p
<1>14. k \in 1 .. 4 => p \in kDataBaseAddress .. (DataEnd - 4)
  BY <1>2 DEF StrideAt, p
<1>15. CASE k \in {1, 3}
  <2>1. AddressOf(i, s) = p
    <3>1. AddressOf(i, s) = WrapAdd(p, 0 % WordValues)
      BY <1>15, <1>k1, <1>k3, <1>10 DEF AddressOf
    <3>2. p + 0 = p
      BY <1>6
    <3>. QED
      BY <1>6, <3>1, <3>2, AddImmediate
  <2>2. AddressOf(i, s) \in kDataBaseAddress .. (DataEnd - 4) /\ AddressOf(i, s) % 4 = 0
    BY <1>13, <1>14, <1>15, <2>1
  <2>3. i.opcode \in {"Load", "Store"} /\ i.function3 = 2 /\ i.destination \notin {1, 2}
    BY <1>15, <1>k1, <1>k3
  <2>4. Completes(i, s)
    BY <2>2, <2>3, DataIsMapped DEF Completes
  <2>5. StrideAt(k + 1, t)
    BY <1>11, <1>13, <1>14, <1>15, <2>3, <2>4 DEF StrideAt
  <2>6. k + 1 \in DOMAIN ProgramOf(workload)
    BY <1>3, <1>15
  <2>. QED
    BY <1>0, <1>1, <1>2, <1>4, <2>2, <2>3, <2>5, <2>6, AccessStays
       DEF i, code, workload, t
<1>16. CASE k = 2
  <2>1. i.opcode \in {"OpImmediate", "Op"} /\ ResultOf(i, s) # NullOpt
    BY <1>16, <1>k2, SupportedFunctions
  <2>2. Completes(i, s) /\ i.destination \notin {1, 2}
    <3>1. Completes(i, s)
      BY <2>1 DEF Completes
    <3>. QED
      BY <1>16, <1>k2, <3>1
  <2>3. StrideAt(k + 1, t)
    BY <1>11, <1>13, <1>14, <1>16, <2>2 DEF StrideAt
  <2>4. k + 1 \in DOMAIN ProgramOf(workload)
    BY <1>3, <1>16
  <2>. QED
    BY <1>0, <1>1, <1>2, <1>4, <2>1, <2>3, <2>4, ComputeStays DEF i, code, workload, t
<1>17. CASE k = 4
  <2>1. i.opcode \in {"OpImmediate", "Op"} /\ ResultOf(i, s) # NullOpt
    BY <1>17, <1>k4, SupportedFunctions
  <2>2. Completes(i, s)
    BY <2>1 DEF Completes
  <2>3. p + 4 \in kDataBaseAddress .. DataEnd /\ p + 4 \in Word /\ (p + 4) % 4 = 0
    BY <1>6, <1>13, <1>14, <1>17, Layout DEF Word
  <2>4. ResultOf(i, s) = {WrapAdd(p, 4 % WordValues)}
    BY <1>17, <1>k4, <1>10 DEF ResultOf, execute_op_immediate, Some
  <2>5. WrapAdd(p, 4 % WordValues) = p + 4
    <3>1. 4 \in Int
      OBVIOUS
    <3>. QED
      BY <1>6, <2>3, <3>1, AddImmediate, Zenon
  <2>6. t.registers[1] = p + 4 /\ t.registers[2] = DataEnd
    BY <1>12, <1>17, <1>k4, <2>2, <2>4, <2>5
  <2>7. StrideAt(k + 1, t)
    BY <1>17, <2>3, <2>6 DEF StrideAt
  <2>8. k + 1 \in DOMAIN ProgramOf(workload)
    BY <1>3, <1>17
  <2>. QED
    BY <1>0, <1>1, <1>2, <1>4, <2>1, <2>7, <2>8, ComputeStays DEF i, code, workload, t
<1>18. CASE k = 5
  <2>0. i.opcode = "Branch" /\ i.function3 = 6 /\ i.destination \notin {1, 2}
    BY <1>18, <1>k5
  <2>1. BranchOf(i, s) = Some(p < DataEnd) /\ BranchOf(i, s) \in {Some(TRUE), Some(FALSE)}
    <3>1. BranchOf(i, s) = evaluate_branch(i, p, DataEnd)
      BY <1>18, <1>k5, <1>10 DEF BranchOf
    <3>2. evaluate_branch(i, p, DataEnd) = Some(p < DataEnd)
      BY <2>0 DEF evaluate_branch
    <3>. QED
      BY <2>0, <3>1, <3>2, SupportedFunctions
  <2>2. 1 \in DOMAIN ProgramOf(workload) /\ k + 1 \in DOMAIN ProgramOf(workload)
    BY <1>3, <1>18
  <2>3. NextAddress(i, s) % 4 = 0
    BY <1>0, <1>2, <1>18, <1>k5, <2>2, GoesOn, JumpsBack
  <2>4. Completes(i, s) /\ i.destination \notin {1, 2}
    BY <2>0, <2>1, <2>3, Zenon DEF Completes
  <2>5. p \in kDataBaseAddress .. DataEnd /\ p % 4 = 0
    BY <1>2, <1>13, <1>18 DEF StrideAt, p
  <2>6. ASSUME TakenIn(i, s)
        PROVE  StrideAt(1, t)
    <3>1. Some(p < DataEnd) = Some(TRUE)
      BY <1>18, <1>k5, <2>1, <2>6 DEF TakenIn
    <3>2. p < DataEnd
      BY <3>1, Zenon DEF Some
    <3>3. p \in kDataBaseAddress .. (DataEnd - 4)
      BY <1>6, <2>5, <3>2, Layout
    <3>. QED
      BY <1>11, <2>4, <2>5, <3>3 DEF StrideAt
  <2>7. StrideAt(k + 1, t)
    BY <1>11, <1>18, <2>4 DEF StrideAt
  <2>8. IF TakenIn(i, s) THEN StrideAt(1, t) ELSE StrideAt(k + 1, t)
    BY <2>6, <2>7
  <2>. QED
    BY <1>0, <1>1, <1>2, <1>4, <1>18, <1>k5, <2>1, <2>2, <2>8, BranchStays
       DEF i, code, workload, t
<1>19. CASE k = 6
  <2>1. Completes(i, s) /\ ResultOf(i, s) = {kDataBaseAddress % WordValues}
    BY <1>19, <1>k6 DEF Completes, ResultOf, Some
  <2>2. kDataBaseAddress % WordValues = kDataBaseAddress
    BY Layout
  <2>3. t.registers[1] = kDataBaseAddress /\ t.registers[2] = DataEnd
    BY <1>12, <1>19, <1>k6, <2>1, <2>2
  <2>4. StrideAt(k + 1, t)
    BY <1>19, <2>3 DEF StrideAt
  <2>5. k + 1 \in DOMAIN ProgramOf(workload)
    BY <1>3, <1>19
  <2>. QED
    BY <1>0, <1>1, <1>2, <1>4, <1>19, <1>k6, <2>4, <2>5, ComputeStays
       DEF i, code, workload, t
<1>20. CASE k = 7
  <2>1. 1 \in DOMAIN ProgramOf(workload)
    BY <1>3
  <2>2. NextAddress(i, s) % 4 = 0
    BY <1>0, <1>2, <1>20, <1>k7, <2>1, JumpsBack DEF TakenIn
  <2>3. Completes(i, s) /\ i.destination \notin {1, 2}
    <3>1. i.opcode = "Jal" /\ i.destination \notin {1, 2}
      BY <1>20, <1>k7
    <3>. QED
      BY <2>2, <3>1, Zenon DEF Completes
  <2>4. p = kDataBaseAddress
    BY <1>2, <1>20 DEF StrideAt, p
  <2>5. StrideAt(1, t)
    BY <1>11, <2>3, <2>4, Layout DEF StrideAt
  <2>. QED
    BY <1>0, <1>1, <1>2, <1>4, <1>20, <1>k7, <2>1, <2>5, JumpStays
       DEF i, code, workload, t
<1>. QED
  BY <1>2, <1>3, <1>15, <1>16, <1>17, <1>18, <1>19, <1>20

(***************************************************************************)
(* reset puts the workload at the start of its loop: load_program writes   *)
(* whole words, which read32 reads back.                                   *)
(***************************************************************************)
LEMMA LoadedProgram ==
    ASSUME NEW workload \in WorkloadKinds
    PROVE  LET b == load_program([o \in Offsets |-> 0], ProgramOf(workload))
           IN /\ b \in Contents
              /\ \A k \in DOMAIN ProgramOf(workload) :
                    read32(b, WordAddress(k)) = ProgramOf(workload)[k]
<1>. DEFINE zero == [o \in Offsets |-> 0]
            program == ProgramOf(workload)
            b == load_program(zero, program)
            Written(k) == write32(zero, WordAddress(k), program[k])
<1>1. zero \in Contents
  BY WordSizes DEF Contents, Byte
<1>2. DOMAIN program = 1 .. Len(program) /\ Len(program) \in {6, 7}
  BY TableOfPrograms
<1>3. ASSUME NEW k \in DOMAIN program
      PROVE  program[k] \in Word /\ program[k] \in Nat
  BY TableOfPrograms, Layout DEF Word
<1>. HIDE DEF zero, program
<1>4. ASSUME NEW k \in DOMAIN program
      PROVE  /\ Written(k) \in Contents
             /\ read32(Written(k), WordAddress(k)) = program[k]
  <2>1. WordAddress(k) \in Word /\ InBounds(WordAddress(k), 4)
    BY WordIsMapped DEF program
  <2>2. Written(k) \in Contents
    BY <1>1, <1>3, <2>1, WritesTyped
  <2>3. read32(Written(k), WordAddress(k)) = program[k] % WordValues
    BY <1>1, <1>3, <2>1, WriteThenRead
  <2>4. program[k] % WordValues = program[k]
    BY <1>3, Layout DEF Word
  <2>. QED
    BY <2>2, <2>3, <2>4
<1>5. ASSUME NEW o \in Offsets
      PROVE  /\ o \in Nat /\ o \div 4 \in Nat
             /\ BaseAddress + 4 * (o \div 4) = WordAddress(1 + o \div 4)
             /\ o \div 4 < Len(program) => 1 + o \div 4 \in DOMAIN program
  <2>1. o \in Nat /\ o \div 4 \in Nat
    BY Layout DEF Offsets
  <2>. DEFINE q == o \div 4
  <2>2. (1 + q) - 1 = q /\ (q < Len(program) => 1 + q \in 1 .. Len(program))
    BY <1>2, <2>1
  <2>. QED
    BY <1>2, <2>1, <2>2, Layout DEF WordAddress
<1>6. b = [o \in Offsets |-> IF o \div 4 < Len(program)
                             THEN Written(1 + o \div 4)[o] ELSE zero[o]]
  <2>1. b = [o \in Offsets |->
               IF o \div 4 < Len(program)
               THEN write32(zero, BaseAddress + 4 * (o \div 4), program[1 + o \div 4])[o]
               ELSE zero[o]]
    BY Zenon DEF load_program
  <2>2. ASSUME NEW o \in Offsets
        PROVE  write32(zero, BaseAddress + 4 * (o \div 4), program[1 + o \div 4])
                 = Written(1 + o \div 4)
    BY <1>5, Zenon
  <2>. QED
    BY <2>1, <2>2, Zenon
<1>. HIDE DEF b, Written
<1>7. b \in Contents
  <2>1. ASSUME NEW o \in Offsets
        PROVE  (IF o \div 4 < Len(program)
                THEN Written(1 + o \div 4)[o] ELSE zero[o]) \in Byte
    <3>1. CASE o \div 4 < Len(program)
      <4>1. Written(1 + o \div 4) \in Contents
        BY <1>4, <1>5, <3>1
      <4>. QED
        BY <3>1, <4>1 DEF Contents
    <3>2. CASE ~ (o \div 4 < Len(program))
      BY <1>1, <3>2 DEF Contents
    <3>. QED
      BY <3>1, <3>2
  <2>. QED
    BY <1>6, <2>1 DEF Contents
<1>8. ASSUME NEW k \in DOMAIN program
      PROVE  read32(b, WordAddress(k)) = program[k]
  <2>. DEFINE a == Offset(WordAddress(k))
  <2>0. k \in 1 .. 7 /\ k <= Len(program)
    BY <1>2
  <2>1. a = 4 * (k - 1)
    <3>1. BaseAddress \in Int /\ 4 * (k - 1) \in Int
      BY <2>0, Layout
    <3>2. (BaseAddress + 4 * (k - 1)) - BaseAddress = 4 * (k - 1)
      BY <3>1
    <3>. QED
      BY <3>2, Zenon DEF Offset, WordAddress
  <2>2. WordAddress(k) \in Word /\ InBounds(WordAddress(k), 4)
    BY WordIsMapped DEF program
  <2>3. \A n \in 0 .. (4 - 1) : a + n \in Offsets
    BY <2>2, InBoundsOffsets
  <2>. HIDE DEF a
  <2>4. ASSUME NEW n \in 0 .. 3
        PROVE  b[a + n] = Written(k)[a + n]
    <3>1. a + n \in Offsets
      BY <2>3
    <3>2. (a + n) \div 4 = k - 1
      <4>1. k - 1 \in Nat /\ n \in 0 .. (4 - 1) /\ 4 \in Nat \ {0}
        BY <2>0
      <4>2. (4 * (k - 1) + n) \div 4 = k - 1
        BY <4>1, ModUnique
      <4>. QED
        BY <2>1, <4>2
    <3>3. (a + n) \div 4 < Len(program) /\ 1 + (a + n) \div 4 = k
      BY <1>2, <2>0, <3>2
    <3>4. b[a + n] = IF (a + n) \div 4 < Len(program)
                     THEN Written(1 + (a + n) \div 4)[a + n] ELSE zero[a + n]
      BY <1>6, <3>1, Zenon
    <3>. QED
      BY <3>3, <3>4, Zenon
  <2>5. /\ b[a + 0] = Written(k)[a + 0] /\ b[a + 1] = Written(k)[a + 1]
        /\ b[a + 2] = Written(k)[a + 2] /\ b[a + 3] = Written(k)[a + 3]
    BY <2>4
  <2>6. a + 0 = a
    BY <2>0, <2>1
  <2>7. read32(b, WordAddress(k)) = read32(Written(k), WordAddress(k))
    BY <2>5, <2>6 DEF read32, a
  <2>. QED
    BY <1>4, <2>7
<1>. QED
  BY <1>7, <1>8 DEF b, zero, program

LEMMA FirstInLoop ==
    ASSUME NEW workload \in WorkloadKinds
    PROVE  LoopState(workload, FirstState(workload))
<1>. DEFINE s == FirstState(workload)
<1>1. /\ s.registers = [r \in Registers |-> InitialRegister(workload, r)]
      /\ s.program_counter = BaseAddress
      /\ s.bytes = load_program([o \in Offsets |-> 0], ProgramOf(workload))
  BY DEF FirstState
<1>. HIDE DEF s
<1>2. s.bytes \in Contents /\ ProgramIntact(workload, s)
  BY <1>1, LoadedProgram DEF ProgramIntact
<1>3. ASSUME NEW r \in Registers
      PROVE  InitialRegister(workload, r) \in Word
  <2>1. /\ 0 \in Word /\ 1 \in Word /\ 3 \in Word /\ BranchPeriod \in Word
        /\ kDataBaseAddress \in Word /\ kDataBaseAddress + StrideBytes \in Word
    BY BenchmarkAssumption, Layout DEF Word
  <2>. QED
    BY <2>1 DEF InitialRegister
<1>4. s.registers \in [Registers -> Word]
  BY <1>1, <1>3
<1>5. 1 \in DOMAIN ProgramOf(workload)
  BY TableOfPrograms
<1>6. s.program_counter = WordAddress(1)
  BY <1>1, Layout DEF WordAddress
<1>7. ASSUME workload = "MemoryStride"
      PROVE  StrideAt(1, s)
  <2>1. 1 \in Registers /\ 2 \in Registers
    BY LoadsUseRegisters
  <2>2. s.registers[1] = kDataBaseAddress /\ s.registers[2] = DataEnd
    BY <1>1, <1>7, <2>1 DEF InitialRegister, DataEnd
  <2>. QED
    BY <2>2, Layout DEF StrideAt
<1>8. AtWord(workload, 1, s)
  BY <1>5, <1>6, <1>7 DEF AtWord
<1>9. LoopState(workload, s)
  BY <1>2, <1>4, <1>5, <1>8 DEF LoopState, TypedState
<1>. QED
  BY <1>9 DEF s

-----------------------------------------------------------------------------
(***************************************************************************)
(* The inductive invariant of the benchmark: a running iteration is where  *)
(* the workload's own run is after as many instructions, inside its loop,  *)
(* all its instructions were observed, and everything reported is the one  *)
(* report such a run can make and has the count run was asked for.         *)
(***************************************************************************)
IterationInvariant ==
    /\ kind \in WorkloadKinds
    /\ instruction_limit \in Nat
    /\ step_result.kind # "Trap"
    /\ phase = "running" =>
          /\ executed \in Nat
          /\ instructions_observed = executed
          /\ ReachedAfter(kind, executed, MeasuredState)
          /\ LoopState(kind, MeasuredState)
    /\ reports \in Seq({ReportAfter(kind, instruction_limit)})
    /\ \A k \in DOMAIN reports : reports[k].statistics[1] = instruction_limit

LEMMA LoopGoesOn ==
    ASSUME NEW workload \in WorkloadKinds, NEW s, LoopState(workload, s)
    PROVE  Completes(DecodedAt(s), s) /\ LoopState(workload, Advance(s))
BY IntegerMixStays, MemoryStrideStays, BranchPatternStays DEF WorkloadKinds, Advance

LEMMA RunStaysInLoop ==
    ASSUME kind \in WorkloadKinds, LoopState(kind, MeasuredState), AnalyzedStep
    PROVE  /\ step_result'.kind = "Completed"
           /\ MeasuredState' = Advance(MeasuredState)
           /\ LoopState(kind, MeasuredState')
<1>. DEFINE s == MeasuredState
            i == DecodedAt(MeasuredState)
<1>1. PICK k \in DOMAIN ProgramOf(kind) : s.program_counter = WordAddress(k)
  BY DEF LoopState, AtWord
<1>2. ProgramIntact(kind, s)
  BY DEF LoopState
<1>3. s.program_counter = program_counter /\ s.bytes = bytes
  BY StateParts
<1>4. Decode(read32(s.bytes, s.program_counter)) = {i}
  BY <1>1, <1>2, DecodesTo
<1>5. Decode(read32(bytes, program_counter)) = {i}
  BY <1>3, <1>4, Zenon
<1>6. /\ is_instruction_aligned(program_counter)
      /\ AccessError(program_counter, 4) = {}
  BY <1>1, <1>3, WordIsMapped DEF is_instruction_aligned
<1>7. Completes(i, s) /\ LoopState(kind, Advance(s))
  BY LoopGoesOn
<1>8. /\ step_result'.kind = "Completed"
      /\ MeasuredState' = StateAfter(i, s)
  BY <1>5, <1>6, <1>7, StepRuns
<1>. QED
  BY <1>7, <1>8, Zenon DEF Advance

LEMMA StartInvariant ==
    ASSUME IterationInvariant, StartIteration
    PROVE  IterationInvariant'
<1>1. /\ kind' = kind /\ instruction_limit' = instruction_limit /\ reports' = reports
      /\ executed' = 0 /\ step_result' = step_result /\ ResetWorkload
      /\ instructions_observed' = 0
  BY DEF StartIteration, ResetWorkload, AnalyzerReset
<1>2. MeasuredState' = FirstState(kind)
  BY <1>1, ResetStarts
<1>3. ReachedAfter(kind, 0, FirstState(kind)) /\ LoopState(kind, FirstState(kind))
  BY FirstIsReached, FirstInLoop DEF IterationInvariant
<1>4. /\ executed' \in Nat
      /\ instructions_observed' = executed'
      /\ ReachedAfter(kind', executed', MeasuredState')
      /\ LoopState(kind', MeasuredState')
  BY <1>1, <1>2, <1>3
<1>. QED
  BY <1>1, <1>4 DEF IterationInvariant

LEMMA RunInvariant ==
    ASSUME IterationInvariant, RunInstruction
    PROVE  IterationInvariant'
<1>1. /\ phase = "running" /\ AnalyzedStep /\ kind' = kind
      /\ instruction_limit' = instruction_limit /\ reports' = reports
  BY DEF RunInstruction
<1>2. /\ kind \in WorkloadKinds /\ executed \in Nat
      /\ instructions_observed = executed
      /\ ReachedAfter(kind, executed, MeasuredState) /\ LoopState(kind, MeasuredState)
  BY <1>1 DEF IterationInvariant
<1>3. /\ step_result'.kind = "Completed"
      /\ MeasuredState' = Advance(MeasuredState)
      /\ LoopState(kind, MeasuredState')
  BY <1>1, <1>2, RunStaysInLoop
<1>4. executed' = executed + 1 /\ executed' \in Nat
  BY <1>2, <1>3 DEF RunInstruction
<1>7. instructions_observed' = executed'
  <2>1. AnalyzerObserve(step_result')
    BY <1>1, <1>3 DEF AnalyzedStep
  <2>. QED
    BY <1>2, <1>4, <2>1 DEF AnalyzerObserve
<1>5. ReachedAfter(kind, executed + 1, Advance(MeasuredState))
  BY <1>2, NextIsReached
<1>6. /\ ReachedAfter(kind', executed', MeasuredState')
      /\ LoopState(kind', MeasuredState')
  BY <1>1, <1>3, <1>4, <1>5
<1>. QED
  BY <1>1, <1>3, <1>4, <1>6, <1>7 DEF IterationInvariant

LEMMA CollectInvariant ==
    ASSUME IterationInvariant, CollectIteration
    PROVE  IterationInvariant'
<1>1. /\ phase = "running" /\ executed = instruction_limit /\ kind' = kind
      /\ instruction_limit' = instruction_limit /\ step_result' = step_result
      /\ phase' \in {"loop", "skipped"}
  BY DEF CollectIteration, analyzer_vars
<1>2. /\ kind \in WorkloadKinds /\ instruction_limit \in Nat
      /\ instructions_observed = instruction_limit
      /\ ReachedAfter(kind, instruction_limit, MeasuredState)
      /\ reports \in Seq({ReportAfter(kind, instruction_limit)})
      /\ \A k \in DOMAIN reports : reports[k].statistics[1] = instruction_limit
  BY <1>1 DEF IterationInvariant
<1>3. ReportOf(MeasuredState) = ReportAfter(kind, instruction_limit)
  BY <1>2, ReportIsDecided
<1>4. \/ reports' = reports
      \/ reports' = Append(reports, ReportOf(MeasuredState))
  BY ReportIsOfState, Zenon DEF CollectIteration
<1>5. reports' \in Seq({ReportAfter(kind, instruction_limit)})
  BY <1>2, <1>3, <1>4
<1>6. ReportOf(MeasuredState).statistics[1] = instruction_limit
  BY <1>2 DEF ReportOf, MeasuredState
<1>7. \A k \in DOMAIN reports' : reports'[k].statistics[1] = instruction_limit
  <2>1. CASE reports' = reports
    BY <1>2, <2>1
  <2>2. CASE reports' = Append(reports, ReportOf(MeasuredState))
    <3>1. PICK report : report = ReportOf(MeasuredState)
      OBVIOUS
    <3>. QED
      BY <1>2, <1>6, <2>2, <3>1
  <2>. QED
    BY <1>4, <2>1, <2>2
<1>. QED
  BY <1>1, <1>5, <1>7 DEF IterationInvariant

(***************************************************************************)
(* Every iteration of a benchmark measures the same thing, whatever the    *)
(* workload, the number of instructions and of iterations and the          *)
(* configuration of the analyzer: no workload traps, and all completed     *)
(* iterations report as many instructions as they ran and the same         *)
(* statistics, estimate and final state.                                   *)
(***************************************************************************)
THEOREM IterationsAlwaysAgree == BenchmarkSpec => []IterationsAgree
<1>1. WorkloadInit => IterationInvariant
  <2>1. ASSUME WorkloadInit
        PROVE  /\ kind \in WorkloadKinds /\ instruction_limit \in Nat
               /\ step_result.kind = "None" /\ phase # "running" /\ reports = << >>
    BY <2>1, BenchmarkAssumption DEF WorkloadInit, NoResult
  <2>2. \A S : << >> \in Seq(S)
    OBVIOUS
  <2>. QED
    BY <2>1, <2>2 DEF IterationInvariant
<1>2. IterationInvariant /\ [BenchmarkNext]_benchmark_vars => IterationInvariant'
  <2>1. ASSUME IterationInvariant, LeaveLoop
        PROVE  IterationInvariant'
    <3>1. /\ kind' = kind /\ instruction_limit' = instruction_limit
          /\ reports' = reports /\ step_result' = step_result
          /\ phase' # "running"
      BY <2>1 DEF LeaveLoop, analyzer_vars
    <3>. QED
      BY <2>1, <3>1 DEF IterationInvariant
  <2>2. ASSUME IterationInvariant, UNCHANGED benchmark_vars
        PROVE  IterationInvariant'
    BY <2>2, Zenon DEF IterationInvariant, benchmark_vars, analyzer_vars,
       workload_vars, MeasuredState
  <2>. QED
    BY <2>1, <2>2, StartInvariant, RunInvariant, CollectInvariant
       DEF BenchmarkNext, BenchmarkEnds
<1>3. IterationInvariant => IterationsAgree
  <2>1. ASSUME NEW r, reports \in Seq({r}), NEW k \in DOMAIN reports
        PROVE  reports[k] = reports[1]
    BY <2>1
  <2>. QED
    BY <2>1 DEF IterationInvariant, IterationsAgree
<1>. QED
  BY <1>1, <1>2, <1>3, PTL DEF BenchmarkSpec
=============================================================================
