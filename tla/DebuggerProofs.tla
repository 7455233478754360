--------------------------- MODULE DebuggerProofs ---------------------------
(***************************************************************************)
(* Theorems about Debugger, for every program, budget of guest steps, set  *)
(* of addresses the user may name and sequence of commands.                *)
(***************************************************************************)
EXTENDS Debugger, SessionProofs

-----------------------------------------------------------------------------
(***************************************************************************)
(* breakpoints_ as a sequence: what inserting and erasing an element does  *)
(* to its positions and to the set of its elements.                        *)
(***************************************************************************)
\* t is s with e inserted before position k.
IsInsertion(t, s, k, e) ==
    /\ Len(t) = Len(s) + 1
    /\ \A j \in 1 .. (Len(s) + 1) :
          t[j] = IF j < k THEN s[j] ELSE IF j = k THEN e ELSE s[j - 1]

\* t is s without its position k.
IsRemoval(t, s, k) ==
    /\ Len(t) = Len(s) - 1
    /\ \A j \in 1 .. (Len(s) - 1) : t[j] = IF j < k THEN s[j] ELSE s[j + 1]

LEMMA InsertAtShape ==
    ASSUME NEW S, NEW s \in Seq(S), NEW k \in 1 .. (Len(s) + 1), NEW e \in S
    PROVE  InsertAt(s, k, e) \in Seq(S) /\ IsInsertion(InsertAt(s, k, e), s, k, e)
<1>. DEFINE n == Len(s)
            left == SubSeq(s, 1, k - 1)
            right == SubSeq(s, k, n)
<1>1. n \in Nat /\ k \in 1 .. (n + 1) /\ \A i \in 1 .. n : s[i] \in S
  OBVIOUS
<1>2. /\ left \in Seq(S) /\ Len(left) = k - 1
      /\ \A i \in 1 .. (k - 1) : left[i] = s[i]
  BY <1>1
<1>3. /\ right \in Seq(S) /\ Len(right) = n + 1 - k
      /\ \A i \in 1 .. (n + 1 - k) : right[i] = s[k + i - 1]
  BY <1>1
<1>. HIDE DEF n, left, right
<1>4. /\ <<e>> \in Seq(S) /\ Len(<<e>>) = 1 /\ <<e>>[1] = e
  OBVIOUS
<1>. DEFINE start == left \o <<e>>
            whole == start \o right
<1>5. /\ start \in Seq(S)
      /\ Len(start) = k
      /\ \A i \in 1 .. k : start[i] = IF i <= k - 1 THEN s[i] ELSE e
  BY <1>1, <1>2, <1>4, ConcatProperties
<1>6. InsertAt(s, k, e) = whole
  BY DEF InsertAt, left, right, n
<1>. HIDE DEF start
<1>7. /\ whole \in Seq(S)
      /\ Len(whole) = n + 1
      /\ \A j \in 1 .. (n + 1) : whole[j] = IF j <= k THEN start[j] ELSE right[j - k]
  <2>1. /\ start \o right \in Seq(S)
        /\ Len(start \o right) = Len(start) + Len(right)
        /\ \A i \in 1 .. Len(start) + Len(right) : (start \o right)[i] =
              IF i <= Len(start) THEN start[i] ELSE right[i - Len(start)]
    BY <1>3, <1>5, ConcatProperties, Zenon
  <2>. HIDE DEF whole
  <2>2. /\ whole \in Seq(S)
        /\ Len(whole) = Len(start) + Len(right)
        /\ \A i \in 1 .. Len(start) + Len(right) : whole[i] =
              IF i <= Len(start) THEN start[i] ELSE right[i - Len(start)]
    BY <2>1, Zenon DEF whole
  <2>3. Len(start) = k /\ Len(start) + Len(right) = n + 1
    BY <1>1, <1>3, <1>5
  <2>. QED
    BY <2>2, <2>3
<1>. HIDE DEF whole
<1>8. ASSUME NEW j \in 1 .. (n + 1)
      PROVE  whole[j] = IF j < k THEN s[j] ELSE IF j = k THEN e ELSE s[j - 1]
  <2>1. CASE j <= k
    BY <1>1, <1>5, <1>7, <2>1
  <2>2. CASE j > k
    <3>1. j - k \in 1 .. (n + 1 - k) /\ k + (j - k) - 1 = j - 1
      BY <1>1, <2>2
    <3>2. whole[j] = right[j - k]
      BY <1>1, <1>7, <2>2
    <3>3. right[j - k] = s[k + (j - k) - 1]
      BY <1>3, <3>1
    <3>. QED
      BY <1>1, <2>2, <3>1, <3>2, <3>3
  <2>. QED
    BY <1>1, <2>1, <2>2
<1>. QED
  BY <1>6, <1>7, <1>8 DEF n, IsInsertion

LEMMA RemoveAtShape ==
    ASSUME NEW S, NEW s \in Seq(S), NEW k \in 1 .. Len(s)
    PROVE  RemoveAt(s, k) \in Seq(S) /\ IsRemoval(RemoveAt(s, k), s, k)
<1>. DEFINE n == Len(s)
            left == SubSeq(s, 1, k - 1)
            right == SubSeq(s, k + 1, n)
            whole == left \o right
<1>1. n \in Nat /\ k \in 1 .. n /\ \A i \in 1 .. n : s[i] \in S
  OBVIOUS
<1>2. /\ left \in Seq(S) /\ Len(left) = k - 1
      /\ \A i \in 1 .. (k - 1) : left[i] = s[i]
  BY <1>1
<1>3. /\ right \in Seq(S) /\ Len(right) = n - k
      /\ \A i \in 1 .. (n - k) : right[i] = s[k + i]
  BY <1>1
<1>4. RemoveAt(s, k) = whole
  BY DEF RemoveAt
<1>. HIDE DEF n, left, right
<1>5. /\ whole \in Seq(S)
      /\ Len(whole) = n - 1
      /\ \A j \in 1 .. (n - 1) :
            whole[j] = IF j <= k - 1 THEN left[j] ELSE right[j - (k - 1)]
  <2>1. /\ left \o right \in Seq(S)
        /\ Len(left \o right) = Len(left) + Len(right)
        /\ \A i \in 1 .. Len(left) + Len(right) : (left \o right)[i] =
              IF i <= Len(left) THEN left[i] ELSE right[i - Len(left)]
    BY <1>2, <1>3, ConcatProperties, Zenon
  <2>. HIDE DEF whole
  <2>2. /\ whole \in Seq(S)
        /\ Len(whole) = Len(left) + Len(right)
        /\ \A i \in 1 .. Len(left) + Len(right) : whole[i] =
              IF i <= Len(left) THEN left[i] ELSE right[i - Len(left)]
    BY <2>1, Zenon DEF whole
  <2>3. Len(left) = k - 1 /\ Len(left) + Len(right) = n - 1
    BY <1>1, <1>2, <1>3
  <2>. QED
    BY <2>2, <2>3
<1>. HIDE DEF whole
<1>6. ASSUME NEW j \in 1 .. (n - 1)
      PROVE  whole[j] = IF j < k THEN s[j] ELSE s[j + 1]
  <2>1. CASE j < k
    BY <1>1, <1>2, <1>5, <2>1
  <2>2. CASE j >= k
    <3>1. /\ j - (k - 1) \in 1 .. (n - k) /\ k + (j - (k - 1)) = j + 1
          /\ ~ (j <= k - 1)
      BY <1>1, <2>2
    <3>. QED
      BY <1>1, <1>3, <1>5, <2>2, <3>1
  <2>. QED
    BY <1>1, <2>1, <2>2
<1>. QED
  BY <1>4, <1>5, <1>6 DEF n, IsRemoval
-----------------------------------------------------------------------------
(***************************************************************************)
(* The inductive invariant.  Inside a run, run_limit is what the commands  *)
(* before it left of the budget, so the run's own limit is the budget's;   *)
(* outside a run its statistics are zero; a run never starts with the stop *)
(* flag set, so a step of the guest cannot leave it stale.                 *)
(***************************************************************************)
DebuggerTypeOK ==
    /\ SessionTypeOK
    /\ statistics \in Statistics
    /\ run_statistics \in Statistics
    /\ breakpoints \in Seq(Word)
    /\ stopped_at_breakpoint \in BOOLEAN
    /\ mode \in {"prompt", "continuing", "running", "done"}
    /\ run_limit \in Nat
    /\ debugger_result \in {"None", "StepLimitReached", "Exited",
                            "UnhandledEnvironmentCall", "Trapped", "Quit"}

BudgetInvariant ==
    /\ statistics.guest_steps <= maximum_guest_steps
    /\ mode = "running" =>
          /\ run_limit = maximum_guest_steps - statistics.guest_steps
          /\ run_statistics.guest_steps <= run_limit
    /\ mode # "running" => run_statistics = ZeroStatistics
    /\ mode # "done" <=> debugger_result = "None"
    /\ debugger_result = "StepLimitReached" =>
          statistics.guest_steps = maximum_guest_steps

StopInvariant ==
    /\ mode \in {"continuing", "running"} => stopped_at_breakpoint = FALSE
    /\ StopIsAtBreakpoint

(***************************************************************************)
(* One session step in the debugger.  Every result is a continuing one or  *)
(* ends the program with a result of its own.                              *)
(***************************************************************************)
LEMMA StepResultKinds ==
    ASSUME NEW result, result.kind \in StepKinds
    PROVE  \/ /\ result.kind \in ContinuingResults
              /\ result.kind \notin {"Exited", "UnhandledEnvironmentCall", "Trap"}
           \/ /\ result.kind \notin ContinuingResults
              /\ result.kind \in {"Exited", "UnhandledEnvironmentCall", "Trap"}
              /\ TerminalResult(result)
                    \in {"Exited", "UnhandledEnvironmentCall", "Trapped"}
BY DEF StepKinds, ContinuingResults, TerminalResult

LEMMA SessionUnchangedTypeOK ==
    ASSUME SessionTypeOK, UNCHANGED session_vars
    PROVE  SessionTypeOK'
BY DEF session_vars, SessionTypeOK, TypeOK

LEMMA LowerBound ==
    ASSUME breakpoints \in Seq(Word), NEW address \in Word
    PROVE  /\ lower_bound(address) \in 1 .. (Len(breakpoints) + 1)
           /\ \A j \in 1 .. (lower_bound(address) - 1) : breakpoints[j] < address
           /\ lower_bound(address) <= Len(breakpoints) =>
                 breakpoints[lower_bound(address)] >= address
<1>. DEFINE n == Len(breakpoints)
            NotLess == {k \in 1 .. (n + 1) : k <= n => breakpoints[k] >= address}
<1>1. n \in Nat /\ \A k \in 1 .. n : breakpoints[k] \in Int
  BY WordIsInt
<1>2. n + 1 \in NotLess /\ NotLess \in SUBSET Nat
  BY <1>1
<1>3. PICK m \in NotLess : \A k \in NotLess : m <= k
  BY <1>2, LeastNatural
<1>4. \A j \in 1 .. (m - 1) : breakpoints[j] < address
  <2>1. SUFFICES ASSUME NEW j \in 1 .. (m - 1)
                 PROVE  breakpoints[j] < address
    OBVIOUS
  <2>2. j \in 1 .. n /\ j \notin NotLess
    BY <1>1, <1>3
  <2>. QED
    BY <1>1, <2>2, WordIsInt
<1>. QED
  BY <1>3, <1>4 DEF lower_bound

(***************************************************************************)
(* The two commands that change breakpoints_ keep it a sequence of words,  *)
(* and change the set of its elements by the one address they name.        *)
(***************************************************************************)
LEMMA AddedBreakpoint ==
    ASSUME breakpoints \in Seq(Word), NEW address \in Word, AddBreakpoint(address)
    PROVE  /\ breakpoints' \in Seq(Word)
           /\ IsInsertion(breakpoints', breakpoints, lower_bound(address), address)
           /\ ToSet(breakpoints) \subseteq ToSet(breakpoints')
<1>. DEFINE k == lower_bound(address)
            n == Len(breakpoints)
<1>1. k \in 1 .. (n + 1) /\ n \in Nat
  BY LowerBound
<1>. HIDE DEF k
<1>2. breakpoints' \in Seq(Word) /\ IsInsertion(breakpoints', breakpoints, k, address)
  BY <1>1, InsertAtShape DEF AddBreakpoint, InsertPosition, k
<1>3. /\ breakpoints' \in Seq(Word) /\ Len(breakpoints') = n + 1
      /\ \A j \in 1 .. (n + 1) :
            breakpoints'[j] = IF j < k THEN breakpoints[j]
                              ELSE IF j = k THEN address ELSE breakpoints[j - 1]
  BY <1>2 DEF IsInsertion
<1>4. ASSUME NEW i \in 1 .. n
      PROVE  \E j \in 1 .. (n + 1) : breakpoints'[j] = breakpoints[i]
  <2>1. CASE i < k
    BY <1>1, <1>3, <2>1
  <2>2. CASE i >= k
    <3>1. i + 1 \in 1 .. (n + 1) /\ ~ (i + 1 < k) /\ i + 1 # k /\ (i + 1) - 1 = i
      BY <1>1, <2>2
    <3>2. breakpoints'[i + 1] = breakpoints[(i + 1) - 1]
      BY <1>3, <3>1
    <3>. QED
      BY <3>1, <3>2
  <2>. QED
    BY <1>1, <2>1, <2>2
<1>5. DOMAIN breakpoints = 1 .. n /\ DOMAIN breakpoints' = 1 .. (n + 1)
  BY <1>1, <1>3, LenProperties
<1>. QED
  BY <1>2, <1>3, <1>4, <1>5 DEF ToSet, k

LEMMA RemovedBreakpoint ==
    ASSUME breakpoints \in Seq(Word), NEW address \in Word, RemoveBreakpoint(address)
    PROVE  /\ breakpoints' \in Seq(Word)
           /\ IsRemoval(breakpoints', breakpoints, lower_bound(address))
           /\ lower_bound(address) \in 1 .. Len(breakpoints)
           /\ \A b \in ToSet(breakpoints) : b # address => b \in ToSet(breakpoints')
<1>. DEFINE k == lower_bound(address)
            n == Len(breakpoints)
<1>1. k \in 1 .. n /\ n \in Nat /\ breakpoints[k] = address
  BY LowerBound DEF RemoveBreakpoint, FoundAt
<1>. HIDE DEF k
<1>2. breakpoints' \in Seq(Word) /\ IsRemoval(breakpoints', breakpoints, k)
  BY <1>1, RemoveAtShape DEF RemoveBreakpoint, k
<1>3. /\ breakpoints' \in Seq(Word) /\ Len(breakpoints') = n - 1
      /\ \A j \in 1 .. (n - 1) :
            breakpoints'[j] = IF j < k THEN breakpoints[j] ELSE breakpoints[j + 1]
  BY <1>2 DEF IsRemoval
<1>4. ASSUME NEW i \in 1 .. n, breakpoints[i] # address
      PROVE  \E j \in 1 .. (n - 1) : breakpoints'[j] = breakpoints[i]
  <2>1. CASE i < k
    BY <1>1, <1>3, <2>1
  <2>2. CASE i > k
    <3>1. i - 1 \in 1 .. (n - 1) /\ ~ (i - 1 < k) /\ (i - 1) + 1 = i
      BY <1>1, <2>2
    <3>2. breakpoints'[i - 1] = breakpoints[(i - 1) + 1]
      BY <1>3, <3>1
    <3>. QED
      BY <3>1, <3>2
  <2>3. CASE i = k
    BY <1>1, <1>4, <2>3
  <2>. QED
    BY <1>1, <2>1, <2>2, <2>3
<1>5. DOMAIN breakpoints = 1 .. n /\ DOMAIN breakpoints' = 1 .. (n - 1)
  BY <1>1, <1>3
<1>. QED
  BY <1>1, <1>2, <1>3, <1>4, <1>5, SMTT(30) DEF ToSet, k

-----------------------------------------------------------------------------
(***************************************************************************)
(* The commands that execute: what each of them does to the session and to *)
(* the debugger's own state.                                               *)
(***************************************************************************)
LEMMA ExecuteOneTypeOK ==
    ASSUME DebuggerTypeOK, NEW next_mode \in {"prompt", "continuing"},
           ExecuteOne(next_mode)
    PROVE  DebuggerTypeOK'
<1>1. SessionTypeOK' /\ session_result'.kind \in StepKinds
  BY SessionStepTypeOK DEF ExecuteOne, DebuggerTypeOK
<1>2. statistics' \in Statistics
  BY <1>1, CountStepShape DEF ExecuteOne, DebuggerTypeOK
<1>3. /\ mode' \in {"prompt", "continuing", "done"}
      /\ debugger_result' \in {debugger_result, "Exited",
                               "UnhandledEnvironmentCall", "Trapped"}
  BY <1>1, StepResultKinds DEF ExecuteOne, Return
<1>4. /\ breakpoints' \in Seq(Word) /\ run_statistics' \in Statistics
      /\ run_limit' \in Nat /\ stopped_at_breakpoint' \in BOOLEAN
  BY DEF ExecuteOne, DebuggerTypeOK
<1>. QED
  BY <1>1, <1>2, <1>3, <1>4 DEF DebuggerTypeOK

LEMMA StartRunTypeOK ==
    ASSUME DebuggerTypeOK, BudgetInvariant, StartRun
    PROVE  DebuggerTypeOK'
<1>1. SessionTypeOK'
  BY SessionUnchangedTypeOK DEF StartRun, DebuggerTypeOK
<1>2. remaining_steps \in Nat
  BY DebuggerAssumption DEF remaining_steps, DebuggerTypeOK, Statistics, BudgetInvariant
<1>. QED
  BY <1>1, <1>2, ZeroTyped DEF StartRun, DebuggerTypeOK

LEMMA RunningStepTypeOK ==
    ASSUME DebuggerTypeOK, RunningStep
    PROVE  DebuggerTypeOK'
<1>1. SessionTypeOK' /\ session_result'.kind \in StepKinds
  BY SessionStepTypeOK DEF RunningStep, RunStep, DebuggerTypeOK
<1>2. CountStep(run_statistics, session_result') \in Statistics
  BY <1>1, CountStepShape DEF DebuggerTypeOK
<1>3. statistics' \in Statistics /\ run_statistics' \in Statistics
  BY <1>2, ZeroTyped, AddStatisticsShape DEF RunningStep, DebuggerTypeOK
<1>4. /\ mode' \in {"running", "done"}
      /\ debugger_result' \in {debugger_result, "Exited",
                               "UnhandledEnvironmentCall", "Trapped"}
  BY <1>1, StepResultKinds DEF RunningStep, Return
<1>. QED
  BY <1>1, <1>3, <1>4 DEF RunningStep, DebuggerTypeOK

LEMMA DebuggerStepTypeOK ==
    ASSUME DebuggerTypeOK, BudgetInvariant, [DebuggerNext]_debugger_vars
    PROVE  DebuggerTypeOK'
<1>0. UNCHANGED session_vars => SessionTypeOK'
  BY SessionUnchangedTypeOK DEF DebuggerTypeOK
<1>1. CASE StepCommand
  BY <1>1, ExecuteOneTypeOK DEF StepCommand
<1>2. CASE BudgetSpent
  BY <1>0, <1>2 DEF BudgetSpent, Return, DebuggerTypeOK
<1>3. CASE ContinueCommand
  BY <1>3, ExecuteOneTypeOK, StartRunTypeOK DEF ContinueCommand
<1>4. CASE ContinueRun
  BY <1>4, StartRunTypeOK DEF ContinueRun
<1>5. CASE RunningStep
  BY <1>5, RunningStepTypeOK
<1>6. CASE RunStopsAtBreakpoint
  <2>1. statistics' \in Statistics
    BY <1>6, AddStatisticsShape
       DEF RunStopsAtBreakpoint, AfterRun, TotalStatistics, DebuggerTypeOK
  <2>. QED
    BY <1>0, <1>6, <2>1, ZeroTyped DEF RunStopsAtBreakpoint, DebuggerTypeOK
<1>7. CASE RunReachesLimit
  <2>1. statistics' \in Statistics
    BY <1>7, AddStatisticsShape
       DEF RunReachesLimit, AfterRun, TotalStatistics, DebuggerTypeOK
  <2>. QED
    BY <1>0, <1>7, <2>1, ZeroTyped DEF RunReachesLimit, Return, DebuggerTypeOK
<1>8. ASSUME NEW address \in CommandAddresses, AddBreakpoint(address)
      PROVE  DebuggerTypeOK'
  <2>1. breakpoints' \in Seq(Word)
    BY <1>8, AddedBreakpoint, DebuggerAssumption DEF DebuggerTypeOK
  <2>. QED
    BY <1>0, <1>8, <2>1 DEF AddBreakpoint, DebuggerTypeOK
<1>9. ASSUME NEW address \in CommandAddresses, RemoveBreakpoint(address)
      PROVE  DebuggerTypeOK'
  <2>1. breakpoints' \in Seq(Word)
    BY <1>9, RemovedBreakpoint, DebuggerAssumption DEF DebuggerTypeOK
  <2>2. stopped_at_breakpoint' \in BOOLEAN
    BY <1>9 DEF RemoveBreakpoint, StopAfterRemoval, DebuggerTypeOK
  <2>. QED
    BY <1>0, <1>9, <2>1, <2>2 DEF RemoveBreakpoint, DebuggerTypeOK
<1>10. CASE RemoveAllBreakpoints
  <2>1. breakpoints' \in Seq(Word)
    BY <1>10 DEF RemoveAllBreakpoints
  <2>2. stopped_at_breakpoint' \in BOOLEAN
    BY <1>10, Zenon DEF RemoveAllBreakpoints
  <2>. QED
    BY <1>0, <1>10, <2>1, <2>2 DEF RemoveAllBreakpoints, DebuggerTypeOK
<1>11. CASE Quit
  BY <1>0, <1>11 DEF Quit, Return, DebuggerTypeOK
<1>12. CASE UNCHANGED debugger_vars
  <2>1. SessionTypeOK'
    BY <1>0, <1>12 DEF debugger_vars, session_vars
  <2>. QED
    BY <1>12, <2>1 DEF debugger_vars, DebuggerTypeOK
<1>. QED
  BY <1>1, <1>2, <1>3, <1>4, <1>5, <1>6, <1>7, <1>8, <1>9, <1>10, <1>11, <1>12
     DEF DebuggerNext, RunNext, InspectCommand, Done

-----------------------------------------------------------------------------
(***************************************************************************)
(* The budget.                                                             *)
(***************************************************************************)
LEMMA ExecuteOneBudget ==
    ASSUME DebuggerTypeOK, BudgetInvariant, mode = "prompt", ~ AtBudget,
           NEW next_mode \in {"prompt", "continuing"}, ExecuteOne(next_mode)
    PROVE  BudgetInvariant'
<1>1. session_result'.kind \in StepKinds
  BY SessionStepTypeOK DEF ExecuteOne, DebuggerTypeOK
<1>2. statistics'.guest_steps <= maximum_guest_steps
  <2>1. statistics.guest_steps \in Nat /\ statistics.guest_steps < maximum_guest_steps
    BY DebuggerAssumption DEF DebuggerTypeOK, Statistics, AtBudget
  <2>2. statistics'.guest_steps \in {statistics.guest_steps,
                                     statistics.guest_steps + 1}
    BY <1>1, CountStepShape DEF ExecuteOne, DebuggerTypeOK
  <2>. QED
    BY <2>1, <2>2, DebuggerAssumption
<1>3. run_statistics = ZeroStatistics /\ debugger_result = "None"
  BY DEF BudgetInvariant
<1>4. run_statistics' = ZeroStatistics
  BY <1>3 DEF ExecuteOne
<1>5. \/ mode' = next_mode /\ debugger_result' = "None"
      \/ /\ mode' = "done"
         /\ debugger_result' \in {"Exited", "UnhandledEnvironmentCall", "Trapped"}
  BY <1>1, <1>3, StepResultKinds DEF ExecuteOne, Return
<1>. QED
  BY <1>2, <1>4, <1>5 DEF BudgetInvariant

LEMMA StartRunBudget ==
    ASSUME DebuggerTypeOK, BudgetInvariant, mode \in {"prompt", "continuing"}, StartRun
    PROVE  BudgetInvariant'
<1>1. statistics.guest_steps \in Nat /\ statistics.guest_steps <= maximum_guest_steps
  BY DEF DebuggerTypeOK, Statistics, BudgetInvariant
<1>2. /\ mode' = "running"
      /\ run_limit' = maximum_guest_steps - statistics.guest_steps
      /\ run_statistics' = ZeroStatistics
      /\ statistics' = statistics
      /\ debugger_result' = "None"
  BY DEF StartRun, remaining_steps, BudgetInvariant
<1>3. run_statistics'.guest_steps <= run_limit'
  BY <1>1, <1>2, DebuggerAssumption DEF ZeroStatistics
<1>. QED
  BY <1>1, <1>2, <1>3 DEF BudgetInvariant

\* Inside a run, the steps so far and the run's limit add up to the budget.
LEMMA RunningTotals ==
    ASSUME DebuggerTypeOK, BudgetInvariant, mode = "running"
    PROVE  /\ statistics.guest_steps \in Nat /\ run_statistics.guest_steps \in Nat
           /\ run_limit = maximum_guest_steps - statistics.guest_steps
           /\ run_statistics.guest_steps <= run_limit
           /\ maximum_guest_steps \in Nat
           /\ debugger_result = "None"
           /\ TotalStatistics \in Statistics
           /\ TotalStatistics.guest_steps
                 = statistics.guest_steps + run_statistics.guest_steps
BY AddStatisticsShape, DebuggerAssumption
   DEF DebuggerTypeOK, Statistics, BudgetInvariant, TotalStatistics, Counters

LEMMA RunningStepBudget ==
    ASSUME DebuggerTypeOK, BudgetInvariant, RunningStep
    PROVE  BudgetInvariant'
<1>1. session_result'.kind \in StepKinds
  BY SessionStepTypeOK DEF RunningStep, RunStep, DebuggerTypeOK
<1>. DEFINE counted == CountStep(run_statistics, session_result')
<1>2. /\ counted \in Statistics
      /\ counted.guest_steps \in {run_statistics.guest_steps,
                                  run_statistics.guest_steps + 1}
  BY <1>1, CountStepShape DEF DebuggerTypeOK
<1>3. mode = "running"
  BY DEF RunningStep
<1>4. run_statistics.guest_steps < run_limit
  BY <1>3, RunningTotals, DebuggerAssumption DEF RunningStep, RunStep, RunAtLimit
<1>5. counted.guest_steps \in Nat /\ counted.guest_steps <= run_limit
  BY <1>2, <1>3, <1>4, RunningTotals
<1>. HIDE DEF counted
<1>6. CASE session_result'.kind \in ContinuingResults
  <2>1. /\ run_statistics' = counted
        /\ UNCHANGED <<statistics, mode, debugger_result, run_limit>>
    BY <1>6 DEF RunningStep, counted
  <2>. QED
    BY <1>3, <1>5, <2>1 DEF BudgetInvariant
<1>7. CASE session_result'.kind \notin ContinuingResults
  <2>1. /\ statistics' = AddStatistics(statistics, counted)
        /\ run_statistics' = ZeroStatistics
        /\ mode' = "done"
        /\ debugger_result' = TerminalResult(session_result')
    BY <1>7 DEF RunningStep, counted, Return
  <2>2. debugger_result' \in {"Exited", "UnhandledEnvironmentCall", "Trapped"}
    BY <1>1, <1>7, <2>1, StepResultKinds
  <2>3. statistics'.guest_steps = statistics.guest_steps + counted.guest_steps
    BY <1>2, <2>1, AddStatisticsShape DEF DebuggerTypeOK, Counters
  <2>4. statistics'.guest_steps <= maximum_guest_steps
    BY <1>3, <1>5, <2>3, RunningTotals
  <2>. QED
    BY <2>1, <2>2, <2>4 DEF BudgetInvariant
<1>. QED
  BY <1>6, <1>7

LEMMA DebuggerStepBudget ==
    ASSUME DebuggerTypeOK, BudgetInvariant, [DebuggerNext]_debugger_vars
    PROVE  BudgetInvariant'
<1>1. CASE StepCommand
  BY <1>1, ExecuteOneBudget DEF StepCommand
<1>2. CASE BudgetSpent
  <2>1. statistics.guest_steps = maximum_guest_steps
    BY <1>2, DebuggerAssumption
       DEF BudgetSpent, AtBudget, BudgetInvariant, DebuggerTypeOK, Statistics
  <2>. QED
    BY <1>2, <2>1 DEF BudgetSpent, Return, BudgetInvariant
<1>3. CASE ContinueCommand
  BY <1>3, ExecuteOneBudget, StartRunBudget DEF ContinueCommand
<1>4. CASE ContinueRun
  BY <1>4, StartRunBudget DEF ContinueRun
<1>5. CASE RunningStep
  BY <1>5, RunningStepBudget
<1>6. CASE RunStopsAtBreakpoint
  <2>1. statistics'.guest_steps <= maximum_guest_steps
    BY <1>6, RunningTotals DEF RunStopsAtBreakpoint, AfterRun
  <2>. QED
    BY <1>6, <2>1 DEF RunStopsAtBreakpoint, BudgetInvariant
<1>7. CASE RunReachesLimit
  <2>1. statistics'.guest_steps = maximum_guest_steps
    BY <1>7, RunningTotals DEF RunReachesLimit, AfterRun, RunAtLimit
  <2>. QED
    BY <1>7, <2>1, DebuggerAssumption DEF RunReachesLimit, Return, BudgetInvariant
<1>8. ASSUME NEW address \in CommandAddresses, AddBreakpoint(address)
      PROVE  BudgetInvariant'
  BY <1>8 DEF AddBreakpoint, BudgetInvariant
<1>9. ASSUME NEW address \in CommandAddresses, RemoveBreakpoint(address)
      PROVE  BudgetInvariant'
  BY <1>9 DEF RemoveBreakpoint, BudgetInvariant
<1>10. CASE RemoveAllBreakpoints
  BY <1>10 DEF RemoveAllBreakpoints, BudgetInvariant
<1>11. CASE Quit
  BY <1>11 DEF Quit, Return, BudgetInvariant
<1>12. CASE UNCHANGED debugger_vars
  BY <1>12 DEF debugger_vars, BudgetInvariant
<1>. QED
  BY <1>1, <1>2, <1>3, <1>4, <1>5, <1>6, <1>7, <1>8, <1>9, <1>10, <1>11, <1>12
     DEF DebuggerNext, RunNext, InspectCommand, Done

-----------------------------------------------------------------------------
(***************************************************************************)
(* The debugger's invariant: its types, its budget and its stop flag.      *)
(***************************************************************************)
LEMMA DebuggerStepStop ==
    ASSUME DebuggerTypeOK, StopInvariant, [DebuggerNext]_debugger_vars
    PROVE  StopInvariant'
<1>0. UNCHANGED session_vars => program_counter' = program_counter
  BY DEF session_vars
<1>1. ASSUME NEW next_mode, ExecuteOne(next_mode)
      PROVE  StopInvariant'
  BY <1>1 DEF ExecuteOne, StopInvariant, StopIsAtBreakpoint
<1>2. CASE BudgetSpent
  BY <1>0, <1>2 DEF BudgetSpent, Return, StopInvariant, StopIsAtBreakpoint
<1>3. CASE StartRun /\ ~ stopped_at_breakpoint
  <2>1. stopped_at_breakpoint = FALSE
    BY <1>3 DEF DebuggerTypeOK
  <2>. QED
    BY <1>3, <2>1 DEF StartRun, StopInvariant, StopIsAtBreakpoint
<1>4. CASE ContinueCommand
  BY <1>1, <1>3, <1>4 DEF ContinueCommand, StepsOver
<1>5. CASE ContinueRun
  BY <1>3, <1>5 DEF ContinueRun, StopInvariant
<1>6. CASE RunningStep
  <2>1. stopped_at_breakpoint' = FALSE
    BY <1>6 DEF RunningStep, StopInvariant
  <2>. QED
    BY <2>1 DEF StopInvariant, StopIsAtBreakpoint
<1>7. CASE RunStopsAtBreakpoint
  BY <1>0, <1>7 DEF RunStopsAtBreakpoint, RunAtBreakpoint, StopInvariant,
                    StopIsAtBreakpoint
<1>8. CASE RunReachesLimit
  BY <1>0, <1>8 DEF RunReachesLimit, Return, StopInvariant, StopIsAtBreakpoint
<1>9. ASSUME NEW address \in CommandAddresses, AddBreakpoint(address)
      PROVE  StopInvariant'
  <2>1. ToSet(breakpoints) \subseteq ToSet(breakpoints')
    BY <1>9, AddedBreakpoint, DebuggerAssumption DEF DebuggerTypeOK
  <2>. QED
    BY <1>0, <1>9, <2>1 DEF AddBreakpoint, StopInvariant, StopIsAtBreakpoint
<1>10. ASSUME NEW address \in CommandAddresses, RemoveBreakpoint(address)
       PROVE  StopInvariant'
  <2>1. \A b \in ToSet(breakpoints) : b # address => b \in ToSet(breakpoints')
    BY <1>10, RemovedBreakpoint, DebuggerAssumption DEF DebuggerTypeOK
  <2>2. stopped_at_breakpoint' => stopped_at_breakpoint /\ address # program_counter
    BY <1>10 DEF RemoveBreakpoint, StopAfterRemoval
  <2>3. mode = "prompt" /\ mode' = mode
    BY <1>10 DEF RemoveBreakpoint
  <2>4. program_counter' = program_counter
    BY <1>0, <1>10 DEF RemoveBreakpoint
  <2>. QED
    BY <2>1, <2>2, <2>3, <2>4 DEF StopInvariant, StopIsAtBreakpoint
<1>11. CASE RemoveAllBreakpoints
  BY <1>11 DEF RemoveAllBreakpoints, StopInvariant, StopIsAtBreakpoint
<1>12. CASE Quit
  BY <1>0, <1>12 DEF Quit, Return, StopInvariant, StopIsAtBreakpoint
<1>13. CASE UNCHANGED debugger_vars
  BY <1>13 DEF debugger_vars, StopInvariant, StopIsAtBreakpoint
<1>. QED
  BY <1>1, <1>2, <1>4, <1>5, <1>6, <1>7, <1>8, <1>9, <1>10, <1>11, <1>12, <1>13
     DEF DebuggerNext, RunNext, StepCommand, InspectCommand, Done

DebuggerInvariant == DebuggerTypeOK /\ BudgetInvariant /\ StopInvariant

(***************************************************************************)
(* The inductive invariant holds in every state the debugger reaches.      *)
(***************************************************************************)
THEOREM DebuggerInvariantHolds == DebuggerSpec => []DebuggerInvariant
<1>1. DebuggerInit => DebuggerInvariant
  <2>1. SUFFICES ASSUME DebuggerInit
                 PROVE  DebuggerInvariant
    OBVIOUS
  <2>2. DebuggerTypeOK
    <3>1. breakpoints \in Seq(Word) /\ run_limit \in Nat
      BY <2>1 DEF DebuggerInit
    <3>2. stopped_at_breakpoint \in BOOLEAN
      BY <2>1, Zenon DEF DebuggerInit
    <3>. QED
      BY <2>1, <3>1, <3>2, SessionInitTypeOK, ZeroTyped DEF DebuggerInit, DebuggerTypeOK
  <2>3. BudgetInvariant
    BY <2>1, DebuggerAssumption DEF DebuggerInit, BudgetInvariant, ZeroStatistics
  <2>4. StopInvariant
    BY <2>1 DEF DebuggerInit, StopInvariant, StopIsAtBreakpoint
  <2>. QED
    BY <2>2, <2>3, <2>4 DEF DebuggerInvariant
<1>2. DebuggerInvariant /\ [DebuggerNext]_debugger_vars => DebuggerInvariant'
  BY DebuggerStepTypeOK, DebuggerStepBudget, DebuggerStepStop DEF DebuggerInvariant
<1>. QED
  BY <1>1, <1>2, PTL DEF DebuggerSpec

(***************************************************************************)
(* stopped_at_breakpoint_ is never stale: after every sequence of commands *)
(* it is set only while the guest is at an address with a breakpoint.      *)
(***************************************************************************)
THEOREM StopsAreAtBreakpoints == DebuggerSpec => []StopIsAtBreakpoint
<1>1. DebuggerInvariant => StopIsAtBreakpoint
  BY DEF DebuggerInvariant, StopInvariant
<1>. QED
  BY <1>1, DebuggerInvariantHolds, PTL

(***************************************************************************)
(* One strict budget: no mix of step, continue and breakpoint stops makes  *)
(* more guest steps than maximum_guest_steps_, and the debugger gives up   *)
(* only when it has made exactly that many.                                *)
(***************************************************************************)
THEOREM BudgetIsCumulative == DebuggerSpec => []CumulativeBudget
<1>1. ASSUME DebuggerInvariant
      PROVE  CumulativeBudget
  <2>1. DebuggerTypeOK /\ BudgetInvariant
    BY <1>1 DEF DebuggerInvariant
  <2>2. TotalStatistics.guest_steps <= maximum_guest_steps
    <3>1. CASE mode = "running"
      BY <2>1, <3>1, RunningTotals
    <3>2. CASE mode # "running"
      BY <2>1, <3>2, AddZero DEF BudgetInvariant, TotalStatistics, DebuggerTypeOK
    <3>. QED
      BY <3>1, <3>2
  <2>. QED
    BY <2>1, <2>2 DEF CumulativeBudget, BudgetInvariant
<1>. QED
  BY <1>1, DebuggerInvariantHolds, PTL

-----------------------------------------------------------------------------
(***************************************************************************)
(* breakpoints_ stays sorted.                                              *)
(***************************************************************************)
LEMMA AlignedIsFetchable ==
    ASSUME NEW address, address % 4 = 0, InBounds(address, 4)
    PROVE  AccessError(address, 4) = {}
BY DEF AccessError, Aligned

LEMMA AddKeepsSorted ==
    ASSUME DebuggerTypeOK, BreakpointsSorted,
           NEW address \in Word, AddBreakpoint(address)
    PROVE  BreakpointsSorted'
<1>. DEFINE k == lower_bound(address)
            n == Len(breakpoints)
<1>0. breakpoints \in Seq(Word) /\ n \in Nat /\ DOMAIN breakpoints = 1 .. n
  BY DEF DebuggerTypeOK
<1>1. /\ k \in 1 .. (n + 1)
      /\ \A j \in 1 .. (k - 1) : breakpoints[j] < address
      /\ k <= n => breakpoints[k] >= address
  BY <1>0, LowerBound
<1>2. k <= n => breakpoints[k] # address
  BY DEF AddBreakpoint, FoundAt
<1>3. breakpoints' \in Seq(Word) /\ IsInsertion(breakpoints', breakpoints, k, address)
  BY <1>0, AddedBreakpoint
<1>. HIDE DEF k
<1>4. /\ Len(breakpoints') = n + 1
      /\ \A j \in 1 .. (n + 1) :
            breakpoints'[j] = IF j < k THEN breakpoints[j]
                              ELSE IF j = k THEN address ELSE breakpoints[j - 1]
  BY <1>3 DEF IsInsertion
<1>5. DOMAIN breakpoints' = 1 .. (n + 1)
  BY <1>0, <1>3, <1>4, LenProperties
<1>6. /\ \A i \in 1 .. n : breakpoints[i] \in Int
      /\ address \in Int
      /\ \A i, j \in 1 .. n : i < j => breakpoints[i] < breakpoints[j]
      /\ \A i \in 1 .. n : AccessError(breakpoints[i], 4) = {}
  <2>1. \A i \in 1 .. n : breakpoints[i] \in Word
    BY <1>0
  <2>. QED
    BY <1>0, <2>1, WordIsInt DEF BreakpointsSorted
<1>7. \A i \in k .. n : address < breakpoints[i]
  <2>1. SUFFICES ASSUME NEW i \in k .. n
                 PROVE  address < breakpoints[i]
    OBVIOUS
  <2>2. k \in 1 .. n /\ i \in 1 .. n /\ address < breakpoints[k]
    BY <1>0, <1>1, <1>2, <1>6, <2>1
  <2>. QED
    BY <1>6, <2>1, <2>2
<1>8. ASSUME NEW i \in 1 .. (n + 1), NEW j \in 1 .. (n + 1), i < j
      PROVE  breakpoints'[i] < breakpoints'[j]
  <2>1. CASE j < k
    <3>1. i < k /\ i \in 1 .. n /\ j \in 1 .. n
      BY <1>0, <1>1, <1>8, <2>1
    <3>2. breakpoints'[i] = breakpoints[i] /\ breakpoints'[j] = breakpoints[j]
      BY <1>4, <2>1, <3>1
    <3>. QED
      BY <1>6, <1>8, <3>1, <3>2
  <2>2. CASE j = k
    <3>1. i < k /\ i # k /\ i \in 1 .. (k - 1) /\ ~ (j < k)
      BY <1>0, <1>1, <1>8, <2>2
    <3>2. breakpoints'[i] = breakpoints[i] /\ breakpoints'[j] = address
      BY <1>4, <2>2, <3>1
    <3>. QED
      BY <1>1, <3>1, <3>2
  <2>3. CASE j > k /\ i < k
    <3>1. /\ i \in 1 .. n /\ j - 1 \in 1 .. n /\ i < j - 1
          /\ ~ (j < k) /\ j # k
      BY <1>0, <1>1, <1>8, <2>3
    <3>2. breakpoints'[i] = breakpoints[i] /\ breakpoints'[j] = breakpoints[j - 1]
      BY <1>4, <2>3, <3>1
    <3>. QED
      BY <1>6, <3>1, <3>2
  <2>4. CASE j > k /\ i = k
    <3>1. j - 1 \in k .. n /\ ~ (j < k) /\ j # k /\ ~ (i < k)
      BY <1>0, <1>1, <1>8, <2>4
    <3>2. breakpoints'[i] = address /\ breakpoints'[j] = breakpoints[j - 1]
      BY <1>4, <2>4, <3>1
    <3>. QED
      BY <1>7, <3>1, <3>2
  <2>5. CASE j > k /\ i > k
    <3>1. /\ i - 1 \in 1 .. n /\ j - 1 \in 1 .. n /\ i - 1 < j - 1
          /\ ~ (j < k) /\ j # k /\ ~ (i < k) /\ i # k
      BY <1>0, <1>1, <1>8, <2>5
    <3>2. /\ breakpoints'[i] = breakpoints[i - 1]
          /\ breakpoints'[j] = breakpoints[j - 1]
      BY <1>4, <3>1
    <3>. QED
      BY <1>6, <3>1, <3>2
  <2>. QED
    BY <1>0, <1>1, <1>8, <2>1, <2>2, <2>3, <2>4, <2>5
<1>9. ASSUME NEW i \in 1 .. (n + 1)
      PROVE  AccessError(breakpoints'[i], 4) = {}
  <2>1. AccessError(address, 4) = {}
    BY AlignedIsFetchable DEF AddBreakpoint
  <2>2. CASE i < k
    <3>1. i \in 1 .. n /\ breakpoints'[i] = breakpoints[i]
      BY <1>0, <1>1, <1>4, <2>2
    <3>. QED
      BY <1>6, <3>1
  <2>3. CASE i = k
    <3>1. breakpoints'[i] = address
      BY <1>0, <1>1, <1>4, <2>3
    <3>. QED
      BY <2>1, <3>1
  <2>4. CASE i > k
    <3>1. i - 1 \in 1 .. n /\ ~ (i < k) /\ i # k
      BY <1>0, <1>1, <2>4
    <3>2. breakpoints'[i] = breakpoints[i - 1]
      BY <1>4, <3>1
    <3>. QED
      BY <1>6, <3>1, <3>2
  <2>. QED
    BY <1>0, <1>1, <2>2, <2>3, <2>4
<1>. QED
  BY <1>5, <1>8, <1>9 DEF BreakpointsSorted

LEMMA RemoveKeepsSorted ==
    ASSUME DebuggerTypeOK, BreakpointsSorted,
           NEW address \in Word, RemoveBreakpoint(address)
    PROVE  BreakpointsSorted'
<1>. DEFINE k == lower_bound(address)
            n == Len(breakpoints)
            Old(j) == IF j < k THEN j ELSE j + 1
<1>0. breakpoints \in Seq(Word) /\ n \in Nat /\ DOMAIN breakpoints = 1 .. n
  BY DEF DebuggerTypeOK
<1>1. /\ k \in 1 .. n
      /\ breakpoints' \in Seq(Word)
      /\ IsRemoval(breakpoints', breakpoints, k)
  BY <1>0, RemovedBreakpoint
<1>. HIDE DEF k
<1>2. /\ Len(breakpoints') = n - 1
      /\ \A j \in 1 .. (n - 1) : breakpoints'[j] = breakpoints[Old(j)]
  BY <1>1 DEF IsRemoval
<1>3. DOMAIN breakpoints' = 1 .. (n - 1)
  BY <1>0, <1>1, <1>2, LenProperties
<1>4. /\ \A j \in 1 .. (n - 1) : Old(j) \in 1 .. n
      /\ \A i, j \in 1 .. (n - 1) : i < j => Old(i) < Old(j)
  BY <1>0, <1>1
<1>. HIDE DEF Old
<1>. QED
  BY <1>0, <1>2, <1>3, <1>4 DEF BreakpointsSorted

(***************************************************************************)
(* breakpoints_ is strictly sorted after every sequence of commands, and   *)
(* names only addresses an instruction can be fetched from.                *)
(***************************************************************************)
THEOREM BreakpointsStaySorted == DebuggerSpec => []BreakpointsSorted
<1>1. DebuggerInit => BreakpointsSorted
  BY DEF DebuggerInit, BreakpointsSorted
<1>2. ASSUME DebuggerInvariant, BreakpointsSorted, [DebuggerNext]_debugger_vars
      PROVE  BreakpointsSorted'
  <2>0. DebuggerTypeOK
    BY <1>2 DEF DebuggerInvariant
  <2>1. CASE UNCHANGED breakpoints
    BY <1>2, <2>1 DEF BreakpointsSorted
  <2>2. ASSUME NEW address \in CommandAddresses, AddBreakpoint(address)
        PROVE  BreakpointsSorted'
    BY <1>2, <2>0, <2>2, AddKeepsSorted, DebuggerAssumption
  <2>3. ASSUME NEW address \in CommandAddresses, RemoveBreakpoint(address)
        PROVE  BreakpointsSorted'
    BY <1>2, <2>0, <2>3, RemoveKeepsSorted, DebuggerAssumption
  <2>4. CASE RemoveAllBreakpoints
    BY <2>4 DEF RemoveAllBreakpoints, BreakpointsSorted
  <2>5. \/ UNCHANGED breakpoints
        \/ \E address \in CommandAddresses : AddBreakpoint(address)
        \/ \E address \in CommandAddresses : RemoveBreakpoint(address)
        \/ RemoveAllBreakpoints
    BY <1>2 DEF DebuggerNext, RunNext, StepCommand, ExecuteOne, BudgetSpent,
                ContinueCommand, StartRun, ContinueRun, RunningStep,
                RunStopsAtBreakpoint, RunReachesLimit, InspectCommand, Quit, Done,
                debugger_vars
  <2>. QED
    BY <2>1, <2>2, <2>3, <2>4, <2>5
<1>. QED
  BY <1>1, <1>2, DebuggerInvariantHolds, PTL DEF DebuggerSpec

-----------------------------------------------------------------------------
(***************************************************************************)
(* The refinement.  The instance Batch substitutes only the three          *)
(* variables of run, so what it says of the session is what this module    *)
(* says of it: expanded to the common variables, both are one formula.     *)
(***************************************************************************)
LEMMA EngineAgrees == EngineStep <=> Batch!EngineStep
BY Zenon DEF EngineStep, FetchMisaligned, FetchFault, Undecodable, Fetched,
             Execute, is_instruction_aligned, Trapped, AccessError, NullOpt,
             Some, read32, ExecuteLui, ExecuteAuipc, ExecuteOpImmediate,
             ExecuteOp, ExecuteJal, ExecuteJalr, ExecuteBranch, ExecuteLoad,
             ExecuteStore, ExecuteMiscMemory, ExecuteSystem, Trap,
             architecture, Aligned, InBounds, Offset, HalfwordValues, Retire,
             SequentialProgramCounter, WrapAdd, RetireResult,
             execute_op_immediate, read_register, execute_op, TransferTo,
             ClearLowBit, evaluate_branch, EffectiveAddress, data_access_width,
             LoadError, LoadedValue, StoredBytes, write_register,
             ExecutionObservation, WordValues, ShiftLeft, ShiftAmount,
             BoolWord, signed_less_than, ShiftRight, arithmetic_shift_right,
             execute_m_extension, execute_base_op, execute_alternate_op,
             TakenFlow, sign_extend_byte, read8, sign_extend_halfword, read16,
             write8, write16, write32, FlipSign, is_negative_word, MaxWord,
             UpperWord, signed_product_bits, signed_divide, WrapSub, SignBit,
             signed_magnitude, apply_sign, Word, Batch!EngineStep,
             Batch!FetchMisaligned, Batch!FetchFault, Batch!Undecodable,
             Batch!Fetched, Batch!Execute, Batch!is_instruction_aligned,
             Batch!Trapped, Batch!AccessError, Batch!NullOpt, Batch!Some,
             Batch!read32, Batch!ExecuteLui, Batch!ExecuteAuipc,
             Batch!ExecuteOpImmediate, Batch!ExecuteOp, Batch!ExecuteJal,
             Batch!ExecuteJalr, Batch!ExecuteBranch, Batch!ExecuteLoad,
             Batch!ExecuteStore, Batch!ExecuteMiscMemory, Batch!ExecuteSystem,
             Batch!Trap, Batch!architecture, Batch!Aligned, Batch!InBounds,
             Batch!Offset, Batch!HalfwordValues, Batch!Retire,
             Batch!SequentialProgramCounter, Batch!WrapAdd, Batch!RetireResult,
             Batch!execute_op_immediate, Batch!read_register, Batch!execute_op,
             Batch!TransferTo, Batch!ClearLowBit, Batch!evaluate_branch,
             Batch!EffectiveAddress, Batch!data_access_width, Batch!LoadError,
             Batch!LoadedValue, Batch!StoredBytes, Batch!write_register,
             Batch!ExecutionObservation, Batch!WordValues, Batch!ShiftLeft,
             Batch!ShiftAmount, Batch!BoolWord, Batch!signed_less_than,
             Batch!ShiftRight, Batch!arithmetic_shift_right,
             Batch!execute_m_extension, Batch!execute_base_op,
             Batch!execute_alternate_op, Batch!TakenFlow,
             Batch!sign_extend_byte, Batch!read8, Batch!sign_extend_halfword,
             Batch!read16, Batch!write8, Batch!write16, Batch!write32,
             Batch!FlipSign, Batch!is_negative_word, Batch!MaxWord,
             Batch!UpperWord, Batch!signed_product_bits, Batch!signed_divide,
             Batch!WrapSub, Batch!SignBit, Batch!signed_magnitude,
             Batch!apply_sign, Batch!Word

LEMMA EnvironmentCallAgrees == HandleEnvironmentCall <=> Batch!HandleEnvironmentCall
BY Zenon DEF HandleEnvironmentCall, AtEnvironmentCall, Trap, handle,
             CapturedCall, EnvironmentCall, Fetched, LinuxHandle, ActHandle,
             read_register, ArgumentIndices, Delivered, NextAfterCall,
             write_register, SessionEnvironmentCallResumed, SessionExited,
             SessionUnhandledEnvironmentCall, is_instruction_aligned,
             AccessError, Some, read32, NullOpt, kWrite, handle_write, kExit,
             kExitGroup, Silent, EnvironmentCallExit, EnvironmentCallResume,
             error_return, kErrorNotImplemented, EnvironmentCallNotHandled,
             Registers, SequentialProgramCounter, Aligned, InBounds, Offset,
             HalfwordValues, OutputStreams, kErrorBadFileDescriptor,
             kErrorFault, WriteResult, read_span, SinkWrite, WrapSub, WrapAdd,
             kErrorIo, OutputWriteFailed, OutputWriteCompleted, sputn,
             WordValues, Batch!HandleEnvironmentCall, Batch!AtEnvironmentCall,
             Batch!Trap, Batch!handle, Batch!CapturedCall,
             Batch!EnvironmentCall, Batch!Fetched, Batch!LinuxHandle,
             Batch!ActHandle, Batch!read_register, Batch!ArgumentIndices,
             Batch!Delivered, Batch!NextAfterCall, Batch!write_register,
             Batch!SessionEnvironmentCallResumed, Batch!SessionExited,
             Batch!SessionUnhandledEnvironmentCall,
             Batch!is_instruction_aligned, Batch!AccessError, Batch!Some,
             Batch!read32, Batch!NullOpt, Batch!kWrite, Batch!handle_write,
             Batch!kExit, Batch!kExitGroup, Batch!Silent,
             Batch!EnvironmentCallExit, Batch!EnvironmentCallResume,
             Batch!error_return, Batch!kErrorNotImplemented,
             Batch!EnvironmentCallNotHandled, Batch!Registers,
             Batch!SequentialProgramCounter, Batch!Aligned, Batch!InBounds,
             Batch!Offset, Batch!HalfwordValues, Batch!OutputStreams,
             Batch!kErrorBadFileDescriptor, Batch!kErrorFault,
             Batch!WriteResult, Batch!read_span, Batch!SinkWrite,
             Batch!WrapSub, Batch!WrapAdd, Batch!kErrorIo,
             Batch!OutputWriteFailed, Batch!OutputWriteCompleted, Batch!sputn,
             Batch!WordValues

LEMMA SessionInitAgrees == SessionInit <=> Batch!SessionInit
BY Zenon DEF SessionInit, MachineInit, Environments, NoSessionResult,
             OutputStreams, Registers, Word, Contents, NoResult, WordValues,
             Offsets, Byte, HalfwordValues, Batch!SessionInit,
             Batch!MachineInit, Batch!Environments, Batch!NoSessionResult,
             Batch!OutputStreams, Batch!Registers, Batch!Word, Batch!Contents,
             Batch!NoResult, Batch!WordValues, Batch!Offsets, Batch!Byte,
             Batch!HalfwordValues

LEMMA SessionStepAgrees == SessionStep <=> Batch!SessionStep
BY EngineAgrees, EnvironmentCallAgrees
   DEF SessionStep, InstructionCompleted, InstructionTrapped,
       SessionInstructionCompleted, SessionTrap,
       Batch!SessionStep, Batch!InstructionCompleted, Batch!InstructionTrapped,
       Batch!SessionInstructionCompleted, Batch!SessionTrap

LEMMA StatisticsAgree ==
    /\ Batch!ZeroStatistics = ZeroStatistics
    /\ \A s, result : Batch!CountStep(s, result) = CountStep(s, result)
BY DEF ZeroStatistics, CountStep, Batch!ZeroStatistics, Batch!CountStep

LEMMA BatchTerminalResult ==
    ASSUME NEW result, result.kind \in StepKinds
    PROVE  /\ result.kind \in ContinuingResults =>
                 Batch!TerminalResult(result) = "Running"
           /\ result.kind \notin ContinuingResults =>
                 Batch!TerminalResult(result) = TerminalResult(result)
BY DEF StepKinds, ContinuingResults, TerminalResult, Batch!TerminalResult

\* The result of the batch run that a debugger result stands for.
BatchResult ==
    IF debugger_result \in {"None", "Quit"} THEN "Running" ELSE debugger_result

(***************************************************************************)
(* A guest step below the budget that counts in the total and returns the  *)
(* terminal result, if it has one, is a step of the batch run; giving up   *)
(* at the budget is the batch run's limit; a step that changes neither the *)
(* session, nor the total, nor the result is invisible to it.              *)
(***************************************************************************)
LEMMA MapsToBatchStep ==
    ASSUME debugger_result = "None",
           ~ RunAtLimit(TotalStatistics, maximum_guest_steps),
           SessionStep, session_result'.kind \in StepKinds,
           TotalStatistics' = CountStep(TotalStatistics, session_result'),
           IF session_result'.kind \in ContinuingResults
           THEN debugger_result' = "None"
           ELSE debugger_result' = TerminalResult(session_result')
    PROVE  Batch!BatchStep
<1>1. BatchResult = "Running"
  BY DEF BatchResult
<1>2. BatchResult' = Batch!TerminalResult(session_result')
  <2>1. CASE session_result'.kind \in ContinuingResults
    BY <2>1, BatchTerminalResult DEF BatchResult
  <2>2. CASE session_result'.kind \notin ContinuingResults
    BY <2>2, BatchTerminalResult, StepResultKinds DEF BatchResult
  <2>. QED
    BY <2>1, <2>2
<1>3. Batch!RunStep(TotalStatistics, maximum_guest_steps, {})
  BY SessionStepAgrees DEF Batch!RunStep, Batch!RunAtLimit, RunAtLimit
<1>4. TotalStatistics' = Batch!CountStep(TotalStatistics, session_result')
  BY StatisticsAgree
<1>. QED
  BY <1>1, <1>2, <1>3, <1>4 DEF Batch!BatchStep, BatchResult

LEMMA MapsToLimit ==
    ASSUME debugger_result = "None", debugger_result' = "StepLimitReached",
           RunAtLimit(TotalStatistics, maximum_guest_steps),
           UNCHANGED session_vars, TotalStatistics' = TotalStatistics
    PROVE  Batch!BatchStepLimitReached
<1>1. BatchResult = "Running" /\ BatchResult' = "StepLimitReached"
  BY DEF BatchResult
<1>. QED
  BY <1>1 DEF Batch!BatchStepLimitReached, BatchResult, Batch!RunAtLimit,
              RunAtLimit, session_vars, Batch!session_vars

LEMMA MapsToStutter ==
    ASSUME UNCHANGED session_vars, TotalStatistics' = TotalStatistics,
           BatchResult' = BatchResult
    PROVE  UNCHANGED Batch!batch_vars
BY DEF session_vars, BatchResult, Batch!batch_vars

LEMMA OutsideRuns ==
    ASSUME DebuggerInvariant, mode # "running"
    PROVE  TotalStatistics = statistics
BY AddZero DEF DebuggerInvariant, BudgetInvariant, DebuggerTypeOK, TotalStatistics

LEMMA TotalAfter == TotalStatistics' = AddStatistics(statistics', run_statistics')
BY DEF TotalStatistics, AddStatistics

LEMMA ExecuteOneRefines ==
    ASSUME DebuggerInvariant, mode = "prompt", ~ AtBudget,
           NEW next_mode \in {"prompt", "continuing"}, ExecuteOne(next_mode)
    PROVE  Batch!BatchStep
<1>1. session_result'.kind \in StepKinds
  BY SessionStepTypeOK DEF ExecuteOne, DebuggerInvariant, DebuggerTypeOK
<1>2. TotalStatistics = statistics
  BY OutsideRuns
<1>3. TotalStatistics' = statistics'
  <2>1. run_statistics' = ZeroStatistics /\ statistics' \in Statistics
    BY <1>1, CountStepShape
       DEF ExecuteOne, DebuggerInvariant, DebuggerTypeOK, BudgetInvariant
  <2>. QED
    BY <2>1, AddZero, TotalAfter
<1>4. debugger_result = "None"
  BY DEF DebuggerInvariant, BudgetInvariant
<1>5. IF session_result'.kind \in ContinuingResults
      THEN debugger_result' = "None"
      ELSE debugger_result' = TerminalResult(session_result')
  BY <1>4 DEF ExecuteOne, Return
<1>. QED
  BY <1>1, <1>2, <1>3, <1>4, <1>5, MapsToBatchStep
     DEF ExecuteOne, AtBudget, RunAtLimit

LEMMA RunningStepRefines ==
    ASSUME DebuggerInvariant, RunningStep
    PROVE  Batch!BatchStep
<1>0. DebuggerTypeOK /\ BudgetInvariant /\ mode = "running"
  BY DEF DebuggerInvariant, RunningStep
<1>1. session_result'.kind \in StepKinds
  BY <1>0, SessionStepTypeOK DEF RunningStep, RunStep, DebuggerTypeOK
<1>2. ~ RunAtLimit(TotalStatistics, maximum_guest_steps)
  BY <1>0, RunningTotals DEF RunningStep, RunStep, RunAtLimit
<1>3. /\ statistics \in Statistics /\ run_statistics \in Statistics
      /\ CountStep(run_statistics, session_result') \in Statistics
      /\ debugger_result = "None"
  BY <1>0, <1>1, CountStepShape, RunningTotals DEF DebuggerTypeOK
<1>4. CountStep(TotalStatistics, session_result')
        = AddStatistics(statistics, CountStep(run_statistics, session_result'))
  BY <1>1, <1>3, CountThenAdd DEF TotalStatistics
<1>5. CASE session_result'.kind \in ContinuingResults
  <2>1. TotalStatistics' = AddStatistics(statistics', run_statistics')
    BY TotalAfter
  <2>2. /\ statistics' = statistics /\ debugger_result' = "None"
        /\ run_statistics' = CountStep(run_statistics, session_result')
    BY <1>3, <1>5 DEF RunningStep
  <2>. QED
    BY <1>1, <1>2, <1>3, <1>4, <1>5, <2>1, <2>2, MapsToBatchStep
       DEF RunningStep, RunStep
<1>6. CASE session_result'.kind \notin ContinuingResults
  <2>1. TotalStatistics' = AddStatistics(statistics', run_statistics')
    BY TotalAfter
  <2>2. /\ statistics' = AddStatistics(statistics,
                                       CountStep(run_statistics, session_result'))
        /\ run_statistics' = ZeroStatistics
        /\ debugger_result' = TerminalResult(session_result')
    BY <1>6 DEF RunningStep, Return
  <2>3. TotalStatistics' = statistics'
    BY <1>3, <2>1, <2>2, AddStatisticsShape, AddZero
  <2>. QED
    BY <1>1, <1>2, <1>3, <1>4, <1>6, <2>2, <2>3, MapsToBatchStep
       DEF RunningStep, RunStep
<1>. QED
  BY <1>5, <1>6

LEMMA DebuggerStepRefines ==
    ASSUME DebuggerInvariant, [DebuggerNext]_debugger_vars
    PROVE  [Batch!BatchNext]_(Batch!batch_vars)
<1>0. /\ DebuggerTypeOK /\ BudgetInvariant
      /\ statistics \in Statistics /\ maximum_guest_steps \in Nat
  BY DebuggerAssumption DEF DebuggerInvariant, DebuggerTypeOK
<1>1. Batch!BatchStep => Batch!BatchNext
  BY DEF Batch!BatchNext
<1>2. Batch!BatchStepLimitReached => Batch!BatchNext
  BY DEF Batch!BatchNext
<1>3. CASE StepCommand
  BY <1>1, <1>3, ExecuteOneRefines DEF StepCommand
<1>4. CASE BudgetSpent
  <2>1. mode # "running" /\ debugger_result = "None"
    BY <1>0, <1>4 DEF BudgetSpent, BudgetInvariant
  <2>2. RunAtLimit(TotalStatistics, maximum_guest_steps)
    BY <1>4, <2>1, OutsideRuns DEF BudgetSpent, AtBudget, RunAtLimit
  <2>3. TotalStatistics' = TotalStatistics
    BY <1>4, TotalAfter DEF BudgetSpent, TotalStatistics
  <2>. QED
    BY <1>2, <1>4, <2>1, <2>2, <2>3, MapsToLimit DEF BudgetSpent, Return
<1>5. ASSUME mode # "running", StartRun
      PROVE  UNCHANGED Batch!batch_vars
  <2>1. TotalStatistics' = TotalStatistics
    <3>1. run_statistics = ZeroStatistics
      BY <1>0, <1>5 DEF BudgetInvariant
    <3>. QED
      BY <1>5, <3>1, TotalAfter DEF StartRun, TotalStatistics
  <2>. QED
    BY <1>5, <2>1, MapsToStutter DEF StartRun, BatchResult
<1>6. CASE ContinueCommand
  BY <1>1, <1>5, <1>6, ExecuteOneRefines DEF ContinueCommand
<1>7. CASE ContinueRun
  BY <1>5, <1>7 DEF ContinueRun
<1>8. CASE RunningStep
  BY <1>1, <1>8, RunningStepRefines
<1>9. ASSUME statistics' = AfterRun, run_statistics' = ZeroStatistics, mode = "running"
      PROVE  TotalStatistics' = TotalStatistics
  BY <1>0, <1>9, TotalAfter, AddZero, RunningTotals DEF AfterRun
<1>10. CASE RunStopsAtBreakpoint
  BY <1>9, <1>10, MapsToStutter DEF RunStopsAtBreakpoint, BatchResult
<1>11. CASE RunReachesLimit
  <2>1. mode = "running" /\ debugger_result = "None"
    BY <1>0, <1>11, RunningTotals DEF RunReachesLimit
  <2>2. RunAtLimit(TotalStatistics, maximum_guest_steps)
    BY <1>0, <1>11, <2>1, RunningTotals DEF RunReachesLimit, RunAtLimit
  <2>. QED
    BY <1>2, <1>9, <1>11, <2>1, <2>2, MapsToLimit DEF RunReachesLimit, Return
<1>12. ASSUME UNCHANGED <<session_vars, statistics, run_statistics>>,
              BatchResult' = BatchResult
       PROVE  UNCHANGED Batch!batch_vars
  BY <1>12, TotalAfter, MapsToStutter DEF TotalStatistics
<1>13. ASSUME NEW address \in CommandAddresses,
              AddBreakpoint(address) \/ RemoveBreakpoint(address)
       PROVE  UNCHANGED Batch!batch_vars
  BY <1>12, <1>13 DEF AddBreakpoint, RemoveBreakpoint, BatchResult
<1>14. CASE RemoveAllBreakpoints
  BY <1>12, <1>14 DEF RemoveAllBreakpoints, BatchResult
<1>15. CASE Quit
  <2>1. debugger_result = "None"
    BY <1>0, <1>15 DEF Quit, BudgetInvariant
  <2>2. BatchResult' = BatchResult
    BY <1>15, <2>1 DEF Quit, Return, BatchResult
  <2>. QED
    BY <1>12, <1>15, <2>2 DEF Quit
<1>16. CASE UNCHANGED debugger_vars
  BY <1>12, <1>16 DEF debugger_vars, session_vars, BatchResult
<1>. QED
  BY <1>3, <1>4, <1>6, <1>7, <1>8, <1>10, <1>11, <1>13, <1>14, <1>15, <1>16
     DEF DebuggerNext, RunNext, InspectCommand, Done

(***************************************************************************)
(* The debugger implements a batch run with its budget as the step limit:  *)
(* under every sequence of commands, the guest, its output and the total   *)
(* statistics go through steps of ProgramSession::run without breakpoints, *)
(* and a result other than Quit is the one that run returns.               *)
(***************************************************************************)
THEOREM DebuggerRefinesBatchRun == DebuggerSpec => RefinesBatchRun
<1>1. DebuggerInit => Batch!BatchInit
  <2>1. SUFFICES ASSUME DebuggerInit
                 PROVE  Batch!BatchInit
    OBVIOUS
  <2>2. TotalStatistics = Batch!ZeroStatistics
    BY <2>1, ZeroTyped, AddZero, StatisticsAgree DEF DebuggerInit, TotalStatistics
  <2>3. BatchResult = "Running"
    BY <2>1 DEF DebuggerInit, BatchResult
  <2>4. Batch!SessionInit
    BY <2>1, SessionInitAgrees DEF DebuggerInit
  <2>. QED
    BY <2>2, <2>3, <2>4, DebuggerAssumption DEF Batch!BatchInit, BatchResult
<1>2. DebuggerInvariant /\ [DebuggerNext]_debugger_vars
        => [Batch!BatchNext]_(Batch!batch_vars)
  BY DebuggerStepRefines
<1>. QED
  BY <1>1, <1>2, DebuggerInvariantHolds, PTL
     DEF DebuggerSpec, RefinesBatchRun, Batch!BatchSpec

(***************************************************************************)
(* The guarantees about the environment hold under the debugger as well:   *)
(* no command changes the guest other than by session steps, so resumed    *)
(* calls stay confined to a0 and the program counter and every byte of     *)
(* output is the answer to a write call.                                   *)
(***************************************************************************)
THEOREM DebuggingIsConfined == DebuggerSpec => EnvironmentConfined /\ OutputAccounted
<1>1. ASSUME [DebuggerNext]_debugger_vars
      PROVE  SessionStep \/ UNCHANGED session_vars
  BY <1>1 DEF DebuggerNext, RunNext, StepCommand, ExecuteOne, BudgetSpent,
              ContinueCommand, StartRun, ContinueRun, RunningStep, RunStep,
              RunStopsAtBreakpoint, RunReachesLimit, AddBreakpoint,
              RemoveBreakpoint, RemoveAllBreakpoints, InspectCommand, Quit, Done,
              debugger_vars, session_vars
<1>2. ASSUME DebuggerInvariant, [DebuggerNext]_debugger_vars
      PROVE  [ConfinedStep]_session_vars /\ [AccountedOutput]_session_vars
  BY <1>1, <1>2, SessionStepConfined, SessionStepAccounted
     DEF DebuggerInvariant, DebuggerTypeOK
<1>. QED
  BY <1>2, DebuggerInvariantHolds, PTL
     DEF DebuggerSpec, EnvironmentConfined, OutputAccounted

=============================================================================
