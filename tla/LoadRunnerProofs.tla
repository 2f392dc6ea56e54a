--------------------------- MODULE LoadRunnerProofs ---------------------------
(***************************************************************************)
(* For every list of test plans, every set of plans that scenarios spawn   *)
(* and every bound: the calls that are to come are counted, plans launch   *)
(* what they say, the reactor is not stopped before every plan was         *)
(* launched and every scenario is over, unless a processor was removed     *)
(* twice, and the harnesses' counts move as HarnessCount.tla says.         *)
(***************************************************************************)
EXTENDS LoadRunner, FunctionTheorems, FiniteSetTheorems, SequenceTheorems, TLAPS

RunState == [plan : Plan, launched : Nat, running : Nat, processors : Int]

\* What separates a harness's count of processors from its scenarios.
CountsFit(x) == x.running - x.processors \in 0..MaxMiscount

\* CallsAreCounted is inductive once calls belong to harnesses that exist.
\* StopsWhenOver needs that no call is left when the reactor stops, and that no
\* harness counts a processor then.  CountsFit relates the counts to the bound
\* of the second removals.
RunnerInv ==
    /\ TypeOK
    /\ IsFiniteSet(calls)
    /\ CallsAreCounted
    /\ \A c \in calls : c.harness \in 1..Len(harnesses)
    /\ \A h \in 1..Len(harnesses) : CountsFit(harnesses[h])
    /\ reactor = "stopped" =>
          /\ started
          /\ calls = {}
          /\ \A h \in 1..Len(harnesses) : harnesses[h].processors =< 0

-----------------------------------------------------------------------------
(* Lemmas about the operators. *)

\* A plan with a stagger has a number of calls.
LEMMA IterationsType ==
    ASSUME NEW plan \in Plan, plan.stagger > 0
    PROVE  Iterations(plan) \in Nat
<1>1. plan.quantity \in Nat /\ plan.stagger \in Nat
  BY DEF Plan
<1> QED
  BY <1>1 DEF Iterations

\* The calls that _run_testplan queues: no more than it counts.
LEMMA NewCallsCounted ==
    ASSUME NEW n \in Nat, NEW h, NEW t \in Nat
    PROVE  LET new == {Call(h, t + k) : k \in 0..(n - 1)}
           IN  IsFiniteSet(new) /\ Cardinality(new) \in Nat /\ Cardinality(new) =< n
<1> DEFINE new == {Call(h, t + k) : k \in 0..(n - 1)}
<1> DEFINE f == [k \in 0..(n - 1) |-> Call(h, t + k)]
<1>1. f \in Surjection(0..(n - 1), new)
  BY DEF Surjection
<1>2. IsFiniteSet(0..(n - 1)) /\ Cardinality(0..(n - 1)) = n
  <2>1. n - 1 \in Int /\ (0 > n - 1 <=> n = 0) /\ (n - 1) - 0 + 1 = n
    OBVIOUS
  <2> QED
    BY <2>1, FS_Interval
<1> HIDE DEF f
<1>3. IsFiniteSet(new) /\ Cardinality(new) =< n
  BY <1>1, <1>2, FS_Surjection
<1>4. Cardinality(new) \in Nat
  BY <1>3, FS_CardinalityType
<1> QED
  BY <1>3, <1>4

\* A harness that comes to the others.
LEMMA AppendedHarness ==
    ASSUME NEW s \in Seq(RunState), NEW x \in RunState
    PROVE  /\ Append(s, x) \in Seq(RunState)
           /\ Len(s) \in Nat /\ Len(Append(s, x)) = Len(s) + 1
           /\ \A h \in 1..Len(Append(s, x)) :
                 Append(s, x)[h] = IF h = Len(s) + 1 THEN x ELSE s[h]
OBVIOUS

\* A harness that changes.
LEMMA ChangedHarness ==
    ASSUME NEW s \in Seq(RunState), NEW x \in RunState, NEW i \in 1..Len(s)
    PROVE  LET t == [s EXCEPT ![i] = x]
           IN  /\ t \in Seq(RunState)
               /\ Len(t) = Len(s)
               /\ \A h \in 1..Len(s) : t[h] = IF h = i THEN x ELSE s[h]
BY ExceptSeq

LEMMA NewHarnessFits ==
    ASSUME NEW plan \in Plan
    PROVE  /\ NewHarness(plan) \in RunState
           /\ CountsFit(NewHarness(plan))
BY BoundsFit DEF NewHarness, RunState, CountsFit

\* A harness whose counts change together, or its processors alone.
LEMMA MoreFits ==
    ASSUME NEW x \in RunState, NEW l \in Int, NEW r \in Int, NEW p \in Int,
           x.launched + l \in Nat, x.running + r \in Nat,
           (x.running + r) - (x.processors + p) \in 0..MaxMiscount
    PROVE  More(x, l, r, p) \in RunState /\ CountsFit(More(x, l, r, p))
<1>1. x.plan \in Plan /\ x.processors \in Int
  BY DEF RunState
<1> QED
  BY <1>1 DEF More, RunState, CountsFit

\* The counts are numbers that arithmetic applies to.
LEMMA CountTypes ==
    ASSUME NEW x \in RunState
    PROVE  /\ x.plan \in Plan /\ x.plan.stagger \in Nat
           /\ x.launched \in Nat /\ x.running \in Nat /\ x.processors \in Int
           /\ MaxMiscount \in Nat
BY BoundsFit DEF RunState, Plan

\* What happens to a harness's scenarios keeps its counts together.
LEMMA LaunchedFits ==
    ASSUME NEW x \in RunState, CountsFit(x)
    PROVE  Launched(x) \in RunState /\ CountsFit(Launched(x))
<1> DEFINE s == x.plan.stagger
<1>1. /\ s \in Int /\ x.launched + s \in Nat /\ x.running + s \in Nat
      /\ (x.running + s) - (x.processors + s) \in 0..MaxMiscount
  BY CountTypes DEF CountsFit
<1> QED
  BY <1>1, MoreFits DEF Launched

LEMMA EndedFits ==
    ASSUME NEW x \in RunState, CountsFit(x), x.running > 0
    PROVE  Ended(x) \in RunState /\ CountsFit(Ended(x))
<1>1. /\ x.launched + 0 \in Nat /\ x.running + (-1) \in Nat
      /\ (x.running + (-1)) - (x.processors + (-1)) \in 0..MaxMiscount
  BY CountTypes DEF CountsFit
<1> QED
  BY <1>1, MoreFits DEF Ended

LEMMA RemovedAgainFits ==
    ASSUME NEW x \in RunState, CountsFit(x), x.running - x.processors < MaxMiscount
    PROVE  RemovedAgain(x) \in RunState /\ CountsFit(RemovedAgain(x))
<1>1. /\ x.launched + 0 \in Nat /\ x.running + 0 \in Nat
      /\ (x.running + 0) - (x.processors + (-1)) \in 0..MaxMiscount
  BY CountTypes DEF CountsFit
<1> QED
  BY <1>1, MoreFits DEF RemovedAgain

-----------------------------------------------------------------------------
(* One lemma per action. *)

LEMMA InitInv == Init => RunnerInv
<1> SUFFICES ASSUME Init PROVE RunnerInv
  OBVIOUS
<1>1. harnesses \in Seq(RunState) /\ Len(harnesses) = 0
  BY DEF Init
<1>2. TypeOK
  <2>1. now \in 0..Horizon
    BY BoundsFit DEF Init
  <2> QED
    BY <1>1, <2>1 DEF Init, TypeOK, RunState
<1>3. IsFiniteSet(calls) /\ CallsAreCounted
  BY FS_EmptySet DEF Init, CallsAreCounted
<1> QED
  BY <1>1, <1>2, <1>3 DEF Init, RunnerInv

\* _run_testplan, called by start and by spawn.
LEMMA RunTestplanInv ==
    ASSUME RunnerInv, NEW plan \in Plan, plan.stagger > 0, RunTestplan(plan),
           UNCHANGED <<now, metrics, loop, reactor>>, started' \in BOOLEAN,
           reactor = "running"
    PROVE  RunnerInv'
<1> DEFINE n == Iterations(plan)
<1> DEFINE t == now + plan.delay
<1> DEFINE h == Len(harnesses) + 1
<1> DEFINE new == {Call(h, t + k) : k \in 0..(n - 1)}
<1>1. n \in Nat
  BY IterationsType
<1>2. now \in Nat /\ t \in Nat
  BY BoundsFit DEF RunnerInv, TypeOK, Plan
<1>3. harnesses \in Seq(RunState) /\ Len(harnesses) \in Nat
  BY DEF RunnerInv, TypeOK, RunState
<1>4. /\ harnesses' \in Seq(RunState) /\ Len(harnesses') = Len(harnesses) + 1
      /\ \A i \in 1..Len(harnesses') : CountsFit(harnesses'[i])
  BY <1>3, AppendedHarness, NewHarnessFits DEF RunnerInv, RunTestplan
<1>5. calls' = calls \cup new /\ queued' = queued + n
  BY DEF RunTestplan
<1>6. new \subseteq [harness : Nat, due : Nat]
  BY <1>1, <1>2, <1>3 DEF Call
<1>7. \A c \in new : c.harness = h
  BY DEF Call
<1>8. IsFiniteSet(new) /\ Cardinality(new) \in Nat /\ Cardinality(new) =< n
  BY <1>1, <1>2, NewCallsCounted
<1> HIDE DEF n, new, t
<1>9. /\ IsFiniteSet(calls \cup new)
      /\ Cardinality(calls \cup new) =< Cardinality(calls) + Cardinality(new)
  <2>1. IsFiniteSet(calls) /\ IsFiniteSet(calls \cap new)
    BY FS_Intersection DEF RunnerInv
  <2>2. Cardinality(calls \cap new) \in Nat /\ Cardinality(calls) \in Nat
    BY <2>1, FS_CardinalityType
  <2>3. /\ IsFiniteSet(calls \cup new)
        /\ Cardinality(calls \cup new) = Cardinality(calls) + Cardinality(new)
                                             - Cardinality(calls \cap new)
    BY <2>1, <1>8, FS_Union
  <2> QED
    BY <2>2, <2>3, <1>8
<1>10. Cardinality(calls) \in Nat /\ Cardinality(calls \cup new) \in Nat
  BY <1>9, FS_CardinalityType DEF RunnerInv
<1>11. CallsAreCounted'
  BY <1>1, <1>5, <1>8, <1>9, <1>10 DEF RunnerInv, CallsAreCounted, TypeOK
<1>12. TypeOK'
  BY <1>1, <1>4, <1>5, <1>6 DEF RunnerInv, TypeOK, RunState
<1>13. \A c \in calls' : c.harness \in 1..Len(harnesses')
  BY <1>3, <1>4, <1>5, <1>7 DEF RunnerInv
<1> QED
  BY <1>4, <1>5, <1>9, <1>11, <1>12, <1>13 DEF RunnerInv

LEMMA StartPlanInv ==
    ASSUME RunnerInv, StartPlan
    PROVE  RunnerInv'
<1>1. Len(harnesses) \in Nat
  BY DEF RunnerInv, TypeOK
<1> DEFINE i == Len(harnesses) + 1
<1>2. i \in 1..Len(TestPlans)
  BY <1>1, PlansAreWellFormed DEF StartPlan
<1>3. TestPlans[i] \in Plan /\ TestPlans[i].stagger > 0
  BY <1>2, PlansAreWellFormed
<1>4. reactor = "running" /\ started' = started /\ started \in BOOLEAN
  BY DEF StartPlan, RunnerInv, TypeOK
<1> QED
  BY <1>3, <1>4, RunTestplanInv DEF StartPlan

LEMMA StartDoneInv ==
    ASSUME RunnerInv, StartDone
    PROVE  RunnerInv'
BY DEF RunnerInv, TypeOK, CallsAreCounted, StartDone, RunState

\* runall takes its call away and, unless it raises, one from the count.
LEMMA RunAllInv ==
    ASSUME RunnerInv, NEW c \in calls, RunAll(c)
    PROVE  RunnerInv'
<1> DEFINE h == c.harness
<1> DEFINE plan == harnesses[h].plan
<1>1. harnesses \in Seq(RunState) /\ h \in 1..Len(harnesses)
  BY DEF RunnerInv, TypeOK, RunState
<1>2. harnesses[h] \in RunState /\ CountsFit(harnesses[h])
  BY <1>1 DEF RunnerInv
<1>3. calls' = calls \ {c} /\ IsFiniteSet(calls \ {c})
      /\ Cardinality(calls \ {c}) = Cardinality(calls) - 1
      /\ Cardinality(calls) \in Nat /\ Cardinality(calls \ {c}) \in Nat
  BY FS_RemoveElement, FS_CardinalityType DEF RunnerInv, RunAll
<1>4. queued \in Nat /\ queued' \in {queued, queued - 1} /\ queued >= Cardinality(calls)
  BY DEF RunnerInv, TypeOK, CallsAreCounted, RunAll
<1>5. queued' \in Nat /\ queued' >= Cardinality(calls')
  BY <1>3, <1>4
<1>6. /\ harnesses' \in Seq(RunState) /\ Len(harnesses') = Len(harnesses)
      /\ \A i \in 1..Len(harnesses') : CountsFit(harnesses'[i])
  <2>1. CASE plan.fits
    <3>1. harnesses' = [harnesses EXCEPT ![h] = Launched(harnesses[h])]
      BY <2>1 DEF RunAll, Launch
    <3>2. Launched(harnesses[h]) \in RunState /\ CountsFit(Launched(harnesses[h]))
      BY <1>2, LaunchedFits
    <3> QED
      BY <1>1, <3>1, <3>2, ChangedHarness DEF RunnerInv
  <2>2. CASE ~plan.fits
    BY <1>1, <2>2 DEF RunAll, RunnerInv
  <2> QED
    BY <2>1, <2>2
<1>7. UNCHANGED <<now, started, metrics, loop, reactor>> /\ reactor = "running"
  BY DEF RunAll, Running
<1>8. TypeOK' /\ CallsAreCounted'
  BY <1>3, <1>5, <1>6, <1>7 DEF RunnerInv, TypeOK, RunState, CallsAreCounted
<1> QED
  BY <1>3, <1>6, <1>7, <1>8 DEF RunnerInv

\* The steps that change the counts of one harness and nothing else.
LEMMA CountsInv ==
    ASSUME RunnerInv, NEW h \in 1..Len(harnesses), NEW x \in RunState,
           CountsFit(x), harnesses' = [harnesses EXCEPT ![h] = x],
           reactor = "running",
           UNCHANGED <<now, started, calls, queued, metrics, loop, reactor>>
    PROVE  RunnerInv'
<1>1. harnesses \in Seq(RunState)
  BY DEF RunnerInv, TypeOK, RunState
<1>2. /\ harnesses' \in Seq(RunState) /\ Len(harnesses') = Len(harnesses)
      /\ \A i \in 1..Len(harnesses') : CountsFit(harnesses'[i])
  BY <1>1, ChangedHarness DEF RunnerInv
<1> QED
  BY <1>2 DEF RunnerInv, TypeOK, RunState, CallsAreCounted

LEMMA ScenarioEndsInv ==
    ASSUME RunnerInv, NEW h \in 1..Len(harnesses), ScenarioEnds(h)
    PROVE  RunnerInv'
<1> harnesses \in Seq(RunState)
  BY DEF RunnerInv, TypeOK, RunState
<1>1. harnesses[h] \in RunState /\ CountsFit(harnesses[h])
  BY DEF RunnerInv
<1>2. Ended(harnesses[h]) \in RunState /\ CountsFit(Ended(harnesses[h]))
  BY <1>1, EndedFits DEF ScenarioEnds
<1> QED
  BY <1>2, CountsInv DEF ScenarioEnds, Running

LEMMA LateRemovalInv ==
    ASSUME RunnerInv, NEW h \in 1..Len(harnesses), LateRemoval(h)
    PROVE  RunnerInv'
<1> harnesses \in Seq(RunState)
  BY DEF RunnerInv, TypeOK, RunState
<1>1. harnesses[h] \in RunState /\ CountsFit(harnesses[h])
  BY DEF RunnerInv
<1>2. RemovedAgain(harnesses[h]) \in RunState /\ CountsFit(RemovedAgain(harnesses[h]))
  BY <1>1, RemovedAgainFits DEF LateRemoval
<1> QED
  BY <1>2, CountsInv DEF LateRemoval, Running

LEMMA SpawnInv ==
    ASSUME RunnerInv, NEW h \in 1..Len(harnesses), Spawn(h)
    PROVE  RunnerInv'
<1>1. PICK plan \in Spawnable :
          IF plan.stagger > 0
          THEN RunTestplan(plan)
          ELSE /\ harnesses' = Append(harnesses, NewHarness(plan))
               /\ UNCHANGED <<calls, queued>>
  BY DEF Spawn
<1>2. plan \in Plan
  BY PlansAreWellFormed
<1>3. UNCHANGED <<now, started, metrics, loop, reactor>> /\ reactor = "running"
      /\ started' \in BOOLEAN
  BY DEF Spawn, Running, RunnerInv, TypeOK
<1>4. CASE plan.stagger > 0
  BY <1>1, <1>2, <1>3, <1>4, RunTestplanInv
<1>5. CASE ~(plan.stagger > 0)
  <2>1. harnesses \in Seq(RunState)
    BY DEF RunnerInv, TypeOK, RunState
  <2>2. /\ harnesses' \in Seq(RunState) /\ Len(harnesses') = Len(harnesses) + 1
        /\ Len(harnesses) \in Nat
        /\ \A i \in 1..Len(harnesses') : CountsFit(harnesses'[i])
    <3> DEFINE x == NewHarness(plan)
    <3>1. x \in RunState /\ CountsFit(x)
      BY <1>2, NewHarnessFits
    <3>2. harnesses' = Append(harnesses, x)
      BY <1>1, <1>5
    <3> HIDE DEF x
    <3> QED
      BY <2>1, <3>1, <3>2, AppendedHarness DEF RunnerInv
  <2>3. UNCHANGED <<calls, queued>>
    BY <1>1, <1>5
  <2>4. TypeOK' /\ CallsAreCounted'
    BY <1>3, <2>2, <2>3 DEF RunnerInv, TypeOK, RunState, CallsAreCounted
  <2> QED
    BY <1>3, <2>2, <2>3, <2>4 DEF RunnerInv
<1> QED
  BY <1>4, <1>5

LEMMA TickInv ==
    ASSUME RunnerInv, Tick
    PROVE  RunnerInv'
BY BoundsFit DEF RunnerInv, TypeOK, CallsAreCounted, Tick, Running

\* With nothing queued there is no call, for calls are counted.
LEMMA CheckLoadRunnerInv ==
    ASSUME RunnerInv, CheckLoadRunner
    PROVE  RunnerInv'
<1>1. queued = 0 /\ started /\ \A h \in 1..Len(harnesses) : harnesses[h].processors =< 0
  BY DEF CheckLoadRunner, Finished
<1>2. Cardinality(calls) \in Nat /\ Cardinality(calls) =< 0
  BY <1>1, FS_CardinalityType DEF RunnerInv, CallsAreCounted
<1>3. calls = {}
  BY <1>2, FS_EmptySet DEF RunnerInv
<1> QED
  BY <1>1, <1>3 DEF RunnerInv, TypeOK, CallsAreCounted, CheckLoadRunner

-----------------------------------------------------------------------------
(* The theorems. *)

LEMMA NextInv == RunnerInv /\ [Next]_vars => RunnerInv'
<1> SUFFICES ASSUME RunnerInv, [Next]_vars PROVE RunnerInv'
  OBVIOUS
<1>1. CASE StartPlan
  BY <1>1, StartPlanInv
<1>2. CASE StartDone
  BY <1>2, StartDoneInv
<1>3. ASSUME NEW c \in calls, RunAll(c) PROVE RunnerInv'
  BY <1>3, RunAllInv
<1>4. ASSUME NEW h \in 1..Len(harnesses), ScenarioEnds(h) PROVE RunnerInv'
  BY <1>4, ScenarioEndsInv
<1>5. ASSUME NEW h \in 1..Len(harnesses), LateRemoval(h) PROVE RunnerInv'
  BY <1>5, LateRemovalInv
<1>6. ASSUME NEW h \in 1..Len(harnesses), Spawn(h) PROVE RunnerInv'
  BY <1>6, SpawnInv
<1>7. CASE Tick
  BY <1>7, TickInv
<1>8. CASE CheckLoadRunner
  BY <1>8, CheckLoadRunnerInv
<1>9. CASE UNCHANGED vars
  BY <1>9 DEF vars, RunnerInv, TypeOK, CallsAreCounted
<1> QED
  BY <1>1, <1>2, <1>3, <1>4, <1>5, <1>6, <1>7, <1>8, <1>9 DEF Next, Stopped

\* RunnerInv holds in every state of the load runner.
THEOREM RunnerIsCorrect == Spec => []RunnerInv
<1>1. Init => RunnerInv
  BY InitInv
<1>2. RunnerInv /\ [Next]_vars => RunnerInv'
  BY NextInv
<1> QED
  BY <1>1, <1>2, PTL DEF Spec

\* The variables keep their types; _queued_calls in particular never becomes
\* negative, so that finished's `_queued_calls == 0` is not passed by.
THEOREM RunnerIsTyped == Spec => []TypeOK
<1>1. RunnerInv => TypeOK
  BY DEF RunnerInv
<1> QED
  BY <1>1, RunnerIsCorrect, PTL

\* _queued_calls counts every runall that is still to come, for any plans,
\* given or spawned, and however many of them raise.
THEOREM QueuedCallsAreCounted == Spec => []CallsAreCounted
<1>1. RunnerInv => CallsAreCounted
  BY DEF RunnerInv
<1> QED
  BY <1>1, RunnerIsCorrect, PTL

\* check_loadrunner stops the reactor only when every plan was launched and
\* every scenario is over, but for those of a harness that removed a processor
\* twice.
THEOREM StopsOnlyWhenOver == Spec => []StopsWhenOver
<1>1. RunnerInv => StopsWhenOver
  <2> SUFFICES ASSUME RunnerInv, reactor = "stopped"
               PROVE  /\ calls = {}
                      /\ \A h \in 1..Len(harnesses) :
                            \/ harnesses[h].running = 0
                            \/ harnesses[h].processors < harnesses[h].running
    BY DEF StopsWhenOver
  <2>1. harnesses \in Seq(RunState)
    BY DEF RunnerInv, TypeOK, RunState
  <2>2. ASSUME NEW h \in 1..Len(harnesses)
        PROVE  \/ harnesses[h].running = 0
               \/ harnesses[h].processors < harnesses[h].running
    <3>1. harnesses[h] \in RunState /\ harnesses[h].processors =< 0
      BY <2>1 DEF RunnerInv
    <3> QED
      BY <3>1 DEF RunState
  <2> QED
    BY <2>2 DEF RunnerInv
<1> QED
  BY <1>1, RunnerIsCorrect, PTL

-----------------------------------------------------------------------------
(* What plans launch. *)

LEMMA DivisionFits ==
    ASSUME NEW q \in Nat, NEW s \in Nat, s > 0
    PROVE  s * (q \div s) =< q /\ q < s * (q \div s) + s
OBVIOUS

LEMMA OneCallFewer ==
    ASSUME NEW l \in Nat, NEW s \in Nat, NEW n \in Nat
    PROVE  (l + s) + s * (n - 1) = l + s * n
OBVIOUS

\* The n calls for harness h that _run_testplan queues, from t on.
CallsFrom(h, t, n) == {Call(h, t + k) : k \in 0..(n - 1)}

\* They come one second after the other: none is lost.
LEMMA NewCallsExactly ==
    ASSUME NEW n \in Nat, NEW h, NEW t \in Nat,
           NEW new, new = CallsFrom(h, t, n)
    PROVE  IsFiniteSet(new) /\ Cardinality(new) = n
<1>1. PICK f : f = [k \in 0..(n - 1) |-> Call(h, t + k)]
  OBVIOUS
<1>2. \A k, j \in 0..(n - 1) : f[k] = f[j] => k = j
  BY <1>1 DEF Call
<1>3. f \in Bijection(0..(n - 1), new)
  <2>1. f \in [0..(n - 1) -> new] /\ \A x \in new : \E k \in 0..(n - 1) : f[k] = x
    BY <1>1 DEF CallsFrom
  <2>2. f \in Injection(0..(n - 1), new)
    BY <1>2, <2>1, Fun_IsInj
  <2>3. f \in Surjection(0..(n - 1), new)
    BY <2>1, Fun_IsSurj
  <2> QED
    BY <2>2, <2>3 DEF Bijection
<1>4. IsFiniteSet(0..(n - 1)) /\ Cardinality(0..(n - 1)) = n
  <2>1. n - 1 \in Int /\ (0 > n - 1 <=> n = 0) /\ (n - 1) - 0 + 1 = n
    OBVIOUS
  <2> QED
    BY <2>1, FS_Interval
<1> QED
  BY <1>3, <1>4, FS_Bijection DEF ExistsBijection

\* LaunchesAddUp for one harness: its calls are one second apart, so that there
\* are as many as the loop counted, and each runall takes one and launches
\* stagger scenarios for it.
AddsUp(h) ==
    LET plan == harnesses[h].plan IN
    (plan.fits /\ plan.stagger > 0) =>
        LET total == harnesses[h].launched + plan.stagger * Cardinality(CallsOf(h))
        IN  total =< plan.quantity /\ plan.quantity < total + plan.stagger

\* A harness whose plan, launches and calls stay as they are.
LEMMA AddsUpStays ==
    ASSUME NEW h, AddsUp(h), CallsOf(h)' = CallsOf(h),
           harnesses'[h].plan = harnesses[h].plan,
           harnesses'[h].launched = harnesses[h].launched
    PROVE  AddsUp(h)'
BY DEF AddsUp

LEMMA RunTestplanAddsUp ==
    ASSUME RunnerInv, LaunchesAddUp, NEW plan \in Plan, plan.stagger > 0,
           RunTestplan(plan)
    PROVE  LaunchesAddUp'
<1>1. harnesses \in Seq(RunState) /\ Len(harnesses) \in Nat
      /\ now \in Nat /\ NewHarness(plan) \in RunState
  BY BoundsFit, NewHarnessFits DEF RunnerInv, TypeOK, RunState
<1>2. PICK n, t, h, new :
         /\ n = Iterations(plan) /\ t = now + plan.delay /\ h = Len(harnesses) + 1
         /\ new = CallsFrom(h, t, n)
  OBVIOUS
<1>3. n \in Nat /\ t \in Nat /\ plan.quantity \in Nat /\ plan.stagger \in Nat
  BY <1>1, <1>2, IterationsType DEF Plan
<1>4. calls' = calls \cup new /\ harnesses' = Append(harnesses, NewHarness(plan))
  BY <1>2 DEF RunTestplan, CallsFrom
<1>5. \A c \in new : c.harness = h
  BY <1>2 DEF Call, CallsFrom
<1>6. Cardinality(new) = n
  BY <1>2, <1>3, NewCallsExactly
<1>7. /\ Len(harnesses') = Len(harnesses) + 1
      /\ \A i \in 1..Len(harnesses') :
            harnesses'[i] = IF i = h THEN NewHarness(plan) ELSE harnesses[i]
  BY <1>1, <1>2, <1>4, AppendedHarness
<1>8. ASSUME NEW i \in 1..Len(harnesses) PROVE AddsUp(i)'
  <2>1. i # h /\ CallsOf(i)' = CallsOf(i) /\ harnesses'[i] = harnesses[i]
    BY <1>1, <1>2, <1>4, <1>5, <1>7 DEF CallsOf
  <2>2. AddsUp(i)
    BY DEF LaunchesAddUp, AddsUp
  <2> QED
    BY <2>1, <2>2, AddsUpStays
<1>9. AddsUp(h)'
  <2>0. \A c \in calls : c.harness # h
    BY <1>1, <1>2 DEF RunnerInv
  <2>1. CallsOf(h)' = new
    BY <1>4, <1>5, <2>0 DEF CallsOf
  <2>2. h \in 1..Len(harnesses')
    BY <1>1, <1>2, <1>7
  <2>3. harnesses'[h].plan = plan /\ harnesses'[h].launched = 0
    BY <1>7, <2>2 DEF NewHarness
  <2>4. /\ plan.stagger * n =< plan.quantity
        /\ plan.quantity < plan.stagger * n + plan.stagger
    BY <1>2, <1>3, DivisionFits DEF Iterations
  <2>5. plan.stagger * n \in Nat
    BY <1>3
  <2> QED
    BY <1>3, <1>6, <2>1, <2>3, <2>4, <2>5 DEF AddsUp
<1> QED
  <2>1. \A i \in 1..Len(harnesses') : i \in 1..Len(harnesses) \/ i = h
    BY <1>1, <1>2, <1>7
  <2> QED
    BY <1>8, <1>9, <2>1 DEF LaunchesAddUp, AddsUp

\* A step that queues no call and launches nothing.
LEMMA LaunchesAddUpStays ==
    ASSUME RunnerInv, LaunchesAddUp, calls' = calls,
           Len(harnesses') = Len(harnesses),
           \A h \in 1..Len(harnesses) :
              /\ harnesses'[h].plan = harnesses[h].plan
              /\ harnesses'[h].launched = harnesses[h].launched
    PROVE  LaunchesAddUp'
<1>1. ASSUME NEW h \in 1..Len(harnesses) PROVE AddsUp(h)'
  <2>1. AddsUp(h) /\ CallsOf(h)' = CallsOf(h)
    BY DEF LaunchesAddUp, AddsUp, CallsOf
  <2> QED
    BY <2>1, AddsUpStays
<1> QED
  BY <1>1 DEF LaunchesAddUp, AddsUp

LEMMA RunAllAddsUp ==
    ASSUME RunnerInv, LaunchesAddUp, NEW c \in calls, RunAll(c)
    PROVE  LaunchesAddUp'
<1>1. PICK h : h = c.harness
  OBVIOUS
<1>2. harnesses \in Seq(RunState) /\ h \in 1..Len(harnesses)
  BY <1>1 DEF RunnerInv, TypeOK, RunState
<1>3. harnesses[h] \in RunState /\ Launched(harnesses[h]) \in RunState
  BY <1>2, LaunchedFits DEF RunnerInv
<1>4. PICK x : x = IF harnesses[h].plan.fits THEN Launched(harnesses[h]) ELSE harnesses[h]
  OBVIOUS
<1>5. /\ Len(harnesses') = Len(harnesses)
      /\ \A i \in 1..Len(harnesses) : harnesses'[i] = IF i = h THEN x ELSE harnesses[i]
  <2>1. CASE harnesses[h].plan.fits
    BY <1>1, <1>2, <1>3, <1>4, <2>1, ChangedHarness DEF RunAll, Launch
  <2>2. CASE ~harnesses[h].plan.fits
    BY <1>1, <1>4, <2>2 DEF RunAll
  <2> QED
    BY <2>1, <2>2
<1>6. calls' = calls \ {c}
  BY DEF RunAll
<1>7. ASSUME NEW i \in 1..Len(harnesses) PROVE AddsUp(i)'
  <2>1. AddsUp(i)
    BY DEF LaunchesAddUp, AddsUp
  <2>2. CASE i # h
    <3>1. CallsOf(i)' = CallsOf(i) /\ harnesses'[i] = harnesses[i]
      BY <1>1, <1>5, <1>6, <2>2 DEF CallsOf
    <3> QED
      BY <2>1, <3>1, AddsUpStays
  <2>3. CASE i = h /\ ~harnesses[h].plan.fits
    BY <1>4, <1>5, <2>3 DEF AddsUp
  <2>4. CASE i = h /\ harnesses[h].plan.fits
    <3>1. CallsOf(h)' = CallsOf(h) \ {c} /\ c \in CallsOf(h)
      BY <1>1, <1>6 DEF CallsOf
    <3>2. IsFiniteSet(CallsOf(h))
      <4>1. CallsOf(h) \subseteq calls /\ IsFiniteSet(calls)
        BY DEF CallsOf, RunnerInv
      <4> QED
        BY <4>1, FS_Subset
    <3>3. PICK n \in Nat : n = Cardinality(CallsOf(h)) /\ Cardinality(CallsOf(h)') = n - 1
      <4>1. Cardinality(CallsOf(h)) \in Nat
        BY <3>2, FS_CardinalityType
      <4>2. Cardinality(CallsOf(h) \ {c}) = Cardinality(CallsOf(h)) - 1
        BY <3>1, <3>2, FS_RemoveElement
      <4>3. Cardinality(CallsOf(h)') = Cardinality(CallsOf(h) \ {c})
        BY <3>1
      <4> QED
        BY <4>1, <4>2, <4>3
    <3>4. PICK l \in Nat, s \in Nat :
             /\ l = harnesses[h].launched /\ s = harnesses[h].plan.stagger
             /\ harnesses'[h].launched = l + s
             /\ harnesses'[h].plan = harnesses[h].plan
      BY <1>2, <1>3, <1>4, <1>5, <2>4, CountTypes DEF Launched, More
    <3>5. (l + s) + s * (n - 1) = l + s * n
      BY OneCallFewer
    <3> QED
      BY <2>1, <2>4, <3>3, <3>4, <3>5 DEF AddsUp
  <2> QED
    BY <2>2, <2>3, <2>4
<1> QED
  BY <1>5, <1>7 DEF LaunchesAddUp, AddsUp

\* The end of a scenario takes back no launch.
LEMMA OnlyCountsEnd ==
    ASSUME NEW x \in RunState
    PROVE  /\ Ended(x).plan = x.plan /\ Ended(x).launched = x.launched
           /\ RemovedAgain(x).plan = x.plan /\ RemovedAgain(x).launched = x.launched
<1>1. x.launched \in Nat
  BY DEF RunState
<1> QED
  BY <1>1 DEF Ended, RemovedAgain, More

LEMMA NextAddsUp ==
    ASSUME RunnerInv, LaunchesAddUp, [Next]_vars
    PROVE  LaunchesAddUp'
<1>1. harnesses \in Seq(RunState) /\ Len(harnesses) \in Nat
  BY DEF RunnerInv, TypeOK, RunState
<1>2. CASE StartPlan
  <2>1. PICK i : i = Len(harnesses) + 1
    OBVIOUS
  <2>2. i \in 1..Len(TestPlans)
    BY <1>1, <1>2, <2>1, PlansAreWellFormed DEF StartPlan
  <2>3. TestPlans[i] \in Plan /\ TestPlans[i].stagger > 0
    BY <2>2, PlansAreWellFormed
  <2> QED
    BY <1>2, <2>1, <2>3, RunTestplanAddsUp DEF StartPlan
<1>3. ASSUME NEW c \in calls, RunAll(c) PROVE LaunchesAddUp'
  BY <1>3, RunAllAddsUp
<1>4. ASSUME NEW h \in 1..Len(harnesses), ScenarioEnds(h) \/ LateRemoval(h)
      PROVE  LaunchesAddUp'
  <2>1. PICK x : x = IF ScenarioEnds(h) THEN Ended(harnesses[h])
                     ELSE RemovedAgain(harnesses[h])
    OBVIOUS
  <2>2. harnesses[h] \in RunState /\ CountsFit(harnesses[h])
    BY <1>1 DEF RunnerInv
  <2>3. /\ x \in RunState /\ x.plan = harnesses[h].plan
        /\ x.launched = harnesses[h].launched
    <3>1. CASE ScenarioEnds(h)
      BY <2>1, <2>2, <3>1, EndedFits, OnlyCountsEnd DEF ScenarioEnds
    <3>2. CASE ~ScenarioEnds(h)
      BY <1>4, <2>1, <2>2, <3>2, RemovedAgainFits, OnlyCountsEnd DEF LateRemoval
    <3> QED
      BY <3>1, <3>2
  <2>4. harnesses' = [harnesses EXCEPT ![h] = x] /\ calls' = calls
    BY <1>4, <2>1 DEF ScenarioEnds, LateRemoval
  <2>5. /\ Len(harnesses') = Len(harnesses)
        /\ \A i \in 1..Len(harnesses) : harnesses'[i] = IF i = h THEN x ELSE harnesses[i]
    BY <1>1, <2>3, <2>4, ChangedHarness
  <2> QED
    BY <2>3, <2>4, <2>5, LaunchesAddUpStays
<1>5. ASSUME NEW h \in 1..Len(harnesses), Spawn(h) PROVE LaunchesAddUp'
  <2>1. PICK plan \in Spawnable :
            IF plan.stagger > 0
            THEN RunTestplan(plan)
            ELSE /\ harnesses' = Append(harnesses, NewHarness(plan))
                 /\ UNCHANGED <<calls, queued>>
    BY <1>5 DEF Spawn
  <2>2. plan \in Plan /\ NewHarness(plan) \in RunState
    BY PlansAreWellFormed, NewHarnessFits
  <2>3. CASE plan.stagger > 0
    BY <2>1, <2>2, <2>3, RunTestplanAddsUp
  <2>4. CASE ~(plan.stagger > 0)
    <3>1. /\ Len(harnesses') = Len(harnesses) + 1
          /\ \A i \in 1..Len(harnesses') :
                harnesses'[i] = IF i = Len(harnesses) + 1 THEN NewHarness(plan)
                               ELSE harnesses[i]
      BY <1>1, <2>1, <2>2, <2>4, AppendedHarness
    <3>2. ASSUME NEW i \in 1..Len(harnesses') PROVE AddsUp(i)'
      <4>1. CASE i = Len(harnesses) + 1
        BY <2>4, <3>1, <4>1 DEF AddsUp, NewHarness
      <4>2. CASE i # Len(harnesses) + 1
        <5>1. i \in 1..Len(harnesses) /\ harnesses'[i] = harnesses[i]
          BY <1>1, <3>1, <4>2
        <5>2. AddsUp(i)
          BY <5>1 DEF LaunchesAddUp, AddsUp
        <5>3. CallsOf(i)' = CallsOf(i)
          BY <2>1, <2>4 DEF CallsOf
        <5> QED
          BY <5>1, <5>2, <5>3, AddsUpStays
      <4> QED
        BY <4>1, <4>2
    <3> QED
      BY <3>2 DEF LaunchesAddUp, AddsUp
  <2> QED
    BY <2>3, <2>4
<1>6. CASE StartDone \/ Tick \/ CheckLoadRunner \/ UNCHANGED vars
  <2>1. harnesses' = harnesses /\ calls' = calls
    BY <1>6 DEF StartDone, Tick, CheckLoadRunner, vars
  <2> QED
    BY <2>1, LaunchesAddUpStays
<1> QED
  BY <1>2, <1>3, <1>4, <1>5, <1>6 DEF Next, Stopped

\* A plan launches the largest multiple of its stagger that its quantity holds,
\* for any plan whose function takes its arguments (_run_testplan, runall).
THEOREM PlansLaunchWhatTheySay == Spec => []LaunchesAddUp
<1>1. Init => LaunchesAddUp
  BY DEF Init, LaunchesAddUp
<1>2. RunnerInv /\ LaunchesAddUp /\ [Next]_vars => LaunchesAddUp'
  BY NextAddsUp
<1> QED
  BY <1>1, <1>2, RunnerIsCorrect, PTL DEF Spec

-----------------------------------------------------------------------------
(* What a harness and its load runner agree on. *)

CountStep(h) == [HarnessCounts(h)!Next]_(HarnessCounts(h)!counts)
CountSteps == \A h \in 1..MaxHarnesses : CountStep(h)

\* A step moves a harness's counts by so many launches, ends and reports.
CountMoves(h, launches, ends, reports) ==
    /\ (Count(h).launched)' = Count(h).launched + launches
    /\ (Count(h).running)' = Count(h).running + launches - ends
    /\ (Count(h).processors)' = Count(h).processors + launches - reports

LEMMA CountStays ==
    ASSUME NEW h, Count(h)' = Count(h)
    PROVE  CountStep(h)
BY DEF CountStep, HarnessCounts!counts

\* The counts of a harness that is there.
LEMMA CountOfHarness ==
    ASSUME RunnerInv, NEW h \in 1..Len(harnesses)
    PROVE  /\ Count(h) = harnesses[h] /\ harnesses[h] \in RunState
           /\ harnesses[h].launched \in Nat /\ harnesses[h].running \in Nat
           /\ harnesses[h].processors \in Int
<1>1. harnesses \in Seq(RunState) /\ Len(harnesses) \in Nat
  BY DEF RunnerInv, TypeOK, RunState
<1>2. harnesses[h] \in RunState /\ h =< Len(harnesses)
  BY <1>1
<1> QED
  BY <1>2 DEF Count, RunState

LEMMA AddedHarnessCounts ==
    ASSUME RunnerInv, NEW plan \in Plan,
           harnesses' = Append(harnesses, NewHarness(plan))
    PROVE  CountSteps
<1>1. harnesses \in Seq(RunState) /\ NewHarness(plan) \in RunState
  BY NewHarnessFits DEF RunnerInv, TypeOK, RunState
<1>2. /\ Len(harnesses) \in Nat /\ Len(harnesses') = Len(harnesses) + 1
      /\ \A i \in 1..Len(harnesses') :
            harnesses'[i] = IF i = Len(harnesses) + 1 THEN NewHarness(plan)
                           ELSE harnesses[i]
  BY <1>1, AppendedHarness
<1>3. ASSUME NEW h \in 1..MaxHarnesses PROVE CountStep(h)
  <2>1. h \in Nat /\ h > 0
    BY BoundsFit
  <2>2. CASE h = Len(harnesses) + 1
    <3>1. Count(h)' = NewHarness(plan) /\ Count(h) = NewHarness("none")
      BY <1>2, <2>1, <2>2 DEF Count
    <3> QED
      BY <3>1 DEF NewHarness, CountStep, HarnessCounts!counts
  <2>3. CASE h # Len(harnesses) + 1
    <3>1. Count(h)' = Count(h)
      BY <1>2, <2>1, <2>3 DEF Count
    <3> QED
      BY <3>1, CountStays
  <2> QED
    BY <2>2, <2>3
<1> QED
  BY <1>3 DEF CountSteps

LEMMA ChangedHarnessCounts ==
    ASSUME RunnerInv, NEW i \in 1..Len(harnesses), NEW x \in RunState,
           harnesses' = [harnesses EXCEPT ![i] = x],
           (Count(i) = harnesses[i] /\ Count(i)' = x) => CountStep(i)
    PROVE  CountSteps
<1>1. harnesses \in Seq(RunState) /\ Len(harnesses) \in Nat
  BY DEF RunnerInv, TypeOK, RunState
<1>2. /\ Len(harnesses') = Len(harnesses)
      /\ \A h \in 1..Len(harnesses) : harnesses'[h] = IF h = i THEN x ELSE harnesses[h]
  BY <1>1, ChangedHarness
<1>3. ASSUME NEW h \in 1..MaxHarnesses PROVE CountStep(h)
  <2>1. h \in Nat /\ h > 0
    BY BoundsFit
  <2>2. CASE h = i
    <3>1. Count(i) = harnesses[i] /\ Count(i)' = x
      BY <1>1, <1>2 DEF Count
    <3> QED
      BY <3>1, <2>2
  <2>3. CASE h # i
    <3>1. Count(h)' = Count(h)
      BY <1>1, <1>2, <2>1, <2>3 DEF Count
    <3> QED
      BY <3>1, CountStays
  <2> QED
    BY <2>2, <2>3
<1> QED
  BY <1>3 DEF CountSteps

\* runall: a Launch, unless the plan's stagger is 0 or its scenario raises.
LEMMA RunAllCounts ==
    ASSUME RunnerInv, NEW c \in calls, RunAll(c)
    PROVE  CountSteps
<1>1. PICK h : h = c.harness
  OBVIOUS
<1>2. h \in 1..Len(harnesses) /\ CountsFit(harnesses[h])
  BY <1>1 DEF RunnerInv
<1>3. /\ harnesses[h] \in RunState /\ Launched(harnesses[h]) \in RunState
      /\ harnesses[h].launched \in Nat /\ harnesses[h].running \in Nat
      /\ harnesses[h].processors \in Int
  BY <1>2, CountOfHarness, LaunchedFits
<1>4. CASE ~harnesses[h].plan.fits
  <2>1. harnesses' = harnesses
    BY <1>1, <1>4 DEF RunAll
  <2>2. \A i : Count(i)' = Count(i)
    BY <2>1 DEF Count
  <2> QED
    BY <2>2, CountStays DEF CountSteps
<1>5. CASE harnesses[h].plan.fits
  <2>1. harnesses' = [harnesses EXCEPT ![h] = Launched(harnesses[h])]
    BY <1>1, <1>5 DEF RunAll, Launch
  <2>2. PICK s \in Nat : s = harnesses[h].plan.stagger
    BY <1>3 DEF RunState, Plan
  <2>3. ASSUME Count(h) = harnesses[h] /\ Count(h)' = Launched(harnesses[h])
        PROVE  CountStep(h)
    <3>1. CountMoves(h, s, 0, 0)
      BY <1>3, <2>2, <2>3 DEF CountMoves, Launched, More
    <3>2. /\ Count(h).launched \in Nat /\ Count(h).running \in Nat
          /\ Count(h).processors \in Int
      BY <1>3, <2>3
    <3>3. CASE s = 0
      BY <3>1, <3>2, <3>3 DEF CountMoves, CountStep, HarnessCounts!counts
    <3>4. CASE s > 0
      <4>1. HarnessCounts(h)!Launch
        BY <3>1, <3>2, <3>4
           DEF CountMoves, HarnessCounts!Launch, HarnessCounts!By
      <4> QED
        BY <4>1 DEF CountStep, HarnessCounts!Next
    <3> QED
      BY <3>3, <3>4
  <2> QED
    BY <1>2, <1>3, <2>1, <2>3, ChangedHarnessCounts
<1> QED
  BY <1>4, <1>5

\* A scenario that ends is an End.
LEMMA ScenarioEndsCounts ==
    ASSUME RunnerInv, NEW h \in 1..Len(harnesses), ScenarioEnds(h)
    PROVE  CountSteps
<1>1. /\ harnesses[h] \in RunState /\ Ended(harnesses[h]) \in RunState
      /\ harnesses[h].launched \in Nat /\ harnesses[h].running \in Nat
      /\ harnesses[h].processors \in Int
  BY CountOfHarness, EndedFits DEF ScenarioEnds, RunnerInv
<1>2. harnesses' = [harnesses EXCEPT ![h] = Ended(harnesses[h])]
  BY DEF ScenarioEnds
<1>3. ASSUME Count(h) = harnesses[h] /\ Count(h)' = Ended(harnesses[h])
      PROVE  CountStep(h)
  <2>1. CountMoves(h, 0, 1, 1) /\ Count(h).running > 0
    BY <1>1, <1>3 DEF CountMoves, Ended, More, ScenarioEnds
  <2>2. HarnessCounts(h)!End
    BY <1>1, <1>3, <2>1 DEF CountMoves, HarnessCounts!End, HarnessCounts!By
  <2> QED
    BY <2>2 DEF CountStep, HarnessCounts!Next
<1> QED
  BY <1>1, <1>2, <1>3, ChangedHarnessCounts

\* A removal that is no end is an end reported again.
LEMMA LateRemovalCounts ==
    ASSUME RunnerInv, NEW h \in 1..Len(harnesses), LateRemoval(h)
    PROVE  CountSteps
<1>1. /\ harnesses[h] \in RunState /\ RemovedAgain(harnesses[h]) \in RunState
      /\ harnesses[h].launched \in Nat /\ harnesses[h].running \in Nat
      /\ harnesses[h].processors \in Int
  BY CountOfHarness, RemovedAgainFits DEF LateRemoval, RunnerInv
<1>2. harnesses' = [harnesses EXCEPT ![h] = RemovedAgain(harnesses[h])]
  BY DEF LateRemoval
<1>3. ASSUME Count(h) = harnesses[h] /\ Count(h)' = RemovedAgain(harnesses[h])
      PROVE  CountStep(h)
  <2>1. CountMoves(h, 0, 0, 1) /\ Count(h).running < Count(h).launched
    BY <1>1, <1>3 DEF CountMoves, RemovedAgain, More, LateRemoval
  <2>2. HarnessCounts(h)!EndReportedAgain
    BY <1>1, <1>3, <2>1
       DEF CountMoves, HarnessCounts!EndReportedAgain, HarnessCounts!By
  <2> QED
    BY <2>2 DEF CountStep, HarnessCounts!Next
<1> QED
  BY <1>1, <1>2, <1>3, ChangedHarnessCounts

LEMMA NextCounts ==
    ASSUME RunnerInv, [Next]_vars
    PROVE  CountSteps
<1>1. CASE StartPlan
  <2>1. PICK i : i = Len(harnesses) + 1
    OBVIOUS
  <2>2. harnesses \in Seq(RunState) /\ Len(harnesses) \in Nat
    BY DEF RunnerInv, TypeOK, RunState
  <2>3. i \in 1..Len(TestPlans)
    BY <1>1, <2>1, <2>2, PlansAreWellFormed DEF StartPlan
  <2>4. TestPlans[i] \in Plan
    BY <2>3, PlansAreWellFormed
  <2> QED
    BY <1>1, <2>1, <2>4, AddedHarnessCounts DEF StartPlan, RunTestplan
<1>2. ASSUME NEW h \in 1..Len(harnesses), Spawn(h) PROVE CountSteps
  <2>1. PICK plan \in Spawnable : harnesses' = Append(harnesses, NewHarness(plan))
    BY <1>2 DEF Spawn, RunTestplan
  <2>2. plan \in Plan
    BY PlansAreWellFormed
  <2> QED
    BY <2>1, <2>2, AddedHarnessCounts
<1>3. CASE StartDone \/ Tick \/ CheckLoadRunner \/ UNCHANGED vars
  <2>1. harnesses' = harnesses
    BY <1>3 DEF StartDone, Tick, CheckLoadRunner, vars
  <2>2. \A h : Count(h)' = Count(h)
    BY <2>1 DEF Count
  <2> QED
    BY <2>2, CountStays DEF CountSteps
<1> QED
  BY <1>1, <1>2, <1>3, RunAllCounts, ScenarioEndsCounts, LateRemovalCounts
     DEF Next, Stopped

\* Launching, spawning, ends and second removals move the counts of every
\* harness as CommandProcessor.tla's processors move those of theirs, for any
\* plans (runall, remove_processor).
THEOREM CountIsKeptByPlans == Spec => CountIsKept
<1>1. Init => \A h \in 1..MaxHarnesses : HarnessCounts(h)!Init
  <2> SUFFICES ASSUME Init, NEW h \in 1..MaxHarnesses PROVE HarnessCounts(h)!Init
    OBVIOUS
  <2>1. Count(h) = NewHarness("none")
    BY BoundsFit DEF Init, Count
  <2> QED
    BY <2>1 DEF NewHarness, HarnessCounts!Init
<1>2. RunnerInv /\ [Next]_vars => CountSteps
  BY NextCounts
<1> QED
  BY <1>1, <1>2, RunnerIsCorrect, PTL DEF Spec, CountIsKept, CountSteps, CountStep
=============================================================================
