----------------------------- MODULE LoadRunner -----------------------------
(***************************************************************************)
(* aplt/runner.py: LoadRunner, the launching of scenarios by RunnerHarness *)
(* and the task check_loadrunner that stops the reactor when the test is   *)
(* over.  Scenarios only start, spawn further test plans and end here;     *)
(* CommandProcessor.tla says what happens in between.                      *)
(***************************************************************************)
EXTENDS Integers, Sequences, FiniteSets

CONSTANTS
    TestPlans,      \* the plans given to the LoadRunner, in order
    Spawnable,      \* the plans its scenarios may spawn
    Backends,       \* the metrics backends that may have been chosen
    MaxHarnesses,   \* bound: harnesses, that is plans started or spawned
    Horizon,        \* bound: seconds the clock counts
    MaxMiscount     \* bound: removals of one harness that were no ends of
                    \* scenarios (see removals in CommandProcessor.tla)

\* fits: the scenario function takes the arguments of the plan.
\* verify_arguments lets plans pass that do not, for it ignores kwargs.
Plan == [quantity : Nat, stagger : Nat, delay : Nat, fits : BOOLEAN]

\* A stagger of 0 in a given plan ends the program in start().
ASSUME PlansAreWellFormed ==
    /\ TestPlans \in Seq(Plan)
    /\ \A i \in 1..Len(TestPlans) : TestPlans[i].stagger > 0
    /\ Spawnable \subseteq Plan

ASSUME BoundsFit ==
    /\ Backends \subseteq {"sink", "statsd", "datadog"}
    /\ MaxHarnesses \in Nat /\ Horizon \in Nat /\ MaxMiscount \in Nat
    /\ Len(TestPlans) =< MaxHarnesses

VARIABLES
    now,          \* the reactor's clock, in seconds
    started,      \* _started
    harnesses,    \* _harnesses: for each its plan, how many scenarios were
                  \* launched and are running, and _processors
    calls,        \* the runall calls that callLater holds
    queued,       \* _queued_calls
    metrics,      \* the backend
    loop,         \* the LoopingCall of check_loadrunner
    reactor

vars == <<now, started, harnesses, calls, queued, metrics, loop, reactor>>

NewHarness(plan) ==
    [plan |-> plan, launched |-> 0, running |-> 0, processors |-> 0]

\* A harness with so many more scenarios launched, running and counted.
More(x, launched, running, processors) ==
    [plan |-> x.plan,
     launched |-> x.launched + launched,
     running |-> x.running + running,
     processors |-> x.processors + processors]

Call(h, due) == [harness |-> h, due |-> due]
CallsOf(h) == {c \in calls : c.harness = h}

TypeOK ==
    /\ now \in 0..Horizon
    /\ started \in BOOLEAN
    /\ harnesses \in Seq([plan : Plan, launched : Nat, running : Nat,
                          processors : Int])
    /\ calls \subseteq [harness : Nat, due : Nat]
    /\ queued \in Nat
    /\ metrics \in Backends
    /\ loop \in {"on", "dead"}
    /\ reactor \in {"running", "stopped"}

Init ==
    /\ now = 0
    /\ started = FALSE
    /\ harnesses = <<>>
    /\ calls = {}
    /\ queued = 0
    /\ metrics \in Backends
    /\ loop = "on"
    /\ reactor = "running"

-----------------------------------------------------------------------------
\* Mutant of Iterations: the calls that quantity needs, rounded up.
IterationsUp(plan) ==
    (plan.quantity + plan.stagger - 1) \div plan.stagger

Iterations(plan) == plan.quantity \div plan.stagger

\* Mutant of RunTestplan: _queued_calls counts plans, not calls.
RunTestplanCountsOne(plan) ==
    LET h == Len(harnesses) + 1 IN
    /\ harnesses' = Append(harnesses, NewHarness(plan))
    /\ calls' = calls \cup {Call(h, now + plan.delay + k) :
                               k \in 0..(Iterations(plan) - 1)}
    /\ queued' = queued + 1

\* _run_testplan: one runall a second, each of them queued, from the plan's
\* delay on; what stagger does not divide is not launched.
RunTestplan(plan) ==
    LET h == Len(harnesses) + 1 IN
    /\ harnesses' = Append(harnesses, NewHarness(plan))
    /\ calls' = calls \cup {Call(h, now + plan.delay + k) :
                               k \in 0..(Iterations(plan) - 1)}
    /\ queued' = queued + Iterations(plan)

\* start: the plans in order, before the reactor runs.
StartPlan ==
    /\ ~started
    /\ Len(harnesses) < Len(TestPlans)
    /\ RunTestplan(TestPlans[Len(harnesses) + 1])
    /\ UNCHANGED <<now, started, metrics, loop, reactor>>

StartDone ==
    /\ ~started
    /\ Len(harnesses) = Len(TestPlans)
    /\ started' = TRUE
    /\ UNCHANGED <<now, harnesses, calls, queued, metrics, loop, reactor>>

Running == started /\ reactor = "running"

\* Mutant of Launched: what is launched together is counted once.
LaunchedOnce(x) == More(x, x.plan.stagger, x.plan.stagger, 1)

\* RunnerHarness.run, stagger times.
Launched(x) == More(x, x.plan.stagger, x.plan.stagger, x.plan.stagger)

Launch(h) == harnesses' = [harnesses EXCEPT ![h] = Launched(@)]

\* remove_processor, once for each scenario that ends, and once more.
Ended(x) == More(x, 0, -1, -1)
RemovedAgain(x) == More(x, 0, 0, -1)

\* Mutant of RunAll: the count is taken down with every scenario launched.
RunAllCountsEach(c) ==
    /\ Running
    /\ c.due =< now
    /\ calls' = calls \ {c}
    /\ LET plan == harnesses[c.harness].plan IN
          IF plan.fits
          THEN Launch(c.harness) /\ queued' = queued - plan.stagger
          ELSE UNCHANGED <<harnesses, queued>>
    /\ UNCHANGED <<now, started, metrics, loop, reactor>>

\* runall: launches stagger scenarios, then the call is no longer queued.  If
\* the scenario function does not take its arguments, creating the first
\* processor raises, and _queued_calls is not reached.
RunAll(c) ==
    /\ Running
    /\ c.due =< now
    /\ calls' = calls \ {c}
    /\ LET plan == harnesses[c.harness].plan IN
          IF plan.fits
          THEN Launch(c.harness) /\ queued' = queued - 1
          ELSE UNCHANGED <<harnesses, queued>>
    /\ UNCHANGED <<now, started, metrics, loop, reactor>>

\* A scenario is over: remove_processor.
ScenarioEnds(h) ==
    /\ Running
    /\ harnesses[h].running > 0
    /\ harnesses' = [harnesses EXCEPT ![h] = Ended(@)]
    /\ UNCHANGED <<now, started, calls, queued, metrics, loop, reactor>>

\* remove_processor again, for a scenario that was over.
LateRemoval(h) ==
    /\ Running
    /\ harnesses[h].running < harnesses[h].launched
    /\ harnesses[h].running - harnesses[h].processors < MaxMiscount
    /\ harnesses' = [harnesses EXCEPT ![h] = RemovedAgain(@)]
    /\ UNCHANGED <<now, started, calls, queued, metrics, loop, reactor>>

\* spawn: a running scenario adds a plan, whose delay counts from now.  With
\* a stagger of 0 the harness is there before the division raises.  Bound: the
\* clock lasts for the plan.
Spawn(h) ==
    /\ Running
    /\ harnesses[h].running > 0
    /\ Len(harnesses) < MaxHarnesses
    /\ \E plan \in Spawnable :
          IF plan.stagger > 0
          THEN /\ now + plan.delay + Iterations(plan) =< Horizon
               /\ RunTestplan(plan)
          ELSE /\ harnesses' = Append(harnesses, NewHarness(plan))
               /\ UNCHANGED <<calls, queued>>
    /\ UNCHANGED <<now, started, metrics, loop, reactor>>

Tick ==
    /\ Running
    /\ now < Horizon
    /\ now' = now + 1
    /\ UNCHANGED <<started, harnesses, calls, queued, metrics, loop, reactor>>

\* Mutants of Finished: without the queued calls, and with a comparison that
\* a processor removed twice makes false for good, as in check_processors.
FinishedEarly ==
    started /\ \A h \in 1..Len(harnesses) : harnesses[h].processors =< 0

FinishedExactly ==
    /\ started
    /\ queued = 0
    /\ \A h \in 1..Len(harnesses) : harnesses[h].processors = 0

\* LoadRunner.finished
Finished ==
    /\ started
    /\ queued = 0
    /\ \A h \in 1..Len(harnesses) : harnesses[h].processors =< 0

\* The backends with a stop(): DatadogMetrics, unlike SinkMetrics, is no
\* IMetrics and, unlike TwistedMetrics, defines none of its own.
MetricsStop == metrics \in {"sink", "statsd"}

\* check_loadrunner, every second from the first on.  Where metrics.stop()
\* raises, the LoopingCall that called it is over.
CheckLoadRunner ==
    /\ Running
    /\ loop = "on"
    /\ now > 0
    /\ Finished
    /\ IF MetricsStop
       THEN reactor' = "stopped" /\ UNCHANGED loop
       ELSE loop' = "dead" /\ UNCHANGED reactor
    /\ UNCHANGED <<now, started, harnesses, calls, queued, metrics>>

Stopped == reactor = "stopped" /\ UNCHANGED vars

Next ==
    \/ StartPlan \/ StartDone
    \/ \E c \in calls : RunAll(c)
    \/ \E h \in 1..Len(harnesses) :
          ScenarioEnds(h) \/ LateRemoval(h) \/ Spawn(h)
    \/ Tick \/ CheckLoadRunner \/ Stopped

Spec == Init /\ [][Next]_vars

\* The program starts, time passes, due calls run, scenarios end, and the
\* check is made every second.
Fairness ==
    /\ WF_vars(StartPlan) /\ WF_vars(StartDone)
    /\ WF_vars(Tick) /\ WF_vars(CheckLoadRunner)
    /\ WF_vars(\E c \in calls : RunAll(c))
    /\ WF_vars(\E h \in 1..Len(harnesses) : ScenarioEnds(h))

FairSpec == Spec /\ Fairness

-----------------------------------------------------------------------------
(* Properties. *)

\* Every runall that is still to come is counted, so that the test is not
\* found finished while it has scenarios to launch (the closure of
\* _run_testplan counts down what its loop counted up).
CallsAreCounted == queued >= Cardinality(calls)

\* A plan launches the largest multiple of its stagger that its quantity holds:
\* at any time, what it launched and what its calls will launch is that much.
LaunchesAddUp ==
    \A h \in 1..Len(harnesses) :
        LET plan == harnesses[h].plan IN
        (plan.fits /\ plan.stagger > 0) =>
            LET total == harnesses[h].launched
                            + plan.stagger * Cardinality(CallsOf(h))
            IN  total =< plan.quantity /\ plan.quantity < total + plan.stagger

\* The reactor is stopped only when every plan, spawned ones included, has
\* launched its scenarios and every scenario is over: unless a processor of
\* the same harness was removed twice, so that it counts too few.
StopsWhenOver ==
    reactor = "stopped" =>
        /\ calls = {}
        /\ \A h \in 1..Len(harnesses) :
              \/ harnesses[h].running = 0
              \/ harnesses[h].processors < harnesses[h].running

\* When every scenario ends sooner or later, so does the program (the task
\* check_loadrunner), also when processors were removed twice; only a runall
\* that raised, and stays counted, keeps it from ending, or a backend that
\* cannot be stopped.
StopsUnlessRaised ==
    <>(\/ reactor = "stopped"
       \/ queued > Cardinality(calls)
       \/ loop = "dead" /\ ~MetricsStop)

\* The counts of the h-th harness, whose plan may still be to come.
Count(h) == IF h =< Len(harnesses) THEN harnesses[h] ELSE NewHarness("none")
HarnessCounts(h) == INSTANCE HarnessCount WITH
    launched <- Count(h).launched,
    running <- Count(h).running,
    processors <- Count(h).processors

\* Launching, ending and spawning scenarios move the count of each harness as
\* its processors do, and leave the other harnesses alone (runall).
CountIsKept ==
    /\ \A h \in 1..MaxHarnesses : HarnessCounts(h)!Init
    /\ [][\A h \in 1..MaxHarnesses :
             [HarnessCounts(h)!Next]_(HarnessCounts(h)!counts)]_vars
=============================================================================
