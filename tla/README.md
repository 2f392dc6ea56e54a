# A formal model of autopush-loadtester

autopush-loadtester (`aplt`) plays push clients against a push server. A *test
plan* says how many instances of a *scenario* to launch and how fast. A scenario
is a Python generator that yields commands (`connect`, `hello`, `wait`, ...); a
command processor runs each of them and sends its result back into the
generator. Everything runs in one Twisted reactor, so nothing is concurrent in
the sense of threads, and everything is in the sense of callbacks: which message,
close, timer, retry or restart comes next is nobody's decision.

The modules here model that code, TLC checks them on small instances, and TLAPS
proves some of the results for every instance. Paths are relative to `src/`.

## 1. The system

| Component | Code | State | Operations |
|---|---|---|---|
| Load runner | `aplt/runner.py` `LoadRunner`, `check_loadrunner` | test plans, harnesses, `_queued_calls`, `_started` | `start`, `_run_testplan`, `spawn`, `finished`, the task that stops the reactor |
| Harness | `aplt/runner.py` `RunnerHarness` | `_connect_waiters`, `_ws_clients`, `_processors`, claims and keys | `run`, `connect`, `add_client`, `remove_client`, `send_notification`, `remove_processor` |
| Connection | `aplt/client.py` `WSClientProtocol` | its `processor`, Autobahn's protocol state | `onOpen`, `onMessage`, `onClose` |
| Command processor | `aplt/client.py` `CommandProcessor`, `aplt/decorators.py` | stack of generators, last command, expectation, wait, timer, stored notifications, named timers, tries | every command, `handle`, `timeoutConnection`, `shutdown` |
| Arguments | `aplt/runner.py` `parse_*`, `group_kw_args`, `verify_arguments`, `try_int_list_coerce` | none | pure functions |
| Scenarios | `aplt/scenarios.py` | the locals of a generator: channels, `notif`, `message_ids`, `response` | 13 generators that talk to the server, 4 that only spawn plans |
| Metrics | `aplt/metrics.py` | the client of a library | `start`, `stop`, counters and timings |
| VAPID claims | `RunnerHarness._claims`, the library `py_vapid` | the dictionary that `send_notification` and `Vapid.sign` write `aud` and `exp` into | `send_notification` |
| Logging, utilities | `aplt/logobserver.py`, `aplt/utils.py` | a file | formatting, random strings, endpoints that do not exist |

How they interact:

- The load runner makes one harness per test plan and calls its `run` from
  `callLater`. `run` makes a processor, which starts the scenario at once.
- A processor asks its harness for a connection. The harness keeps the processor
  in a deque and starts a connection; nothing ties the two together. Whichever
  connection opens first takes the processor at the head.
- A connection calls its processor's `handle` for each event; `handle` sends the
  event into the generator or throws an exception. The generator answers by
  yielding its next command, *within that call*.
- `_send_exception` detaches and closes the connection; its `onClose` comes later.
- All scenarios of a harness send their POSTs through it, and share its claims.
- A scenario that is over calls `remove_processor`; the load runner's `finished`
  reads the harnesses' counts once a second and stops the reactor.
- Scenarios spawn further test plans through their load runner.

What is hard about it, and what should hold:

| Where | What is hard | What should hold |
|---|---|---|
| Harness | connections and waiters meet in any order; handshakes fail and are retried | one connection on its way per waiter; the registry is exact; events reach the processor they are for; waiters are served |
| Processor | one callback runs through several commands; the end of one call comes after the next command was run | an answer belongs to the command that waits; what is over stays over; one connection per processor |
| Processor | one timer for two purposes; timers, POSTs and `callLater(0)` outlive restarts | an expectation or wait always has its timer; every command is answered |
| Load runner | calls are counted when scheduled and uncounted when they run; plans arrive during the run | the test ends, and not before it is over |
| Arguments | three optional conversions before positions are counted | numbers and arguments are those that were written; what is started can be called, and what is shipped is |
| Scenarios | loops that disconnect and come back while notifications are stored, sent, late or doubled; assertions about what a server does | the processor refuses nothing they ask for; they fail only for a cause, leave nothing on the server, count what happened, end when they run once |
| Claims | a dictionary that every POST of a plan reads and writes | a signature is refused only for the claims that are shared |

`PROJECT.json` lists the single hazards under `hazards`, each at its line.

## 2. The modules

| Module | Models | Lines |
|---|---|---|
| `Harness` | the connection pool of one harness | `runner.py` 47-202 |
| `CommandProcessor` | `client.py` as a whole, the POSTs and the count of `runner.py`, composed with `Harness` (EXTENDS) | `client.py`, `runner.py` 105-206 |
| `Conversation` | abstract: what a processor promises a scenario | - |
| `HarnessCount` | abstract: what a harness and its load runner agree on | - |
| `LoadRunner` | plans, launches, the end of the program | `runner.py` 219-322, `metrics.py` |
| `Scenarios` | the scripts of all scenarios, `send_notification` with its claims, a push server | `scenarios.py`, `runner.py` 126-180, `utils.py` |
| `Arguments` | from words to plans | `runner.py` 343-484, 564-705 |
| `ShippedPlans` | the plans that `api_test`, `loadtest` and the spawning tests spawn, read by `Arguments` (EXTENDS) | `scenarios.py` 488-593, the signatures before |
| `Subsequences` | a list without some of its elements, for `Scenarios` and `Arguments` | `runner.py` 369-378 |
| `CommandProcessorProofs` | theorems about `Harness`, `CommandProcessor` and its refinement of `Conversation` | - |
| `ScriptsProofs`, `ScenariosProofs`, `DeliveryProofs`, `OutcomesProofs` | theorems about `Scenarios`, each on top of the one before: the scripts, the counters, where notifications are, how a scenario comes out | - |
| `LoadRunnerProofs`, `ArgumentsProofs` | theorems about the module of that name | - |
| `SubsequencesProofs` | theorems about `Subsequences`, by induction | - |
| `MCHarness`, `MCCommandProcessor`, `MCLoadRunner`, `MCArguments`, `MCScenarios` | instances for TLC | - |

How they fit together: `CommandProcessor` is composed with `Harness` step by step
and implements `Conversation` towards its scenario and `HarnessCount` towards its load
runner. `Scenarios` starts from the one promise, `LoadRunner` from the other, so that
neither has to play the processors again.

### Harness

`waiters` is `_connect_waiters`, `wsClients` is `_ws_clients`, `attempts` counts
`connectWS` calls whose TCP connection is not settled, and `ws` is each
connection's protocol state with its `processor` attribute. `Connect`,
`AddClient`, `RemoveClient` are the methods; `SendClose` and `Detach` are what the
processor does to a connection; `TcpConnected`, `ConnectFailed` and `MayClose`
stand for Twisted and Autobahn. Autobahn never calls `onClose` for a TCP
connection that was refused: there is no protocol then. It does so for a failed
websocket handshake. Connections are reused after they close, so that `Conns`
bounds how many exist *at once*. `Faults` chooses what goes wrong.

On its own the module lets any processor connect and let go of connections at any
time, more often than a scenario could. What holds of it therefore holds whatever
scenarios do.

### CommandProcessor

The scenario is the most general one: whenever it is resumed, it yields any command of
`Moves`, returns, or raises (`"raise" \in Habits`); when something is thrown into it, it may
catch that (`"catch"`), and then returns, raises, or yields. What it yields *then* is lost,
for the inner `throw()` of `_send_exception` returns nothing: `_run_command(None)` raises, and the
processor is shut down while its generator stays suspended (`Catches`, `RunInvalid`).

One callback is many steps of the model. The code's chain of calls - `handle` sends a
result, the generator yields, `_run_command` calls a method, the method sends the
next result - consists of tail calls, except in three places: `handle` goes on after
`_send_exception`, `timeoutConnection` after the expectation's half, and
`RunnerHarness.run` after `processor.run()`. So the state holds the call that is
being made (`call`) and what is left of its caller (`after`); `Quiet` means that
the reactor is between two callbacks. Actions that need `Quiet` (`Event`) begin a
callback, the others (`Turn`) go on with it. Recursion is thereby part of the model,
not abstracted: a scenario that yields `connect` while `handle` is in the middle of
reporting another event is a behaviour like any other.

`vc[p]` has the fields of `_reset`; a generator's state is `fresh`, `suspended` or
`done`, and `Resumes`, `Catches`, `StopsAtOnce`, `TypeErrors`, `Uncaught` are what Python does when one
is sent or thrown something in each of them. The server answers the requests of a
connection in order and sends notifications whenever it likes.

`Start` is `RunnerHarness.run`, `CalledLater` the `callLater(0)` of nested generators,
`PostAnswered` and `ContentFails` the two callbacks of a POST, `TimerFires` and
`TimerTail` the halves of `timeoutConnection`, `OnOpen`, `OnReply`, `OnNotification`,
`OnGarbage` and `OnClose` the connection's, `HandleCall` and `HandleTail` the halves of
`handle`, and the `Run...` actions the commands.

### Conversation

The scenario's view: it asks, and then hears exactly once a result that belongs to
what it asked for, or an exception at once; after the end it hears nothing.
`CommandProcessor` implements it (`ConversationIsKept`, a refinement mapping by
`Talk`) as long as the run is `Orderly`: nothing but handshakes and POSTs fails and
scenarios make no errors. Without that condition it does not hold, and section 5
says why.

### HarnessCount and LoadRunner

`HarnessCount` has three numbers: scenarios launched, scenarios running, and
`_processors`. Launching moves all three, an end two of them, and an end that is
reported again `_processors` alone. `CountIsKept` of `CommandProcessor` says that its
processors do just this, and `CountIsKept` of `LoadRunner` that each of its harnesses
does: what the second takes for granted is what the first provides.

In `LoadRunner`, `harnesses` holds each harness's plan and these three counts; `calls`
the `runall` calls that `callLater` holds. `StartPlan`, `RunAll`, `Spawn`,
`CheckLoadRunner` are the methods. `ScenarioEnds` stands for the processors of
`CommandProcessor`, and `LateRemoval` for the second removal of one that is over,
which `CP_finished` shows to happen. A plan's `fits` says whether its scenario can be
called with its arguments (`CanCall` of `Arguments`): if not, `runall` raises and is never
counted down. `metrics` is the backend, for `check_loadrunner` calls its `stop`
before it stops the reactor, and one of the three has none.

### Scenarios

A scenario is a script: a sequence of instructions, one per command that the
generator yields and one per statement that looks at a result (`assert`, `if`, `for`,
`while`, a counter), each written down in the order of `scenarios.py`. A program counter, the
locals (`scn`) and the processor's part (`proc`: the command under way, the
connection, stored notifications) make the state of an instance. The scripts of
generators with a `try` mark the instructions inside it (`Try`). `Loop` is
`while True` with its `if run_once: break`.

The processor is the one `Conversation` promises: a command is answered once, or refused
at once (`Refused`: `connect` when connected, others when not), and what it stores is looked
through by the next expectation. What `CommandProcessor` shows to go wrong beyond it -
an event that is thrown and then sent, too - is left out here: this module asks
whether the scenarios are right when the processor keeps its promise.

The server is what the scenarios take for granted of autopush: a user agent has
subscriptions and pending notifications; a `hello` with a known `uaid` brings
everything not acknowledged, a topic replaces an undelivered one, an
unregistered channel loses what is pending, and unknown tokens get a 404. Requests and
POSTs are on their way (`up`, `down`, `post`) and overtake each other; `Faults` says which
frames come after their timer (`late`), which POSTs fail before or after the server
took them (`post`), whether connections are lost (`drop`) and user agents
forgotten (`uaid`).

`RunSendNotification` is `send_notification` with its claims: a dictionary is shared, so
that the first POST writes `aud` and `exp` into it for all (`Addressed`, `Dated`); claims
given as text are parsed each time. `day` passes while all scenarios wait, and `Authorised`
is the server's test of a signature.

### Arguments

A word is what `json.loads` or `key=value` make of it: values, keywords, and whether
it has escaped commas. Which characters that takes is abstracted; what is kept,
dropped, counted, sliced and verified is not. Numbers are not negative here (a
negative delay would make `callLater` raise).

`ShippedPlans` writes down the signatures of the scenarios and the plans that the
spawning scenarios yield, as inputs of `Arguments`: `api_test` gives `run_once` by
position, `loadtest` by keyword.

## 3. What TLC checks

Passing runs (states are distinct states):

| Run | Instance | Shows | States |
|---|---|---|---|
| `Harness` | 2 processors, 3 connections, refused and failed connections, drops, fair | types, `RegistryExact`, `EventsReachTheOwner`, `ConnectionsAreWaitedFor`, `WaitersAreServed` | 8 265 |
| `CP_commands` | 1 processor, 2 channels, 2 stored notifications, every command, every fault, one retry | types, `ClientIsLive`, `ExpectingIsTimed`, `NothingOverlooked` | 291 471 (symmetry) |
| `CP_shared` | 2 processors, 2 connections, nested generators, restarts, exceptions that scenarios raise and catch, drops | `ClientIsLive`, `CountedAreAlive`, `CountIsKept` | 1 614 373 (symmetry) |
| `CP_orderly` | 1 processor, every command, nested generators, restart | `OverIsFinal`, `WaitingIsTimed`, `ConversationIsKept` | 12 341 |
| `CP_orderly_two` | 2 processors that share 2 connections, restart | `OneConnection`, `WaitersHaveConnections`, `ConversationIsKept` | 151 109 |
| `CP_live` | 1 processor, drops, garbage, failed handshakes and POSTs, fair | `ScenariosGoOn` | 53 078 |
| `LoadRunner` | two plans, four spawnable ones, up to 4 harnesses, 5 seconds, second removals, arguments that do not fit, a backend without `stop`, fair | types, `CallsAreCounted`, `LaunchesAddUp`, `StopsWhenOver`, `StopsUnlessRaised`, `CountIsKept` | 347 420 |
| `Arguments` | plans of up to 5 words, 3 kinds of functions, two plans at once, spawned plans, a scenario's words, every shipped plan; words that `int()` truncates | types, `NumbersAreAsWritten`, `VerifiedCanBeCalled`, `DocumentedPlansStart`, `ShippedPlansRun`, `ApiTestRunsOnce` | 27 746 |
| `Scenarios` | every script, once and for ever, with and without claims; two instances of `basic` that share claims; every fault, fair | types, `NothingIsRefused`, `FailuresHaveCauses`, `NothingIsLeftBehind`, `GivenOnce`, `MetricsAreTrue`, `OnlySharedClaimsExpire`, `RunOnceEnds` | 74 654 |

Why the bounds are enough to show something:

- *Two processors, two or three connections*: the hazards of the pool are a
  connection that goes to the wrong processor, is counted twice or is missing. It
  takes two waiters to confuse them, and a third connection for one that is still
  closing. `HarnessInv` (section 4) removes this bound.
- *`MaxDepth` 2*: a generator and a nested one; deeper stacks repeat the relation.
- *`MaxSoon`, `MaxPosts` 1*: one late resumption or POST that belongs to a scenario that
  has since been restarted is the case of interest. (`soon` may exceed `MaxSoon`, for
  the end of a nested generator is not held back by it.)
- *`MaxNotifs` 1 or 2*: two are needed for an expectation to find the wrong one first.
- *`MaxReplies` 1*: a scenario that waits for a reply asks for no second one; one that is
  resumed out of turn could, and is held back until the first is there.
- *`MaxRemovals`*: the count `_processors` falls without limit in the code, when events
  keep reaching a scenario that is over. The model stops counting at the bound.
- *`Horizon` 5*: covers every given plan with its delay, and a spawned one after it.
  `Spawn` is bounded so that no call is due after the clock ends.
- *`Cycles` 2*: a loop goes round twice, so that it runs once from its beginning and once
  from its own end; `NothingIsRefused` and `GivenOnce` are about what the first round
  leaves to the second. Then the scenario is held.
- *`Qty` 2* in place of 32 stored notifications and 10 channels: two are needed to
  acknowledge them in the other order, to mix channels, and to forget the last.
- *`Days` 3*: claims expire after one day, and are looked at before, on and after it.
- *Two origins, two instances* where claims are shared: the `aud` of the first is wrong for
  the second. Instances that share nothing do not interact, hence one is enough
  elsewhere.
- *`RoomToConnect`*: a scenario that wants to connect while every connection is used
  waits in the model; in the code it would open one more. With one connection per
  processor and `OneConnection`, this matters only while an old one is closing.

Deadlock is checked, except in runs where the system may really stop: a scenario
whose TCP connection was refused, whose POST's content failed or that sits in a
bound (`CP_commands`, `CP_shared`), the clock at its horizon after a plan whose
arguments do not fit or the backend has no `stop` (`LoadRunner`), a finished start
(`Arguments`). `Scenarios` rests only when every scenario is over or held (`Rest`).

Symmetry (of connections and of channels) is used in safety runs only.

Every property of a passing run has a mutant in `PROJECT.json`: a definition of the
model changed as a plausible bug would change the code (a retry too many, a count
for plans instead of calls, a reference that is kept, an expectation without its
timer), which makes TLC find the property violated. The mutated forms stand before
the definitions they replace and are used nowhere else.

### Fairness

The reactor is a loop over what is ready: it starves no callback. A callback always
ends (`WF(Turn)`). A callback that is ready is disabled whenever another one runs,
so weak fairness would say nothing; strong fairness of each (`Start`, `CalledLater`,
`PostAnswered`, `TimerFires`, `OnOpen`, `OnReply`, a close that was asked for) says that
each is run in the end when it is ready again and again. Of the world outside it is
assumed that TCP attempts are settled, POSTs are answered or fail, the server
answers requests, closing handshakes end (Autobahn has a timeout for that), and
opening handshakes do not fail for ever. Nothing is assumed about faults,
notifications, or what scenarios yield. `LoadRunner` assumes that scenarios end:
otherwise the program is not meant to. `Scenarios` assumes that a turn of a scenario ends
(`WF` of all of them together, for they take turns) and that what a scenario waits
for comes in the end (`SF` of `Answer(c) \/ Server(c)`: the turns of the other instances
disable it again and again). For a command that has no answer of its own, a timer fires;
this is what `CP_live` shows of the processor.

## 4. What is proved

The proofs hold for every value of the constants that satisfies the named
assumptions of the modules.

**`CommandProcessorProofs`**, first part: the pool (assumptions `ConnsFinite`, `NoneIsNobody`,
`FaultsKnown`). The inductive invariant `HarnessInv` is the conjunction of the type invariant and the four
safety properties. They need each other: that there are never more connections on
their way than waiters is preserved by `remove_client`'s retry only because a
connection that ever opened is in the registry until it closes (`RegistryExact`), so
that the retry replaces exactly the handshakes that failed. The lemma
`HandshakesAfterUpdate` says how one connection's change moves the number of
handshakes. Theorems: `HarnessIsTyped`, `RegistryIsExact`, `OwnersGetTheirEvents`,
`NoUnnecessaryOpen` (the branches for an "unnecessary open" are dead code, whatever
fails) and `WaitersAreConnected` (unless TCP connections are refused, exactly one
connection is on its way per waiter).

**`CommandProcessorProofs`**, second part: the processor (those assumptions and `ConstantsFit`: finitely many
processors and connections, bounds that are natural numbers; channels and timers may be
any sets, the scenario any). `ClientIsLive` is far from inductive: in the middle of a `handle` it
is false. The invariant `Inv` says where. Its parts:

- `HarnessInv`, from the first part: the connections' side.
- `ProcsInv`: what holds of a processor by itself (`Fits`): `_connected` says whether there is
  a client, an expectation is timed, and none it has stored is expected.
- `BornInv`: waiters and registered processors were started. Without it, a connection
  might open for a processor that has no generator.
- `CallInv` and `AfterInv`: the call that is being made is one that its caller can make. When
  `connect` is handled, the connection is there and is nobody's client yet; while an
  unexpected event waits to be delivered, its processor has no client, which is why
  delivering a late `connect` does not leave an older connection behind.
- `ClientsInv`: a client is live, or its `disconnect` is just being handled (`Losing`).
- `OutstandingInv`, `RepliesInv`, `CountInv`: bounds on `callLater`s and removals, the server's replies, and
  `_processors` against the scenarios that are not over (`Alive`).

Each action has a lemma that it keeps `CoreInv`, makes a step of `Harness` or leaves it alone,
and makes a step of `HarnessCount` or leaves it alone (`Kept`, gathered in `NextInv`). From it:
`HarnessIsUsedAsSpecified` (the composed system implements `HarnessSpec`, so that the theorems of
the first part hold of it: `ScenariosGetTheirConnections`), `ProcessorsAreTyped`,
`ClientsAreLive`, `ExpectationsAreTimed`, `StoredIsNotAwaited`, `OnlyTheAliveAreCounted` and
`CountIsKeptByProcessors` (the refinement of `HarnessCount`).

**`CommandProcessorProofs`**, last part: the conversation (the same assumptions). The code has nothing that ties an answer to its
question: a result goes to whatever generator is on top of the processor's stack when it
comes. That the answers are right rests on `OrderlyInv`: at most one thing is outstanding for a
processor - a place among the waiters, a `callLater`, a POST, a wait, an expectation, a
connection that closes or a reply that is owed - and it is of the kind that the last command
asked for (`AskedFor`). Its other parts: a wait is timed, or the timer that ran out is about to end
it (`Timed`); nothing is outstanding for what is over (`OverInv`); nobody waits twice; a connection
that is nobody's owes no reply; and a scenario that is entered, or about to be, has nothing else
outstanding and is told what it asked for (`TellsInv`). It holds as long as the run is `Orderly`
and is kept on top of the `Inv` above. TLC checked it in the instances of `CP_orderly` and
`CP_orderly_two`. Theorems:

- `OneThingIsOutstanding`, the invariant.
- `ConversationsAreKept`: each action of `CommandProcessor` is a step of `Conversation` or leaves `Talk` as it is,
  as long as the run is orderly. Hence what `Scenarios` takes for granted is proved.
- `OverScenariosStayOver`, `ConnectionsAreNotShared` and `WaitsAreTimed`.

**`LoadRunnerProofs`** (assumptions `PlansAreWellFormed`, `BoundsFit`). `RunnerInv` adds to
the properties that calls belong to harnesses that exist, that a harness's count
differs from its running scenarios by no more than the second removals, and that no call
was left and no processor counted when the reactor was stopped. Theorems:

- `RunnerIsTyped` (`_queued_calls` never becomes negative, so `== 0` is not passed by),
  `QueuedCallsAreCounted` and `StopsOnlyWhenOver`.
- `PlansLaunchWhatTheySay`: the calls of a plan are due one second apart, so the set of
  them has as many members as the loop counted (`NewCallsExactly`), and each `runall` takes
  one away for the `stagger` scenarios it launches.
- `CountIsKeptByPlans`: each harness implements `HarnessCount`. With
  `CountIsKeptByProcessors`, both sides of that agreement are proved.

**`SubsequencesProofs`** and the first part of `ArgumentsProofs` are about sequences of any length. The
library's induction theorems have an operator as their parameter, which these provers cannot
instantiate; the lemmas `ByNumbers` and `BySequences` have a *set* of numbers or sequences in its
place, and follow from the library's `WFMin`: a set of numbers that is not empty has a least
one. With them, `KeptIsASequence` and `KeptElements` (what a loop that skips elements yields),
and that `Kept` and `FlattenSeq` of two sequences joined are what they are of each, joined.

**`ScriptsProofs`** (no assumption). Tables say, place by place, what can be told of a scenario from its
program counter: whether it is connected (`Linked`), times (`Timed`), has registered a channel
(`Registered`), has yet to count a POST or a notification (`Uncounted`, `Given`), or has counted one
that may turn out to be None (`Overcounted`). `ScriptsFitTheTables`: in each of the 13 scripts, each
instruction is allowed where it stands, and turns what the tables say of its place into what
they say of every place it may lead to. Four more are about what is on its way: where
there is nothing at all (`Vacancies`), where a notification was given that is yet to be acknowledged (`Due`),
where no channel is registered yet (`Early`), and where the server has none (`Bare`). `ScriptsCarryWhatIsOnItsWay`:
each instruction comes where they allow it, finds what it looks into, and turns them, too, into
what they say of the next place. So there is no need to follow a script in the proofs about runs.

**`ScenariosProofs`** (assumption `ConstantsFit`). `Inv` says of each scenario: it is at a place that it can
reach, and waits as its instruction says (`InPlace`); the request it waits for, or the reply, is on its way, one
at a time (`InTouch`: otherwise a reply could answer another command); it is connected and times
where the tables say (`InStep`); the server's and the processor's notifications are
notifications, not None (`HoldsReal`); its counters are right but for what its place has yet to count
(`InBalance`); its POST is signed with claims that are good for it, or with those of the harness
once these are filled in (`InForce`); nothing it asked for was refused (`Obeys`). TLC checked `Inv`
in the instance of `Scenarios`. Theorems, for any number of instances that interleave in any way, any
quantity, number of rounds and of days, and every fault:

- `ScenariosKeepInStep`, the invariant, and `ScenariosAreTyped`.
- `NothingIsEverRefused`: no script ever yields a command that its processor refuses.
- `TheMetricsAreTrue`: between the turns, what is counted is what was sent and given.
- `OnlyTheSharedClaimsExpire`: claims that are text, or none, never cost a POST its authorisation.

**`DeliveryProofs`** (on top of `ScenariosProofs`). `GivenOnce` compares the notifications that a scenario was
given, but what keeps the next one from being an old one is elsewhere: the server sends again all that is
pending when a scenario comes back (`ServeHello`). `TraceInv` follows each notification through the server's list
(`Pending`), the frames under way and the processor's store (`Afloat`) and the scenario (`Seen`). As long
as none comes late and the server has not forgotten the user agent:

- `Numbered`: ids are those that the server gave, and differ in each place; outside the scenarios with several
  notifications there is only the last one.
- `Aimed`: what is pending or afloat is for a channel of the scenario, and so is the POST under way.
- `Online`: the server sends to a scenario that it has greeted.
- `Reaches`: what is pending was either given and is to be acknowledged (`Owed`), or is afloat; what is afloat was
  not seen before (but in `notification_forever_direct_store`, which acknowledges only after it came back).
- `Clears`: nothing is pending or afloat at a vacancy, once None was given, and before a POST.

The other parts: a scenario whose user agent was forgotten learns it at once and then fails, so that its wrong state
does no harm (`Strange`), and `SeenOnce`. TLC checked `TraceInv` in the instance of `Scenarios`. Theorems:
`NotificationsAreTraced`, the invariant, and `NotificationsAreGivenOnce`.

**`OutcomesProofs`** (on top of `DeliveryProofs`). `FailuresHaveCauses` and `NothingIsLeftBehind` speak of the end
of a scenario; neither is inductive. For a scenario for which nothing went wrong, `PresentInv` says at each place what the
instructions to come look into: the server has the channel of a POST with a good token (`Endpoints`); what
was sent is pending until it is acknowledged (`Outstanding`); it is what was sent last, where a topic replaces
what was sent before (`Latest`) - the last two unless the POST was unauthorised (`Lacking`). `TidyInv` says which channels
the server has: of a scenario with one channel, that one between registration and unregistration
(`OneAtMost`); of `_expect_notifications`, `1..i`, all `Qty` or `i..Qty`, in its three loops (`InRounds`). There the
second loop takes as many notifications as the first had sent: the number of frames under way never exceeds
what is still to be taken (`Ahead`, `Allowance`), so that the third loop starts with none. TLC checked
both in the instance of `Scenarios`. Theorems, for any number of clients, origins, rounds, channels and days, and whatever
happens to the others:

- `WhatIsSentIsPresent` and `ScenariosTidyUp`, the invariants.
- `ScenariosFailForACause`: no script raises unless something went wrong for it or a POST got a 401.
- `NothingIsEverLeftBehind`: nothing is pending when a channel is unregistered, and a scenario that ends
  leaves nothing on the server (but the channel of `notification_forever_bad_tokens`).

**`ArgumentsProofs`** (assumption `InputsAreWellFormed`). The invariant `ArgumentsInv` is that the plans are what
the input says once it is accepted, that an input was refused for what it says, and that a start
was given up at a plan that cannot be run. TLC checked it on a part of the inputs of the run `Arguments`.
Theorems, for any number of plans and words, and whatever functions there are:

- `PlansAreWhatTheInputSays`, the invariant, and `ArgumentsAreTyped`.
- `NumbersStayAsWritten`: the first three words' values are the first three integers (`ThreeNumbersFirst`,
  from the lemmas on joined sequences), so that the arguments are what the others say.
- `WhatIsVerifiedCanBeCalled`: without keywords, `verify_arguments` asks exactly what a call needs
  (`VerifiesIsCanCall`).
- `DocumentedPlansAreStarted`.

Only model-checked: every liveness property (the prover does not do fairness), and the two
properties of `ShippedPlans`, whose plans are finitely many constants and all checked by TLC.

## 5. Where the code departs from what it says

Three of them have a run that ends in a counterexample, and an entry in `PROJECT.json`
`findings` with the line that is contradicted:

| Run | The code |
|---|---|
| `CP_finished` | A scenario that is over stays attached to its connection (`aplt/client.py:93`); the close that follows removes its processor again, and the program may stop under scenarios that still run. |
| `CP_unexpected` | `handle` throws an unexpected event into the scenario and then goes on (`aplt/client.py:333`): the exception ends the scenario, `@restart` starts it again, and the event is sent to the new one as the result of its first command. In the counterexample a `connect` is answered with `error`. |
| `Scenarios_unsubscribed` | `notification_forever_unsubscribed` calls `unregister(...)` but does not yield it (`aplt/scenarios.py:415`): it sends to a registered channel, although its docstring says that it unregisters (`aplt/scenarios.py:405`). |

The others are modelled as the code has them, without a run of their own:

- A scenario that catches what is thrown into it and yields its next command is shut down, or
  restarted, as if it had not (`aplt/client.py:114-116`, `RunInvalid`): `throw()` does not return the
  command, so that None is run in its place. `SCENARIOS.md:103-106` says that exceptions are thrown where the
  command was yielded, and `SCENARIOS.md:426` that `@restart` is for uncaught ones. A scenario can
  catch an exception only to end, as `reconnect_forever` does.
- An expectation survives an exception that a nested generator catches before it returns, and
  swallows the parent's next one (`aplt/client.py:205`, `Expect`).
- `verify_arguments` ignores keywords (`aplt/runner.py:343`, `Verifies` and `CanCall`); the call raises in
  `runall`, which then never counts itself down, and the program does not end
  (`StopsUnlessRaised` has the exception). A keyword called `func` makes `verify_arguments` itself raise
  (`aplt/runner.py:396`, `Passed`).
- The claims of a plan are one dictionary (`aplt/runner.py:147`, `Addressed`, `Dated`): the first endpoint's
  `aud` and the first day's `exp` are signed for every POST from then on, so that other origins,
  and runs of more than a day, get a 401 (`OnlySharedClaimsExpire` says that nothing else
  does; `SMOKETEST.md:22` and `aplt/scenarios.py:55` promise that `aud` and `exp` are inserted). That `exp`
  stays in the dictionary is `py_vapid`'s doing, which `requirements.txt` only bounds from below, and may
  be otherwise in other versions of it; `aud` is written by `send_notification` itself.
- `reconnect_forever` and others count a notification as received before they look whether
  there was one (`aplt/scenarios.py:225`, `RunCounter`); acknowledging None then raises.
- `notification_forever_bad_tokens` never unregisters its channel (`NothingIsLeftBehind` has the
  exception).
- A scenario that returned normally is restarted by `@restart` when its connection closes
  later (`aplt/client.py:97`; `SCENARIOS.md:426` speaks of uncaught exceptions).
- A `wait` that a scenario yields when its expectation times out ends in the same
  callback (`aplt/client.py:275`, `TimerTail`).
- A POST that fails is a result `(None, failure)`, not an exception
  (`aplt/runner.py:180`; `SCENARIOS.md:103-106`).
- When a response's content cannot be read, the errback has a wrong signature, and the
  scenario waits for ever (`aplt/runner.py:172`, `ContentFails`).
- After a refused TCP connection nobody retries, and a waiter waits for ever
  (`aplt/runner.py:123`, `ConnectFailed`).
- `DatadogMetrics` has no `stop`, so `check_loadrunner` dies before it stops the reactor
  (`aplt/metrics.py:71`, `MetricsStop`).
- Arguments that are no integers are dropped (`aplt/runner.py:376`, `Coerced`; `runner.py:686`
  says "coerced to an integer if possible"). `int()` also truncates floats, and takes booleans and
  the numeric strings of a JSON list (`aplt/runner.py:374`, `IntOf`): a delay of 0.5 is 0.
- `finished` says that a processor in an error state "may return -1, which can cause this to
  endlessly loop" (`aplt/runner.py:295`): the code compares with `<= 0`, and does not.
- `WEBSOCKET_URL` is documented as the second argument of `aplt_testplan` (`aplt/runner.py:658`,
  `README.md:60`), whose parser takes no positional argument but the plan (`aplt/runner.py:650`; argparse is
  not modelled).
- Escaped commas stay escaped, so that the JSON they are in is not understood and is
  dropped (`aplt/runner.py:406`, `ValuesOf`; `aplt/tests/__init__.py:135`).
- `aplt_scenario` pops the last argument as the websocket URL, not the first
  (`aplt/runner.py:604`, `WithoutUrl`), and verifies nothing when there are no words.
- Of a spawned test plan only the first plan is run (`aplt/runner.py:308`, `ToRun`).
- The file for the key's contents is made of the certificate (`aplt/runner.py:450`; not modelled).

## 6. What is not modelled

Not modelled, and why:

- `aplt/logobserver.py`: formatting and files behind Twisted's registration of observers. No
  behaviour of the load test depends on it.
- Cryptography and `aplt/vapid.py`, which nothing imports: `runner.py` signs with the library `py_vapid`, of
  which that file is an older copy. That a signature is made over the claims, and dated (`Dated`, marked
  external), is all the model needs.
- TLS contexts, certificates and keys (`aplt/utils.py`, `runner.py` 440-460), endpoint overrides,
  `argparse` and `locate_function`: input and output, or libraries.
- Random channel ids and data, their lengths, log lines, the content of messages, the
  text of exceptions: no property tells them apart.
- `check_processors`, which nobody calls.

A message of unknown type raises in `onMessage` and costs the connection: it is the fault
`drop`. What a push server does is external: it answers requests in order and notifies at
will in `CommandProcessor`, and keeps subscriptions in `Scenarios`.
