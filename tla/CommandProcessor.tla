-------------------------- MODULE CommandProcessor --------------------------
(***************************************************************************)
(* aplt/client.py: WSClientProtocol and CommandProcessor, composed with    *)
(* the harness they share (Harness.tla).                                   *)
(*                                                                         *)
(* A scenario is a generator.  It yields a command, the processor runs it, *)
(* and a later callback (a message, a close, a timer, a finished POST)     *)
(* sends the result back into the generator.  The scenario here is the     *)
(* most general one over Moves and Habits: whenever it runs it may yield   *)
(* any command, start a nested generator, return, or raise.                *)
(*                                                                         *)
(* The reactor runs one callback at a time, but one callback is many steps *)
(* here: sending a result makes the scenario yield a command whose method  *)
(* may send the next result before it returns.  All those calls are tail   *)
(* calls, but for three callers that have work left when their call        *)
(* returns.  So `call` is the call being made, `after` is what is left of  *)
(* its caller, and the reactor is Quiet when there is neither.             *)
(***************************************************************************)
EXTENDS Harness, Integers

CONSTANTS
    Retries,      \* scenario._retries (@restart): None, 0 (forever) or n
    Moves,        \* what a scenario may yield, a subset of MoveKinds
    Habits,       \* "raise": raises an error of its own.  "catch": catches
                  \* what is thrown into it, and returns or yields
    Channels, Timers,         \* channel ids and timer names
    \* Bounds: nested generators, outstanding callLater(0)s and POSTs of one
    \* processor, notifications it has stored, replies one connection owes,
    \* and how often the removal of one processor is counted.
    MaxDepth, MaxSoon, MaxPosts, MaxNotifs, MaxReplies, MaxRemovals

Commands == {"spawn", "connect", "disconnect", "register", "hello",
             "unregister", "send_notification", "expect_notification",
             "expect_notifications", "ack", "wait", "timer_start",
             "timer_end", "counter"}

\* Besides commands, a scenario yields nested generators and, by mistake,
\* other objects.
MoveKinds == Commands \cup {"nested", "invalid"}

ASSUME ConstantsFit ==
    /\ Retries \in Nat \cup {None}
    /\ Moves \subseteq MoveKinds
    /\ Habits \subseteq {"raise", "catch"}
    /\ IsFiniteSet(Procs)
    /\ {MaxSoon, MaxPosts, MaxNotifs, MaxReplies} \subseteq Nat
    /\ {MaxDepth, MaxRemovals} \subseteq Nat \ {0}

VARIABLES
    vc,            \* each CommandProcessor, as _reset leaves it and on
    tries,         \* _current_tries, as far as Retries can tell
    soon, posts,   \* callLater(0)s and POSTs outstanding: _reset cancels none
    processors,    \* the harness's _processors
    removals,      \* how often each processor called remove_processor
    replies,       \* the replies the server still owes on a connection
    call,          \* the call being made: into a scenario, or handle()
    after          \* what is left of the caller when that call returns

scenarioVars == <<vc, tries, soon, posts>>
countVars == <<processors, removals>>
vars == <<harnessVars, scenarioVars, countVars, replies, call, after>>

Requests == {"hello", "register", "unregister"}

\* What is sent into a scenario: an event, a response or failure of a POST,
\* the duration a timer measured, or None.
Answers == Requests \cup {"none", "connect", "disconnect", "error",
                          "notification", "response", "failure", "duration"}

Frame(op, p, what, arg) == [op |-> op, p |-> p, what |-> what, arg |-> arg]
Nothing == Frame("nothing", None, "none", None)
Send(p, answer) == Frame("send", p, answer, None)
Throw(p) == Frame("throw", p, "exception", None)

Quiet == call = Nothing /\ after = Nothing

\* A processor after _reset.
\*   depth, top   the stack of generators, and the state of the topmost one
\*   asked        what that one last yielded ("start": nothing yet)
\*   lastCommand  _last_command, which a nested generator does not change
\*   expecting    the channels the _expecting closure looks for, or {}
\*   armed        the TimeoutMixin's timer is set
Fresh == [depth |-> 1, top |-> "fresh", asked |-> "start",
          lastCommand |-> "none", expecting |-> {}, waiting |-> FALSE,
          armed |-> FALSE, connected |-> FALSE, client |-> None,
          notifications |-> <<>>, timers |-> {}]

Unborn == [Fresh EXCEPT !.depth = 0]
Born(p) == vc[p].depth > 0

TypeOK ==
    /\ HarnessTypeOK
    /\ vc \in [Procs ->
          [depth : 0..MaxDepth, top : {"fresh", "suspended", "done"},
           asked : MoveKinds \cup {"start"},
           lastCommand : Commands \cup {"none"},
           expecting : SUBSET Channels, waiting : BOOLEAN, armed : BOOLEAN,
           connected : BOOLEAN, client : Conns \cup {None},
           notifications : Seq(Channels), timers : SUBSET Timers]]
    /\ tries \in [Procs -> Nat]
    /\ soon \in [Procs -> 0..(MaxSoon + MaxDepth)]
    /\ posts \in [Procs -> 0..MaxPosts]
    /\ processors \in Int
    /\ removals \in [Procs -> 0..MaxRemovals]
    /\ replies \in [Conns -> Seq(Requests)]
    /\ call \in [op : {"nothing", "send", "throw", "handle"},
                 p : Procs \cup {None}, what : Answers \cup {"exception"},
                 arg : Conns \cup Channels \cup {None}]
    /\ after \in [op : {"nothing", "handled", "timed out", "count"},
                  p : Procs \cup {None}, what : Answers,
                  arg : Conns \cup {None}]

Init ==
    /\ HarnessInit
    /\ vc = [p \in Procs |-> Unborn]
    /\ tries = [p \in Procs |-> 0]
    /\ soon = [p \in Procs |-> 0]
    /\ posts = [p \in Procs |-> 0]
    /\ processors = 0
    /\ removals = [p \in Procs |-> 0]
    /\ replies = [c \in Conns |-> <<>>]
    /\ call = Nothing
    /\ after = Nothing

-----------------------------------------------------------------------------
(* Entering a generator: _run_safely and what it makes of the outcome. *)

Enters(p) == call.p = p /\ call.op \in {"send", "throw"}

\* The body of the topmost generator runs on: next() and send() start or
\* resume it (a fresh one takes no value but None), throw() only if it
\* catches the exception.
Resumes(p) ==
    /\ Enters(p)
    /\ call.op = "send"
    /\ vc[p].top = "suspended" \/ (vc[p].top = "fresh" /\ call.what = "none")
Catches(p) ==
    /\ Enters(p)
    /\ call.op = "throw"
    /\ vc[p].top = "suspended"
    /\ "catch" \in Habits
Runs(p) == Resumes(p) \/ Catches(p)

\* What a generator that does not run on answers: StopIteration when it is
\* sent something after its end, an exception when it does not catch what is
\* thrown, or is sent a value before it started.
StopsAtOnce(p) == Enters(p) /\ call.op = "send" /\ vc[p].top = "done"
TypeErrors(p) ==
    Enters(p) /\ call.op = "send" /\ vc[p].top = "fresh" /\ call.what # "none"
Uncaught(p) == Enters(p) /\ call.op = "throw"

\* remove_processor, and a mutant that does nothing.
RemoveNothing(p) == UNCHANGED countVars
RemoveProcessor(p) ==
    IF removals[p] < MaxRemovals
    THEN /\ processors' = processors - 1
         /\ removals' = [removals EXCEPT ![p] = @ + 1]
    ELSE UNCHANGED countVars

\* The retry condition of shutdown, after its increment of _current_tries.
Retry(p) == Retries # None /\ (Retries = 0 \/ tries[p] + 1 =< Retries)

\* Retries tells no difference between the numbers of tries beyond this one.
MaxTries == IF Retries = None THEN 0 ELSE IF Retries = 0 THEN 0 ELSE Retries + 1

\* shutdown(ended) of processor p, whose state is then v: it is over, or
\* starts again from _reset.
Shutdown(p, ended, v) ==
    /\ tries' = [tries EXCEPT ![p] = IF @ < MaxTries THEN @ + 1 ELSE @]
    /\ IF ended \/ ~Retry(p)
       THEN /\ RemoveProcessor(p)
            /\ vc' = [vc EXCEPT ![p] = v]
            /\ call' = Nothing
       ELSE /\ vc' = [vc EXCEPT ![p] = Fresh]
            /\ call' = Send(p, "none")
            /\ UNCHANGED countVars

\* The condition of _run_safely under which StopIteration ends the scenario,
\* and a mutant of it.
NoneLeft(p) == vc[p].depth = 0
OneLeft(p) == vc[p].depth = 1

\* StopIteration: the scenario is over, or the nested generator is and its
\* parent is sent None a little later.
ScenarioReturns(p) ==
    /\ Runs(p) \/ StopsAtOnce(p)
    /\ IF OneLeft(p)
       THEN /\ Shutdown(p, TRUE, [vc[p] EXCEPT !.top = "done"])
            /\ UNCHANGED soon
       ELSE /\ vc' = [vc EXCEPT ![p] =
                 [vc[p] EXCEPT !.depth = vc[p].depth - 1,
                               !.top = "suspended", !.asked = "nested"]]
            /\ soon' = [soon EXCEPT ![p] = @ + 1]
            /\ call' = Nothing
            /\ UNCHANGED <<tries, countVars>>
    /\ UNCHANGED <<harnessVars, posts, replies, after>>

\* Any other exception.  The whole processor is shut down, also when it was a
\* nested generator that raised: its parent is not told.
ScenarioFails(p) ==
    /\ \/ Runs(p) /\ "raise" \in Habits
       \/ TypeErrors(p)
       \/ Uncaught(p)
    /\ Shutdown(p, FALSE, IF TypeErrors(p) THEN vc[p]
                          ELSE [vc[p] EXCEPT !.top = "done"])
    /\ UNCHANGED <<harnessVars, soon, posts, replies, after>>

-----------------------------------------------------------------------------
(* The commands: the scenario yields, _run_command calls the method.       *)

\* What next() and send() return is run.  What a scenario yields when it has
\* caught an exception is lost: _send_exception's throw() does not return it.
Yields(p, m) == Resumes(p) /\ m \in Moves

\* The processor when command m's method is called.
Asked(p, m) == [vc[p] EXCEPT !.top = "suspended", !.asked = m,
                             !.lastCommand = m]

\* Mutant of Disconnected: the reference to the client is kept.
DisconnectedKeeps(v) == [v EXCEPT !.connected = FALSE]
Disconnected(v) == [v EXCEPT !.connected = FALSE, !.client = None]

\* _send_exception of processor p, whose state is then v: a connection is
\* dropped without waiting for its close, the exception goes into the
\* generator.
SendException(p, v) ==
    /\ IF v.connected THEN Detach(v.client) ELSE UNCHANGED harnessVars
    /\ vc' = [vc EXCEPT ![p] = IF v.connected THEN Disconnected(v) ELSE v]
    /\ call' = Throw(p)

\* The method returns, its result comes later or at once.
ResultLater(p, v) == vc' = [vc EXCEPT ![p] = v] /\ call' = Nothing
ResultNow(p, v, answer) == vc' = [vc EXCEPT ![p] = v] /\ call' = Send(p, answer)

\* Mutant of Unconnectable: connect does not look whether it is connected.
NeverUnconnectable(v) == FALSE
Unconnectable(v) == v.connected

RunConnect(p) ==
    /\ Yields(p, "connect")
    /\ LET v == Asked(p, "connect") IN
          IF Unconnectable(v) THEN SendException(p, v)
          ELSE Connect(p) /\ ResultLater(p, v)

RunDisconnect(p) ==
    /\ Yields(p, "disconnect")
    /\ LET v == Asked(p, "disconnect") IN
          IF v.client = None THEN SendException(p, v)
          ELSE SendClose(v.client) /\ ResultLater(p, v)

\* hello, register, unregister.  What is sent on a connection that is closing
\* is dropped; the server answers everything else, in order.
RunRequest(p, m) ==
    /\ Yields(p, m)
    /\ LET v == Asked(p, m) IN
          IF v.client = None THEN SendException(p, v) /\ UNCHANGED replies
          ELSE /\ Len(replies[v.client]) < MaxReplies
               /\ replies' = IF ws[v.client].state = "open"
                             THEN [replies EXCEPT ![v.client] = Append(@, m)]
                             ELSE replies
               /\ ResultLater(p, v)
               /\ UNCHANGED harnessVars
    /\ UNCHANGED posts

RunAck(p) ==
    /\ Yields(p, "ack")
    /\ LET v == Asked(p, "ack") IN
          IF v.client = None THEN SendException(p, v)
          ELSE ResultNow(p, v, "none") /\ UNCHANGED harnessVars

\* The POST is under way; or it failed already, so that the errback answers
\* before addErrback returns; or making it raised.
RunSendNotification(p) ==
    /\ Yields(p, "send_notification")
    /\ LET v == Asked(p, "send_notification") IN
          \/ /\ posts[p] < MaxPosts
             /\ posts' = [posts EXCEPT ![p] = @ + 1]
             /\ ResultLater(p, v)
             /\ UNCHANGED harnessVars
          \/ /\ "post" \in Faults
             /\ ResultNow(p, v, "failure")
             /\ UNCHANGED <<posts, harnessVars>>
          \/ /\ "post" \in Faults
             /\ SendException(p, v)
             /\ UNCHANGED posts
    /\ UNCHANGED replies

\* The stored notifications that answer an expectation of these channels, and
\* what is left when the first of them is taken.
Matching(v, channels) ==
    {i \in 1..Len(v.notifications) : v.notifications[i] \in channels}

WithoutFirst(v, channels) ==
    LET k == CHOOSE i \in Matching(v, channels) :
                \A j \in Matching(v, channels) : i =< j
        n == v.notifications
    IN  SubSeq(n, 1, k - 1) \o SubSeq(n, k + 1, Len(n))

\* _expecting and its timer, cleared and set together, with mutants that
\* forget the one or the other.
KeepExpecting(v) == [v EXCEPT !.armed = FALSE]
ClearExpecting(v) == [v EXCEPT !.expecting = {}, !.armed = FALSE]

SetUntimed(v, channels) == [v EXCEPT !.expecting = channels]
SetExpecting(v, channels) ==
    [v EXCEPT !.expecting = channels, !.armed = TRUE]

\* expect_notification and expect_notifications, called for a command or by
\* handle through _expecting: a stored notification is the result, otherwise
\* the closure and the timer are set unless a closure is set already.
Expect(p, v, channels) ==
    IF Matching(v, channels) # {}
    THEN ResultNow(p, ClearExpecting([v EXCEPT !.notifications =
                                          WithoutFirst(v, channels)]),
                   "notification")
    ELSE IF v.expecting # {} THEN ResultLater(p, v)
    ELSE ResultLater(p, SetExpecting(v, channels))

RunExpect(p) ==
    /\ \/ /\ Yields(p, "expect_notification")
          /\ \E ch \in Channels :
                Expect(p, Asked(p, "expect_notification"), {ch})
       \/ /\ Yields(p, "expect_notifications")
          /\ \E chs \in SUBSET Channels \ {{}} :
                Expect(p, Asked(p, "expect_notifications"), chs)
    /\ UNCHANGED harnessVars

RunWait(p) ==
    /\ Yields(p, "wait")
    /\ ResultLater(p, [Asked(p, "wait") EXCEPT !.waiting = TRUE,
                                               !.armed = TRUE])
    /\ UNCHANGED harnessVars

RunTimerStart(p) ==
    /\ Yields(p, "timer_start")
    /\ LET v == Asked(p, "timer_start") IN \E t \in Timers :
          IF t \in v.timers THEN SendException(p, v)
          ELSE /\ ResultNow(p, [v EXCEPT !.timers = @ \cup {t}], "none")
               /\ UNCHANGED harnessVars

RunTimerEnd(p) ==
    /\ Yields(p, "timer_end")
    /\ LET v == Asked(p, "timer_end") IN \E t \in Timers :
          IF t \notin v.timers THEN SendException(p, v)
          ELSE /\ ResultNow(p, [v EXCEPT !.timers = @ \ {t}], "duration")
               /\ UNCHANGED harnessVars

RunCounter(p) ==
    /\ Yields(p, "counter")
    /\ ResultNow(p, Asked(p, "counter"), "none")
    /\ UNCHANGED harnessVars

\* LoadRunner.tla models what a spawned plan does; a plan that is wrong makes
\* spawn raise.
RunSpawn(p) ==
    /\ Yields(p, "spawn")
    /\ LET v == Asked(p, "spawn") IN
          \/ ResultNow(p, v, "none") /\ UNCHANGED harnessVars
          \/ "raise" \in Habits /\ SendException(p, v)

\* A generator is pushed, and started by the reactor.
RunNested(p) ==
    /\ Yields(p, "nested")
    /\ vc[p].depth < MaxDepth
    /\ soon[p] < MaxSoon
    /\ soon' = [soon EXCEPT ![p] = @ + 1]
    /\ ResultLater(p, [vc[p] EXCEPT !.depth = @ + 1, !.top = "fresh",
                                    !.asked = "start"])
    /\ UNCHANGED <<harnessVars, tries, posts, countVars, replies, after>>

\* What is no command raises in _run_command, and the scenario, which is left
\* suspended, is not told: what it yields by mistake, and the None that throw()
\* returns whatever a scenario yields that caught the exception.
RunInvalid(p) ==
    /\ Yields(p, "invalid") \/ Catches(p)
    /\ Shutdown(p, FALSE, [vc[p] EXCEPT !.top = "suspended",
                                        !.asked = "invalid"])
    /\ UNCHANGED <<harnessVars, soon, posts, replies, after>>

-----------------------------------------------------------------------------
(* CommandProcessor.handle. *)

\* The end of handle: a connect or disconnect sets the connection, whatever
\* connection it is about, and the event is the result of the last command.
Deliver(p, type, c) ==
    /\ vc' = [vc EXCEPT ![p] =
          CASE type = "connect" -> [@ EXCEPT !.connected = TRUE, !.client = c]
            [] type = "disconnect" -> [@ EXCEPT !.connected = FALSE,
                                                !.client = None]
            [] OTHER -> @]
    /\ call' = Send(p, type)

\* Mutants: storing a notification disarms the timer; it is only stored.
StoreAndDisarm(v, ch) ==
    [v EXCEPT !.notifications = Append(@, ch), !.armed = FALSE]
Store(v, ch) == [v EXCEPT !.notifications = Append(@, ch)]

OnlyStore(p, ch) == ResultLater(p, Store(vc[p], ch))

\* A notification is stored, and looked for at once if it is expected.
HandleNotification(p, ch) ==
    LET v == Store(vc[p], ch) IN
    IF v.expecting # {} THEN Expect(p, v, v.expecting) ELSE ResultLater(p, v)

\* An event other than its command's result is thrown into the scenario.  The
\* code does not return then: Deliver follows when the exception is dealt with.
HandleEvent(p, type, c) ==
    IF type = "register" \/ vc[p].lastCommand = type
    THEN Deliver(p, type, c) /\ UNCHANGED <<harnessVars, after>>
    ELSE SendException(p, vc[p]) /\ after' = Frame("handled", p, type, c)

HandleCall ==
    /\ call.op = "handle"
    /\ IF call.what = "notification"
       THEN HandleNotification(call.p, call.arg) /\ UNCHANGED <<harnessVars, after>>
       ELSE HandleEvent(call.p, call.what, call.arg)
    /\ UNCHANGED <<tries, soon, posts, countVars, replies>>

\* handle goes on after _send_exception returned.
HandleTail ==
    /\ call = Nothing
    /\ after.op = "handled"
    /\ Deliver(after.p, after.what, after.arg)
    /\ after' = Nothing
    /\ UNCHANGED <<harnessVars, tries, soon, posts, countVars, replies>>

-----------------------------------------------------------------------------
(* What the reactor calls, when it is quiet. *)

\* RunnerHarness.run: the processor is counted only when run() returns, that
\* is when its scenario waits for the first time or is over already.
Start(p) ==
    /\ Quiet
    /\ ~Born(p)
    /\ vc' = [vc EXCEPT ![p] = Fresh]
    /\ call' = Send(p, "none")
    /\ after' = Frame("count", p, "none", None)
    /\ UNCHANGED <<harnessVars, tries, soon, posts, countVars, replies>>

\* Mutant of CountTail: the processor is not counted.
CountTailForgets ==
    /\ call = Nothing
    /\ after.op = "count"
    /\ after' = Nothing
    /\ UNCHANGED <<harnessVars, scenarioVars, countVars, replies, call>>

CountTail ==
    /\ call = Nothing
    /\ after.op = "count"
    /\ processors' = processors + 1
    /\ after' = Nothing
    /\ UNCHANGED <<harnessVars, scenarioVars, removals, replies, call>>

\* A callLater(0): starts the generator that was pushed, or resumes the
\* parent of one that ended; in any case the one that is topmost now.
CalledLater(p) ==
    /\ Quiet
    /\ soon[p] > 0
    /\ soon' = [soon EXCEPT ![p] = @ - 1]
    /\ call' = Send(p, "none")
    /\ UNCHANGED <<harnessVars, vc, tries, posts, countVars, replies, after>>

\* _finished_notification, or _error_notif for a POST that failed.
PostAnswered(p) ==
    /\ Quiet
    /\ posts[p] > 0
    /\ posts' = [posts EXCEPT ![p] = @ - 1]
    /\ \E answer \in {"response"} \cup
             (IF "post" \in Faults THEN {"failure"} ELSE {}) :
          call' = Send(p, answer)
    /\ UNCHANGED <<harnessVars, vc, tries, soon, countVars, replies, after>>

\* The response came but reading its content failed: _sent_notification's
\* errback calls _error_notif with an argument too many, which raises, and
\* the processor is not told.
ContentFails(p) ==
    /\ Quiet
    /\ "content" \in Faults
    /\ posts[p] > 0
    /\ posts' = [posts EXCEPT ![p] = @ - 1]
    /\ UNCHANGED <<harnessVars, vc, tries, soon, countVars, replies, call, after>>

\* timeoutConnection: first an expectation is given up,
TimerFires(p) ==
    /\ Quiet
    /\ vc[p].armed
    /\ LET v == [vc[p] EXCEPT !.armed = FALSE] IN
          IF v.expecting # {}
          THEN ResultNow(p, [v EXCEPT !.expecting = {}], "none")
          ELSE ResultLater(p, v)
    /\ after' = Frame("timed out", p, "none", None)
    /\ UNCHANGED <<harnessVars, tries, soon, posts, countVars, replies>>

\* Mutant of Waits: the second half does not look whether there is a wait.
AlwaysWaits(p) == TRUE
Waits(p) == vc[p].waiting

\* then, when the scenario has had that result, a wait ends: also one that
\* the result made the scenario begin.
TimerTail ==
    /\ call = Nothing
    /\ after.op = "timed out"
    /\ LET p == after.p IN
          IF Waits(p)
          THEN ResultNow(p, [vc[p] EXCEPT !.waiting = FALSE], "none")
          ELSE UNCHANGED <<vc, call>>
    /\ after' = Nothing
    /\ UNCHANGED <<harnessVars, tries, soon, posts, countVars, replies>>

\* A connection has replies to give, or anything else to deliver, to a
\* processor; what arrives for nobody raises in onMessage and only loses the
\* connection, which is closing by then.
Delivers(c) == ws[c].state \in {"open", "closing"} /\ ws[c].processor # None

Arrives(c, type, arg) == call' = Frame("handle", ws[c].processor, type, arg)

OnOpen(c) ==
    /\ Quiet
    /\ AddClient(c)
    /\ call' = IF waiters = <<>> THEN Nothing
               ELSE Frame("handle", Head(waiters), "connect", c)
    /\ UNCHANGED <<scenarioVars, countVars, replies, after>>

\* onClose: the registry first, then the processor if there is one.
OnClose(c) ==
    /\ Quiet
    /\ RemoveClient(c)
    /\ replies' = [replies EXCEPT ![c] = <<>>]
    /\ IF ws[c].processor = None THEN UNCHANGED call
       ELSE Arrives(c, "disconnect", c)
    /\ UNCHANGED <<scenarioVars, countVars, after>>

OnReply(c) ==
    /\ Quiet
    /\ Delivers(c)
    /\ replies[c] # <<>>
    /\ replies' = [replies EXCEPT ![c] = Tail(@)]
    /\ Arrives(c, Head(replies[c]), c)
    /\ UNCHANGED <<harnessVars, scenarioVars, countVars, after>>

OnNotification(c) ==
    /\ Quiet
    /\ Delivers(c)
    /\ Len(vc[ws[c].processor].notifications) < MaxNotifs
    /\ \E ch \in Channels : Arrives(c, "notification", ch)
    /\ UNCHANGED <<harnessVars, scenarioVars, countVars, replies, after>>

\* A payload that is no JSON is an event nobody asks for.
OnGarbage(c) ==
    /\ Quiet
    /\ "garbage" \in Faults
    /\ Delivers(c)
    /\ Arrives(c, "error", c)
    /\ UNCHANGED <<harnessVars, scenarioVars, countVars, replies, after>>

OtherThanHarness == <<scenarioVars, countVars, replies, call, after>>

TcpSettles ==
    /\ Quiet
    /\ ConnectFailed \/ \E c \in Conns : TcpConnected(c)
    /\ UNCHANGED OtherThanHarness

\* Everybody is over: the reactor may go on doing nothing.
AllOver == \A p \in Procs : Born(p) /\ removals[p] > 0
Rest == Quiet /\ AllOver /\ UNCHANGED vars

-----------------------------------------------------------------------------
\* Only requests touch what the server owes, only POSTs the POSTs under way.
RunCommand(p) ==
    /\ \/ /\ \/ RunConnect(p) \/ RunDisconnect(p) \/ RunAck(p)
             \/ RunExpect(p) \/ RunWait(p) \/ RunCounter(p) \/ RunSpawn(p)
             \/ RunTimerStart(p) \/ RunTimerEnd(p)
          /\ UNCHANGED <<posts, replies>>
       \/ \E m \in Requests : RunRequest(p, m)
       \/ RunSendNotification(p)
    /\ UNCHANGED <<tries, soon, countVars, after>>

\* A reactor turn goes on.
Turn ==
    \/ \E p \in Procs :
          \/ RunCommand(p) \/ RunNested(p) \/ RunInvalid(p)
          \/ ScenarioReturns(p) \/ ScenarioFails(p)
    \/ HandleCall \/ HandleTail \/ TimerTail \/ CountTail

\* A reactor turn begins.
Event ==
    \/ \E p \in Procs :
          \/ Start(p) \/ CalledLater(p) \/ PostAnswered(p)
          \/ ContentFails(p) \/ TimerFires(p)
    \/ \E c \in Conns :
          \/ OnOpen(c) \/ OnClose(c) \/ OnReply(c)
          \/ OnNotification(c) \/ OnGarbage(c)
    \/ TcpSettles

Next == Turn \/ Event \/ Rest

Spec == Init /\ [][Next]_vars

\* Every turn ends, and the reactor gets round to every callback: timers
\* fire, POSTs are answered, the server answers what it is asked, closing
\* handshakes end, and a websocket handshake does not fail forever.  Within a
\* turn the reactor takes no other callback, so that each one is enabled
\* again and again, not continuously: strong fairness of the action says no
\* more than that the reactor starves none.
Fairness ==
    /\ WF_vars(Turn)
    /\ SF_vars(TcpSettles)
    /\ \A p \in Procs : /\ SF_vars(Start(p)) /\ SF_vars(CalledLater(p))
                        /\ SF_vars(PostAnswered(p)) /\ SF_vars(TimerFires(p))
    /\ \A c \in Conns : SF_vars(OnOpen(c)) /\ SF_vars(OnReply(c))
    /\ \A c \in Conns : SF_vars(ws[c].state = "closing" /\ OnClose(c))

FairSpec == Spec /\ Fairness

-----------------------------------------------------------------------------
(* Properties that hold whatever goes wrong. *)

\* A processor's _ws_client is a connection that is there, is registered to
\* this processor and delivers its events to it, and _connected says whether
\* there is one: so `del self._ws_client.processor` finds its attribute and a
\* command is never sent on somebody else's connection.  (A close takes the
\* connection away before handle learns of it.)
ClientIsLive ==
    \A p \in Procs :
        LET c == vc[p].client IN
        /\ vc[p].connected <=> c # None
        /\ (c # None /\ call.op # "handle") =>
              /\ ws[c].state \in {"open", "closing"}
              /\ ws[c].processor = p
              /\ wsClients[c] = p

\* An expectation always has a timer that ends it (setTimeout and _expecting
\* change together, and _reset clears both).
ExpectingIsTimed == \A p \in Procs : vc[p].expecting # {} => vc[p].armed

\* While a processor expects notifications, none that it has stored is one of
\* those: it does not wait for what it already has.
NothingOverlooked ==
    call.op # "handle" =>
        \A p \in Procs : Matching(vc[p], vc[p].expecting) = {}

\* Between two callbacks the harness counts at most as many processors as have
\* a generator that can still run: none that is over keeps `_processors <= 0`
\* from coming true.  It may count fewer, and fewer than none: see
\* FinishedMeansOver.
CountedAreAlive ==
    Quiet => processors =<
        Cardinality({p \in Procs : Born(p) /\ vc[p].top # "done"})

\* The counts of the harness, as LoadRunner.tla has them.  A scenario that is
\* being launched is as good as counted.
ToCount == IF after.op = "count" THEN 1 ELSE 0
HarnessCounts == INSTANCE HarnessCount WITH
    launched <- Cardinality({p \in Procs : Born(p)}),
    running <- Cardinality({p \in Procs : Born(p) /\ removals[p] = 0}),
    processors <- processors + ToCount

\* Launching and ending scenarios, restarting them and whatever reaches them
\* when they are over move the harness's count as the load runner takes for
\* granted: up by one when a scenario is launched, down by one when it ends and,
\* at most, when one that has ended is reported again (run, shutdown).
CountIsKept == HarnessCounts!Spec

\* A scenario that is not over is entered again and again: each command it
\* yields is answered in the end, by its result or by an exception, however
\* often handshakes, open connections and POSTs fail.
ScenariosGoOn ==
    \A p \in Procs : []<>(Enters(p) \/ removals[p] > 0)

-----------------------------------------------------------------------------
(* Properties of an orderly run: nothing goes wrong but handshakes and     *)
(* POSTs, and scenarios make no errors of their own and catch none.        *)

Orderly ==
    /\ Faults \subseteq {"handshake", "post"}
    /\ Habits = {}
    /\ "invalid" \notin Moves

\* The conversation each scenario has, read off the processors.
Talk(p) ==
    IF removals[p] > 0 THEN <<"over", "start", "nothing">>
    ELSE IF ~Born(p) THEN <<"unborn", "start", "nothing">>
    ELSE IF Enters(p) THEN <<"scenario", vc[p].asked, call.what>>
    ELSE <<"processor", vc[p].asked, "nothing">>

Abstract == INSTANCE Conversation WITH
    turn <- [p \in Procs |-> Talk(p)[1]],
    asked <- [p \in Procs |-> Talk(p)[2]],
    heard <- [p \in Procs |-> Talk(p)[3]]

\* Every command a scenario yields is answered exactly once, by a result that
\* belongs to it, or at once by an exception: a reply, an event, a timer or a
\* POST never answers another command than the one that is waiting, and
\* nothing reaches a scenario after it is over (handle, _send_command_result).
ConversationIsKept == Abstract!Spec

\* A processor that was removed is left alone: its scenario is not entered
\* again, so that it is removed only once and not restarted (shutdown).
OverIsFinal ==
    Orderly => \A p \in Procs : removals[p] > 0 => ~Enters(p)

\* A processor is never served by two connections: the one it had is closing
\* and detached before it can ask for another (connect, _send_exception).
OneConnection ==
    Orderly => \A p \in Procs : \A c, d \in Conns :
        (ws[c].processor = p /\ ws[d].processor = p) => c = d

\* A scenario in its wait has a timer that ends it: nothing that arrives in
\* the meantime disarms it (setTimeout).
WaitingIsTimed ==
    (Orderly /\ after.op # "timed out") =>
        \A p \in Procs : vc[p].waiting => vc[p].armed

-----------------------------------------------------------------------------
(* What the documentation and the comments say, and the code does not do.  *)

\* runner.py:292, "all the processors have finished": when the harness counts
\* no processor, each one it started is over.  But a processor that is over
\* is removed again by whatever reaches it later (shutdown).
FinishedMeansOver ==
    (Quiet /\ processors =< 0) =>
        \A p \in Procs : Born(p) => removals[p] > 0

\* client.py:327-329, "All websocket events except the notification need the
\* command preceding them. Otherwise we throw an exception into the scenario":
\* instead of sending it, that is.  But handle goes on and sends it, too: to the
\* scenario that the exception made start again, or into what is left of it.
UnexpectedIsOnlyThrown ==
    (call.op = "send" /\ call.what \in {"connect", "disconnect", "hello",
                                        "unregister", "error"}) =>
        vc[call.p].lastCommand = call.what
=============================================================================
