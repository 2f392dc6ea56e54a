----------------------------- MODULE Scenarios -----------------------------
(***************************************************************************)
(* aplt/scenarios.py: the scenarios that come with the program, played by  *)
(* the instances of one test plan against a push server.                   *)
(*                                                                         *)
(* A scenario is a script, a sequence of instructions with a program       *)
(* counter: the commands it yields and what it does with their results.    *)
(* The processor is reduced to what it promises (Conversation.tla, which   *)
(* CommandProcessor.tla implements): a command is answered once, or        *)
(* refused at once.  RunnerHarness.send_notification is here in detail,    *)
(* with the VAPID claims that all instances of a plan share.               *)
(***************************************************************************)
EXTENDS Naturals, Sequences, FiniteSets, Subsequences

CONSTANTS
    Clients,      \* instances of the scenario
    Origins,      \* the hosts of push endpoints
    Plans,        \* the test plans to play, a set of Plan
    Faults,       \* what may go wrong: a subset of FaultKinds
    \* Bounds: iterations of a scenario that loops for ever, days that pass,
    \* and, instead of 32 and 10, the notifications stored and channels used.
    Cycles, Days, Qty

FaultKinds == {"late",     \* a notification comes after its time
               "post",     \* a POST fails, taken by the server or not
               "drop",     \* a connection is lost
               "uaid"}     \* the server does not know a client any more

-----------------------------------------------------------------------------
(* Scripts.  Of the counters "notification.sent" and "...received" are kept. *)

I(op, arg) == [op |-> op, arg |-> arg, try |-> FALSE]
Do(op) == I(op, "nothing")
Try(i) == [i EXCEPT !.try = TRUE]

Connect == Do("connect")
Disconnect == Do("disconnect")
Hello == I("hello", "new")
HelloAgain == I("hello", "again")
SameUaid == Do("same_uaid")          \* assert response["uaid"] == uaid
Register == Do("register")
Unregister == I("unregister", "last")
Send(data) == I("send", data)
Created == Do("created")             \* assert response.code == 201
Sent == I("counter", "sent")
Received == I("counter", "received")
Expect == I("expect", "last")
Needed == Do("needed")               \* if not notif: raise
Data(data) == I("data", data)        \* assert notif['data'] == data
Ack == Do("ack")                     \* of notif, which may be None
StartTimer == Do("timer_start")
StopTimer == Do("timer_end")
Wait == Do("wait")
Loop(k) == I("loop", k)              \* the end of while True, unless run_once
Jump(k) == I("jump", k)
For(k) == I("for", k)                \* Qty times what follows, then to k

Basic ==
    <<Connect, Hello, Register, StartTimer, Send("first"), Created, Sent,
      Expect, Data("first"), Received, StopTimer, Ack, Unregister, Disconnect>>

\* Mutant of BasicTopic: it stays connected while it sends.
BasicTopicConnected ==
    <<Connect, Hello, Register, StartTimer, Send("first_topic"), Created, Sent,
      Send("second_topic"), Created, Sent, Expect, Data("second_topic"),
      Received, StopTimer, Ack, Unregister, Disconnect>>

BasicTopic ==
    <<Connect, Hello, Register, StartTimer, Disconnect,
      Send("first_topic"), Created, Sent, Send("second_topic"), Created, Sent,
      Connect, HelloAgain, SameUaid, Expect, Data("second_topic"), Received,
      StopTimer, Ack, Unregister, Disconnect>>

ConnectAndIdleForever == <<Connect, Hello, Wait, Jump(3)>>

\* Mutants of ReconnectForever: the timer is not ended in each cycle; the
\* notification is not acknowledged.
ReconnectForeverTiming ==
    <<Connect, Hello, Register,
      StartTimer, Send("any"), Sent, Expect, Received, Ack, Wait,
      Disconnect, Try(Connect), Try(HelloAgain), Try(SameUaid), Loop(4),
      StopTimer, Unregister, Disconnect>>

ReconnectForeverNoAck ==
    <<Connect, Hello, Register,
      StartTimer, Send("any"), Sent, Expect, Received, StopTimer, Wait,
      Disconnect, Try(Connect), Try(HelloAgain), Try(SameUaid), Loop(4),
      Unregister, Disconnect>>

\* The try around connecting again ends the scenario as if it were done.
ReconnectForever ==
    <<Connect, Hello, Register,
      StartTimer, Send("any"), Sent, Expect, Received, Ack, StopTimer, Wait,
      Disconnect, Try(Connect), Try(HelloAgain), Try(SameUaid), Loop(4),
      Unregister, Disconnect>>

RegisterForever ==
    <<Connect, Hello, Register, Wait, Loop(3), Unregister, Disconnect>>

NotificationForever ==
    <<Connect, Hello, Register,
      StartTimer, Send("any"), Sent, Expect, Received, StopTimer, Ack, Wait,
      Loop(4), Unregister, Disconnect>>

\* "collect" appends a notification to message_ids, if there is one; "ack
\* ids" acknowledges them, last first, and then goes back to expecting.
NotificationForeverStored ==
    <<Connect, Hello, Register, Disconnect,
      For(9), Send("any"), Sent, Jump(5),
      Wait, Connect, HelloAgain, SameUaid,
      Expect, Do("collect"), I("ack_ids", 13),
      I("if_once", 20), Disconnect, Wait, Loop(5), Unregister, Disconnect>>

NotificationForeverDirectStore ==
    <<Connect, Hello, Register,
      Send("any"), Sent, Expect, Needed, Disconnect, Wait, Connect, HelloAgain,
      SameUaid, Expect, Needed, Ack, Loop(4), Unregister, Disconnect>>

\* unregister(...) is called, but not yielded: nothing is unregistered.
NotificationForeverUnsubscribed == NotificationForever

NotificationForeverBadTokens ==
    <<Connect, Hello, Register,
      Send("bad_token"), Sent, Wait, Loop(4), Disconnect>>

NotificationForeverBadEndpoints ==
    <<Connect, Hello, Send("no_endpoint"), Sent, Wait, Loop(3), Disconnect>>

Explode == <<Connect, Connect>>

ExpectNotifications ==
    <<Connect, Hello,
      For(7), Register, Send("any"), Jump(3),
      For(12), I("expect", "any"), I("if_notif", 7), Ack, Jump(7),
      For(15), I("unregister", "each"), Jump(12),
      Disconnect>>

Script == [
    basic |-> Basic,
    basic_topic |-> BasicTopic,
    connect_and_idle_forever |-> ConnectAndIdleForever,
    reconnect_forever |-> ReconnectForever,
    register_forever |-> RegisterForever,
    notification_forever |-> NotificationForever,
    notification_forever_stored |-> NotificationForeverStored,
    notification_forever_direct_store |-> NotificationForeverDirectStore,
    notification_forever_unsubscribed |-> NotificationForeverUnsubscribed,
    notification_forever_bad_tokens |-> NotificationForeverBadTokens,
    notification_forever_bad_endpoints |-> NotificationForeverBadEndpoints,
    _explode |-> Explode,
    _expect_notifications |-> ExpectNotifications]

\* @restart(2) of _explode.
Retries(kind) == IF kind = "_explode" THEN 2 ELSE 0

\* The scenarios that can be given the keyword vapid_claims.
TakeClaims == {"basic", "basic_topic", "notification_forever",
               "notification_forever_stored"}

\* A test plan of a LoadRunner: its scenario, run_once (of the scenarios without
\* that parameter, one never ends and the others run once), what vapid_claims
\* are given, and the instances it launches.  A command line gives the claims
\* as a dictionary; a caller of LoadRunner may give their text.
Plan == [kind : DOMAIN Script, once : BOOLEAN,
         claims : {"none", "dict", "text"}, clients : SUBSET Clients]

ASSUME ConstantsFit ==
    /\ IsFiniteSet(Clients)
    /\ Origins # {} /\ "none" \notin Origins
    /\ Plans \subseteq Plan
    /\ \A p \in Plans : p.kind = "connect_and_idle_forever" => ~p.once
    /\ \A p \in Plans : p.claims # "none" => p.kind \in TakeClaims
    /\ Faults \subseteq FaultKinds
    /\ Cycles \in Nat /\ Days \in Nat \ {0} /\ Qty \in Nat

VARIABLES
    plan,       \* the plan of the harness
    claims,     \* the dictionary of claims of the harness
    day,        \* the day it is
    scn,        \* each scenario: its status, program counter and locals
    proc,       \* its processor: the command under way, connection, stored
                \* notifications, whether "update.latency" is timed
    server,     \* its user agent on the server
    up, down,   \* the request, and the frames, on their way on its connection
    post,       \* the POST under way
    mishaps,    \* what went wrong so far
    tally       \* the metrics, and the notifications it was given

network == <<up, down, post>>
vars == <<plan, claims, day, scn, proc, server, network, mishaps, tally>>

\* A notification, and the result None in its place.
Notification(id, ch, data) == [id |-> id, channel |-> ch, data |-> data]
NoNotif == Notification(0, 0, "none")

\* A scenario at its beginning, with the locals of its function: the channels
\* it registered, notif, message_ids, whether hello gave the uaid it asked for,
\* response, and the counts of its for and its while loop.
Fresh == [status |-> "running", pc |-> 1, channels |-> <<>>,
          notif |-> NoNotif, ids |-> <<>>, same |-> TRUE,
          response |-> "none", i |-> 0, cycle |-> 1]
Idle == [waits |-> "nothing", connected |-> FALSE, inbox |-> <<>>,
         timing |-> FALSE, tries |-> 0]
UserAgent(origin) == [origin |-> origin, subs |-> {}, pending |-> <<>>,
                      online |-> FALSE, last |-> 0]

None == "none"
NoClaims == [aud |-> None, exp |-> 0]
NoPost == [channel |-> 0, data |-> "none", signed |-> NoClaims, code |-> "none"]
Frame(type, notif) == [type |-> type, notif |-> notif]

Requests == {"hello", "register", "unregister"}

Running(c) == scn[c].status = "running"
Instr(c) == Script[plan.kind][scn[c].pc]
Returns(c) == Running(c) /\ scn[c].pc > Len(Script[plan.kind])

\* Bound: a while loop goes round Cycles times, then the scenario is held.
Held(c) ==
    /\ Running(c) /\ ~Returns(c)
    /\ Instr(c).op = "loop" /\ ~plan.once /\ scn[c].cycle = Cycles

\* A turn of the reactor: the scenario runs until it waits for an answer.
Turn(c) == Running(c) /\ proc[c].waits = "nothing" /\ ~Held(c)
Quiet == \A c \in Clients : ~Turn(c)

TypeOK ==
    LET Texts == {"none", "first", "first_topic", "second_topic", "any",
                  "bad_token"}
        Notifs == [id : Nat, channel : Nat, data : Texts]
        Claims == [aud : Origins \cup {None}, exp : Nat] IN
    /\ plan \in Plans
    /\ claims \in Claims
    /\ day \in 1..Days
    /\ scn \in [Clients ->
          [status : {"unborn", "running", "returned", "raised"}, pc : Nat,
           channels : Seq(Nat), notif : Notifs, ids : Seq(Nat),
           same : BOOLEAN, response : {"none", "201", "401", "404", "failed"},
           i : 0..Qty, cycle : Nat]]
    /\ proc \in [Clients ->
          [waits : {"nothing", "connect", "disconnect", "send", "expect",
                    "wait"} \cup Requests,
           connected : BOOLEAN, inbox : Seq(Notifs), timing : BOOLEAN,
           tries : Nat]]
    /\ server \in [Clients ->
          [origin : Origins, subs : SUBSET Nat, pending : Seq(Notifs),
           online : BOOLEAN, last : Nat]]
    /\ up \in [Clients -> Requests \cup {"none"}]
    /\ down \in [Clients -> Seq([type : Requests \cup {"stranger", "notification"},
                                 notif : Notifs])]
    /\ post \in [Clients -> [channel : Nat, data : Texts, signed : Claims,
                             code : {"none", "201", "401", "404"}]]
    /\ mishaps \in [Clients -> SUBSET (FaultKinds \cup {"refused"})]
    /\ tally \in [Clients -> [sent : Nat, received : Nat, posted : Nat,
                              seen : Seq(Nat)]]

Init ==
    /\ plan \in Plans
    /\ claims = NoClaims
    /\ day = 1
    /\ scn = [c \in Clients |->
                [Fresh EXCEPT !.status = IF c \in plan.clients
                                         THEN "running" ELSE "unborn"]]
    /\ proc = [c \in Clients |-> Idle]
    /\ \E origins \in [plan.clients -> Origins] :
          server = [c \in Clients |->
                       UserAgent(IF c \in plan.clients THEN origins[c]
                                 ELSE CHOOSE o \in Origins : TRUE)]
    /\ up = [c \in Clients |-> "none"]
    /\ down = [c \in Clients |-> <<>>]
    /\ post = [c \in Clients |-> NoPost]
    /\ mishaps = [c \in Clients |-> {}]
    /\ tally = [c \in Clients |->
                  [sent |-> 0, received |-> 0, posted |-> 0, seen |-> <<>>]]

-----------------------------------------------------------------------------
(* How a scenario goes on. *)

GoTo(s, k) == [s EXCEPT !.pc = k]
GoOn(s) == GoTo(s, s.pc + 1)

\* The scenario's state is s, then it runs on.
Continue(c, s) == scn' = [scn EXCEPT ![c] = GoOn(s)]

\* A command whose answer comes later; the answer, with which the scenario's
\* state is s.
Asks(c) == proc' = [proc EXCEPT ![c].waits = Instr(c).op]
Answered(c, s) ==
    /\ proc' = [proc EXCEPT ![c].waits = "nothing"]
    /\ Continue(c, s)

\* An exception in the scenario, its own or one thrown into it, when its
\* processor is p.  One that is caught ends the loop and with it the scenario;
\* one that is not makes the processor start it again or give it up.
Raise(c, p) ==
    IF Instr(c).try
    THEN /\ scn' = [scn EXCEPT ![c].status = "returned"]
         /\ proc' = [proc EXCEPT ![c] = [p EXCEPT !.waits = "nothing"]]
    ELSE IF p.tries < Retries(plan.kind)
    THEN /\ scn' = [scn EXCEPT ![c] = Fresh]
         /\ proc' = [proc EXCEPT ![c] = [Idle EXCEPT !.tries = p.tries + 1]]
    ELSE /\ scn' = [scn EXCEPT ![c].status = "raised"]
         /\ proc' = [proc EXCEPT ![c] = [p EXCEPT !.waits = "nothing"]]

\* The connection is closed, by whomever: what is on its way is lost, and the
\* server keeps what was not acknowledged.
Unconnected(c) ==
    /\ up' = [up EXCEPT ![c] = "none"]
    /\ down' = [down EXCEPT ![c] = <<>>]
    /\ server' = [server EXCEPT ![c].online = FALSE]

\* A command that may not be run now: the processor closes the connection and
\* throws.
Refused(c) ==
    /\ Raise(c, [proc[c] EXCEPT !.connected = FALSE])
    /\ Unconnected(c)
    /\ mishaps' = [mishaps EXCEPT ![c] = @ \cup {"refused"}]
    /\ UNCHANGED <<post, tally>>

Shared == <<plan, claims, day>>
Outside == <<server, network, mishaps>>

Runs(c, op) == Turn(c) /\ ~Returns(c) /\ Instr(c).op = op

-----------------------------------------------------------------------------
(* The commands. *)

RunConnect(c) ==
    /\ Runs(c, "connect")
    /\ IF proc[c].connected THEN Refused(c)
       ELSE Asks(c) /\ UNCHANGED <<scn, Outside, tally>>
    /\ UNCHANGED Shared

RunDisconnect(c) ==
    /\ Runs(c, "disconnect")
    /\ IF ~proc[c].connected THEN Refused(c)
       ELSE Asks(c) /\ UNCHANGED <<scn, Outside, tally>>
    /\ UNCHANGED Shared

RunRequest(c) ==
    /\ \E op \in Requests : Runs(c, op)
    /\ IF ~proc[c].connected THEN Refused(c)
       ELSE /\ Asks(c)
            /\ up' = [up EXCEPT ![c] = Instr(c).op]
            /\ UNCHANGED <<scn, server, down, post, mishaps, tally>>
    /\ UNCHANGED Shared

\* The claims cl with the aud that is missing, from the endpoint; and what
\* Vapid.sign makes of them, with an exp one day ahead.
Addressed(cl, c) ==
    [cl EXCEPT !.aud = IF @ = None THEN server[c].origin ELSE @]
Dated(cl) == [cl EXCEPT !.exp = IF @ = 0 THEN day + 1 ELSE @]

Signed(cl, c) == Dated(Addressed(cl, c))

Post(ch, data, signed) ==
    [channel |-> ch, data |-> data, signed |-> signed, code |-> "none"]

\* The channel whose endpoint a POST goes to: bad_push_endpoint replaces the
\* token.
Target(c) ==
    IF Instr(c).arg = "bad_token" THEN 0
    ELSE scn[c].channels[Len(scn[c].channels)]

Posts(c, signed) == post' = [post EXCEPT ![c] = Post(Target(c), Instr(c).arg, signed)]

\* Mutant of SignAndPost: the text is parsed once and the dictionary kept.
SignAndPostParsedOnce(c) ==
    IF plan.claims = "none" THEN Posts(c, NoClaims) /\ UNCHANGED claims
    ELSE Posts(c, Signed(claims, c)) /\ claims' = Signed(claims, c)

\* RunnerHarness.send_notification: claims given as text are parsed anew for
\* each POST, a dictionary is the harness's own, and it is filled in.
SignAndPost(c) ==
    CASE plan.claims = "none" -> Posts(c, NoClaims) /\ UNCHANGED claims
      [] plan.claims = "text" ->
            Posts(c, Signed(NoClaims, c)) /\ UNCHANGED claims
      [] plan.claims = "dict" ->
            Posts(c, Signed(claims, c)) /\ claims' = Signed(claims, c)

\* An endpoint without a host makes the POST fail.
RunSendNotification(c) ==
    /\ Runs(c, "send")
    /\ IF Instr(c).arg = "no_endpoint"
       THEN /\ Continue(c, [scn[c] EXCEPT !.response = "failed"])
            /\ tally' = [tally EXCEPT ![c].posted = @ + 1]
            /\ UNCHANGED <<proc, post, claims>>
       ELSE /\ SignAndPost(c)
            /\ Asks(c)
            /\ UNCHANGED <<scn, tally>>
    /\ UNCHANGED <<plan, day, server, up, down, mishaps>>

\* The channels an expectation is for, and the first stored notification of
\* one of them.
Expected(c) ==
    LET chs == scn[c].channels IN
    IF Instr(c).arg = "any" THEN {chs[k] : k \in DOMAIN chs} ELSE {chs[Len(chs)]}

IsExpected(c, n) == n.channel \in Expected(c)
Stored(c) == {k \in DOMAIN proc[c].inbox : IsExpected(c, proc[c].inbox[k])}

\* The scenario is given notification n, or None.
GivenNotif(c, n) == Continue(c, [scn[c] EXCEPT !.notif = n])
Saw(c, n) == tally' = [tally EXCEPT ![c].seen = Append(@, n.id)]

RunExpect(c) ==
    /\ Runs(c, "expect")
    /\ IF Stored(c) # {}
       THEN LET k == CHOOSE k \in Stored(c) : \A j \in Stored(c) : k =< j
                n == proc[c].inbox[k] IN
            /\ GivenNotif(c, n)
            /\ Saw(c, n)
            /\ proc' = [proc EXCEPT ![c].inbox =
                  SubSeq(@, 1, k - 1) \o SubSeq(@, k + 1, Len(@))]
       ELSE Asks(c) /\ UNCHANGED <<scn, tally>>
    /\ UNCHANGED <<Shared, Outside>>

RunWait(c) ==
    /\ Runs(c, "wait")
    /\ Asks(c)
    /\ UNCHANGED <<Shared, scn, Outside, tally>>

\* What the server still has when these notifications are acknowledged.
Acknowledged(c, ids) ==
    LET left == {n \in Elements(server[c].pending) : n.id \notin ids} IN
    server' = [server EXCEPT ![c].pending = Kept(@, left)]

\* ack: looking into notif raises when it is None.
RunAck(c) ==
    /\ Runs(c, "ack")
    /\ IF scn[c].notif = NoNotif
       THEN /\ Raise(c, proc[c])
            /\ UNCHANGED <<server, up, down, post, mishaps, tally>>
       ELSE IF ~proc[c].connected THEN Refused(c)
       ELSE /\ Acknowledged(c, {scn[c].notif.id})
            /\ Continue(c, scn[c])
            /\ UNCHANGED <<proc, network, mishaps, tally>>
    /\ UNCHANGED Shared

RunTimer(c) ==
    /\ Runs(c, "timer_start") \/ Runs(c, "timer_end")
    /\ LET starts == Instr(c).op = "timer_start" IN
       IF proc[c].timing = starts THEN Refused(c)
       ELSE /\ proc' = [proc EXCEPT ![c].timing = starts]
            /\ Continue(c, scn[c])
            /\ UNCHANGED <<Outside, tally>>
    /\ UNCHANGED Shared

RunCounter(c) ==
    /\ Runs(c, "counter")
    /\ tally' = IF Instr(c).arg = "sent" THEN [tally EXCEPT ![c].sent = @ + 1]
                ELSE [tally EXCEPT ![c].received = @ + 1]
    /\ Continue(c, scn[c])
    /\ UNCHANGED <<Shared, proc, Outside>>

\* Mutant of RunCollect: None is counted, too.
RunCollectAlways(c) ==
    /\ Runs(c, "collect")
    /\ tally' = [tally EXCEPT ![c].received = @ + 1]
    /\ IF scn[c].notif = NoNotif THEN Continue(c, scn[c])
       ELSE Continue(c, [scn[c] EXCEPT !.ids = Append(@, scn[c].notif.id)])
    /\ UNCHANGED <<Shared, proc, Outside>>

\* if notif: received, and remembered for its acknowledgement.
RunCollect(c) ==
    /\ Runs(c, "collect")
    /\ IF scn[c].notif = NoNotif
       THEN Continue(c, scn[c]) /\ UNCHANGED tally
       ELSE /\ tally' = [tally EXCEPT ![c].received = @ + 1]
            /\ Continue(c, [scn[c] EXCEPT !.ids = Append(@, scn[c].notif.id)])
    /\ UNCHANGED <<Shared, proc, Outside>>

\* ack for each of them, and back to expecting.
AckEach(c, ids) ==
    IF ~proc[c].connected THEN Refused(c)
    ELSE /\ Acknowledged(c, ids)
         /\ scn' = [scn EXCEPT ![c] =
               GoTo([scn[c] EXCEPT !.ids = <<>>], Instr(c).arg)]
         /\ UNCHANGED <<proc, network, mishaps, tally>>

\* Mutants of RunAckIds: it acknowledges the first one only; it goes on
\* expecting when there was nothing.
RunAckFirstId(c) ==
    /\ Runs(c, "ack_ids")
    /\ IF scn[c].ids = <<>>
       THEN Continue(c, scn[c]) /\ UNCHANGED <<proc, Outside, tally>>
       ELSE AckEach(c, {1})
    /\ UNCHANGED Shared

RunAckIdsForever(c) ==
    /\ Runs(c, "ack_ids")
    /\ AckEach(c, Elements(scn[c].ids))
    /\ UNCHANGED Shared

\* Everything collected is acknowledged, or there is nothing left to expect.
RunAckIds(c) ==
    /\ Runs(c, "ack_ids")
    /\ IF scn[c].ids = <<>>
       THEN Continue(c, scn[c]) /\ UNCHANGED <<proc, Outside, tally>>
       ELSE AckEach(c, Elements(scn[c].ids))
    /\ UNCHANGED Shared

\* An assertion or a lookup: what holds of the locals, or the scenario raises.
Holds(c, i) ==
    CASE i.op = "created" -> scn[c].response = "201"
      [] i.op = "same_uaid" -> scn[c].same
      [] i.op = "needed" -> scn[c].notif # NoNotif
      [] i.op = "data" -> scn[c].notif.data = i.arg

RunCheck(c) ==
    /\ \E op \in {"created", "same_uaid", "needed", "data"} : Runs(c, op)
    /\ IF Holds(c, Instr(c)) THEN Continue(c, scn[c]) /\ UNCHANGED proc
       ELSE Raise(c, proc[c])
    /\ UNCHANGED <<Shared, Outside, tally>>

\* Mutant of Branch: a for loop goes round once too often.
BranchOnceMore(c, i) ==
    LET s == scn[c] IN
    CASE i.op = "jump" -> GoTo(s, i.arg)
      [] i.op = "for" -> IF s.i =< Qty THEN GoOn([s EXCEPT !.i = @ + 1])
                         ELSE GoTo([s EXCEPT !.i = 0], i.arg)
      [] OTHER -> GoOn(s)

\* while, for and if.
Branch(c, i) ==
    LET s == scn[c] IN
    CASE i.op = "jump" -> GoTo(s, i.arg)
      [] i.op = "for" -> IF s.i < Qty THEN GoOn([s EXCEPT !.i = @ + 1])
                         ELSE GoTo([s EXCEPT !.i = 0], i.arg)
      [] i.op = "if_once" -> IF plan.once THEN GoTo(s, i.arg) ELSE GoOn(s)
      [] i.op = "if_notif" -> IF s.notif = NoNotif THEN GoTo(s, i.arg) ELSE GoOn(s)
      [] i.op = "loop" -> IF plan.once THEN GoOn(s)
                          ELSE GoTo([s EXCEPT !.cycle = @ + 1], i.arg)

RunBranch(c) ==
    /\ \E op \in {"jump", "for", "if_once", "if_notif", "loop"} : Runs(c, op)
    /\ scn' = [scn EXCEPT ![c] = Branch(c, Instr(c))]
    /\ UNCHANGED <<Shared, proc, Outside, tally>>

\* The generator is exhausted.
Return(c) ==
    /\ Turn(c)
    /\ Returns(c)
    /\ scn' = [scn EXCEPT ![c].status = "returned"]
    /\ UNCHANGED <<Shared, proc, Outside, tally>>

-----------------------------------------------------------------------------
(* What the processor tells the scenario.  A turn of the reactor runs to    *)
(* its end; what the server does meanwhile it may as well do afterwards.    *)

Awaits(c, op) == Quiet /\ Running(c) /\ proc[c].waits = op

Opens(c) ==
    /\ Awaits(c, "connect")
    /\ proc' = [proc EXCEPT ![c].waits = "nothing", ![c].connected = TRUE]
    /\ Continue(c, scn[c])
    /\ UNCHANGED <<Shared, Outside, tally>>

Closes(c) ==
    /\ Awaits(c, "disconnect")
    /\ proc' = [proc EXCEPT ![c].waits = "nothing", ![c].connected = FALSE]
    /\ Continue(c, scn[c])
    /\ Unconnected(c)
    /\ UNCHANGED <<Shared, post, mishaps, tally>>

\* A frame arrives: the reply to the request, or a notification, which is
\* stored unless it is expected.
Arrives(c) ==
    /\ Quiet /\ Running(c) /\ down[c] # <<>>
    /\ down' = [down EXCEPT ![c] = Tail(@)]
    /\ LET frame == Head(down[c])
           n == frame.notif IN
       IF frame.type = "notification"
       THEN IF proc[c].waits = "expect" /\ IsExpected(c, n)
            THEN Answered(c, [scn[c] EXCEPT !.notif = n]) /\ Saw(c, n)
            ELSE /\ proc' = [proc EXCEPT ![c].inbox = Append(@, n)]
                 /\ UNCHANGED <<scn, tally>>
       ELSE /\ Answered(c, [scn[c] EXCEPT
                  !.same = frame.type # "stranger",
                  !.channels = IF frame.type = "register"
                               THEN Append(@, Len(@) + 1) ELSE @])
            /\ UNCHANGED tally
    /\ UNCHANGED <<Shared, server, up, post, mishaps>>

\* A timer fires in time when nothing that is expected is on its way.
InTime(c) ==
    \A k \in DOMAIN down[c] : ~(/\ down[c][k].type = "notification"
                                /\ IsExpected(c, down[c][k].notif))

TimesOut(c) ==
    /\ Awaits(c, "expect")
    /\ IF InTime(c) THEN UNCHANGED mishaps
       ELSE /\ "late" \in Faults
            /\ mishaps' = [mishaps EXCEPT ![c] = @ \cup {"late"}]
    /\ Answered(c, [scn[c] EXCEPT !.notif = NoNotif])
    /\ UNCHANGED <<Shared, server, network, tally>>

WaitEnds(c) ==
    /\ Awaits(c, "wait")
    /\ Answered(c, scn[c])
    /\ UNCHANGED <<Shared, Outside, tally>>

\* Scenarios wait again and again, for days: one wait stands for many.
DayPasses ==
    /\ Quiet
    /\ plan.claims # "none"
    /\ day < Days
    /\ \A c \in plan.clients : Running(c) => proc[c].waits = "wait"
    /\ \E c \in plan.clients : Running(c)
    /\ day' = day + 1
    /\ UNCHANGED <<plan, claims, scn, proc, Outside, tally>>

Responds(c, response) ==
    /\ Answered(c, [scn[c] EXCEPT !.response = response])
    /\ post' = [post EXCEPT ![c] = NoPost]
    /\ tally' = [tally EXCEPT ![c].posted = @ + 1]

PostAnswered(c) ==
    /\ Awaits(c, "send")
    /\ post[c].code # "none"
    /\ Responds(c, post[c].code)
    /\ UNCHANGED <<Shared, server, up, down, mishaps>>

PostFails(c) ==
    /\ Awaits(c, "send")
    /\ "post" \in Faults
    /\ Responds(c, "failed")
    /\ mishaps' = [mishaps EXCEPT ![c] = @ \cup {"post"}]
    /\ UNCHANGED <<Shared, server, up, down>>

\* The connection is lost.  The processor throws into the scenario whatever
\* command it waits for.
Drops(c) ==
    /\ Quiet /\ Running(c) /\ proc[c].connected
    /\ proc[c].waits \notin {"nothing", "disconnect"}
    /\ "drop" \in Faults
    /\ Raise(c, [proc[c] EXCEPT !.connected = FALSE])
    /\ Unconnected(c)
    /\ mishaps' = [mishaps EXCEPT ![c] = @ \cup {"drop"}]
    /\ UNCHANGED <<Shared, post, tally>>

-----------------------------------------------------------------------------
(* The push server, as the scenarios use it.  *)

Notifying(ns) == [k \in DOMAIN ns |-> Frame("notification", ns[k])]

\* hello: a user agent that comes back is sent all that is pending, unless the
\* server does not know it any more and takes it for a new one.
ServerGreets(c) ==
    \/ /\ server' = [server EXCEPT ![c].online = TRUE]
       /\ down' = [down EXCEPT ![c] = @ \o <<Frame("hello", NoNotif)>>
                                        \o Notifying(server[c].pending)]
       /\ UNCHANGED mishaps
    \/ /\ "uaid" \in Faults
       /\ Instr(c).arg = "again"
       /\ server' = [server EXCEPT ![c] =
                        [UserAgent(@.origin) EXCEPT !.online = TRUE]]
       /\ down' = [down EXCEPT ![c] = Append(@, Frame("stranger", NoNotif))]
       /\ mishaps' = [mishaps EXCEPT ![c] = @ \cup {"uaid"}]

ServerRegisters(c) ==
    /\ server' = [server EXCEPT ![c].subs = @ \cup {Len(scn[c].channels) + 1}]
    /\ down' = [down EXCEPT ![c] = Append(@, Frame("register", NoNotif))]

ServerUnregisters(c) ==
    LET chs == scn[c].channels
        ch == IF Instr(c).arg = "each" THEN chs[scn[c].i] ELSE chs[Len(chs)]
        left == {n \in Elements(server[c].pending) : n.channel # ch} IN
    /\ server' = [server EXCEPT ![c].subs = @ \ {ch},
                                ![c].pending = Kept(@, left)]
    /\ down' = [down EXCEPT ![c] = Append(@, Frame("unregister", NoNotif))]

ServerAnswers(c) ==
    /\ Quiet /\ Running(c)
    /\ \/ up[c] = "hello" /\ ServerGreets(c)
       \/ up[c] = "register" /\ ServerRegisters(c) /\ UNCHANGED mishaps
       \/ up[c] = "unregister" /\ ServerUnregisters(c) /\ UNCHANGED mishaps
    /\ up' = [up EXCEPT ![c] = "none"]
    /\ UNCHANGED <<Shared, scn, proc, post, tally>>

\* A signature is good for the server's own origin, until it expires.
Authorised(c) ==
    LET signed == post[c].signed IN
    signed = NoClaims \/ (signed.aud = server[c].origin /\ day =< signed.exp)

Code(c) ==
    IF ~Authorised(c) THEN "401"
    ELSE IF post[c].channel \in server[c].subs THEN "201" ELSE "404"

\* A topic's notification takes the place of one that was not delivered.
Topics == {"first_topic", "second_topic"}
Keeps(c, n) ==
    LET ns == server[c].pending IN
    IF n.data \in Topics /\ ~server[c].online
    THEN Append(Kept(ns, {m \in Elements(ns) : m.data \notin Topics}), n)
    ELSE Append(ns, n)

PostTaken(c) ==
    /\ Awaits(c, "send")
    /\ post[c].code = "none"
    /\ post' = [post EXCEPT ![c].code = Code(c)]
    /\ IF Code(c) = "201"
       THEN LET n == Notification(server[c].last + 1, post[c].channel,
                                  post[c].data) IN
            /\ server' = [server EXCEPT ![c].last = n.id,
                                        ![c].pending = Keeps(c, n)]
            /\ down' = IF server[c].online
                       THEN [down EXCEPT ![c] = Append(@, Frame("notification", n))]
                       ELSE down
       ELSE UNCHANGED <<server, down>>
    /\ UNCHANGED <<Shared, scn, proc, up, mishaps, tally>>

-----------------------------------------------------------------------------
Scenario(c) ==
    \/ RunConnect(c) \/ RunDisconnect(c) \/ RunRequest(c)
    \/ RunSendNotification(c) \/ RunExpect(c) \/ RunWait(c) \/ RunAck(c)
    \/ RunTimer(c) \/ RunCounter(c) \/ RunCollect(c) \/ RunAckIds(c)
    \/ RunCheck(c) \/ RunBranch(c) \/ Return(c)

Answer(c) ==
    \/ Opens(c) \/ Closes(c) \/ Arrives(c) \/ TimesOut(c) \/ WaitEnds(c)
    \/ PostAnswered(c) \/ PostFails(c)

Server(c) == ServerAnswers(c) \/ PostTaken(c)

\* Every scenario is over, or held at the bound.
Rest ==
    /\ \A c \in Clients : Running(c) => Held(c)
    /\ UNCHANGED vars

Next ==
    \/ \E c \in Clients : Scenario(c) \/ Answer(c) \/ Server(c) \/ Drops(c)
    \/ DayPasses \/ Rest

Spec == Init /\ [][Next]_vars

\* A scenario's turn ends, its commands are answered, the server works.  What
\* one scenario waits for is put off by the turns of the others, but not for
\* ever.
Fairness ==
    /\ WF_vars(\E c \in Clients : Scenario(c))
    /\ \A c \in Clients : SF_vars(Answer(c) \/ Server(c))

FairSpec == Spec /\ Fairness

-----------------------------------------------------------------------------
(* Properties. *)

\* The scenarios ask for nothing that their processor refuses, whatever
\* fails, comes late or is lost: they connect when they are not connected and
\* talk when they are, in every round of their loops, and "update.latency" is
\* started and ended in turns.  All but _explode, which is there to be refused.
NothingIsRefused ==
    \A c \in Clients : "refused" \in mishaps[c] => plan.kind = "_explode"

\* A scenario that raises reports a fault: as long as nothing goes wrong, the
\* assertions of all scenarios hold and the notifications they look into are
\* there, whichever way POSTs, responses and frames overtake each other.
FailuresHaveCauses ==
    \A c \in Clients :
        (scn[c].status = "raised" /\ scn[c].response # "401") =>
            mishaps[c] # {}

\* As long as nothing goes wrong, a scenario leaves the server as it found it:
\* it has acknowledged all that was sent before it unregisters a channel, and
\* has no channel when it ends.  (A scenario that loops over bad tokens keeps
\* its channel.)
NothingIsLeftBehind ==
    \A c \in Clients :
        mishaps[c] = {} =>
            /\ up[c] = "unregister" => server[c].pending = <<>>
            /\ scn[c].status = "returned" =>
                  \/ plan.kind = "notification_forever_bad_tokens"
                  \/ server[c].pending = <<>> /\ server[c].subs = {}

\* Unless one comes late, a scenario is given each notification once, however
\* often it disconnects and comes back; the one scenario that acknowledges
\* only after coming back is given each twice.
GivenOnce ==
    \A c \in Clients : \A k, l \in DOMAIN tally[c].seen :
        (/\ k # l /\ tally[c].seen[k] = tally[c].seen[l]
         /\ "late" \notin mishaps[c])
            => plan.kind = "notification_forever_direct_store"

\* The scenarios that count what they send, and what they are given.
Counts(counter) ==
    \E k \in DOMAIN Script[plan.kind] : Script[plan.kind][k] = counter
CountsSent == Counts(Sent)
CountsReceived ==
    Counts(Received) \/ plan.kind = "notification_forever_stored"

\* The metrics of a scenario that goes on or ended well are true: it counted
\* as many notifications sent as it made POSTs, and as many received as it was
\* given.  (When it is given None, some scenarios count it, and then raise.)
MetricsAreTrue ==
    Quiet => \A c \in Clients :
        scn[c].status \in {"running", "returned"} =>
            /\ tally[c].sent = IF CountsSent THEN tally[c].posted ELSE 0
            /\ tally[c].received = IF CountsReceived THEN Len(tally[c].seen) ELSE 0

\* VAPID: a POST is refused as unauthorised only if the claims are a
\* dictionary, which keeps the aud of the first endpoint and the exp of the
\* first day; claims that are given as text are good for every endpoint and
\* at all times.
OnlySharedClaimsExpire ==
    \A c \in Clients :
        scn[c].response = "401" =>
            /\ plan.claims = "dict"
            /\ claims.aud # server[c].origin \/ day > claims.exp

\* Scenarios that are to run once end, whatever goes wrong: no loop of theirs
\* goes on for ever and every command is answered.
RunOnceEnds ==
    \A c \in Clients :
        <>(scn[c].status # "running" \/ ~plan.once)

-----------------------------------------------------------------------------
(* What a docstring says, and the code does not do. *)

\* scenarios.py:405, "Connects, registers, unregisters, then repeat following
\* steps": when it sends, its channel is not registered.
SendsUnsubscribed ==
    \A c \in Clients :
        (/\ plan.kind = "notification_forever_unsubscribed"
         /\ post[c] # NoPost)
            => post[c].channel \notin server[c].subs
=============================================================================
