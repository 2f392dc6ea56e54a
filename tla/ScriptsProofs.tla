--------------------------- MODULE ScriptsProofs ---------------------------
(***************************************************************************)
(* What can be told of a scenario of aplt/scenarios.py from where it is in *)
(* its script: whether it is connected, whether it times, whether it has   *)
(* registered a channel, what it has yet to count.  Tables say it place by *)
(* place; each script is proved to fit them, instruction by instruction,   *)
(* along every way it may take.  ScenariosProofs.tla then needs to know no *)
(* script.                                                                 *)
(***************************************************************************)
EXTENDS Scenarios, TLAPS, SequenceTheorems
-----------------------------------------------------------------------------
(* Where in its script a scenario is what: tables of places, by scenario.  *)
(* The place of an instruction is the one before it is carried out; the    *)
(* place after the last instruction is a place, too.                       *)

Places(kind) == 1..(Len(Script[kind]) + 1)

\* Where it is connected.
Linked == [
    basic |-> 2..14,
    basic_topic |-> (2..5) \cup (13..21),
    connect_and_idle_forever |-> 2..5,
    reconnect_forever |-> (2..12) \cup (14..18),
    register_forever |-> 2..7,
    notification_forever |-> 2..14,
    notification_forever_stored |-> (2..4) \cup (11..17) \cup (20..21),
    notification_forever_direct_store |-> (2..8) \cup (11..18),
    notification_forever_unsubscribed |-> 2..14,
    notification_forever_bad_tokens |-> 2..8,
    notification_forever_bad_endpoints |-> 2..7,
    _explode |-> 2..3,
    _expect_notifications |-> 2..15]

\* Where "update.latency" is being timed.
Timed == [
    basic |-> 5..11,
    basic_topic |-> 5..18,
    connect_and_idle_forever |-> {},
    reconnect_forever |-> 5..10,
    register_forever |-> {},
    notification_forever |-> 5..9,
    notification_forever_stored |-> {},
    notification_forever_direct_store |-> {},
    notification_forever_unsubscribed |-> 5..9,
    notification_forever_bad_tokens |-> {},
    notification_forever_bad_endpoints |-> {},
    _explode |-> {},
    _expect_notifications |-> {}]

\* Where it has registered a channel.
Registered == [
    basic |-> 4..14,
    basic_topic |-> 4..21,
    connect_and_idle_forever |-> {},
    reconnect_forever |-> 4..18,
    register_forever |-> 4..7,
    notification_forever |-> 4..14,
    notification_forever_stored |-> 4..21,
    notification_forever_direct_store |-> 4..18,
    notification_forever_unsubscribed |-> 4..14,
    notification_forever_bad_tokens |-> 4..8,
    notification_forever_bad_endpoints |-> {},
    _explode |-> {},
    _expect_notifications |-> 5..6]

\* Where it has made a POST that it has yet to count.
Uncounted == [
    basic |-> 6..7,
    basic_topic |-> (7..8) \cup (10..11),
    connect_and_idle_forever |-> {},
    reconnect_forever |-> {6},
    register_forever |-> {},
    notification_forever |-> {6},
    notification_forever_stored |-> {7},
    notification_forever_direct_store |-> {5},
    notification_forever_unsubscribed |-> {6},
    notification_forever_bad_tokens |-> {5},
    notification_forever_bad_endpoints |-> {4},
    _explode |-> {},
    _expect_notifications |-> {}]

\* Where it has been given what it has yet to count; and where it has counted
\* what may turn out to be None.
Given == [
    basic |-> 9..10,
    basic_topic |-> 16..17,
    connect_and_idle_forever |-> {},
    reconnect_forever |-> {8},
    register_forever |-> {},
    notification_forever |-> {8},
    notification_forever_stored |-> {14},
    notification_forever_direct_store |-> {},
    notification_forever_unsubscribed |-> {8},
    notification_forever_bad_tokens |-> {},
    notification_forever_bad_endpoints |-> {},
    _explode |-> {},
    _expect_notifications |-> {}]

Overcounted == [
    basic |-> 11..12,
    basic_topic |-> 18..19,
    connect_and_idle_forever |-> {},
    reconnect_forever |-> {9},
    register_forever |-> {},
    notification_forever |-> 9..10,
    notification_forever_stored |-> {},
    notification_forever_direct_store |-> {},
    notification_forever_unsubscribed |-> 9..10,
    notification_forever_bad_tokens |-> {},
    notification_forever_bad_endpoints |-> {},
    _explode |-> {},
    _expect_notifications |-> {}]

\* Where a scenario does not come: one that is to run once leaves the loop of
\* notification_forever_stored before the end, and one that is not never leaves
\* the loop of register_forever.
Unreached(kind, once) ==
    IF kind = "notification_forever_stored" /\ once THEN 17..19
    ELSE IF kind = "register_forever" /\ ~once THEN 6..8 ELSE {}

\* The scenarios that count the POSTs they make, and what they are given.
CountSent ==
    {"basic", "basic_topic", "reconnect_forever", "notification_forever",
     "notification_forever_stored", "notification_forever_direct_store",
     "notification_forever_unsubscribed", "notification_forever_bad_tokens",
     "notification_forever_bad_endpoints"}
CountReceived ==
    {"basic", "basic_topic", "reconnect_forever", "notification_forever",
     "notification_forever_stored", "notification_forever_unsubscribed"}

-----------------------------------------------------------------------------
(* What the tables have to do with the scripts. *)

\* Instruction i may go to the place it names; it may go on at the next.
Branches(i, once) ==
    \/ i.op \in {"jump", "for", "if_notif", "ack_ids"}
    \/ i.op = "loop" /\ ~once
    \/ i.op = "if_once" /\ once
GoesOn(i, once) ==
    ~ \/ i.op = "jump"
      \/ i.op = "loop" /\ ~once
      \/ i.op = "if_once" /\ once

Commands == {"connect", "disconnect", "send", "expect", "wait"} \cup Requests

Texts ==
    {"first", "first_topic", "second_topic", "any", "bad_token"}

\* The instruction is allowed at its place.
Allowed(kind, i, k) ==
    /\ kind # "_explode" =>
          /\ i.op = "connect" => k \notin Linked[kind]
          /\ i.op \in {"disconnect", "ack", "ack_ids"} \cup Requests
                => k \in Linked[kind]
          /\ i.op = "timer_start" => k \notin Timed[kind]
          /\ i.op = "timer_end" => k \in Timed[kind]
    /\ i.op = "send" =>
          /\ i.arg \in Texts \cup {"no_endpoint"}
          /\ i.arg \in {"bad_token", "no_endpoint"} \/ k \in Registered[kind]
    /\ kind \in TakeClaims => (i.op = "send" => i.arg # "no_endpoint")
    /\ i.op = "ack_ids" => kind # "_explode"

\* The instruction turns what holds at its place into what holds at place l.
Joined(kind, i, k, l) ==
    /\ l \in Linked[kind] <=>
          \/ i.op = "connect"
          \/ k \in Linked[kind] /\ i.op # "disconnect"
    /\ l \in Timed[kind] <=>
          \/ i.op = "timer_start"
          \/ k \in Timed[kind] /\ i.op # "timer_end"
    /\ l \in Registered[kind] => k \in Registered[kind] \/ i.op = "register"
    /\ l \in Uncounted[kind] <=>
          \/ i.op = "send" /\ kind \in CountSent
          \/ k \in Uncounted[kind] /\ ~(i.op = "counter" /\ i.arg = "sent")
    /\ l \in Given[kind] <=>
          \/ i.op = "expect" /\ kind \in CountReceived
          \/ k \in Given[kind] /\ ~(i.op = "counter" /\ i.arg = "received")
                /\ i.op # "collect"
    /\ l \in Overcounted[kind] <=>
          \/ i.op = "counter" /\ i.arg = "received"
          \/ k \in Overcounted[kind] /\ i.op # "ack"

\* Where nothing is left to be counted.
Even(kind, k) == k \notin Uncounted[kind] \cup Given[kind] \cup Overcounted[kind]

\* What there is to be counted is counted, once, before the scenario waits,
\* goes round its loop or ends.
Balanced(kind, i, k) ==
    /\ (i.op \in Commands \cup {"loop"} \/ i.try) => Even(kind, k)
    /\ i.op = "collect" => k \in Given[kind] /\ kind \in CountReceived
    /\ i.op = "counter" =>
          \/ i.arg = "sent" /\ k \in Uncounted[kind] /\ kind \in CountSent
          \/ /\ i.arg = "received" /\ kind \in CountReceived
             /\ k \in Given[kind] \ Overcounted[kind]

Follows(kind, once, k, l) ==
    /\ l \in Places(kind) \ Unreached(kind, once)
    /\ Joined(kind, Script[kind][k], k, l)

Fits(kind, once, k) ==
    LET i == Script[kind][k] IN
    /\ Allowed(kind, i, k)
    /\ Balanced(kind, i, k)
    /\ GoesOn(i, once) => Follows(kind, once, k, k + 1)
    /\ Branches(i, once) => Follows(kind, once, k, i.arg)

ScriptsFit ==
    \A kind \in DOMAIN Script, once \in BOOLEAN :
        /\ ~(kind = "connect_and_idle_forever" /\ once) =>
              \A k \in 1..Len(Script[kind]) :
                  k \notin Unreached(kind, once) => Fits(kind, once, k)
        /\ Even(kind, Len(Script[kind]) + 1)

-----------------------------------------------------------------------------
(* The instructions, as records. *)

Is(i, op, arg, try) == i.op = op /\ i.arg = arg /\ i.try = try

LEMMA IsConnect == Is(Connect, "connect", "nothing", FALSE)
BY DEF Is, Connect, Do, I
LEMMA IsDisconnect == Is(Disconnect, "disconnect", "nothing", FALSE)
BY DEF Is, Disconnect, Do, I
LEMMA IsHello == Is(Hello, "hello", "new", FALSE)
BY DEF Is, Hello, Do, I
LEMMA IsHelloAgain == Is(HelloAgain, "hello", "again", FALSE)
BY DEF Is, HelloAgain, Do, I
LEMMA IsSameUaid == Is(SameUaid, "same_uaid", "nothing", FALSE)
BY DEF Is, SameUaid, Do, I
LEMMA IsRegister == Is(Register, "register", "nothing", FALSE)
BY DEF Is, Register, Do, I
LEMMA IsUnregister == Is(Unregister, "unregister", "last", FALSE)
BY DEF Is, Unregister, Do, I
LEMMA IsCreated == Is(Created, "created", "nothing", FALSE)
BY DEF Is, Created, Do, I
LEMMA IsSent == Is(Sent, "counter", "sent", FALSE)
BY DEF Is, Sent, Do, I
LEMMA IsReceived == Is(Received, "counter", "received", FALSE)
BY DEF Is, Received, Do, I
LEMMA IsExpect == Is(Expect, "expect", "last", FALSE)
BY DEF Is, Expect, Do, I
LEMMA IsNeeded == Is(Needed, "needed", "nothing", FALSE)
BY DEF Is, Needed, Do, I
LEMMA IsAck == Is(Ack, "ack", "nothing", FALSE)
BY DEF Is, Ack, Do, I
LEMMA IsStartTimer == Is(StartTimer, "timer_start", "nothing", FALSE)
BY DEF Is, StartTimer, Do, I
LEMMA IsStopTimer == Is(StopTimer, "timer_end", "nothing", FALSE)
BY DEF Is, StopTimer, Do, I
LEMMA IsWait == Is(Wait, "wait", "nothing", FALSE)
BY DEF Is, Wait, Do, I
LEMMA IsSend == \A x : Is(Send(x), "send", x, FALSE)
BY DEF Is, Send, I
LEMMA IsData == \A x : Is(Data(x), "data", x, FALSE)
BY DEF Is, Data, I
LEMMA IsLoop == \A x : Is(Loop(x), "loop", x, FALSE)
BY DEF Is, Loop, I
LEMMA IsJump == \A x : Is(Jump(x), "jump", x, FALSE)
BY DEF Is, Jump, I
LEMMA IsFor == \A x : Is(For(x), "for", x, FALSE)
BY DEF Is, For, I
LEMMA IsCollect == Is(Do("collect"), "collect", "nothing", FALSE)
BY DEF Is, Do, I
LEMMA IsAckIds == Is(I("ack_ids", 13), "ack_ids", 13, FALSE)
BY DEF Is, I
LEMMA IsIfOnce == Is(I("if_once", 20), "if_once", 20, FALSE)
BY DEF Is, I
LEMMA IsExpectAny == Is(I("expect", "any"), "expect", "any", FALSE)
BY DEF Is, I
LEMMA IsIfNotif == Is(I("if_notif", 7), "if_notif", 7, FALSE)
BY DEF Is, I
LEMMA IsUnregisterEach == Is(I("unregister", "each"), "unregister", "each", FALSE)
BY DEF Is, I
LEMMA IsTry ==
    /\ Is(Try(Connect), "connect", "nothing", TRUE)
    /\ Is(Try(HelloAgain), "hello", "again", TRUE)
    /\ Is(Try(SameUaid), "same_uaid", "nothing", TRUE)
BY DEF Is, Try, Connect, HelloAgain, SameUaid, Do, I

-----------------------------------------------------------------------------
(* The scripts, one by one: instruction i is the one at place k. *)

BasicAt(k, i) ==
    /\ \/ k = 1 /\ i.op = "connect"
       \/ k = 2 /\ i.op = "hello" /\ i.arg = "new"
       \/ k = 3 /\ i.op = "register"
       \/ k = 4 /\ i.op = "timer_start"
       \/ k = 5 /\ i.op = "send" /\ i.arg = "first"
       \/ k = 6 /\ i.op = "created"
       \/ k = 7 /\ i.op = "counter" /\ i.arg = "sent"
       \/ k = 8 /\ i.op = "expect" /\ i.arg = "last"
       \/ k = 9 /\ i.op = "data" /\ i.arg = "first"
       \/ k = 10 /\ i.op = "counter" /\ i.arg = "received"
       \/ k = 11 /\ i.op = "timer_end"
       \/ k = 12 /\ i.op = "ack"
       \/ k = 13 /\ i.op = "unregister" /\ i.arg = "last"
       \/ k = 14 /\ i.op = "disconnect"
    /\ ~i.try

BasicTopicAt(k, i) ==
    /\ \/ k = 1 /\ i.op = "connect"
       \/ k = 2 /\ i.op = "hello" /\ i.arg = "new"
       \/ k = 3 /\ i.op = "register"
       \/ k = 4 /\ i.op = "timer_start"
       \/ k = 5 /\ i.op = "disconnect"
       \/ k = 6 /\ i.op = "send" /\ i.arg = "first_topic"
       \/ k = 7 /\ i.op = "created"
       \/ k = 8 /\ i.op = "counter" /\ i.arg = "sent"
       \/ k = 9 /\ i.op = "send" /\ i.arg = "second_topic"
       \/ k = 10 /\ i.op = "created"
       \/ k = 11 /\ i.op = "counter" /\ i.arg = "sent"
       \/ k = 12 /\ i.op = "connect"
       \/ k = 13 /\ i.op = "hello" /\ i.arg = "again"
       \/ k = 14 /\ i.op = "same_uaid"
       \/ k = 15 /\ i.op = "expect" /\ i.arg = "last"
       \/ k = 16 /\ i.op = "data" /\ i.arg = "second_topic"
       \/ k = 17 /\ i.op = "counter" /\ i.arg = "received"
       \/ k = 18 /\ i.op = "timer_end"
       \/ k = 19 /\ i.op = "ack"
       \/ k = 20 /\ i.op = "unregister" /\ i.arg = "last"
       \/ k = 21 /\ i.op = "disconnect"
    /\ ~i.try

ConnectAndIdleForeverAt(k, i) ==
    /\ \/ k = 1 /\ i.op = "connect"
       \/ k = 2 /\ i.op = "hello" /\ i.arg = "new"
       \/ k = 3 /\ i.op = "wait"
       \/ k = 4 /\ i.op = "jump" /\ i.arg = 3
    /\ ~i.try

ReconnectForeverAt(k, i) ==
    /\ \/ k = 1 /\ i.op = "connect"
       \/ k = 2 /\ i.op = "hello" /\ i.arg = "new"
       \/ k = 3 /\ i.op = "register"
       \/ k = 4 /\ i.op = "timer_start"
       \/ k = 5 /\ i.op = "send" /\ i.arg = "any"
       \/ k = 6 /\ i.op = "counter" /\ i.arg = "sent"
       \/ k = 7 /\ i.op = "expect" /\ i.arg = "last"
       \/ k = 8 /\ i.op = "counter" /\ i.arg = "received"
       \/ k = 9 /\ i.op = "ack"
       \/ k = 10 /\ i.op = "timer_end"
       \/ k = 11 /\ i.op = "wait"
       \/ k = 12 /\ i.op = "disconnect"
       \/ k = 13 /\ i.op = "connect"
       \/ k = 14 /\ i.op = "hello" /\ i.arg = "again"
       \/ k = 15 /\ i.op = "same_uaid"
       \/ k = 16 /\ i.op = "loop" /\ i.arg = 4
       \/ k = 17 /\ i.op = "unregister" /\ i.arg = "last"
       \/ k = 18 /\ i.op = "disconnect"
    /\ i.try => k \in 13..15

RegisterForeverAt(k, i) ==
    /\ \/ k = 1 /\ i.op = "connect"
       \/ k = 2 /\ i.op = "hello" /\ i.arg = "new"
       \/ k = 3 /\ i.op = "register"
       \/ k = 4 /\ i.op = "wait"
       \/ k = 5 /\ i.op = "loop" /\ i.arg = 3
       \/ k = 6 /\ i.op = "unregister" /\ i.arg = "last"
       \/ k = 7 /\ i.op = "disconnect"
    /\ ~i.try

NotificationForeverAt(k, i) ==
    /\ \/ k = 1 /\ i.op = "connect"
       \/ k = 2 /\ i.op = "hello" /\ i.arg = "new"
       \/ k = 3 /\ i.op = "register"
       \/ k = 4 /\ i.op = "timer_start"
       \/ k = 5 /\ i.op = "send" /\ i.arg = "any"
       \/ k = 6 /\ i.op = "counter" /\ i.arg = "sent"
       \/ k = 7 /\ i.op = "expect" /\ i.arg = "last"
       \/ k = 8 /\ i.op = "counter" /\ i.arg = "received"
       \/ k = 9 /\ i.op = "timer_end"
       \/ k = 10 /\ i.op = "ack"
       \/ k = 11 /\ i.op = "wait"
       \/ k = 12 /\ i.op = "loop" /\ i.arg = 4
       \/ k = 13 /\ i.op = "unregister" /\ i.arg = "last"
       \/ k = 14 /\ i.op = "disconnect"
    /\ ~i.try

NotificationForeverStoredAt(k, i) ==
    /\ \/ k = 1 /\ i.op = "connect"
       \/ k = 2 /\ i.op = "hello" /\ i.arg = "new"
       \/ k = 3 /\ i.op = "register"
       \/ k = 4 /\ i.op = "disconnect"
       \/ k = 5 /\ i.op = "for" /\ i.arg = 9
       \/ k = 6 /\ i.op = "send" /\ i.arg = "any"
       \/ k = 7 /\ i.op = "counter" /\ i.arg = "sent"
       \/ k = 8 /\ i.op = "jump" /\ i.arg = 5
       \/ k = 9 /\ i.op = "wait"
       \/ k = 10 /\ i.op = "connect"
       \/ k = 11 /\ i.op = "hello" /\ i.arg = "again"
       \/ k = 12 /\ i.op = "same_uaid"
       \/ k = 13 /\ i.op = "expect" /\ i.arg = "last"
       \/ k = 14 /\ i.op = "collect"
       \/ k = 15 /\ i.op = "ack_ids" /\ i.arg = 13
       \/ k = 16 /\ i.op = "if_once" /\ i.arg = 20
       \/ k = 17 /\ i.op = "disconnect"
       \/ k = 18 /\ i.op = "wait"
       \/ k = 19 /\ i.op = "loop" /\ i.arg = 5
       \/ k = 20 /\ i.op = "unregister" /\ i.arg = "last"
       \/ k = 21 /\ i.op = "disconnect"
    /\ ~i.try

NotificationForeverDirectStoreAt(k, i) ==
    /\ \/ k = 1 /\ i.op = "connect"
       \/ k = 2 /\ i.op = "hello" /\ i.arg = "new"
       \/ k = 3 /\ i.op = "register"
       \/ k = 4 /\ i.op = "send" /\ i.arg = "any"
       \/ k = 5 /\ i.op = "counter" /\ i.arg = "sent"
       \/ k = 6 /\ i.op = "expect" /\ i.arg = "last"
       \/ k = 7 /\ i.op = "needed"
       \/ k = 8 /\ i.op = "disconnect"
       \/ k = 9 /\ i.op = "wait"
       \/ k = 10 /\ i.op = "connect"
       \/ k = 11 /\ i.op = "hello" /\ i.arg = "again"
       \/ k = 12 /\ i.op = "same_uaid"
       \/ k = 13 /\ i.op = "expect" /\ i.arg = "last"
       \/ k = 14 /\ i.op = "needed"
       \/ k = 15 /\ i.op = "ack"
       \/ k = 16 /\ i.op = "loop" /\ i.arg = 4
       \/ k = 17 /\ i.op = "unregister" /\ i.arg = "last"
       \/ k = 18 /\ i.op = "disconnect"
    /\ ~i.try

NotificationForeverUnsubscribedAt(k, i) ==
    /\ \/ k = 1 /\ i.op = "connect"
       \/ k = 2 /\ i.op = "hello" /\ i.arg = "new"
       \/ k = 3 /\ i.op = "register"
       \/ k = 4 /\ i.op = "timer_start"
       \/ k = 5 /\ i.op = "send" /\ i.arg = "any"
       \/ k = 6 /\ i.op = "counter" /\ i.arg = "sent"
       \/ k = 7 /\ i.op = "expect" /\ i.arg = "last"
       \/ k = 8 /\ i.op = "counter" /\ i.arg = "received"
       \/ k = 9 /\ i.op = "timer_end"
       \/ k = 10 /\ i.op = "ack"
       \/ k = 11 /\ i.op = "wait"
       \/ k = 12 /\ i.op = "loop" /\ i.arg = 4
       \/ k = 13 /\ i.op = "unregister" /\ i.arg = "last"
       \/ k = 14 /\ i.op = "disconnect"
    /\ ~i.try

NotificationForeverBadTokensAt(k, i) ==
    /\ \/ k = 1 /\ i.op = "connect"
       \/ k = 2 /\ i.op = "hello" /\ i.arg = "new"
       \/ k = 3 /\ i.op = "register"
       \/ k = 4 /\ i.op = "send" /\ i.arg = "bad_token"
       \/ k = 5 /\ i.op = "counter" /\ i.arg = "sent"
       \/ k = 6 /\ i.op = "wait"
       \/ k = 7 /\ i.op = "loop" /\ i.arg = 4
       \/ k = 8 /\ i.op = "disconnect"
    /\ ~i.try

NotificationForeverBadEndpointsAt(k, i) ==
    /\ \/ k = 1 /\ i.op = "connect"
       \/ k = 2 /\ i.op = "hello" /\ i.arg = "new"
       \/ k = 3 /\ i.op = "send" /\ i.arg = "no_endpoint"
       \/ k = 4 /\ i.op = "counter" /\ i.arg = "sent"
       \/ k = 5 /\ i.op = "wait"
       \/ k = 6 /\ i.op = "loop" /\ i.arg = 3
       \/ k = 7 /\ i.op = "disconnect"
    /\ ~i.try

ExplodeAt(k, i) ==
    /\ \/ k = 1 /\ i.op = "connect"
       \/ k = 2 /\ i.op = "connect"
    /\ ~i.try

ExpectNotificationsAt(k, i) ==
    /\ \/ k = 1 /\ i.op = "connect"
       \/ k = 2 /\ i.op = "hello" /\ i.arg = "new"
       \/ k = 3 /\ i.op = "for" /\ i.arg = 7
       \/ k = 4 /\ i.op = "register"
       \/ k = 5 /\ i.op = "send" /\ i.arg = "any"
       \/ k = 6 /\ i.op = "jump" /\ i.arg = 3
       \/ k = 7 /\ i.op = "for" /\ i.arg = 12
       \/ k = 8 /\ i.op = "expect" /\ i.arg = "any"
       \/ k = 9 /\ i.op = "if_notif" /\ i.arg = 7
       \/ k = 10 /\ i.op = "ack"
       \/ k = 11 /\ i.op = "jump" /\ i.arg = 7
       \/ k = 12 /\ i.op = "for" /\ i.arg = 15
       \/ k = 13 /\ i.op = "unregister" /\ i.arg = "each"
       \/ k = 14 /\ i.op = "jump" /\ i.arg = 12
       \/ k = 15 /\ i.op = "disconnect"
    /\ ~i.try

LEMMA BasicReads ==
    ASSUME NEW k \in 1..Len(Script["basic"])
    PROVE  Len(Script["basic"]) = 14 /\ BasicAt(k, Script["basic"][k])
<1>1. Script["basic"] = Basic /\ Len(Basic) = 14
  BY DEF Script, Basic
<1>2. k \in 1..14
  BY <1>1
<1>3. PICK i : i = Basic[k]
  OBVIOUS
<1>4. BasicAt(k, i)
  BY SMTT(60), <1>2, <1>3, IsConnect, IsHello, IsRegister, IsStartTimer,
     IsSend, IsCreated, IsSent, IsExpect, IsData, IsReceived, IsStopTimer,
     IsAck, IsUnregister, IsDisconnect DEF
     Basic, Is, BasicAt
<1>. QED  BY <1>1, <1>3, <1>4

LEMMA BasicTopicReads ==
    ASSUME NEW k \in 1..Len(Script["basic_topic"])
    PROVE  Len(Script["basic_topic"]) = 21 /\ BasicTopicAt(k, Script["basic_topic"][k])
<1>1. Script["basic_topic"] = BasicTopic /\ Len(BasicTopic) = 21
  BY DEF Script, BasicTopic
<1>2. k \in 1..21
  BY <1>1
<1>3. PICK i : i = BasicTopic[k]
  OBVIOUS
<1>4. BasicTopicAt(k, i)
  BY SMTT(60), <1>2, <1>3, IsConnect, IsHello, IsRegister, IsStartTimer,
     IsDisconnect, IsSend, IsCreated, IsSent, IsHelloAgain, IsSameUaid,
     IsExpect, IsData, IsReceived, IsStopTimer, IsAck, IsUnregister DEF
     BasicTopic, Is, BasicTopicAt
<1>. QED  BY <1>1, <1>3, <1>4

LEMMA ConnectAndIdleForeverReads ==
    ASSUME NEW k \in 1..Len(Script["connect_and_idle_forever"])
    PROVE  Len(Script["connect_and_idle_forever"]) = 4 /\ ConnectAndIdleForeverAt(k, Script["connect_and_idle_forever"][k])
<1>1. /\ Script["connect_and_idle_forever"] = ConnectAndIdleForever
      /\ Len(ConnectAndIdleForever) = 4
  BY DEF Script, ConnectAndIdleForever
<1>2. k \in 1..4
  BY <1>1
<1>3. PICK i : i = ConnectAndIdleForever[k]
  OBVIOUS
<1>4. ConnectAndIdleForeverAt(k, i)
  BY <1>2, <1>3, IsConnect, IsHello, IsWait, IsJump DEF
     ConnectAndIdleForever, Is, ConnectAndIdleForeverAt
<1>. QED  BY <1>1, <1>3, <1>4

LEMMA ReconnectForeverReads ==
    ASSUME NEW k \in 1..Len(Script["reconnect_forever"])
    PROVE  Len(Script["reconnect_forever"]) = 18 /\ ReconnectForeverAt(k, Script["reconnect_forever"][k])
<1>1. /\ Script["reconnect_forever"] = ReconnectForever
      /\ Len(ReconnectForever) = 18
  BY DEF Script, ReconnectForever
<1>2. k \in 1..18
  BY <1>1
<1>3. PICK i : i = ReconnectForever[k]
  OBVIOUS
<1>4. ReconnectForeverAt(k, i)
  BY SMTT(60), <1>2, <1>3, IsConnect, IsHello, IsRegister, IsStartTimer,
     IsSend, IsSent, IsExpect, IsReceived, IsAck, IsStopTimer, IsWait,
     IsDisconnect, IsHelloAgain, IsSameUaid, IsLoop, IsUnregister, IsTry DEF
     ReconnectForever, Is, ReconnectForeverAt
<1>. QED  BY <1>1, <1>3, <1>4

LEMMA RegisterForeverReads ==
    ASSUME NEW k \in 1..Len(Script["register_forever"])
    PROVE  Len(Script["register_forever"]) = 7 /\ RegisterForeverAt(k, Script["register_forever"][k])
<1>1. Script["register_forever"] = RegisterForever /\ Len(RegisterForever) = 7
  BY DEF Script, RegisterForever
<1>2. k \in 1..7
  BY <1>1
<1>3. PICK i : i = RegisterForever[k]
  OBVIOUS
<1>4. RegisterForeverAt(k, i)
  BY <1>2, <1>3, IsConnect, IsHello, IsRegister, IsWait, IsLoop, IsUnregister,
     IsDisconnect DEF
     RegisterForever, Is, RegisterForeverAt
<1>. QED  BY <1>1, <1>3, <1>4

LEMMA NotificationForeverReads ==
    ASSUME NEW k \in 1..Len(Script["notification_forever"])
    PROVE  Len(Script["notification_forever"]) = 14 /\ NotificationForeverAt(k, Script["notification_forever"][k])
<1>1. /\ Script["notification_forever"] = NotificationForever
      /\ Len(NotificationForever) = 14
  BY DEF Script, NotificationForever
<1>2. k \in 1..14
  BY <1>1
<1>3. PICK i : i = NotificationForever[k]
  OBVIOUS
<1>4. NotificationForeverAt(k, i)
  BY SMTT(60), <1>2, <1>3, IsConnect, IsHello, IsRegister, IsStartTimer,
     IsSend, IsSent, IsExpect, IsReceived, IsStopTimer, IsAck, IsWait, IsLoop,
     IsUnregister, IsDisconnect DEF
     NotificationForever, Is, NotificationForeverAt
<1>. QED  BY <1>1, <1>3, <1>4

LEMMA NotificationForeverStoredReads ==
    ASSUME NEW k \in 1..Len(Script["notification_forever_stored"])
    PROVE  Len(Script["notification_forever_stored"]) = 21 /\ NotificationForeverStoredAt(k, Script["notification_forever_stored"][k])
<1>1. /\ Script["notification_forever_stored"] = NotificationForeverStored
      /\ Len(NotificationForeverStored) = 21
  BY DEF Script, NotificationForeverStored
<1>2. k \in 1..21
  BY <1>1
<1>3. PICK i : i = NotificationForeverStored[k]
  OBVIOUS
<1>4. NotificationForeverStoredAt(k, i)
  BY SMTT(60), <1>2, <1>3, IsConnect, IsHello, IsRegister, IsDisconnect,
     IsFor, IsSend, IsSent, IsJump, IsWait, IsHelloAgain, IsSameUaid,
     IsExpect, IsCollect, IsAckIds, IsIfOnce, IsLoop, IsUnregister DEF
     NotificationForeverStored, Is, NotificationForeverStoredAt
<1>. QED  BY <1>1, <1>3, <1>4

LEMMA NotificationForeverDirectStoreReads ==
    ASSUME NEW k \in 1..Len(Script["notification_forever_direct_store"])
    PROVE  Len(Script["notification_forever_direct_store"]) = 18 /\ NotificationForeverDirectStoreAt(k, Script["notification_forever_direct_store"][k])
<1>1. /\ Script["notification_forever_direct_store"] = NotificationForeverDirectStore
      /\ Len(NotificationForeverDirectStore) = 18
  BY DEF Script, NotificationForeverDirectStore
<1>2. k \in 1..18
  BY <1>1
<1>3. PICK i : i = NotificationForeverDirectStore[k]
  OBVIOUS
<1>4. NotificationForeverDirectStoreAt(k, i)
  BY SMTT(60), <1>2, <1>3, IsConnect, IsHello, IsRegister, IsSend, IsSent,
     IsExpect, IsNeeded, IsDisconnect, IsWait, IsHelloAgain, IsSameUaid,
     IsAck, IsLoop, IsUnregister DEF
     NotificationForeverDirectStore, Is, NotificationForeverDirectStoreAt
<1>. QED  BY <1>1, <1>3, <1>4

LEMMA NotificationForeverUnsubscribedReads ==
    ASSUME NEW k \in 1..Len(Script["notification_forever_unsubscribed"])
    PROVE  Len(Script["notification_forever_unsubscribed"]) = 14 /\ NotificationForeverUnsubscribedAt(k, Script["notification_forever_unsubscribed"][k])
<1>1. /\ Script["notification_forever_unsubscribed"] = NotificationForeverUnsubscribed
      /\ Len(NotificationForeverUnsubscribed) = 14
  BY DEF Script, NotificationForeverUnsubscribed, NotificationForever
<1>2. k \in 1..14
  BY <1>1
<1>3. PICK i : i = NotificationForeverUnsubscribed[k]
  OBVIOUS
<1>4. NotificationForeverUnsubscribedAt(k, i)
  BY SMTT(60), <1>2, <1>3, IsConnect, IsHello, IsRegister, IsStartTimer,
     IsSend, IsSent, IsExpect, IsReceived, IsStopTimer, IsAck, IsWait, IsLoop,
     IsUnregister, IsDisconnect DEF
     NotificationForeverUnsubscribed, NotificationForever, Is, NotificationForeverUnsubscribedAt
<1>. QED  BY <1>1, <1>3, <1>4

LEMMA NotificationForeverBadTokensReads ==
    ASSUME NEW k \in 1..Len(Script["notification_forever_bad_tokens"])
    PROVE  Len(Script["notification_forever_bad_tokens"]) = 8 /\ NotificationForeverBadTokensAt(k, Script["notification_forever_bad_tokens"][k])
<1>1. /\ Script["notification_forever_bad_tokens"] = NotificationForeverBadTokens
      /\ Len(NotificationForeverBadTokens) = 8
  BY DEF Script, NotificationForeverBadTokens
<1>2. k \in 1..8
  BY <1>1
<1>3. PICK i : i = NotificationForeverBadTokens[k]
  OBVIOUS
<1>4. NotificationForeverBadTokensAt(k, i)
  BY <1>2, <1>3, IsConnect, IsHello, IsRegister, IsSend, IsSent, IsWait,
     IsLoop, IsDisconnect DEF
     NotificationForeverBadTokens, Is, NotificationForeverBadTokensAt
<1>. QED  BY <1>1, <1>3, <1>4

LEMMA NotificationForeverBadEndpointsReads ==
    ASSUME NEW k \in 1..Len(Script["notification_forever_bad_endpoints"])
    PROVE  Len(Script["notification_forever_bad_endpoints"]) = 7 /\ NotificationForeverBadEndpointsAt(k, Script["notification_forever_bad_endpoints"][k])
<1>1. /\ Script["notification_forever_bad_endpoints"] = NotificationForeverBadEndpoints
      /\ Len(NotificationForeverBadEndpoints) = 7
  BY DEF Script, NotificationForeverBadEndpoints
<1>2. k \in 1..7
  BY <1>1
<1>3. PICK i : i = NotificationForeverBadEndpoints[k]
  OBVIOUS
<1>4. NotificationForeverBadEndpointsAt(k, i)
  BY <1>2, <1>3, IsConnect, IsHello, IsSend, IsSent, IsWait, IsLoop,
     IsDisconnect DEF
     NotificationForeverBadEndpoints, Is, NotificationForeverBadEndpointsAt
<1>. QED  BY <1>1, <1>3, <1>4

LEMMA ExplodeReads ==
    ASSUME NEW k \in 1..Len(Script["_explode"])
    PROVE  Len(Script["_explode"]) = 2 /\ ExplodeAt(k, Script["_explode"][k])
<1>1. Script["_explode"] = Explode /\ Len(Explode) = 2
  BY DEF Script, Explode
<1>2. k \in 1..2
  BY <1>1
<1>3. PICK i : i = Explode[k]
  OBVIOUS
<1>4. ExplodeAt(k, i)
  BY <1>2, <1>3, IsConnect DEF
     Explode, Is, ExplodeAt
<1>. QED  BY <1>1, <1>3, <1>4

LEMMA ExpectNotificationsReads ==
    ASSUME NEW k \in 1..Len(Script["_expect_notifications"])
    PROVE  Len(Script["_expect_notifications"]) = 15 /\ ExpectNotificationsAt(k, Script["_expect_notifications"][k])
<1>1. /\ Script["_expect_notifications"] = ExpectNotifications
      /\ Len(ExpectNotifications) = 15
  BY DEF Script, ExpectNotifications
<1>2. k \in 1..15
  BY <1>1
<1>3. PICK i : i = ExpectNotifications[k]
  OBVIOUS
<1>4. ExpectNotificationsAt(k, i)
  BY SMTT(60), <1>2, <1>3, IsConnect, IsHello, IsFor, IsRegister, IsSend,
     IsJump, IsExpectAny, IsIfNotif, IsAck, IsUnregisterEach, IsDisconnect DEF
     ExpectNotifications, Is, ExpectNotificationsAt
<1>. QED  BY <1>1, <1>3, <1>4

-----------------------------------------------------------------------------
(* The tables fit the scripts. *)

LEMMA BasicFits ==
    ASSUME NEW once \in BOOLEAN, NEW k \in 1..Len(Script["basic"])
    PROVE  Fits("basic", once, k)
<1>1. Script["basic"] = Basic /\ Len(Basic) = 14
  BY DEF Script, Basic
<1>2. k \in 1..14
  BY <1>1
<1>3. PICK i : i = Basic[k]
  OBVIOUS
<1>4. BasicAt(k, i)
  BY <1>1, <1>3, BasicReads
<1>. USE DEF BasicAt
<1>6. /\ Linked["basic"] = 2..14
      /\ Timed["basic"] = 5..11
      /\ Registered["basic"] = 4..14
      /\ Uncounted["basic"] = 6..7
      /\ Given["basic"] = 9..10
      /\ Overcounted["basic"] = 11..12
  BY DEF Linked, Timed, Registered, Uncounted, Given, Overcounted
<1>7. /\ "basic" \in CountSent /\ "basic" \in CountReceived
  BY DEF CountSent, CountReceived
<1>8. Allowed("basic", i, k)
  <2>1. i.op = "connect" => k \notin Linked["basic"]
    BY <1>4, <1>6
  <2>2. i.op \in {"disconnect", "ack", "ack_ids"} \cup Requests
            => k \in Linked["basic"]
    BY <1>4, <1>6 DEF Requests
  <2>3. i.op = "timer_start" => k \notin Timed["basic"]
    BY <1>4, <1>6
  <2>4. i.op = "timer_end" => k \in Timed["basic"]
    BY <1>4, <1>6
  <2>5. i.op = "send" => i.arg \in {"first"} /\ k \in Registered["basic"]
    BY <1>4, <1>6
  <2>. QED
    BY <2>1, <2>2, <2>3, <2>4, <2>5 DEF Allowed, Texts, TakeClaims
<1>9. Balanced("basic", i, k)
  BY <1>4, <1>6, <1>7 DEF Balanced, Even, Commands, Requests
<1>10. i.op # "jump" => Joined("basic", i, k, k + 1)
  BY SMTT(30), <1>4, <1>6, <1>7 DEF Joined
<1>11. k + 1 \in Places("basic") \ Unreached("basic", once)
  BY <1>1, <1>2 DEF Places, Unreached
<1>12. ~Branches(i, once)
  BY <1>4 DEF Branches
<1>. QED
  BY <1>1, <1>3, <1>8, <1>9, <1>10, <1>11, <1>12 DEF Fits, Follows, GoesOn

LEMMA BasicTopicFits ==
    ASSUME NEW once \in BOOLEAN, NEW k \in 1..Len(Script["basic_topic"])
    PROVE  Fits("basic_topic", once, k)
<1>1. Script["basic_topic"] = BasicTopic /\ Len(BasicTopic) = 21
  BY DEF Script, BasicTopic
<1>2. k \in 1..21
  BY <1>1
<1>3. PICK i : i = BasicTopic[k]
  OBVIOUS
<1>4. BasicTopicAt(k, i)
  BY <1>1, <1>3, BasicTopicReads
<1>. USE DEF BasicTopicAt
<1>6. /\ Linked["basic_topic"] = (2..5) \cup (13..21)
      /\ Timed["basic_topic"] = 5..18
      /\ Registered["basic_topic"] = 4..21
      /\ Uncounted["basic_topic"] = (7..8) \cup (10..11)
      /\ Given["basic_topic"] = 16..17
      /\ Overcounted["basic_topic"] = 18..19
  BY DEF Linked, Timed, Registered, Uncounted, Given, Overcounted
<1>7. /\ "basic_topic" \in CountSent /\ "basic_topic" \in CountReceived
  BY DEF CountSent, CountReceived
<1>8. Allowed("basic_topic", i, k)
  <2>1. i.op = "connect" => k \notin Linked["basic_topic"]
    BY <1>4, <1>6
  <2>2. i.op \in {"disconnect", "ack", "ack_ids"} \cup Requests
            => k \in Linked["basic_topic"]
    BY <1>4, <1>6 DEF Requests
  <2>3. i.op = "timer_start" => k \notin Timed["basic_topic"]
    BY <1>4, <1>6
  <2>4. i.op = "timer_end" => k \in Timed["basic_topic"]
    BY <1>4, <1>6
  <2>5. i.op = "send"
            => i.arg \in {"first_topic", "second_topic"} /\ k \in Registered["basic_topic"]
    BY <1>4, <1>6
  <2>. QED
    BY <2>1, <2>2, <2>3, <2>4, <2>5 DEF Allowed, Texts, TakeClaims
<1>9. Balanced("basic_topic", i, k)
  BY <1>4, <1>6, <1>7 DEF Balanced, Even, Commands, Requests
<1>10. i.op # "jump" => Joined("basic_topic", i, k, k + 1)
  BY SMTT(30), <1>4, <1>6, <1>7 DEF Joined
<1>11. k + 1 \in Places("basic_topic") \ Unreached("basic_topic", once)
  BY <1>1, <1>2 DEF Places, Unreached
<1>12. ~Branches(i, once)
  BY <1>4 DEF Branches
<1>. QED
  BY <1>1, <1>3, <1>8, <1>9, <1>10, <1>11, <1>12 DEF Fits, Follows, GoesOn

LEMMA ConnectAndIdleForeverFits ==
    ASSUME NEW once \in BOOLEAN,
           NEW k \in 1..Len(Script["connect_and_idle_forever"]), ~once
    PROVE  Fits("connect_and_idle_forever", once, k)
<1>1. /\ Script["connect_and_idle_forever"] = ConnectAndIdleForever
      /\ Len(ConnectAndIdleForever) = 4
  BY DEF Script, ConnectAndIdleForever
<1>2. k \in 1..4
  BY <1>1
<1>3. PICK i : i = ConnectAndIdleForever[k]
  OBVIOUS
<1>4. ConnectAndIdleForeverAt(k, i)
  BY <1>1, <1>3, ConnectAndIdleForeverReads
<1>. USE DEF ConnectAndIdleForeverAt
<1>6. /\ Linked["connect_and_idle_forever"] = 2..5
      /\ Timed["connect_and_idle_forever"] = {}
      /\ Registered["connect_and_idle_forever"] = {}
      /\ Uncounted["connect_and_idle_forever"] = {}
      /\ Given["connect_and_idle_forever"] = {}
      /\ Overcounted["connect_and_idle_forever"] = {}
  BY DEF Linked, Timed, Registered, Uncounted, Given, Overcounted
<1>7. /\ "connect_and_idle_forever" \notin CountSent
      /\ "connect_and_idle_forever" \notin CountReceived
  BY DEF CountSent, CountReceived
<1>8. Allowed("connect_and_idle_forever", i, k)
  <2>1. i.op = "connect" => k \notin Linked["connect_and_idle_forever"]
    BY <1>4, <1>6
  <2>2. i.op \in {"disconnect", "ack", "ack_ids"} \cup Requests
            => k \in Linked["connect_and_idle_forever"]
    BY <1>4, <1>6 DEF Requests
  <2>3. i.op = "timer_start" => k \notin Timed["connect_and_idle_forever"]
    BY <1>4, <1>6
  <2>4. i.op = "timer_end" => k \in Timed["connect_and_idle_forever"]
    BY <1>4, <1>6
  <2>5. i.op # "send"
    BY <1>4
  <2>. QED
    BY <2>1, <2>2, <2>3, <2>4, <2>5 DEF Allowed, Texts, TakeClaims
<1>9. Balanced("connect_and_idle_forever", i, k)
  BY <1>4, <1>6, <1>7 DEF Balanced, Even, Commands, Requests
<1>10. i.op # "jump" => Joined("connect_and_idle_forever", i, k, k + 1)
  BY SMTT(30), <1>4, <1>6, <1>7 DEF Joined
<1>11. k + 1 \in Places("connect_and_idle_forever")
                      \ Unreached("connect_and_idle_forever", once)
  BY <1>1, <1>2 DEF Places, Unreached
<1>12. Branches(i, once) => i.op \in {"jump"}
  BY <1>4 DEF Branches
<1>13. i.op \in {"jump"} =>
          i.arg \in 1..4 /\ Joined("connect_and_idle_forever", i, k, i.arg)
  BY SMTT(30), <1>4, <1>6, <1>7 DEF Joined
<1>. QED
  BY <1>1, <1>3, <1>8, <1>9, <1>10, <1>11, <1>12, <1>13
     DEF Fits, Follows, GoesOn, Places, Unreached

LEMMA ReconnectForeverFits ==
    ASSUME NEW once \in BOOLEAN, NEW k \in 1..Len(Script["reconnect_forever"])
    PROVE  Fits("reconnect_forever", once, k)
<1>1. /\ Script["reconnect_forever"] = ReconnectForever
      /\ Len(ReconnectForever) = 18
  BY DEF Script, ReconnectForever
<1>2. k \in 1..18
  BY <1>1
<1>3. PICK i : i = ReconnectForever[k]
  OBVIOUS
<1>4. ReconnectForeverAt(k, i)
  BY <1>1, <1>3, ReconnectForeverReads
<1>. USE DEF ReconnectForeverAt
<1>6. /\ Linked["reconnect_forever"] = (2..12) \cup (14..18)
      /\ Timed["reconnect_forever"] = 5..10
      /\ Registered["reconnect_forever"] = 4..18
      /\ Uncounted["reconnect_forever"] = {6}
      /\ Given["reconnect_forever"] = {8}
      /\ Overcounted["reconnect_forever"] = {9}
  BY DEF Linked, Timed, Registered, Uncounted, Given, Overcounted
<1>7. /\ "reconnect_forever" \in CountSent
      /\ "reconnect_forever" \in CountReceived
  BY DEF CountSent, CountReceived
<1>8. Allowed("reconnect_forever", i, k)
  <2>1. i.op = "connect" => k \notin Linked["reconnect_forever"]
    BY <1>4, <1>6
  <2>2. i.op \in {"disconnect", "ack", "ack_ids"} \cup Requests
            => k \in Linked["reconnect_forever"]
    BY <1>4, <1>6 DEF Requests
  <2>3. i.op = "timer_start" => k \notin Timed["reconnect_forever"]
    BY <1>4, <1>6
  <2>4. i.op = "timer_end" => k \in Timed["reconnect_forever"]
    BY <1>4, <1>6
  <2>5. i.op = "send"
            => i.arg \in {"any"} /\ k \in Registered["reconnect_forever"]
    BY <1>4, <1>6
  <2>. QED
    BY <2>1, <2>2, <2>3, <2>4, <2>5 DEF Allowed, Texts, TakeClaims
<1>9. Balanced("reconnect_forever", i, k)
  BY <1>4, <1>6, <1>7 DEF Balanced, Even, Commands, Requests
<1>10. i.op # "jump" => Joined("reconnect_forever", i, k, k + 1)
  BY SMTT(30), <1>4, <1>6, <1>7 DEF Joined
<1>11. k + 1 \in Places("reconnect_forever")
                      \ Unreached("reconnect_forever", once)
  BY <1>1, <1>2 DEF Places, Unreached
<1>12. Branches(i, once) => i.op \in {"loop"}
  BY <1>4 DEF Branches
<1>13. i.op \in {"loop"} =>
          i.arg \in 1..18 /\ Joined("reconnect_forever", i, k, i.arg)
  BY SMTT(30), <1>4, <1>6, <1>7 DEF Joined
<1>. QED
  BY <1>1, <1>3, <1>8, <1>9, <1>10, <1>11, <1>12, <1>13
     DEF Fits, Follows, GoesOn, Places, Unreached

LEMMA RegisterForeverFits ==
    ASSUME NEW once \in BOOLEAN, NEW k \in 1..Len(Script["register_forever"]),
           k \notin Unreached("register_forever", once)
    PROVE  Fits("register_forever", once, k)
<1>1. Script["register_forever"] = RegisterForever /\ Len(RegisterForever) = 7
  BY DEF Script, RegisterForever
<1>2. k \in 1..7
  BY <1>1
<1>3. PICK i : i = RegisterForever[k]
  OBVIOUS
<1>4. RegisterForeverAt(k, i)
  BY <1>1, <1>3, RegisterForeverReads
<1>. USE DEF RegisterForeverAt
<1>6. /\ Linked["register_forever"] = 2..7
      /\ Timed["register_forever"] = {}
      /\ Registered["register_forever"] = 4..7
      /\ Uncounted["register_forever"] = {}
      /\ Given["register_forever"] = {}
      /\ Overcounted["register_forever"] = {}
  BY DEF Linked, Timed, Registered, Uncounted, Given, Overcounted
<1>7. /\ "register_forever" \notin CountSent
      /\ "register_forever" \notin CountReceived
  BY DEF CountSent, CountReceived
<1>8. Allowed("register_forever", i, k)
  <2>1. i.op = "connect" => k \notin Linked["register_forever"]
    BY <1>4, <1>6
  <2>2. i.op \in {"disconnect", "ack", "ack_ids"} \cup Requests
            => k \in Linked["register_forever"]
    BY <1>4, <1>6 DEF Requests
  <2>3. i.op = "timer_start" => k \notin Timed["register_forever"]
    BY <1>4, <1>6
  <2>4. i.op = "timer_end" => k \in Timed["register_forever"]
    BY <1>4, <1>6
  <2>5. i.op # "send"
    BY <1>4
  <2>. QED
    BY <2>1, <2>2, <2>3, <2>4, <2>5 DEF Allowed, Texts, TakeClaims
<1>9. Balanced("register_forever", i, k)
  BY <1>4, <1>6, <1>7 DEF Balanced, Even, Commands, Requests
<1>10. i.op # "jump" => Joined("register_forever", i, k, k + 1)
  BY SMTT(30), <1>4, <1>6, <1>7 DEF Joined
<1>11. GoesOn(i, once) => k + 1 \in Places("register_forever")
                                     \ Unreached("register_forever", once)
  BY <1>1, <1>2, <1>4 DEF Places, Unreached, GoesOn
<1>12. Branches(i, once) => i.op \in {"loop"}
  BY <1>4 DEF Branches
<1>13. i.op \in {"loop"} =>
          i.arg = 3 /\ Joined("register_forever", i, k, i.arg)
  BY SMTT(30), <1>4, <1>6, <1>7 DEF Joined
<1>. QED
  BY <1>1, <1>3, <1>8, <1>9, <1>10, <1>11, <1>12, <1>13
     DEF Fits, Follows, GoesOn, Places, Unreached

LEMMA NotificationForeverFits ==
    ASSUME NEW once \in BOOLEAN,
           NEW k \in 1..Len(Script["notification_forever"])
    PROVE  Fits("notification_forever", once, k)
<1>1. /\ Script["notification_forever"] = NotificationForever
      /\ Len(NotificationForever) = 14
  BY DEF Script, NotificationForever
<1>2. k \in 1..14
  BY <1>1
<1>3. PICK i : i = NotificationForever[k]
  OBVIOUS
<1>4. NotificationForeverAt(k, i)
  BY <1>1, <1>3, NotificationForeverReads
<1>. USE DEF NotificationForeverAt
<1>6. /\ Linked["notification_forever"] = 2..14
      /\ Timed["notification_forever"] = 5..9
      /\ Registered["notification_forever"] = 4..14
      /\ Uncounted["notification_forever"] = {6}
      /\ Given["notification_forever"] = {8}
      /\ Overcounted["notification_forever"] = 9..10
  BY DEF Linked, Timed, Registered, Uncounted, Given, Overcounted
<1>7. /\ "notification_forever" \in CountSent
      /\ "notification_forever" \in CountReceived
  BY DEF CountSent, CountReceived
<1>8. Allowed("notification_forever", i, k)
  <2>1. i.op = "connect" => k \notin Linked["notification_forever"]
    BY <1>4, <1>6
  <2>2. i.op \in {"disconnect", "ack", "ack_ids"} \cup Requests
            => k \in Linked["notification_forever"]
    BY <1>4, <1>6 DEF Requests
  <2>3. i.op = "timer_start" => k \notin Timed["notification_forever"]
    BY <1>4, <1>6
  <2>4. i.op = "timer_end" => k \in Timed["notification_forever"]
    BY <1>4, <1>6
  <2>5. i.op = "send"
            => i.arg \in {"any"} /\ k \in Registered["notification_forever"]
    BY <1>4, <1>6
  <2>. QED
    BY <2>1, <2>2, <2>3, <2>4, <2>5 DEF Allowed, Texts, TakeClaims
<1>9. Balanced("notification_forever", i, k)
  BY <1>4, <1>6, <1>7 DEF Balanced, Even, Commands, Requests
<1>10. i.op # "jump" => Joined("notification_forever", i, k, k + 1)
  BY SMTT(30), <1>4, <1>6, <1>7 DEF Joined
<1>11. k + 1 \in Places("notification_forever")
                      \ Unreached("notification_forever", once)
  BY <1>1, <1>2 DEF Places, Unreached
<1>12. Branches(i, once) => i.op \in {"loop"}
  BY <1>4 DEF Branches
<1>13. i.op \in {"loop"} =>
          i.arg \in 1..14 /\ Joined("notification_forever", i, k, i.arg)
  BY SMTT(30), <1>4, <1>6, <1>7 DEF Joined
<1>. QED
  BY <1>1, <1>3, <1>8, <1>9, <1>10, <1>11, <1>12, <1>13
     DEF Fits, Follows, GoesOn, Places, Unreached

LEMMA NotificationForeverStoredFits ==
    ASSUME NEW once \in BOOLEAN,
           NEW k \in 1..Len(Script["notification_forever_stored"]),
           k \notin Unreached("notification_forever_stored", once)
    PROVE  Fits("notification_forever_stored", once, k)
<1>1. /\ Script["notification_forever_stored"] = NotificationForeverStored
      /\ Len(NotificationForeverStored) = 21
  BY DEF Script, NotificationForeverStored
<1>2. k \in 1..21
  BY <1>1
<1>3. PICK i : i = NotificationForeverStored[k]
  OBVIOUS
<1>4. NotificationForeverStoredAt(k, i)
  BY <1>1, <1>3, NotificationForeverStoredReads
<1>. USE DEF NotificationForeverStoredAt
<1>6. /\ Linked["notification_forever_stored"] = (2..4) \cup (11..17) \cup (20..21)
      /\ Timed["notification_forever_stored"] = {}
      /\ Registered["notification_forever_stored"] = 4..21
      /\ Uncounted["notification_forever_stored"] = {7}
      /\ Given["notification_forever_stored"] = {14}
      /\ Overcounted["notification_forever_stored"] = {}
  BY DEF Linked, Timed, Registered, Uncounted, Given, Overcounted
<1>7. /\ "notification_forever_stored" \in CountSent
      /\ "notification_forever_stored" \in CountReceived
  BY DEF CountSent, CountReceived
<1>8. Allowed("notification_forever_stored", i, k)
  <2>1. i.op = "connect" => k \notin Linked["notification_forever_stored"]
    BY <1>4, <1>6
  <2>2. i.op \in {"disconnect", "ack", "ack_ids"} \cup Requests
            => k \in Linked["notification_forever_stored"]
    BY <1>4, <1>6 DEF Requests
  <2>3. i.op = "timer_start" => k \notin Timed["notification_forever_stored"]
    BY <1>4, <1>6
  <2>4. i.op = "timer_end" => k \in Timed["notification_forever_stored"]
    BY <1>4, <1>6
  <2>5. i.op = "send"
            => i.arg \in {"any"} /\ k \in Registered["notification_forever_stored"]
    BY <1>4, <1>6
  <2>. QED
    BY <2>1, <2>2, <2>3, <2>4, <2>5 DEF Allowed, Texts, TakeClaims
<1>9. Balanced("notification_forever_stored", i, k)
  BY <1>4, <1>6, <1>7 DEF Balanced, Even, Commands, Requests
<1>10. i.op # "jump" /\ k # 19
            => Joined("notification_forever_stored", i, k, k + 1)
  BY SMTT(30), <1>4, <1>6, <1>7 DEF Joined
<1>11. GoesOn(i, once) =>
          /\ i.op # "jump" /\ k # 19
          /\ k + 1 \in Places("notification_forever_stored")
                      \ Unreached("notification_forever_stored", once)
  <2>. k + 1 \in Places("notification_forever_stored")
    BY <1>1, <1>2 DEF Places
  <2>1. CASE once
    <3>1. k \notin 17..19
      BY <2>1 DEF Unreached
    <3>2. k = 16 => i.op = "if_once"
      BY <1>4
    <3>. QED  BY <2>1, <3>1, <3>2, <1>2, <1>4 DEF GoesOn, Unreached
  <2>2. CASE ~once
    <3>1. k = 19 => i.op = "loop"
      BY <1>4
    <3>. QED  BY <2>2, <3>1, <1>2 DEF GoesOn, Unreached
  <2>. QED  BY <2>1, <2>2
<1>12. Branches(i, once)
            => i.op \in {"ack_ids", "for", "if_once", "jump", "loop"}
  BY <1>4 DEF Branches
<1>13. i.op \in {"ack_ids", "for", "if_once", "jump", "loop"} =>
          /\ i.arg \in {5, 9, 13, 20}
          /\ Joined("notification_forever_stored", i, k, i.arg)
  BY SMTT(30), <1>4, <1>6, <1>7 DEF Joined
<1>14. {5, 9, 13, 20} \subseteq Places("notification_forever_stored")
                      \ Unreached("notification_forever_stored", once)
  BY <1>1 DEF Places, Unreached
<1>. QED
  BY <1>1, <1>3, <1>8, <1>9, <1>10, <1>11, <1>12, <1>13, <1>14 DEF Fits, Follows

LEMMA NotificationForeverDirectStoreFits ==
    ASSUME NEW once \in BOOLEAN,
           NEW k \in 1..Len(Script["notification_forever_direct_store"])
    PROVE  Fits("notification_forever_direct_store", once, k)
<1>1. /\ Script["notification_forever_direct_store"] = NotificationForeverDirectStore
      /\ Len(NotificationForeverDirectStore) = 18
  BY DEF Script, NotificationForeverDirectStore
<1>2. k \in 1..18
  BY <1>1
<1>3. PICK i : i = NotificationForeverDirectStore[k]
  OBVIOUS
<1>4. NotificationForeverDirectStoreAt(k, i)
  BY <1>1, <1>3, NotificationForeverDirectStoreReads
<1>. USE DEF NotificationForeverDirectStoreAt
<1>6. /\ Linked["notification_forever_direct_store"] = (2..8) \cup (11..18)
      /\ Timed["notification_forever_direct_store"] = {}
      /\ Registered["notification_forever_direct_store"] = 4..18
      /\ Uncounted["notification_forever_direct_store"] = {5}
      /\ Given["notification_forever_direct_store"] = {}
      /\ Overcounted["notification_forever_direct_store"] = {}
  BY DEF Linked, Timed, Registered, Uncounted, Given, Overcounted
<1>7. /\ "notification_forever_direct_store" \in CountSent
      /\ "notification_forever_direct_store" \notin CountReceived
  BY DEF CountSent, CountReceived
<1>8. Allowed("notification_forever_direct_store", i, k)
  <2>1. i.op = "connect" => k \notin Linked["notification_forever_direct_store"]
    BY <1>4, <1>6
  <2>2. i.op \in {"disconnect", "ack", "ack_ids"} \cup Requests
            => k \in Linked["notification_forever_direct_store"]
    BY <1>4, <1>6 DEF Requests
  <2>3. i.op = "timer_start"
            => k \notin Timed["notification_forever_direct_store"]
    BY <1>4, <1>6
  <2>4. i.op = "timer_end" => k \in Timed["notification_forever_direct_store"]
    BY <1>4, <1>6
  <2>5. i.op = "send"
            => i.arg \in {"any"} /\ k \in Registered["notification_forever_direct_store"]
    BY <1>4, <1>6
  <2>. QED
    BY <2>1, <2>2, <2>3, <2>4, <2>5 DEF Allowed, Texts, TakeClaims
<1>9. Balanced("notification_forever_direct_store", i, k)
  BY <1>4, <1>6, <1>7 DEF Balanced, Even, Commands, Requests
<1>10. i.op # "jump" => Joined("notification_forever_direct_store", i, k, k + 1)
  BY SMTT(30), <1>4, <1>6, <1>7 DEF Joined
<1>11. k + 1 \in Places("notification_forever_direct_store")
                      \ Unreached("notification_forever_direct_store", once)
  BY <1>1, <1>2 DEF Places, Unreached
<1>12. Branches(i, once) => i.op \in {"loop"}
  BY <1>4 DEF Branches
<1>13. i.op \in {"loop"} =>
          i.arg \in 1..18 /\ Joined("notification_forever_direct_store", i, k, i.arg)
  BY SMTT(30), <1>4, <1>6, <1>7 DEF Joined
<1>. QED
  BY <1>1, <1>3, <1>8, <1>9, <1>10, <1>11, <1>12, <1>13
     DEF Fits, Follows, GoesOn, Places, Unreached

LEMMA NotificationForeverUnsubscribedFits ==
    ASSUME NEW once \in BOOLEAN,
           NEW k \in 1..Len(Script["notification_forever_unsubscribed"])
    PROVE  Fits("notification_forever_unsubscribed", once, k)
<1>1. /\ Script["notification_forever_unsubscribed"] = NotificationForeverUnsubscribed
      /\ Len(NotificationForeverUnsubscribed) = 14
  BY DEF Script, NotificationForeverUnsubscribed, NotificationForever
<1>2. k \in 1..14
  BY <1>1
<1>3. PICK i : i = NotificationForeverUnsubscribed[k]
  OBVIOUS
<1>4. NotificationForeverUnsubscribedAt(k, i)
  BY <1>1, <1>3, NotificationForeverUnsubscribedReads
<1>. USE DEF NotificationForeverUnsubscribedAt
<1>6. /\ Linked["notification_forever_unsubscribed"] = 2..14
      /\ Timed["notification_forever_unsubscribed"] = 5..9
      /\ Registered["notification_forever_unsubscribed"] = 4..14
      /\ Uncounted["notification_forever_unsubscribed"] = {6}
      /\ Given["notification_forever_unsubscribed"] = {8}
      /\ Overcounted["notification_forever_unsubscribed"] = 9..10
  BY DEF Linked, Timed, Registered, Uncounted, Given, Overcounted
<1>7. /\ "notification_forever_unsubscribed" \in CountSent
      /\ "notification_forever_unsubscribed" \in CountReceived
  BY DEF CountSent, CountReceived
<1>8. Allowed("notification_forever_unsubscribed", i, k)
  <2>1. i.op = "connect" => k \notin Linked["notification_forever_unsubscribed"]
    BY <1>4, <1>6
  <2>2. i.op \in {"disconnect", "ack", "ack_ids"} \cup Requests
            => k \in Linked["notification_forever_unsubscribed"]
    BY <1>4, <1>6 DEF Requests
  <2>3. i.op = "timer_start"
            => k \notin Timed["notification_forever_unsubscribed"]
    BY <1>4, <1>6
  <2>4. i.op = "timer_end" => k \in Timed["notification_forever_unsubscribed"]
    BY <1>4, <1>6
  <2>5. i.op = "send"
            => i.arg \in {"any"} /\ k \in Registered["notification_forever_unsubscribed"]
    BY <1>4, <1>6
  <2>. QED
    BY <2>1, <2>2, <2>3, <2>4, <2>5 DEF Allowed, Texts, TakeClaims
<1>9. Balanced("notification_forever_unsubscribed", i, k)
  BY <1>4, <1>6, <1>7 DEF Balanced, Even, Commands, Requests
<1>10. i.op # "jump" => Joined("notification_forever_unsubscribed", i, k, k + 1)
  BY SMTT(30), <1>4, <1>6, <1>7 DEF Joined
<1>11. k + 1 \in Places("notification_forever_unsubscribed")
                      \ Unreached("notification_forever_unsubscribed", once)
  BY <1>1, <1>2 DEF Places, Unreached
<1>12. Branches(i, once) => i.op \in {"loop"}
  BY <1>4 DEF Branches
<1>13. i.op \in {"loop"} =>
          i.arg \in 1..14 /\ Joined("notification_forever_unsubscribed", i, k, i.arg)
  BY SMTT(30), <1>4, <1>6, <1>7 DEF Joined
<1>. QED
  BY <1>1, <1>3, <1>8, <1>9, <1>10, <1>11, <1>12, <1>13
     DEF Fits, Follows, GoesOn, Places, Unreached

LEMMA NotificationForeverBadTokensFits ==
    ASSUME NEW once \in BOOLEAN,
           NEW k \in 1..Len(Script["notification_forever_bad_tokens"])
    PROVE  Fits("notification_forever_bad_tokens", once, k)
<1>1. /\ Script["notification_forever_bad_tokens"] = NotificationForeverBadTokens
      /\ Len(NotificationForeverBadTokens) = 8
  BY DEF Script, NotificationForeverBadTokens
<1>2. k \in 1..8
  BY <1>1
<1>3. PICK i : i = NotificationForeverBadTokens[k]
  OBVIOUS
<1>4. NotificationForeverBadTokensAt(k, i)
  BY <1>1, <1>3, NotificationForeverBadTokensReads
<1>. USE DEF NotificationForeverBadTokensAt
<1>6. /\ Linked["notification_forever_bad_tokens"] = 2..8
      /\ Timed["notification_forever_bad_tokens"] = {}
      /\ Registered["notification_forever_bad_tokens"] = 4..8
      /\ Uncounted["notification_forever_bad_tokens"] = {5}
      /\ Given["notification_forever_bad_tokens"] = {}
      /\ Overcounted["notification_forever_bad_tokens"] = {}
  BY DEF Linked, Timed, Registered, Uncounted, Given, Overcounted
<1>7. /\ "notification_forever_bad_tokens" \in CountSent
      /\ "notification_forever_bad_tokens" \notin CountReceived
  BY DEF CountSent, CountReceived
<1>8. Allowed("notification_forever_bad_tokens", i, k)
  <2>1. i.op = "connect" => k \notin Linked["notification_forever_bad_tokens"]
    BY <1>4, <1>6
  <2>2. i.op \in {"disconnect", "ack", "ack_ids"} \cup Requests
            => k \in Linked["notification_forever_bad_tokens"]
    BY <1>4, <1>6 DEF Requests
  <2>3. i.op = "timer_start"
            => k \notin Timed["notification_forever_bad_tokens"]
    BY <1>4, <1>6
  <2>4. i.op = "timer_end" => k \in Timed["notification_forever_bad_tokens"]
    BY <1>4, <1>6
  <2>5. i.op = "send" => i.arg \in {"bad_token"}
    BY <1>4, <1>6
  <2>. QED
    BY <2>1, <2>2, <2>3, <2>4, <2>5 DEF Allowed, Texts, TakeClaims
<1>9. Balanced("notification_forever_bad_tokens", i, k)
  BY <1>4, <1>6, <1>7 DEF Balanced, Even, Commands, Requests
<1>10. i.op # "jump" => Joined("notification_forever_bad_tokens", i, k, k + 1)
  BY SMTT(30), <1>4, <1>6, <1>7 DEF Joined
<1>11. k + 1 \in Places("notification_forever_bad_tokens")
                      \ Unreached("notification_forever_bad_tokens", once)
  BY <1>1, <1>2 DEF Places, Unreached
<1>12. Branches(i, once) => i.op \in {"loop"}
  BY <1>4 DEF Branches
<1>13. i.op \in {"loop"} =>
          i.arg \in 1..8 /\ Joined("notification_forever_bad_tokens", i, k, i.arg)
  BY SMTT(30), <1>4, <1>6, <1>7 DEF Joined
<1>. QED
  BY <1>1, <1>3, <1>8, <1>9, <1>10, <1>11, <1>12, <1>13
     DEF Fits, Follows, GoesOn, Places, Unreached

LEMMA NotificationForeverBadEndpointsFits ==
    ASSUME NEW once \in BOOLEAN,
           NEW k \in 1..Len(Script["notification_forever_bad_endpoints"])
    PROVE  Fits("notification_forever_bad_endpoints", once, k)
<1>1. /\ Script["notification_forever_bad_endpoints"] = NotificationForeverBadEndpoints
      /\ Len(NotificationForeverBadEndpoints) = 7
  BY DEF Script, NotificationForeverBadEndpoints
<1>2. k \in 1..7
  BY <1>1
<1>3. PICK i : i = NotificationForeverBadEndpoints[k]
  OBVIOUS
<1>4. NotificationForeverBadEndpointsAt(k, i)
  BY <1>1, <1>3, NotificationForeverBadEndpointsReads
<1>. USE DEF NotificationForeverBadEndpointsAt
<1>6. /\ Linked["notification_forever_bad_endpoints"] = 2..7
      /\ Timed["notification_forever_bad_endpoints"] = {}
      /\ Registered["notification_forever_bad_endpoints"] = {}
      /\ Uncounted["notification_forever_bad_endpoints"] = {4}
      /\ Given["notification_forever_bad_endpoints"] = {}
      /\ Overcounted["notification_forever_bad_endpoints"] = {}
  BY DEF Linked, Timed, Registered, Uncounted, Given, Overcounted
<1>7. /\ "notification_forever_bad_endpoints" \in CountSent
      /\ "notification_forever_bad_endpoints" \notin CountReceived
  BY DEF CountSent, CountReceived
<1>8. Allowed("notification_forever_bad_endpoints", i, k)
  <2>1. i.op = "connect"
            => k \notin Linked["notification_forever_bad_endpoints"]
    BY <1>4, <1>6
  <2>2. i.op \in {"disconnect", "ack", "ack_ids"} \cup Requests
            => k \in Linked["notification_forever_bad_endpoints"]
    BY <1>4, <1>6 DEF Requests
  <2>3. i.op = "timer_start"
            => k \notin Timed["notification_forever_bad_endpoints"]
    BY <1>4, <1>6
  <2>4. i.op = "timer_end" => k \in Timed["notification_forever_bad_endpoints"]
    BY <1>4, <1>6
  <2>5. i.op = "send" => i.arg \in {"no_endpoint"}
    BY <1>4, <1>6
  <2>. QED
    BY <2>1, <2>2, <2>3, <2>4, <2>5 DEF Allowed, Texts, TakeClaims
<1>9. Balanced("notification_forever_bad_endpoints", i, k)
  BY <1>4, <1>6, <1>7 DEF Balanced, Even, Commands, Requests
<1>10. i.op # "jump"
            => Joined("notification_forever_bad_endpoints", i, k, k + 1)
  BY SMTT(30), <1>4, <1>6, <1>7 DEF Joined
<1>11. k + 1 \in Places("notification_forever_bad_endpoints")
                      \ Unreached("notification_forever_bad_endpoints", once)
  BY <1>1, <1>2 DEF Places, Unreached
<1>12. Branches(i, once) => i.op \in {"loop"}
  BY <1>4 DEF Branches
<1>13. i.op \in {"loop"} =>
          i.arg \in 1..7 /\ Joined("notification_forever_bad_endpoints", i, k, i.arg)
  BY SMTT(30), <1>4, <1>6, <1>7 DEF Joined
<1>. QED
  BY <1>1, <1>3, <1>8, <1>9, <1>10, <1>11, <1>12, <1>13
     DEF Fits, Follows, GoesOn, Places, Unreached

LEMMA ExplodeFits ==
    ASSUME NEW once \in BOOLEAN, NEW k \in 1..Len(Script["_explode"])
    PROVE  Fits("_explode", once, k)
<1>1. Script["_explode"] = Explode /\ Len(Explode) = 2
  BY DEF Script, Explode
<1>2. k \in 1..2
  BY <1>1
<1>3. PICK i : i = Explode[k]
  OBVIOUS
<1>4. ExplodeAt(k, i)
  BY <1>1, <1>3, ExplodeReads
<1>. USE DEF ExplodeAt
<1>6. /\ Linked["_explode"] = 2..3
      /\ Timed["_explode"] = {}
      /\ Registered["_explode"] = {}
      /\ Uncounted["_explode"] = {}
      /\ Given["_explode"] = {}
      /\ Overcounted["_explode"] = {}
  BY DEF Linked, Timed, Registered, Uncounted, Given, Overcounted
<1>7. /\ "_explode" \notin CountSent /\ "_explode" \notin CountReceived
  BY DEF CountSent, CountReceived
<1>8. Allowed("_explode", i, k)
  <2>1. i.op # "send" /\ i.op # "ack_ids"
    BY <1>4
  <2>. QED
    BY <2>1 DEF Allowed, Texts, TakeClaims
<1>9. Balanced("_explode", i, k)
  BY <1>4, <1>6, <1>7 DEF Balanced, Even, Commands, Requests
<1>10. i.op # "jump" => Joined("_explode", i, k, k + 1)
  BY SMTT(30), <1>4, <1>6, <1>7 DEF Joined
<1>11. k + 1 \in Places("_explode") \ Unreached("_explode", once)
  BY <1>1, <1>2 DEF Places, Unreached
<1>12. ~Branches(i, once)
  BY <1>4 DEF Branches
<1>. QED
  BY <1>1, <1>3, <1>8, <1>9, <1>10, <1>11, <1>12 DEF Fits, Follows, GoesOn

LEMMA ExpectNotificationsFits ==
    ASSUME NEW once \in BOOLEAN,
           NEW k \in 1..Len(Script["_expect_notifications"])
    PROVE  Fits("_expect_notifications", once, k)
<1>1. /\ Script["_expect_notifications"] = ExpectNotifications
      /\ Len(ExpectNotifications) = 15
  BY DEF Script, ExpectNotifications
<1>2. k \in 1..15
  BY <1>1
<1>3. PICK i : i = ExpectNotifications[k]
  OBVIOUS
<1>4. ExpectNotificationsAt(k, i)
  BY <1>1, <1>3, ExpectNotificationsReads
<1>. USE DEF ExpectNotificationsAt
<1>6. /\ Linked["_expect_notifications"] = 2..15
      /\ Timed["_expect_notifications"] = {}
      /\ Registered["_expect_notifications"] = 5..6
      /\ Uncounted["_expect_notifications"] = {}
      /\ Given["_expect_notifications"] = {}
      /\ Overcounted["_expect_notifications"] = {}
  BY DEF Linked, Timed, Registered, Uncounted, Given, Overcounted
<1>7. /\ "_expect_notifications" \notin CountSent
      /\ "_expect_notifications" \notin CountReceived
  BY DEF CountSent, CountReceived
<1>8. Allowed("_expect_notifications", i, k)
  <2>1. i.op = "connect" => k \notin Linked["_expect_notifications"]
    BY <1>4, <1>6
  <2>2. i.op \in {"disconnect", "ack", "ack_ids"} \cup Requests
            => k \in Linked["_expect_notifications"]
    BY <1>4, <1>6 DEF Requests
  <2>3. i.op = "timer_start" => k \notin Timed["_expect_notifications"]
    BY <1>4, <1>6
  <2>4. i.op = "timer_end" => k \in Timed["_expect_notifications"]
    BY <1>4, <1>6
  <2>5. i.op = "send"
            => i.arg \in {"any"} /\ k \in Registered["_expect_notifications"]
    BY <1>4, <1>6
  <2>. QED
    BY <2>1, <2>2, <2>3, <2>4, <2>5 DEF Allowed, Texts, TakeClaims
<1>9. Balanced("_expect_notifications", i, k)
  BY <1>4, <1>6, <1>7 DEF Balanced, Even, Commands, Requests
<1>10. i.op # "jump" => Joined("_expect_notifications", i, k, k + 1)
  BY SMTT(30), <1>4, <1>6, <1>7 DEF Joined
<1>11. k + 1 \in Places("_expect_notifications")
                      \ Unreached("_expect_notifications", once)
  BY <1>1, <1>2 DEF Places, Unreached
<1>12. Branches(i, once) => i.op \in {"for", "if_notif", "jump"}
  BY <1>4 DEF Branches
<1>13. i.op \in {"for", "if_notif", "jump"} =>
          i.arg \in 1..15 /\ Joined("_expect_notifications", i, k, i.arg)
  BY SMTT(30), <1>4, <1>6, <1>7 DEF Joined
<1>. QED
  BY <1>1, <1>3, <1>8, <1>9, <1>10, <1>11, <1>12, <1>13
     DEF Fits, Follows, GoesOn, Places, Unreached

LEMMA Kinds ==
    ASSUME NEW kind \in DOMAIN Script
    PROVE  \/ kind = "basic"
           \/ kind = "basic_topic"
           \/ kind = "connect_and_idle_forever"
           \/ kind = "reconnect_forever"
           \/ kind = "register_forever"
           \/ kind = "notification_forever"
           \/ kind = "notification_forever_stored"
           \/ kind = "notification_forever_direct_store"
           \/ kind = "notification_forever_unsubscribed"
           \/ kind = "notification_forever_bad_tokens"
           \/ kind = "notification_forever_bad_endpoints"
           \/ kind = "_explode"
           \/ kind = "_expect_notifications"
BY DEF Script

\* At its end, a script has nothing left to be counted.
LEMMA EndsAreEven ==
    ASSUME NEW kind \in DOMAIN Script
    PROVE  Even(kind, Len(Script[kind]) + 1)
<1>1. Even("basic", Len(Script["basic"]) + 1)
  <2>1. Len(Script["basic"]) + 1 = 15
    BY DEF Script, Basic
  <2>. QED  BY <2>1 DEF Even, Uncounted, Given, Overcounted
<1>2. Even("basic_topic", Len(Script["basic_topic"]) + 1)
  <2>1. Len(Script["basic_topic"]) + 1 = 22
    BY DEF Script, BasicTopic
  <2>. QED  BY <2>1 DEF Even, Uncounted, Given, Overcounted
<1>3. Even("connect_and_idle_forever", Len(Script["connect_and_idle_forever"]) + 1)
  <2>1. Len(Script["connect_and_idle_forever"]) + 1 = 5
    BY DEF Script, ConnectAndIdleForever
  <2>. QED  BY <2>1 DEF Even, Uncounted, Given, Overcounted
<1>4. Even("reconnect_forever", Len(Script["reconnect_forever"]) + 1)
  <2>1. Len(Script["reconnect_forever"]) + 1 = 19
    BY DEF Script, ReconnectForever
  <2>. QED  BY <2>1 DEF Even, Uncounted, Given, Overcounted
<1>5. Even("register_forever", Len(Script["register_forever"]) + 1)
  <2>1. Len(Script["register_forever"]) + 1 = 8
    BY DEF Script, RegisterForever
  <2>. QED  BY <2>1 DEF Even, Uncounted, Given, Overcounted
<1>6. Even("notification_forever", Len(Script["notification_forever"]) + 1)
  <2>1. Len(Script["notification_forever"]) + 1 = 15
    BY DEF Script, NotificationForever
  <2>. QED  BY <2>1 DEF Even, Uncounted, Given, Overcounted
<1>7. Even("notification_forever_stored", Len(Script["notification_forever_stored"]) + 1)
  <2>1. Len(Script["notification_forever_stored"]) + 1 = 22
    BY DEF Script, NotificationForeverStored
  <2>. QED  BY <2>1 DEF Even, Uncounted, Given, Overcounted
<1>8. Even("notification_forever_direct_store", Len(Script["notification_forever_direct_store"]) + 1)
  <2>1. Len(Script["notification_forever_direct_store"]) + 1 = 19
    BY DEF Script, NotificationForeverDirectStore
  <2>. QED  BY <2>1 DEF Even, Uncounted, Given, Overcounted
<1>9. Even("notification_forever_unsubscribed", Len(Script["notification_forever_unsubscribed"]) + 1)
  <2>1. Len(Script["notification_forever_unsubscribed"]) + 1 = 15
    BY DEF Script, NotificationForeverUnsubscribed, NotificationForever
  <2>. QED  BY <2>1 DEF Even, Uncounted, Given, Overcounted
<1>10. Even("notification_forever_bad_tokens", Len(Script["notification_forever_bad_tokens"]) + 1)
  <2>1. Len(Script["notification_forever_bad_tokens"]) + 1 = 9
    BY DEF Script, NotificationForeverBadTokens
  <2>. QED  BY <2>1 DEF Even, Uncounted, Given, Overcounted
<1>11. Even("notification_forever_bad_endpoints", Len(Script["notification_forever_bad_endpoints"]) + 1)
  <2>1. Len(Script["notification_forever_bad_endpoints"]) + 1 = 8
    BY DEF Script, NotificationForeverBadEndpoints
  <2>. QED  BY <2>1 DEF Even, Uncounted, Given, Overcounted
<1>12. Even("_explode", Len(Script["_explode"]) + 1)
  <2>1. Len(Script["_explode"]) + 1 = 3
    BY DEF Script, Explode
  <2>. QED  BY <2>1 DEF Even, Uncounted, Given, Overcounted
<1>13. Even("_expect_notifications", Len(Script["_expect_notifications"]) + 1)
  <2>1. Len(Script["_expect_notifications"]) + 1 = 16
    BY DEF Script, ExpectNotifications
  <2>. QED  BY <2>1 DEF Even, Uncounted, Given, Overcounted
<1>. QED
  BY Kinds, <1>1, <1>2, <1>3, <1>4, <1>5, <1>6, <1>7, <1>8, <1>9, <1>10,
     <1>11, <1>12, <1>13

\* In each script of scenarios.py each instruction is allowed where it stands:
\* connect only where the tables say that the scenario is not connected,
\* requests, ack and disconnect only where it is, timers in turn, counters
\* after what they count; and what the tables say of the places it may lead to
\* is what it makes of what they say of its own, jumps, loops and the try of
\* reconnect_forever included.
THEOREM ScriptsFitTheTables == ScriptsFit
<1>1. ASSUME NEW kind \in DOMAIN Script, NEW once \in BOOLEAN,
             ~(kind = "connect_and_idle_forever" /\ once),
             NEW k \in 1..Len(Script[kind]), k \notin Unreached(kind, once)
      PROVE  Fits(kind, once, k)
  <2>1. CASE kind = "basic"
    BY <2>1, <1>1, BasicFits
  <2>2. CASE kind = "basic_topic"
    BY <2>2, <1>1, BasicTopicFits
  <2>3. CASE kind = "connect_and_idle_forever"
    BY <2>3, <1>1, ConnectAndIdleForeverFits
  <2>4. CASE kind = "reconnect_forever"
    BY <2>4, <1>1, ReconnectForeverFits
  <2>5. CASE kind = "register_forever"
    BY <2>5, <1>1, RegisterForeverFits
  <2>6. CASE kind = "notification_forever"
    BY <2>6, <1>1, NotificationForeverFits
  <2>7. CASE kind = "notification_forever_stored"
    BY <2>7, <1>1, NotificationForeverStoredFits
  <2>8. CASE kind = "notification_forever_direct_store"
    BY <2>8, <1>1, NotificationForeverDirectStoreFits
  <2>9. CASE kind = "notification_forever_unsubscribed"
    BY <2>9, <1>1, NotificationForeverUnsubscribedFits
  <2>10. CASE kind = "notification_forever_bad_tokens"
    BY <2>10, <1>1, NotificationForeverBadTokensFits
  <2>11. CASE kind = "notification_forever_bad_endpoints"
    BY <2>11, <1>1, NotificationForeverBadEndpointsFits
  <2>12. CASE kind = "_explode"
    BY <2>12, <1>1, ExplodeFits
  <2>13. CASE kind = "_expect_notifications"
    BY <2>13, <1>1, ExpectNotificationsFits
  <2>. QED
    BY Kinds, <2>1, <2>2, <2>3, <2>4, <2>5, <2>6, <2>7, <2>8, <2>9, <2>10,
       <2>11, <2>12, <2>13
<1>. QED  BY <1>1, EndsAreEven DEF ScriptsFit

LEMMA ScriptsAreSequences ==
    ASSUME NEW kind \in DOMAIN Script
    PROVE  /\ Len(Script[kind]) \in Nat \ {0}
           /\ DOMAIN Script[kind] = 1..Len(Script[kind])
<1>1. /\ Len(Script["basic"]) \in Nat \ {0}
      /\ DOMAIN Script["basic"] = 1..Len(Script["basic"])
  BY DEF Script, Basic
<1>2. /\ Len(Script["basic_topic"]) \in Nat \ {0}
      /\ DOMAIN Script["basic_topic"] = 1..Len(Script["basic_topic"])
  BY DEF Script, BasicTopic
<1>3. /\ Len(Script["connect_and_idle_forever"]) \in Nat \ {0}
      /\ DOMAIN Script["connect_and_idle_forever"] = 1..Len(Script["connect_and_idle_forever"])
  BY DEF Script, ConnectAndIdleForever
<1>4. /\ Len(Script["reconnect_forever"]) \in Nat \ {0}
      /\ DOMAIN Script["reconnect_forever"] = 1..Len(Script["reconnect_forever"])
  BY DEF Script, ReconnectForever
<1>5. /\ Len(Script["register_forever"]) \in Nat \ {0}
      /\ DOMAIN Script["register_forever"] = 1..Len(Script["register_forever"])
  BY DEF Script, RegisterForever
<1>6. /\ Len(Script["notification_forever"]) \in Nat \ {0}
      /\ DOMAIN Script["notification_forever"] = 1..Len(Script["notification_forever"])
  BY DEF Script, NotificationForever
<1>7. /\ Len(Script["notification_forever_stored"]) \in Nat \ {0}
      /\ DOMAIN Script["notification_forever_stored"] = 1..Len(Script["notification_forever_stored"])
  BY DEF Script, NotificationForeverStored
<1>8. /\ Len(Script["notification_forever_direct_store"]) \in Nat \ {0}
      /\ DOMAIN Script["notification_forever_direct_store"] = 1..Len(Script["notification_forever_direct_store"])
  BY DEF Script, NotificationForeverDirectStore
<1>9. /\ Len(Script["notification_forever_unsubscribed"]) \in Nat \ {0}
      /\ DOMAIN Script["notification_forever_unsubscribed"] = 1..Len(Script["notification_forever_unsubscribed"])
  BY DEF Script, NotificationForeverUnsubscribed, NotificationForever
<1>10. /\ Len(Script["notification_forever_bad_tokens"]) \in Nat \ {0}
       /\ DOMAIN Script["notification_forever_bad_tokens"] = 1..Len(Script["notification_forever_bad_tokens"])
  BY DEF Script, NotificationForeverBadTokens
<1>11. /\ Len(Script["notification_forever_bad_endpoints"]) \in Nat \ {0}
       /\ DOMAIN Script["notification_forever_bad_endpoints"] = 1..Len(Script["notification_forever_bad_endpoints"])
  BY DEF Script, NotificationForeverBadEndpoints
<1>12. /\ Len(Script["_explode"]) \in Nat \ {0}
       /\ DOMAIN Script["_explode"] = 1..Len(Script["_explode"])
  BY DEF Script, Explode
<1>13. /\ Len(Script["_expect_notifications"]) \in Nat \ {0}
       /\ DOMAIN Script["_expect_notifications"] = 1..Len(Script["_expect_notifications"])
  BY DEF Script, ExpectNotifications
<1>. QED  BY Kinds, <1>1, <1>2, <1>3, <1>4, <1>5, <1>6, <1>7, <1>8, <1>9, <1>10,
             <1>11, <1>12, <1>13

\* The scripts with an instruction to count what was sent, or received.
LEMMA CountersAreKnown ==
    ASSUME NEW kind \in DOMAIN Script
    PROVE  /\ (\E k \in DOMAIN Script[kind] : Script[kind][k] = Sent)
                 <=> kind \in CountSent
           /\ (\/ \E k \in DOMAIN Script[kind] : Script[kind][k] = Received
               \/ kind = "notification_forever_stored")
                 <=> kind \in CountReceived
<1>1. ASSUME NEW k \in DOMAIN Script[kind], NEW i, i = Script[kind][k]
      PROVE  Balanced(kind, i, k)
  <2>1. PICK once \in BOOLEAN : once = (kind = "register_forever")
    OBVIOUS
  <2>2. k \in 1..Len(Script[kind]) /\ k \notin Unreached(kind, once)
    BY <1>1, <2>1, ScriptsAreSequences DEF Unreached
  <2>3. ~(kind = "connect_and_idle_forever" /\ once)
    BY <2>1
  <2>4. Fits(kind, once, k)
    BY <2>2, <2>3, ScriptsFitTheTables DEF ScriptsFit
  <2>. QED  BY <1>1, <2>4 DEF Fits
<1>2. ASSUME NEW k \in DOMAIN Script[kind], Script[kind][k] = Sent
      PROVE  kind \in CountSent
  BY <1>1, <1>2, IsSent DEF Is, Balanced
<1>3. ASSUME NEW k \in DOMAIN Script[kind], Script[kind][k] = Received
      PROVE  kind \in CountReceived
  BY <1>1, <1>3, IsReceived DEF Is, Balanced
<1>4. ASSUME kind \in CountSent
      PROVE  \E k \in DOMAIN Script[kind] : Script[kind][k] = Sent
  <2>1. 7 \in DOMAIN Script["basic"] /\ Script["basic"][7] = Sent
    BY DEF Script, Basic
  <2>2. 8 \in DOMAIN Script["basic_topic"] /\ Script["basic_topic"][8] = Sent
    BY DEF Script, BasicTopic
  <2>3. /\ 6 \in DOMAIN Script["reconnect_forever"]
        /\ Script["reconnect_forever"][6] = Sent
    BY DEF Script, ReconnectForever
  <2>4. /\ 6 \in DOMAIN Script["notification_forever"]
        /\ Script["notification_forever"][6] = Sent
    BY DEF Script, NotificationForever
  <2>5. /\ 7 \in DOMAIN Script["notification_forever_stored"]
        /\ Script["notification_forever_stored"][7] = Sent
    BY DEF Script, NotificationForeverStored
  <2>6. /\ 5 \in DOMAIN Script["notification_forever_direct_store"]
        /\ Script["notification_forever_direct_store"][5] = Sent
    BY DEF Script, NotificationForeverDirectStore
  <2>7. /\ 6 \in DOMAIN Script["notification_forever_unsubscribed"]
        /\ Script["notification_forever_unsubscribed"][6] = Sent
    BY DEF Script, NotificationForeverUnsubscribed, NotificationForever
  <2>8. /\ 5 \in DOMAIN Script["notification_forever_bad_tokens"]
        /\ Script["notification_forever_bad_tokens"][5] = Sent
    BY DEF Script, NotificationForeverBadTokens
  <2>9. /\ 4 \in DOMAIN Script["notification_forever_bad_endpoints"]
        /\ Script["notification_forever_bad_endpoints"][4] = Sent
    BY DEF Script, NotificationForeverBadEndpoints
  <2>. QED  BY <1>4, <2>1, <2>2, <2>3, <2>4, <2>5, <2>6, <2>7, <2>8, <2>9 DEF
               CountSent
<1>5. ASSUME kind \in CountReceived, kind # "notification_forever_stored"
      PROVE  \E k \in DOMAIN Script[kind] : Script[kind][k] = Received
  <2>1. 10 \in DOMAIN Script["basic"] /\ Script["basic"][10] = Received
    BY DEF Script, Basic
  <2>2. /\ 17 \in DOMAIN Script["basic_topic"]
        /\ Script["basic_topic"][17] = Received
    BY DEF Script, BasicTopic
  <2>3. /\ 8 \in DOMAIN Script["reconnect_forever"]
        /\ Script["reconnect_forever"][8] = Received
    BY DEF Script, ReconnectForever
  <2>4. /\ 8 \in DOMAIN Script["notification_forever"]
        /\ Script["notification_forever"][8] = Received
    BY DEF Script, NotificationForever
  <2>5. /\ 8 \in DOMAIN Script["notification_forever_unsubscribed"]
        /\ Script["notification_forever_unsubscribed"][8] = Received
    BY DEF Script, NotificationForeverUnsubscribed, NotificationForever
  <2>. QED  BY <1>5, <2>1, <2>2, <2>3, <2>4, <2>5 DEF CountReceived
<1>6. "notification_forever_stored" \in CountReceived
  BY DEF CountReceived
<1>. QED  BY <1>2, <1>3, <1>4, <1>5, <1>6

-----------------------------------------------------------------------------
(* What is on its way to a scenario, by its place. *)

\* Where the server holds nothing for it and nothing is on its way.
Vacancies == [
    basic |-> (1..4) \cup (13..15),
    basic_topic |-> (1..5) \cup (20..22),
    connect_and_idle_forever |-> 1..5,
    reconnect_forever |-> (1..4) \cup (10..19),
    register_forever |-> 1..8,
    notification_forever |-> (1..4) \cup (11..15),
    notification_forever_stored |-> (1..4) \cup (16..22),
    notification_forever_direct_store |-> (1..3) \cup (16..19),
    notification_forever_unsubscribed |-> (1..4) \cup (11..15),
    notification_forever_bad_tokens |-> 1..9,
    notification_forever_bad_endpoints |-> 1..8,
    _explode |-> 1..3,
    _expect_notifications |-> 1..2]

\* Where it has been given what it has yet to acknowledge, or None.
Due == [
    basic |-> 9..12,
    basic_topic |-> 16..19,
    connect_and_idle_forever |-> {},
    reconnect_forever |-> 8..9,
    register_forever |-> {},
    notification_forever |-> 8..10,
    notification_forever_stored |-> {14},
    notification_forever_direct_store |-> (7..8) \cup (14..15),
    notification_forever_unsubscribed |-> 8..10,
    notification_forever_bad_tokens |-> {},
    notification_forever_bad_endpoints |-> {},
    _explode |-> {},
    _expect_notifications |-> 9..10]

\* Where it has not registered a channel yet; where the server has none for it.
Early == [
    basic |-> 1..3,
    basic_topic |-> 1..3,
    connect_and_idle_forever |-> 1..5,
    reconnect_forever |-> 1..3,
    register_forever |-> 1..3,
    notification_forever |-> 1..3,
    notification_forever_stored |-> 1..3,
    notification_forever_direct_store |-> 1..3,
    notification_forever_unsubscribed |-> 1..3,
    notification_forever_bad_tokens |-> 1..3,
    notification_forever_bad_endpoints |-> 1..8,
    _explode |-> 1..3,
    _expect_notifications |-> {}]

Bare == [
    basic |-> (1..3) \cup (14..15),
    basic_topic |-> (1..3) \cup (21..22),
    connect_and_idle_forever |-> 1..5,
    reconnect_forever |-> (1..3) \cup (18..19),
    register_forever |-> (1..3) \cup (7..8),
    notification_forever |-> (1..3) \cup (14..15),
    notification_forever_stored |-> (1..3) \cup (21..22),
    notification_forever_direct_store |-> (1..3) \cup (18..19),
    notification_forever_unsubscribed |-> (1..3) \cup (14..15),
    notification_forever_bad_tokens |-> 1..3,
    notification_forever_bad_endpoints |-> 1..8,
    _explode |-> 1..3,
    _expect_notifications |-> {}]

\* The scenarios that have several notifications on their way at a time.
Several == {"notification_forever_stored", "_expect_notifications"}

\* The scenarios that have one channel at most and unregister it.
OneChannel(kind, once) ==
    /\ kind \notin {"_expect_notifications", "notification_forever_bad_tokens"}
    /\ kind = "register_forever" => once

\* What the notifications of a scenario say, and the one that counts.
Subjects(kind) ==
    IF kind = "basic" THEN {"first"}
    ELSE IF kind = "basic_topic" THEN Topics
    ELSE Texts \cup {"none"}
LastSubject(kind) == IF kind = "basic" THEN "first" ELSE "second_topic"

\* The places of basic_topic from its second POST on.
Replaced(kind, k) == kind = "basic_topic" /\ k >= 9

\* Where the server has the channel that a scenario sends to.
Reachable(kind, k) ==
    /\ kind # "notification_forever_bad_tokens"
    /\ k \in Registered[kind] /\ k < Len(Script[kind]) - 1

\* What a POST is answered with 404 for, or fails.
Bad == {"bad_token", "no_endpoint"}

\* The instruction comes when what is on its way allows it.
Timely(kind, i, k) ==
    /\ kind = "_explode" => i.op = "connect"
    /\ i.op = "hello" =>
          /\ k \notin Due[kind]
          /\ kind = "_expect_notifications" => k \in Vacancies[kind]
    /\ (i.op = "register" /\ kind # "_expect_notifications") =>
          k \in Vacancies[kind]
    /\ i.op = "send" =>
          /\ k \notin Due[kind]
          /\ k \in Vacancies[kind] <=> i.arg \in Bad
          /\ kind = "basic_topic" => k \notin Linked[kind]
          /\ i.arg = "no_endpoint" \/ i.arg \in Subjects(kind)
    /\ i.op = "expect" =>
          /\ k \in Linked[kind] /\ k \notin Due[kind] \cup Vacancies[kind]
          /\ i.arg = "any" \/ kind # "_expect_notifications"
    /\ i.op = "created" => k # 1
    /\ i.op = "ack" => k \in Due[kind]
    /\ i.op = "collect" =>
          k \in Due[kind] /\ kind = "notification_forever_stored"
    /\ i.op = "ack_ids" =>
          /\ k \notin Due[kind] /\ k \in Linked[kind]
          /\ kind = "notification_forever_stored"
    /\ i.op = "disconnect" =>
          /\ \/ kind = "_expect_notifications" \/ k \in Vacancies[kind]
             \/ k \in Due[kind] /\ kind \notin Several
          /\ k \in Due[kind] => kind = "notification_forever_direct_store"

\* The instruction finds what it looks into.
Founded(kind, i, k) ==
    /\ k \in Due[kind] => k \notin Vacancies[kind]
    /\ i.op \in {"needed", "data"} => k \in Due[kind] /\ kind \notin Several
    /\ i.op = "data" =>
          kind \in {"basic", "basic_topic"} /\ i.arg = LastSubject(kind)
    /\ i.op = "send" =>
          /\ Replaced(kind, k) => i.arg = LastSubject(kind)
          /\ i.arg \notin Bad => Reachable(kind, k)
    /\ (i.op = "unregister" /\ kind # "_expect_notifications") =>
          k \in Vacancies[kind] /\ i.arg = "last" /\ k \in Registered[kind]
    /\ i.op = "unregister" => ~Reachable(kind, k)
    /\ (i.op = "register" /\ kind # "_expect_notifications") => k \in Early[kind]
    /\ i.op = "if_notif" => kind = "_expect_notifications" /\ i.arg # k + 1
    /\ i.try => i.op \in {"connect", "hello", "same_uaid"}

\* The instruction turns what is on its way at its place into what is at l.
Leads(kind, once, i, k, l) ==
    /\ l \in Due[kind] <=>
          \/ i.op = "expect"
          \/ /\ k \in Due[kind] /\ i.op \notin {"ack", "collect", "disconnect"}
             /\ ~(i.op = "if_notif" /\ l = i.arg)
    /\ l \in Vacancies[kind] =>
          \/ k \in Vacancies[kind]
          \/ i.op = "ack" /\ kind \notin Several
          \/ i.op = "ack_ids" /\ l # i.arg
    /\ \/ i.op = "collect"
       \/ i.op = "connect" /\ kind # "_explode"
       \/ i.op = "hello" /\ i.arg = "again"
       => l \in 1..Len(Script[kind])

\* And the channels.
Settles(kind, once, i, k, l) ==
    /\ (i.op = "ack" /\ kind \notin Several) => l \in Vacancies[kind]
    /\ Reachable(kind, l) => i.op = "register" \/ Reachable(kind, k)
    /\ OneChannel(kind, once) =>
          /\ l \in Early[kind] => k \in Early[kind] /\ i.op # "register"
          /\ l \in Bare[kind] =>
                \/ k \in Bare[kind] /\ i.op # "register"
                \/ i.op = "unregister"

\* The instruction i at k comes before j at l.
Before(kind, i, k, j, l) ==
    /\ j.op = "ack_ids" <=> i.op = "collect"
    /\ j.op = "hello" <=> i.op = "connect" /\ kind # "_explode"
    /\ (j.op = "send" /\ kind \notin Several \cup {"basic_topic"}) =>
          k \in Vacancies[kind]
    /\ (i.op = "hello" /\ i.arg = "again") => j.op = "same_uaid"
Precedes(kind, i, k, j, l) ==
    /\ (l \notin Vacancies[kind] /\ kind \notin Several) =>
          k \notin Vacancies[kind] \/ j.op = "send"
    /\ Replaced(kind, l) => Replaced(kind, k) \/ j.op = "send"
    /\ j.op = "created" => i.op = "send" /\ i.arg \notin Bad
    /\ (j.op = "ack" /\ kind \in Several) => i.op = "if_notif" /\ l # i.arg

LeadsTo(kind, once, k, l) ==
    LET i == Script[kind][k] IN
    /\ Leads(kind, once, i, k, l)
    /\ Settles(kind, once, i, k, l)
    /\ l \in 1..Len(Script[kind]) =>
        /\ Before(kind, i, k, Script[kind][l], l)
        /\ Precedes(kind, i, k, Script[kind][l], l)

Carries(kind, once, k) ==
    LET i == Script[kind][k] IN
    /\ Timely(kind, i, k)
    /\ Founded(kind, i, k)
    /\ GoesOn(i, once) => LeadsTo(kind, once, k, k + 1)
    /\ Branches(i, once) => LeadsTo(kind, once, k, i.arg)

\* Where it begins, and ends.
Begins(kind) ==
    /\ 1 \in Vacancies[kind] \ Due[kind]
    /\ ~Reachable(kind, 1)
Ends(kind, once) ==
    LET l == Len(Script[kind]) + 1 IN
    /\ kind # "_expect_notifications" => l \in Vacancies[kind] \ Due[kind]
    /\ OneChannel(kind, once) => l \in Bare[kind]

ScriptsCarry ==
    \A kind \in DOMAIN Script, once \in BOOLEAN :
        /\ Begins(kind) /\ Ends(kind, once)
        /\ \A k \in 1..Len(Script[kind]) : Carries(kind, once, k)

-----------------------------------------------------------------------------
(* The scripts carry what is on its way as the tables say. *)

LEMMA BasicCarries ==
    ASSUME NEW once \in BOOLEAN,
           NEW k \in 1..Len(Script["basic"])
    PROVE  Carries("basic", once, k)
<1>1. PICK i : i = Script["basic"][k]
  OBVIOUS
<1>2. /\ Len(Script["basic"]) = 14 /\ k \in 1..14
      /\ BasicAt(k, i)
  BY <1>1, BasicReads
<1>. USE DEF BasicAt
<1>3. /\ Linked["basic"] = 2..14
      /\ Registered["basic"] = 4..14
      /\ Vacancies["basic"] = (1..4) \cup (13..15)
      /\ Due["basic"] = 9..12
      /\ Early["basic"] = 1..3
      /\ Bare["basic"] = (1..3) \cup (14..15)
  BY DEF Linked, Registered, Vacancies, Due, Early, Bare
<1>4. Timely("basic", i, k)
  BY SMTT(30), <1>2, <1>3 DEF Timely, Several, Subjects, Topics, Texts, Bad
<1>5. Founded("basic", i, k)
  BY SMTT(30), <1>2, <1>3
     DEF Founded, Several, LastSubject, Replaced, Reachable, Bad
<1>6. ~Branches(i, once)
  BY <1>2 DEF Branches
<1>7. GoesOn(i, once) => i.op # "jump"
  BY DEF GoesOn
<1>8. ASSUME NEW l,
             GoesOn(i, once) /\ l = k + 1
      PROVE  LeadsTo("basic", once, k, l)
  <2>1. l \in 1..15 /\ (l = k + 1 => i.op # "jump")
    BY <1>2, <1>6, <1>7, <1>8
  <2>2. l = k + 1
    BY <1>8
  <2>3. Leads("basic", once, i, k, l)
    BY SMTT(30), <1>2, <1>3, <1>6, <2>1, <2>2 DEF Leads, Several, Branches, GoesOn
  <2>4. Settles("basic", once, i, k, l)
    BY SMTT(30), <1>2, <1>3, <1>6, <2>1, <2>2
       DEF Settles, Several, Reachable, OneChannel, Branches, GoesOn
  <2>5. ASSUME NEW j, l \in 1..14, j = Script["basic"][l]
        PROVE  Before("basic", i, k, j, l) /\ Precedes("basic", i, k, j, l)
    <3>1. BasicAt(l, j)
      BY <1>2, <2>5, BasicReads
    <3>2. Before("basic", i, k, j, l)
      BY SMTT(60), <1>2, <1>3, <1>6, <2>1, <2>2, <3>1
         DEF Before, Several, Branches, GoesOn
    <3>3. Precedes("basic", i, k, j, l)
      BY SMTT(60), <1>2, <1>3, <1>6, <2>1, <2>2, <3>1
         DEF Precedes, Several, Replaced, Bad, Branches, GoesOn
    <3>. QED  BY <3>2, <3>3
  <2>. QED  BY <1>1, <1>2, <2>3, <2>4, <2>5 DEF LeadsTo
<1>. QED  BY <1>1, <1>4, <1>5, <1>6, <1>8 DEF Carries

LEMMA BasicTopicCarries ==
    ASSUME NEW once \in BOOLEAN,
           NEW k \in 1..Len(Script["basic_topic"])
    PROVE  Carries("basic_topic", once, k)
<1>1. PICK i : i = Script["basic_topic"][k]
  OBVIOUS
<1>2. /\ Len(Script["basic_topic"]) = 21 /\ k \in 1..21
      /\ BasicTopicAt(k, i)
  BY <1>1, BasicTopicReads
<1>. USE DEF BasicTopicAt
<1>3. /\ Linked["basic_topic"] = (2..5) \cup (13..21)
      /\ Registered["basic_topic"] = 4..21
      /\ Vacancies["basic_topic"] = (1..5) \cup (20..22)
      /\ Due["basic_topic"] = 16..19
      /\ Early["basic_topic"] = 1..3
      /\ Bare["basic_topic"] = (1..3) \cup (21..22)
  BY DEF Linked, Registered, Vacancies, Due, Early, Bare
<1>4. Timely("basic_topic", i, k)
  BY SMTT(30), <1>2, <1>3 DEF Timely, Several, Subjects, Topics, Texts, Bad
<1>5. Founded("basic_topic", i, k)
  BY SMTT(30), <1>2, <1>3
     DEF Founded, Several, LastSubject, Replaced, Reachable, Bad
<1>6. ~Branches(i, once)
  BY <1>2 DEF Branches
<1>7. GoesOn(i, once) => i.op # "jump"
  BY DEF GoesOn
<1>8. ASSUME NEW l,
             GoesOn(i, once) /\ l = k + 1
      PROVE  LeadsTo("basic_topic", once, k, l)
  <2>1. l \in 1..22 /\ (l = k + 1 => i.op # "jump")
    BY <1>2, <1>6, <1>7, <1>8
  <2>2. l = k + 1
    BY <1>8
  <2>3. Leads("basic_topic", once, i, k, l)
    BY SMTT(30), <1>2, <1>3, <1>6, <2>1, <2>2 DEF Leads, Several, Branches, GoesOn
  <2>4. Settles("basic_topic", once, i, k, l)
    BY SMTT(30), <1>2, <1>3, <1>6, <2>1, <2>2
       DEF Settles, Several, Reachable, OneChannel, Branches, GoesOn
  <2>5. ASSUME NEW j, l \in 1..21, j = Script["basic_topic"][l]
        PROVE  Before("basic_topic", i, k, j, l) /\ Precedes("basic_topic", i, k, j, l)
    <3>1. BasicTopicAt(l, j)
      BY <1>2, <2>5, BasicTopicReads
    <3>2. Before("basic_topic", i, k, j, l)
      BY SMTT(60), <1>2, <1>3, <1>6, <2>1, <2>2, <3>1
         DEF Before, Several, Branches, GoesOn
    <3>3. Precedes("basic_topic", i, k, j, l)
      BY SMTT(60), <1>2, <1>3, <1>6, <2>1, <2>2, <3>1
         DEF Precedes, Several, Replaced, Bad, Branches, GoesOn
    <3>. QED  BY <3>2, <3>3
  <2>. QED  BY <1>1, <1>2, <2>3, <2>4, <2>5 DEF LeadsTo
<1>. QED  BY <1>1, <1>4, <1>5, <1>6, <1>8 DEF Carries

LEMMA ConnectAndIdleForeverCarries ==
    ASSUME NEW once \in BOOLEAN,
           NEW k \in 1..Len(Script["connect_and_idle_forever"])
    PROVE  Carries("connect_and_idle_forever", once, k)
<1>1. PICK i : i = Script["connect_and_idle_forever"][k]
  OBVIOUS
<1>2. /\ Len(Script["connect_and_idle_forever"]) = 4 /\ k \in 1..4
      /\ ConnectAndIdleForeverAt(k, i)
  BY <1>1, ConnectAndIdleForeverReads
<1>. USE DEF ConnectAndIdleForeverAt
<1>3. /\ Linked["connect_and_idle_forever"] = 2..5
      /\ Registered["connect_and_idle_forever"] = {}
      /\ Vacancies["connect_and_idle_forever"] = 1..5
      /\ Due["connect_and_idle_forever"] = {}
      /\ Early["connect_and_idle_forever"] = 1..5
      /\ Bare["connect_and_idle_forever"] = 1..5
  BY DEF Linked, Registered, Vacancies, Due, Early, Bare
<1>4. Timely("connect_and_idle_forever", i, k)
  BY SMTT(30), <1>2, <1>3 DEF Timely, Several, Subjects, Topics, Texts, Bad
<1>5. Founded("connect_and_idle_forever", i, k)
  BY SMTT(30), <1>2, <1>3
     DEF Founded, Several, LastSubject, Replaced, Reachable, Bad
<1>6. Branches(i, once) => i.arg \in {3} /\ i.op \in {"jump"}
  BY <1>2 DEF Branches
<1>7. GoesOn(i, once) => i.op # "jump"
  BY DEF GoesOn
<1>8. ASSUME NEW l,
             \/ GoesOn(i, once) /\ l = k + 1
             \/ Branches(i, once) /\ l = i.arg
      PROVE  LeadsTo("connect_and_idle_forever", once, k, l)
  <2>1. l \in 1..5 /\ (l = k + 1 => i.op # "jump")
    BY <1>2, <1>6, <1>7, <1>8
  <2>2. \/ l = k + 1 /\ GoesOn(i, once)
        \/ Branches(i, once) /\ l = i.arg
    BY <1>8
  <2>3. Leads("connect_and_idle_forever", once, i, k, l)
    BY SMTT(30), <1>2, <1>3, <1>6, <2>1, <2>2 DEF Leads, Several, Branches, GoesOn
  <2>4. Settles("connect_and_idle_forever", once, i, k, l)
    BY SMTT(30), <1>2, <1>3, <1>6, <2>1, <2>2
       DEF Settles, Several, Reachable, OneChannel, Branches, GoesOn
  <2>5. ASSUME NEW j, l \in 1..4, j = Script["connect_and_idle_forever"][l]
        PROVE  Before("connect_and_idle_forever", i, k, j, l) /\ Precedes("connect_and_idle_forever", i, k, j, l)
    <3>1. ConnectAndIdleForeverAt(l, j)
      BY <1>2, <2>5, ConnectAndIdleForeverReads
    <3>2. Before("connect_and_idle_forever", i, k, j, l)
      BY SMTT(60), <1>2, <1>3, <1>6, <2>1, <2>2, <3>1
         DEF Before, Several, Branches, GoesOn
    <3>3. Precedes("connect_and_idle_forever", i, k, j, l)
      BY SMTT(60), <1>2, <1>3, <1>6, <2>1, <2>2, <3>1
         DEF Precedes, Several, Replaced, Bad, Branches, GoesOn
    <3>. QED  BY <3>2, <3>3
  <2>. QED  BY <1>1, <1>2, <2>3, <2>4, <2>5 DEF LeadsTo
<1>. QED  BY <1>1, <1>4, <1>5, <1>6, <1>8 DEF Carries

LEMMA ReconnectForeverCarries ==
    ASSUME NEW once \in BOOLEAN,
           NEW k \in 1..Len(Script["reconnect_forever"])
    PROVE  Carries("reconnect_forever", once, k)
<1>1. PICK i : i = Script["reconnect_forever"][k]
  OBVIOUS
<1>2. /\ Len(Script["reconnect_forever"]) = 18 /\ k \in 1..18
      /\ ReconnectForeverAt(k, i)
  BY <1>1, ReconnectForeverReads
<1>. USE DEF ReconnectForeverAt
<1>3. /\ Linked["reconnect_forever"] = (2..12) \cup (14..18)
      /\ Registered["reconnect_forever"] = 4..18
      /\ Vacancies["reconnect_forever"] = (1..4) \cup (10..19)
      /\ Due["reconnect_forever"] = 8..9
      /\ Early["reconnect_forever"] = 1..3
      /\ Bare["reconnect_forever"] = (1..3) \cup (18..19)
  BY DEF Linked, Registered, Vacancies, Due, Early, Bare
<1>4. Timely("reconnect_forever", i, k)
  BY SMTT(30), <1>2, <1>3 DEF Timely, Several, Subjects, Topics, Texts, Bad
<1>5. Founded("reconnect_forever", i, k)
  BY SMTT(30), <1>2, <1>3
     DEF Founded, Several, LastSubject, Replaced, Reachable, Bad
<1>6. Branches(i, once) => i.arg \in {4} /\ i.op \in {"loop"}
  BY <1>2 DEF Branches
<1>7. GoesOn(i, once) => i.op # "jump"
  BY DEF GoesOn
<1>8. ASSUME NEW l,
             \/ GoesOn(i, once) /\ l = k + 1
             \/ Branches(i, once) /\ l = i.arg
      PROVE  LeadsTo("reconnect_forever", once, k, l)
  <2>1. l \in 1..19 /\ (l = k + 1 => i.op # "jump")
    BY <1>2, <1>6, <1>7, <1>8
  <2>2. \/ l = k + 1 /\ GoesOn(i, once)
        \/ Branches(i, once) /\ l = i.arg
    BY <1>8
  <2>3. Leads("reconnect_forever", once, i, k, l)
    BY SMTT(30), <1>2, <1>3, <1>6, <2>1, <2>2 DEF Leads, Several, Branches, GoesOn
  <2>4. Settles("reconnect_forever", once, i, k, l)
    BY SMTT(30), <1>2, <1>3, <1>6, <2>1, <2>2
       DEF Settles, Several, Reachable, OneChannel, Branches, GoesOn
  <2>5. ASSUME NEW j, l \in 1..18, j = Script["reconnect_forever"][l]
        PROVE  Before("reconnect_forever", i, k, j, l) /\ Precedes("reconnect_forever", i, k, j, l)
    <3>1. ReconnectForeverAt(l, j)
      BY <1>2, <2>5, ReconnectForeverReads
    <3>2. Before("reconnect_forever", i, k, j, l)
      BY SMTT(60), <1>2, <1>3, <1>6, <2>1, <2>2, <3>1
         DEF Before, Several, Branches, GoesOn
    <3>3. Precedes("reconnect_forever", i, k, j, l)
      BY SMTT(60), <1>2, <1>3, <1>6, <2>1, <2>2, <3>1
         DEF Precedes, Several, Replaced, Bad, Branches, GoesOn
    <3>. QED  BY <3>2, <3>3
  <2>. QED  BY <1>1, <1>2, <2>3, <2>4, <2>5 DEF LeadsTo
<1>. QED  BY <1>1, <1>4, <1>5, <1>6, <1>8 DEF Carries

LEMMA RegisterForeverCarries ==
    ASSUME NEW once \in BOOLEAN,
           NEW k \in 1..Len(Script["register_forever"])
    PROVE  Carries("register_forever", once, k)
<1>1. PICK i : i = Script["register_forever"][k]
  OBVIOUS
<1>2. /\ Len(Script["register_forever"]) = 7 /\ k \in 1..7
      /\ RegisterForeverAt(k, i)
  BY <1>1, RegisterForeverReads
<1>. USE DEF RegisterForeverAt
<1>3. /\ Linked["register_forever"] = 2..7
      /\ Registered["register_forever"] = 4..7
      /\ Vacancies["register_forever"] = 1..8
      /\ Due["register_forever"] = {}
      /\ Early["register_forever"] = 1..3
      /\ Bare["register_forever"] = (1..3) \cup (7..8)
  BY DEF Linked, Registered, Vacancies, Due, Early, Bare
<1>4. Timely("register_forever", i, k)
  BY SMTT(30), <1>2, <1>3 DEF Timely, Several, Subjects, Topics, Texts, Bad
<1>5. Founded("register_forever", i, k)
  BY SMTT(30), <1>2, <1>3
     DEF Founded, Several, LastSubject, Replaced, Reachable, Bad
<1>6. Branches(i, once) => i.arg \in {3} /\ i.op \in {"loop"}
  BY <1>2 DEF Branches
<1>7. GoesOn(i, once) => i.op # "jump"
  BY DEF GoesOn
<1>8. ASSUME NEW l,
             \/ GoesOn(i, once) /\ l = k + 1
             \/ Branches(i, once) /\ l = i.arg
      PROVE  LeadsTo("register_forever", once, k, l)
  <2>1. l \in 1..8 /\ (l = k + 1 => i.op # "jump")
    BY <1>2, <1>6, <1>7, <1>8
  <2>2. \/ l = k + 1 /\ GoesOn(i, once)
        \/ Branches(i, once) /\ l = i.arg
    BY <1>8
  <2>3. Leads("register_forever", once, i, k, l)
    BY SMTT(30), <1>2, <1>3, <1>6, <2>1, <2>2 DEF Leads, Several, Branches, GoesOn
  <2>4. Settles("register_forever", once, i, k, l)
    BY SMTT(30), <1>2, <1>3, <1>6, <2>1, <2>2
       DEF Settles, Several, Reachable, OneChannel, Branches, GoesOn
  <2>5. ASSUME NEW j, l \in 1..7, j = Script["register_forever"][l]
        PROVE  Before("register_forever", i, k, j, l) /\ Precedes("register_forever", i, k, j, l)
    <3>1. RegisterForeverAt(l, j)
      BY <1>2, <2>5, RegisterForeverReads
    <3>2. Before("register_forever", i, k, j, l)
      BY SMTT(60), <1>2, <1>3, <1>6, <2>1, <2>2, <3>1
         DEF Before, Several, Branches, GoesOn
    <3>3. Precedes("register_forever", i, k, j, l)
      BY SMTT(60), <1>2, <1>3, <1>6, <2>1, <2>2, <3>1
         DEF Precedes, Several, Replaced, Bad, Branches, GoesOn
    <3>. QED  BY <3>2, <3>3
  <2>. QED  BY <1>1, <1>2, <2>3, <2>4, <2>5 DEF LeadsTo
<1>. QED  BY <1>1, <1>4, <1>5, <1>6, <1>8 DEF Carries

LEMMA NotificationForeverCarries ==
    ASSUME NEW once \in BOOLEAN,
           NEW k \in 1..Len(Script["notification_forever"])
    PROVE  Carries("notification_forever", once, k)
<1>1. PICK i : i = Script["notification_forever"][k]
  OBVIOUS
<1>2. /\ Len(Script["notification_forever"]) = 14 /\ k \in 1..14
      /\ NotificationForeverAt(k, i)
  BY <1>1, NotificationForeverReads
<1>. USE DEF NotificationForeverAt
<1>3. /\ Linked["notification_forever"] = 2..14
      /\ Registered["notification_forever"] = 4..14
      /\ Vacancies["notification_forever"] = (1..4) \cup (11..15)
      /\ Due["notification_forever"] = 8..10
      /\ Early["notification_forever"] = 1..3
      /\ Bare["notification_forever"] = (1..3) \cup (14..15)
  BY DEF Linked, Registered, Vacancies, Due, Early, Bare
<1>4. Timely("notification_forever", i, k)
  BY SMTT(30), <1>2, <1>3 DEF Timely, Several, Subjects, Topics, Texts, Bad
<1>5. Founded("notification_forever", i, k)
  BY SMTT(30), <1>2, <1>3
     DEF Founded, Several, LastSubject, Replaced, Reachable, Bad
<1>6. Branches(i, once) => i.arg \in {4} /\ i.op \in {"loop"}
  BY <1>2 DEF Branches
<1>7. GoesOn(i, once) => i.op # "jump"
  BY DEF GoesOn
<1>8. ASSUME NEW l,
             \/ GoesOn(i, once) /\ l = k + 1
             \/ Branches(i, once) /\ l = i.arg
      PROVE  LeadsTo("notification_forever", once, k, l)
  <2>1. l \in 1..15 /\ (l = k + 1 => i.op # "jump")
    BY <1>2, <1>6, <1>7, <1>8
  <2>2. \/ l = k + 1 /\ GoesOn(i, once)
        \/ Branches(i, once) /\ l = i.arg
    BY <1>8
  <2>3. Leads("notification_forever", once, i, k, l)
    BY SMTT(30), <1>2, <1>3, <1>6, <2>1, <2>2 DEF Leads, Several, Branches, GoesOn
  <2>4. Settles("notification_forever", once, i, k, l)
    BY SMTT(30), <1>2, <1>3, <1>6, <2>1, <2>2
       DEF Settles, Several, Reachable, OneChannel, Branches, GoesOn
  <2>5. ASSUME NEW j, l \in 1..14, j = Script["notification_forever"][l]
        PROVE  Before("notification_forever", i, k, j, l) /\ Precedes("notification_forever", i, k, j, l)
    <3>1. NotificationForeverAt(l, j)
      BY <1>2, <2>5, NotificationForeverReads
    <3>2. Before("notification_forever", i, k, j, l)
      BY SMTT(60), <1>2, <1>3, <1>6, <2>1, <2>2, <3>1
         DEF Before, Several, Branches, GoesOn
    <3>3. Precedes("notification_forever", i, k, j, l)
      BY SMTT(60), <1>2, <1>3, <1>6, <2>1, <2>2, <3>1
         DEF Precedes, Several, Replaced, Bad, Branches, GoesOn
    <3>. QED  BY <3>2, <3>3
  <2>. QED  BY <1>1, <1>2, <2>3, <2>4, <2>5 DEF LeadsTo
<1>. QED  BY <1>1, <1>4, <1>5, <1>6, <1>8 DEF Carries

LEMMA NotificationForeverStoredCarries ==
    ASSUME NEW once \in BOOLEAN,
           NEW k \in 1..Len(Script["notification_forever_stored"])
    PROVE  Carries("notification_forever_stored", once, k)
<1>1. PICK i : i = Script["notification_forever_stored"][k]
  OBVIOUS
<1>2. /\ Len(Script["notification_forever_stored"]) = 21 /\ k \in 1..21
      /\ NotificationForeverStoredAt(k, i)
  BY <1>1, NotificationForeverStoredReads
<1>. USE DEF NotificationForeverStoredAt
<1>3. /\ Linked["notification_forever_stored"] = (2..4) \cup (11..17) \cup (20..21)
      /\ Registered["notification_forever_stored"] = 4..21
      /\ Vacancies["notification_forever_stored"] = (1..4) \cup (16..22)
      /\ Due["notification_forever_stored"] = {14}
      /\ Early["notification_forever_stored"] = 1..3
      /\ Bare["notification_forever_stored"] = (1..3) \cup (21..22)
  BY DEF Linked, Registered, Vacancies, Due, Early, Bare
<1>4. Timely("notification_forever_stored", i, k)
  BY SMTT(30), <1>2, <1>3 DEF Timely, Several, Subjects, Topics, Texts, Bad
<1>5. Founded("notification_forever_stored", i, k)
  BY SMTT(30), <1>2, <1>3
     DEF Founded, Several, LastSubject, Replaced, Reachable, Bad
<1>6. Branches(i, once) => i.arg \in {5, 9, 13, 20} /\ i.op \in {"ack_ids", "for", "if_once", "jump", "loop"}
  BY <1>2 DEF Branches
<1>7. GoesOn(i, once) => i.op # "jump"
  BY DEF GoesOn
<1>8. ASSUME NEW l,
             \/ GoesOn(i, once) /\ l = k + 1
             \/ Branches(i, once) /\ l = i.arg
      PROVE  LeadsTo("notification_forever_stored", once, k, l)
  <2>1. l \in 1..22 /\ (l = k + 1 => i.op # "jump")
    BY <1>2, <1>6, <1>7, <1>8
  <2>2. \/ l = k + 1 /\ GoesOn(i, once)
        \/ Branches(i, once) /\ l = i.arg
    BY <1>8
  <2>3. Leads("notification_forever_stored", once, i, k, l)
    BY SMTT(30), <1>2, <1>3, <1>6, <2>1, <2>2 DEF Leads, Several, Branches, GoesOn
  <2>4. Settles("notification_forever_stored", once, i, k, l)
    BY SMTT(30), <1>2, <1>3, <1>6, <2>1, <2>2
       DEF Settles, Several, Reachable, OneChannel, Branches, GoesOn
  <2>5. ASSUME NEW j, l \in 1..21, j = Script["notification_forever_stored"][l]
        PROVE  Before("notification_forever_stored", i, k, j, l) /\ Precedes("notification_forever_stored", i, k, j, l)
    <3>1. NotificationForeverStoredAt(l, j)
      BY <1>2, <2>5, NotificationForeverStoredReads
    <3>2. Before("notification_forever_stored", i, k, j, l)
      BY SMTT(60), <1>2, <1>3, <1>6, <2>1, <2>2, <3>1
         DEF Before, Several, Branches, GoesOn
    <3>3. Precedes("notification_forever_stored", i, k, j, l)
      BY SMTT(60), <1>2, <1>3, <1>6, <2>1, <2>2, <3>1
         DEF Precedes, Several, Replaced, Bad, Branches, GoesOn
    <3>. QED  BY <3>2, <3>3
  <2>. QED  BY <1>1, <1>2, <2>3, <2>4, <2>5 DEF LeadsTo
<1>. QED  BY <1>1, <1>4, <1>5, <1>6, <1>8 DEF Carries

LEMMA NotificationForeverDirectStoreCarries ==
    ASSUME NEW once \in BOOLEAN,
           NEW k \in 1..Len(Script["notification_forever_direct_store"])
    PROVE  Carries("notification_forever_direct_store", once, k)
<1>1. PICK i : i = Script["notification_forever_direct_store"][k]
  OBVIOUS
<1>2. /\ Len(Script["notification_forever_direct_store"]) = 18 /\ k \in 1..18
      /\ NotificationForeverDirectStoreAt(k, i)
  BY <1>1, NotificationForeverDirectStoreReads
<1>. USE DEF NotificationForeverDirectStoreAt
<1>3. /\ Linked["notification_forever_direct_store"] = (2..8) \cup (11..18)
      /\ Registered["notification_forever_direct_store"] = 4..18
      /\ Vacancies["notification_forever_direct_store"] = (1..3) \cup (16..19)
      /\ Due["notification_forever_direct_store"] = (7..8) \cup (14..15)
      /\ Early["notification_forever_direct_store"] = 1..3
      /\ Bare["notification_forever_direct_store"] = (1..3) \cup (18..19)
  BY DEF Linked, Registered, Vacancies, Due, Early, Bare
<1>4. Timely("notification_forever_direct_store", i, k)
  BY SMTT(30), <1>2, <1>3 DEF Timely, Several, Subjects, Topics, Texts, Bad
<1>5. Founded("notification_forever_direct_store", i, k)
  BY SMTT(30), <1>2, <1>3
     DEF Founded, Several, LastSubject, Replaced, Reachable, Bad
<1>6. Branches(i, once) => i.arg \in {4} /\ i.op \in {"loop"}
  BY <1>2 DEF Branches
<1>7. GoesOn(i, once) => i.op # "jump"
  BY DEF GoesOn
<1>8. ASSUME NEW l,
             \/ GoesOn(i, once) /\ l = k + 1
             \/ Branches(i, once) /\ l = i.arg
      PROVE  LeadsTo("notification_forever_direct_store", once, k, l)
  <2>1. l \in 1..19 /\ (l = k + 1 => i.op # "jump")
    BY <1>2, <1>6, <1>7, <1>8
  <2>2. \/ l = k + 1 /\ GoesOn(i, once)
        \/ Branches(i, once) /\ l = i.arg
    BY <1>8
  <2>3. Leads("notification_forever_direct_store", once, i, k, l)
    BY SMTT(30), <1>2, <1>3, <1>6, <2>1, <2>2 DEF Leads, Several, Branches, GoesOn
  <2>4. Settles("notification_forever_direct_store", once, i, k, l)
    BY SMTT(30), <1>2, <1>3, <1>6, <2>1, <2>2
       DEF Settles, Several, Reachable, OneChannel, Branches, GoesOn
  <2>5. ASSUME NEW j, l \in 1..18, j = Script["notification_forever_direct_store"][l]
        PROVE  Before("notification_forever_direct_store", i, k, j, l) /\ Precedes("notification_forever_direct_store", i, k, j, l)
    <3>1. NotificationForeverDirectStoreAt(l, j)
      BY <1>2, <2>5, NotificationForeverDirectStoreReads
    <3>2. Before("notification_forever_direct_store", i, k, j, l)
      BY SMTT(60), <1>2, <1>3, <1>6, <2>1, <2>2, <3>1
         DEF Before, Several, Branches, GoesOn
    <3>3. Precedes("notification_forever_direct_store", i, k, j, l)
      BY SMTT(60), <1>2, <1>3, <1>6, <2>1, <2>2, <3>1
         DEF Precedes, Several, Replaced, Bad, Branches, GoesOn
    <3>. QED  BY <3>2, <3>3
  <2>. QED  BY <1>1, <1>2, <2>3, <2>4, <2>5 DEF LeadsTo
<1>. QED  BY <1>1, <1>4, <1>5, <1>6, <1>8 DEF Carries

LEMMA NotificationForeverUnsubscribedCarries ==
    ASSUME NEW once \in BOOLEAN,
           NEW k \in 1..Len(Script["notification_forever_unsubscribed"])
    PROVE  Carries("notification_forever_unsubscribed", once, k)
<1>1. PICK i : i = Script["notification_forever_unsubscribed"][k]
  OBVIOUS
<1>2. /\ Len(Script["notification_forever_unsubscribed"]) = 14 /\ k \in 1..14
      /\ NotificationForeverUnsubscribedAt(k, i)
  BY <1>1, NotificationForeverUnsubscribedReads
<1>. USE DEF NotificationForeverUnsubscribedAt
<1>3. /\ Linked["notification_forever_unsubscribed"] = 2..14
      /\ Registered["notification_forever_unsubscribed"] = 4..14
      /\ Vacancies["notification_forever_unsubscribed"] = (1..4) \cup (11..15)
      /\ Due["notification_forever_unsubscribed"] = 8..10
      /\ Early["notification_forever_unsubscribed"] = 1..3
      /\ Bare["notification_forever_unsubscribed"] = (1..3) \cup (14..15)
  BY DEF Linked, Registered, Vacancies, Due, Early, Bare
<1>4. Timely("notification_forever_unsubscribed", i, k)
  BY SMTT(30), <1>2, <1>3 DEF Timely, Several, Subjects, Topics, Texts, Bad
<1>5. Founded("notification_forever_unsubscribed", i, k)
  BY SMTT(30), <1>2, <1>3
     DEF Founded, Several, LastSubject, Replaced, Reachable, Bad
<1>6. Branches(i, once) => i.arg \in {4} /\ i.op \in {"loop"}
  BY <1>2 DEF Branches
<1>7. GoesOn(i, once) => i.op # "jump"
  BY DEF GoesOn
<1>8. ASSUME NEW l,
             \/ GoesOn(i, once) /\ l = k + 1
             \/ Branches(i, once) /\ l = i.arg
      PROVE  LeadsTo("notification_forever_unsubscribed", once, k, l)
  <2>1. l \in 1..15 /\ (l = k + 1 => i.op # "jump")
    BY <1>2, <1>6, <1>7, <1>8
  <2>2. \/ l = k + 1 /\ GoesOn(i, once)
        \/ Branches(i, once) /\ l = i.arg
    BY <1>8
  <2>3. Leads("notification_forever_unsubscribed", once, i, k, l)
    BY SMTT(30), <1>2, <1>3, <1>6, <2>1, <2>2 DEF Leads, Several, Branches, GoesOn
  <2>4. Settles("notification_forever_unsubscribed", once, i, k, l)
    BY SMTT(30), <1>2, <1>3, <1>6, <2>1, <2>2
       DEF Settles, Several, Reachable, OneChannel, Branches, GoesOn
  <2>5. ASSUME NEW j, l \in 1..14, j = Script["notification_forever_unsubscribed"][l]
        PROVE  Before("notification_forever_unsubscribed", i, k, j, l) /\ Precedes("notification_forever_unsubscribed", i, k, j, l)
    <3>1. NotificationForeverUnsubscribedAt(l, j)
      BY <1>2, <2>5, NotificationForeverUnsubscribedReads
    <3>2. Before("notification_forever_unsubscribed", i, k, j, l)
      BY SMTT(60), <1>2, <1>3, <1>6, <2>1, <2>2, <3>1
         DEF Before, Several, Branches, GoesOn
    <3>3. Precedes("notification_forever_unsubscribed", i, k, j, l)
      BY SMTT(60), <1>2, <1>3, <1>6, <2>1, <2>2, <3>1
         DEF Precedes, Several, Replaced, Bad, Branches, GoesOn
    <3>. QED  BY <3>2, <3>3
  <2>. QED  BY <1>1, <1>2, <2>3, <2>4, <2>5 DEF LeadsTo
<1>. QED  BY <1>1, <1>4, <1>5, <1>6, <1>8 DEF Carries

LEMMA NotificationForeverBadTokensCarries ==
    ASSUME NEW once \in BOOLEAN,
           NEW k \in 1..Len(Script["notification_forever_bad_tokens"])
    PROVE  Carries("notification_forever_bad_tokens", once, k)
<1>1. PICK i : i = Script["notification_forever_bad_tokens"][k]
  OBVIOUS
<1>2. /\ Len(Script["notification_forever_bad_tokens"]) = 8 /\ k \in 1..8
      /\ NotificationForeverBadTokensAt(k, i)
  BY <1>1, NotificationForeverBadTokensReads
<1>. USE DEF NotificationForeverBadTokensAt
<1>3. /\ Linked["notification_forever_bad_tokens"] = 2..8
      /\ Registered["notification_forever_bad_tokens"] = 4..8
      /\ Vacancies["notification_forever_bad_tokens"] = 1..9
      /\ Due["notification_forever_bad_tokens"] = {}
      /\ Early["notification_forever_bad_tokens"] = 1..3
      /\ Bare["notification_forever_bad_tokens"] = 1..3
  BY DEF Linked, Registered, Vacancies, Due, Early, Bare
<1>4. Timely("notification_forever_bad_tokens", i, k)
  BY SMTT(30), <1>2, <1>3 DEF Timely, Several, Subjects, Topics, Texts, Bad
<1>5. Founded("notification_forever_bad_tokens", i, k)
  BY SMTT(30), <1>2, <1>3
     DEF Founded, Several, LastSubject, Replaced, Reachable, Bad
<1>6. Branches(i, once) => i.arg \in {4} /\ i.op \in {"loop"}
  BY <1>2 DEF Branches
<1>7. GoesOn(i, once) => i.op # "jump"
  BY DEF GoesOn
<1>8. ASSUME NEW l,
             \/ GoesOn(i, once) /\ l = k + 1
             \/ Branches(i, once) /\ l = i.arg
      PROVE  LeadsTo("notification_forever_bad_tokens", once, k, l)
  <2>1. l \in 1..9 /\ (l = k + 1 => i.op # "jump")
    BY <1>2, <1>6, <1>7, <1>8
  <2>2. \/ l = k + 1 /\ GoesOn(i, once)
        \/ Branches(i, once) /\ l = i.arg
    BY <1>8
  <2>3. Leads("notification_forever_bad_tokens", once, i, k, l)
    BY SMTT(30), <1>2, <1>3, <1>6, <2>1, <2>2 DEF Leads, Several, Branches, GoesOn
  <2>4. Settles("notification_forever_bad_tokens", once, i, k, l)
    BY SMTT(30), <1>2, <1>3, <1>6, <2>1, <2>2
       DEF Settles, Several, Reachable, OneChannel, Branches, GoesOn
  <2>5. ASSUME NEW j, l \in 1..8, j = Script["notification_forever_bad_tokens"][l]
        PROVE  Before("notification_forever_bad_tokens", i, k, j, l) /\ Precedes("notification_forever_bad_tokens", i, k, j, l)
    <3>1. NotificationForeverBadTokensAt(l, j)
      BY <1>2, <2>5, NotificationForeverBadTokensReads
    <3>2. Before("notification_forever_bad_tokens", i, k, j, l)
      BY SMTT(60), <1>2, <1>3, <1>6, <2>1, <2>2, <3>1
         DEF Before, Several, Branches, GoesOn
    <3>3. Precedes("notification_forever_bad_tokens", i, k, j, l)
      BY SMTT(60), <1>2, <1>3, <1>6, <2>1, <2>2, <3>1
         DEF Precedes, Several, Replaced, Bad, Branches, GoesOn
    <3>. QED  BY <3>2, <3>3
  <2>. QED  BY <1>1, <1>2, <2>3, <2>4, <2>5 DEF LeadsTo
<1>. QED  BY <1>1, <1>4, <1>5, <1>6, <1>8 DEF Carries

LEMMA NotificationForeverBadEndpointsCarries ==
    ASSUME NEW once \in BOOLEAN,
           NEW k \in 1..Len(Script["notification_forever_bad_endpoints"])
    PROVE  Carries("notification_forever_bad_endpoints", once, k)
<1>1. PICK i : i = Script["notification_forever_bad_endpoints"][k]
  OBVIOUS
<1>2. /\ Len(Script["notification_forever_bad_endpoints"]) = 7 /\ k \in 1..7
      /\ NotificationForeverBadEndpointsAt(k, i)
  BY <1>1, NotificationForeverBadEndpointsReads
<1>. USE DEF NotificationForeverBadEndpointsAt
<1>3. /\ Linked["notification_forever_bad_endpoints"] = 2..7
      /\ Registered["notification_forever_bad_endpoints"] = {}
      /\ Vacancies["notification_forever_bad_endpoints"] = 1..8
      /\ Due["notification_forever_bad_endpoints"] = {}
      /\ Early["notification_forever_bad_endpoints"] = 1..8
      /\ Bare["notification_forever_bad_endpoints"] = 1..8
  BY DEF Linked, Registered, Vacancies, Due, Early, Bare
<1>4. Timely("notification_forever_bad_endpoints", i, k)
  BY SMTT(30), <1>2, <1>3 DEF Timely, Several, Subjects, Topics, Texts, Bad
<1>5. Founded("notification_forever_bad_endpoints", i, k)
  BY SMTT(30), <1>2, <1>3
     DEF Founded, Several, LastSubject, Replaced, Reachable, Bad
<1>6. Branches(i, once) => i.arg \in {3} /\ i.op \in {"loop"}
  BY <1>2 DEF Branches
<1>7. GoesOn(i, once) => i.op # "jump"
  BY DEF GoesOn
<1>8. ASSUME NEW l,
             \/ GoesOn(i, once) /\ l = k + 1
             \/ Branches(i, once) /\ l = i.arg
      PROVE  LeadsTo("notification_forever_bad_endpoints", once, k, l)
  <2>1. l \in 1..8 /\ (l = k + 1 => i.op # "jump")
    BY <1>2, <1>6, <1>7, <1>8
  <2>2. \/ l = k + 1 /\ GoesOn(i, once)
        \/ Branches(i, once) /\ l = i.arg
    BY <1>8
  <2>3. Leads("notification_forever_bad_endpoints", once, i, k, l)
    BY SMTT(30), <1>2, <1>3, <1>6, <2>1, <2>2 DEF Leads, Several, Branches, GoesOn
  <2>4. Settles("notification_forever_bad_endpoints", once, i, k, l)
    BY SMTT(30), <1>2, <1>3, <1>6, <2>1, <2>2
       DEF Settles, Several, Reachable, OneChannel, Branches, GoesOn
  <2>5. ASSUME NEW j, l \in 1..7, j = Script["notification_forever_bad_endpoints"][l]
        PROVE  Before("notification_forever_bad_endpoints", i, k, j, l) /\ Precedes("notification_forever_bad_endpoints", i, k, j, l)
    <3>1. NotificationForeverBadEndpointsAt(l, j)
      BY <1>2, <2>5, NotificationForeverBadEndpointsReads
    <3>2. Before("notification_forever_bad_endpoints", i, k, j, l)
      BY SMTT(60), <1>2, <1>3, <1>6, <2>1, <2>2, <3>1
         DEF Before, Several, Branches, GoesOn
    <3>3. Precedes("notification_forever_bad_endpoints", i, k, j, l)
      BY SMTT(60), <1>2, <1>3, <1>6, <2>1, <2>2, <3>1
         DEF Precedes, Several, Replaced, Bad, Branches, GoesOn
    <3>. QED  BY <3>2, <3>3
  <2>. QED  BY <1>1, <1>2, <2>3, <2>4, <2>5 DEF LeadsTo
<1>. QED  BY <1>1, <1>4, <1>5, <1>6, <1>8 DEF Carries

LEMMA ExplodeCarries ==
    ASSUME NEW once \in BOOLEAN,
           NEW k \in 1..Len(Script["_explode"])
    PROVE  Carries("_explode", once, k)
<1>1. PICK i : i = Script["_explode"][k]
  OBVIOUS
<1>2. /\ Len(Script["_explode"]) = 2 /\ k \in 1..2
      /\ ExplodeAt(k, i)
  BY <1>1, ExplodeReads
<1>. USE DEF ExplodeAt
<1>3. /\ Linked["_explode"] = 2..3
      /\ Registered["_explode"] = {}
      /\ Vacancies["_explode"] = 1..3
      /\ Due["_explode"] = {}
      /\ Early["_explode"] = 1..3
      /\ Bare["_explode"] = 1..3
  BY DEF Linked, Registered, Vacancies, Due, Early, Bare
<1>4. Timely("_explode", i, k)
  BY SMTT(30), <1>2, <1>3 DEF Timely, Several, Subjects, Topics, Texts, Bad
<1>5. Founded("_explode", i, k)
  BY SMTT(30), <1>2, <1>3
     DEF Founded, Several, LastSubject, Replaced, Reachable, Bad
<1>6. ~Branches(i, once)
  BY <1>2 DEF Branches
<1>7. GoesOn(i, once) => i.op # "jump"
  BY DEF GoesOn
<1>8. ASSUME NEW l,
             GoesOn(i, once) /\ l = k + 1
      PROVE  LeadsTo("_explode", once, k, l)
  <2>1. l \in 1..3 /\ (l = k + 1 => i.op # "jump")
    BY <1>2, <1>6, <1>7, <1>8
  <2>2. l = k + 1
    BY <1>8
  <2>3. Leads("_explode", once, i, k, l)
    BY SMTT(30), <1>2, <1>3, <1>6, <2>1, <2>2 DEF Leads, Several, Branches, GoesOn
  <2>4. Settles("_explode", once, i, k, l)
    BY SMTT(30), <1>2, <1>3, <1>6, <2>1, <2>2
       DEF Settles, Several, Reachable, OneChannel, Branches, GoesOn
  <2>5. ASSUME NEW j, l \in 1..2, j = Script["_explode"][l]
        PROVE  Before("_explode", i, k, j, l) /\ Precedes("_explode", i, k, j, l)
    <3>1. ExplodeAt(l, j)
      BY <1>2, <2>5, ExplodeReads
    <3>2. Before("_explode", i, k, j, l)
      BY SMTT(60), <1>2, <1>3, <1>6, <2>1, <2>2, <3>1
         DEF Before, Several, Branches, GoesOn
    <3>3. Precedes("_explode", i, k, j, l)
      BY SMTT(60), <1>2, <1>3, <1>6, <2>1, <2>2, <3>1
         DEF Precedes, Several, Replaced, Bad, Branches, GoesOn
    <3>. QED  BY <3>2, <3>3
  <2>. QED  BY <1>1, <1>2, <2>3, <2>4, <2>5 DEF LeadsTo
<1>. QED  BY <1>1, <1>4, <1>5, <1>6, <1>8 DEF Carries

LEMMA ExpectNotificationsCarries ==
    ASSUME NEW once \in BOOLEAN,
           NEW k \in 1..Len(Script["_expect_notifications"])
    PROVE  Carries("_expect_notifications", once, k)
<1>1. PICK i : i = Script["_expect_notifications"][k]
  OBVIOUS
<1>2. /\ Len(Script["_expect_notifications"]) = 15 /\ k \in 1..15
      /\ ExpectNotificationsAt(k, i)
  BY <1>1, ExpectNotificationsReads
<1>. USE DEF ExpectNotificationsAt
<1>3. /\ Linked["_expect_notifications"] = 2..15
      /\ Registered["_expect_notifications"] = 5..6
      /\ Vacancies["_expect_notifications"] = 1..2
      /\ Due["_expect_notifications"] = 9..10
      /\ Early["_expect_notifications"] = {}
      /\ Bare["_expect_notifications"] = {}
  BY DEF Linked, Registered, Vacancies, Due, Early, Bare
<1>4. Timely("_expect_notifications", i, k)
  BY SMTT(30), <1>2, <1>3 DEF Timely, Several, Subjects, Topics, Texts, Bad
<1>5. Founded("_expect_notifications", i, k)
  BY SMTT(30), <1>2, <1>3
     DEF Founded, Several, LastSubject, Replaced, Reachable, Bad
<1>6. Branches(i, once) => i.arg \in {3, 7, 12, 15} /\ i.op \in {"for", "if_notif", "jump"}
  BY <1>2 DEF Branches
<1>7. GoesOn(i, once) => i.op # "jump"
  BY DEF GoesOn
<1>8. ASSUME NEW l,
             \/ GoesOn(i, once) /\ l = k + 1
             \/ Branches(i, once) /\ l = i.arg
      PROVE  LeadsTo("_expect_notifications", once, k, l)
  <2>1. l \in 1..16 /\ (l = k + 1 => i.op # "jump")
    BY <1>2, <1>6, <1>7, <1>8
  <2>2. \/ l = k + 1 /\ GoesOn(i, once)
        \/ Branches(i, once) /\ l = i.arg
    BY <1>8
  <2>3. Leads("_expect_notifications", once, i, k, l)
    BY SMTT(30), <1>2, <1>3, <1>6, <2>1, <2>2 DEF Leads, Several, Branches, GoesOn
  <2>4. Settles("_expect_notifications", once, i, k, l)
    BY SMTT(30), <1>2, <1>3, <1>6, <2>1, <2>2
       DEF Settles, Several, Reachable, OneChannel, Branches, GoesOn
  <2>5. ASSUME NEW j, l \in 1..15, j = Script["_expect_notifications"][l]
        PROVE  Before("_expect_notifications", i, k, j, l) /\ Precedes("_expect_notifications", i, k, j, l)
    <3>1. ExpectNotificationsAt(l, j)
      BY <1>2, <2>5, ExpectNotificationsReads
    <3>2. Before("_expect_notifications", i, k, j, l)
      BY SMTT(60), <1>2, <1>3, <1>6, <2>1, <2>2, <3>1
         DEF Before, Several, Branches, GoesOn
    <3>3. Precedes("_expect_notifications", i, k, j, l)
      BY SMTT(60), <1>2, <1>3, <1>6, <2>1, <2>2, <3>1
         DEF Precedes, Several, Replaced, Bad, Branches, GoesOn
    <3>. QED  BY <3>2, <3>3
  <2>. QED  BY <1>1, <1>2, <2>3, <2>4, <2>5 DEF LeadsTo
<1>. QED  BY <1>1, <1>4, <1>5, <1>6, <1>8 DEF Carries

LEMMA ScriptsBeginAndEnd ==
    ASSUME NEW kind \in DOMAIN Script, NEW once \in BOOLEAN
    PROVE  Begins(kind) /\ Ends(kind, once)
<1>1. CASE kind = "basic"
  <2>1. Len(Script[kind]) = 14
    BY <1>1, ScriptsAreSequences, BasicReads
  <2>2. /\ Registered[kind] = 4..14
        /\ Vacancies[kind] = (1..4) \cup (13..15)
        /\ Due[kind] = 9..12
        /\ Early[kind] = 1..3
        /\ Bare[kind] = (1..3) \cup (14..15)
    BY <1>1 DEF Registered, Vacancies, Due, Early, Bare
  <2>. QED  BY <1>1, <2>1, <2>2 DEF Begins, Ends, Reachable, OneChannel
<1>2. CASE kind = "basic_topic"
  <2>1. Len(Script[kind]) = 21
    BY <1>2, ScriptsAreSequences, BasicTopicReads
  <2>2. /\ Registered[kind] = 4..21
        /\ Vacancies[kind] = (1..5) \cup (20..22)
        /\ Due[kind] = 16..19
        /\ Early[kind] = 1..3
        /\ Bare[kind] = (1..3) \cup (21..22)
    BY <1>2 DEF Registered, Vacancies, Due, Early, Bare
  <2>. QED  BY <1>2, <2>1, <2>2 DEF Begins, Ends, Reachable, OneChannel
<1>3. CASE kind = "connect_and_idle_forever"
  <2>1. Len(Script[kind]) = 4
    BY <1>3, ScriptsAreSequences, ConnectAndIdleForeverReads
  <2>2. /\ Registered[kind] = {}
        /\ Vacancies[kind] = 1..5
        /\ Due[kind] = {}
        /\ Early[kind] = 1..5
        /\ Bare[kind] = 1..5
    BY <1>3 DEF Registered, Vacancies, Due, Early, Bare
  <2>. QED  BY <1>3, <2>1, <2>2 DEF Begins, Ends, Reachable, OneChannel
<1>4. CASE kind = "reconnect_forever"
  <2>1. Len(Script[kind]) = 18
    BY <1>4, ScriptsAreSequences, ReconnectForeverReads
  <2>2. /\ Registered[kind] = 4..18
        /\ Vacancies[kind] = (1..4) \cup (10..19)
        /\ Due[kind] = 8..9
        /\ Early[kind] = 1..3
        /\ Bare[kind] = (1..3) \cup (18..19)
    BY <1>4 DEF Registered, Vacancies, Due, Early, Bare
  <2>. QED  BY <1>4, <2>1, <2>2 DEF Begins, Ends, Reachable, OneChannel
<1>5. CASE kind = "register_forever"
  <2>1. Len(Script[kind]) = 7
    BY <1>5, ScriptsAreSequences, RegisterForeverReads
  <2>2. /\ Registered[kind] = 4..7
        /\ Vacancies[kind] = 1..8
        /\ Due[kind] = {}
        /\ Early[kind] = 1..3
        /\ Bare[kind] = (1..3) \cup (7..8)
    BY <1>5 DEF Registered, Vacancies, Due, Early, Bare
  <2>. QED  BY <1>5, <2>1, <2>2 DEF Begins, Ends, Reachable, OneChannel
<1>6. CASE kind = "notification_forever"
  <2>1. Len(Script[kind]) = 14
    BY <1>6, ScriptsAreSequences, NotificationForeverReads
  <2>2. /\ Registered[kind] = 4..14
        /\ Vacancies[kind] = (1..4) \cup (11..15)
        /\ Due[kind] = 8..10
        /\ Early[kind] = 1..3
        /\ Bare[kind] = (1..3) \cup (14..15)
    BY <1>6 DEF Registered, Vacancies, Due, Early, Bare
  <2>. QED  BY <1>6, <2>1, <2>2 DEF Begins, Ends, Reachable, OneChannel
<1>7. CASE kind = "notification_forever_stored"
  <2>1. Len(Script[kind]) = 21
    BY <1>7, ScriptsAreSequences, NotificationForeverStoredReads
  <2>2. /\ Registered[kind] = 4..21
        /\ Vacancies[kind] = (1..4) \cup (16..22)
        /\ Due[kind] = {14}
        /\ Early[kind] = 1..3
        /\ Bare[kind] = (1..3) \cup (21..22)
    BY <1>7 DEF Registered, Vacancies, Due, Early, Bare
  <2>. QED  BY <1>7, <2>1, <2>2 DEF Begins, Ends, Reachable, OneChannel
<1>8. CASE kind = "notification_forever_direct_store"
  <2>1. Len(Script[kind]) = 18
    BY <1>8, ScriptsAreSequences, NotificationForeverDirectStoreReads
  <2>2. /\ Registered[kind] = 4..18
        /\ Vacancies[kind] = (1..3) \cup (16..19)
        /\ Due[kind] = (7..8) \cup (14..15)
        /\ Early[kind] = 1..3
        /\ Bare[kind] = (1..3) \cup (18..19)
    BY <1>8 DEF Registered, Vacancies, Due, Early, Bare
  <2>. QED  BY <1>8, <2>1, <2>2 DEF Begins, Ends, Reachable, OneChannel
<1>9. CASE kind = "notification_forever_unsubscribed"
  <2>1. Len(Script[kind]) = 14
    BY <1>9, ScriptsAreSequences, NotificationForeverUnsubscribedReads
  <2>2. /\ Registered[kind] = 4..14
        /\ Vacancies[kind] = (1..4) \cup (11..15)
        /\ Due[kind] = 8..10
        /\ Early[kind] = 1..3
        /\ Bare[kind] = (1..3) \cup (14..15)
    BY <1>9 DEF Registered, Vacancies, Due, Early, Bare
  <2>. QED  BY <1>9, <2>1, <2>2 DEF Begins, Ends, Reachable, OneChannel
<1>10. CASE kind = "notification_forever_bad_tokens"
  <2>1. Len(Script[kind]) = 8
    BY <1>10, ScriptsAreSequences, NotificationForeverBadTokensReads
  <2>2. /\ Registered[kind] = 4..8
        /\ Vacancies[kind] = 1..9
        /\ Due[kind] = {}
        /\ Early[kind] = 1..3
        /\ Bare[kind] = 1..3
    BY <1>10 DEF Registered, Vacancies, Due, Early, Bare
  <2>. QED  BY <1>10, <2>1, <2>2 DEF Begins, Ends, Reachable, OneChannel
<1>11. CASE kind = "notification_forever_bad_endpoints"
  <2>1. Len(Script[kind]) = 7
    BY <1>11, ScriptsAreSequences, NotificationForeverBadEndpointsReads
  <2>2. /\ Registered[kind] = {}
        /\ Vacancies[kind] = 1..8
        /\ Due[kind] = {}
        /\ Early[kind] = 1..8
        /\ Bare[kind] = 1..8
    BY <1>11 DEF Registered, Vacancies, Due, Early, Bare
  <2>. QED  BY <1>11, <2>1, <2>2 DEF Begins, Ends, Reachable, OneChannel
<1>12. CASE kind = "_explode"
  <2>1. Len(Script[kind]) = 2
    BY <1>12, ScriptsAreSequences, ExplodeReads
  <2>2. /\ Registered[kind] = {}
        /\ Vacancies[kind] = 1..3
        /\ Due[kind] = {}
        /\ Early[kind] = 1..3
        /\ Bare[kind] = 1..3
    BY <1>12 DEF Registered, Vacancies, Due, Early, Bare
  <2>. QED  BY <1>12, <2>1, <2>2 DEF Begins, Ends, Reachable, OneChannel
<1>13. CASE kind = "_expect_notifications"
  <2>1. Len(Script[kind]) = 15
    BY <1>13, ScriptsAreSequences, ExpectNotificationsReads
  <2>2. /\ Registered[kind] = 5..6
        /\ Vacancies[kind] = 1..2
        /\ Due[kind] = 9..10
        /\ Early[kind] = {}
        /\ Bare[kind] = {}
    BY <1>13 DEF Registered, Vacancies, Due, Early, Bare
  <2>. QED  BY <1>13, <2>1, <2>2 DEF Begins, Ends, Reachable, OneChannel
<1>. QED
  BY Kinds, <1>1, <1>2, <1>3, <1>4, <1>5, <1>6, <1>7, <1>8, <1>9, <1>10, <1>11, <1>12, <1>13

\* In each script of scenarios.py each instruction comes when what is on its way
\* allows it, and finds what it looks into; what the tables say of the places it
\* may lead to is what it makes of what they say of its own: nothing is on its
\* way once all is acknowledged, a scenario disconnects only where nothing is
\* left in its processor, and sends only where its channel is registered.
THEOREM ScriptsCarryWhatIsOnItsWay == ScriptsCarry
<1>1. ASSUME NEW kind \in DOMAIN Script, NEW once \in BOOLEAN,
             NEW k \in 1..Len(Script[kind])
      PROVE  Carries(kind, once, k)
  <2>1. CASE kind = "basic"
    BY <2>1, <1>1, BasicCarries
  <2>2. CASE kind = "basic_topic"
    BY <2>2, <1>1, BasicTopicCarries
  <2>3. CASE kind = "connect_and_idle_forever"
    BY <2>3, <1>1, ConnectAndIdleForeverCarries
  <2>4. CASE kind = "reconnect_forever"
    BY <2>4, <1>1, ReconnectForeverCarries
  <2>5. CASE kind = "register_forever"
    BY <2>5, <1>1, RegisterForeverCarries
  <2>6. CASE kind = "notification_forever"
    BY <2>6, <1>1, NotificationForeverCarries
  <2>7. CASE kind = "notification_forever_stored"
    BY <2>7, <1>1, NotificationForeverStoredCarries
  <2>8. CASE kind = "notification_forever_direct_store"
    BY <2>8, <1>1, NotificationForeverDirectStoreCarries
  <2>9. CASE kind = "notification_forever_unsubscribed"
    BY <2>9, <1>1, NotificationForeverUnsubscribedCarries
  <2>10. CASE kind = "notification_forever_bad_tokens"
    BY <2>10, <1>1, NotificationForeverBadTokensCarries
  <2>11. CASE kind = "notification_forever_bad_endpoints"
    BY <2>11, <1>1, NotificationForeverBadEndpointsCarries
  <2>12. CASE kind = "_explode"
    BY <2>12, <1>1, ExplodeCarries
  <2>13. CASE kind = "_expect_notifications"
    BY <2>13, <1>1, ExpectNotificationsCarries
  <2>. QED
    BY Kinds, <2>1, <2>2, <2>3, <2>4, <2>5, <2>6, <2>7, <2>8, <2>9, <2>10, <2>11, <2>12, <2>13
<1>. QED  BY <1>1, ScriptsBeginAndEnd DEF ScriptsCarry
=============================================================================
