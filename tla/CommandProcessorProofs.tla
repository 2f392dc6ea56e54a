------------------------ MODULE CommandProcessorProofs ------------------------
(***************************************************************************)
(* First, for every set of processors, every finite set of connections and *)
(* every choice of faults: the registry of Harness.tla is exact, events    *)
(* reach their owner, and no connection is opened that nobody waits for.   *)
(*                                                                         *)
(* Then, for any number of processors, connections, channels and timers,   *)
(* any faults and any scenario: CommandProcessor.tla uses the harness as   *)
(* Harness.tla says, a processor's client is its own, what it expects is   *)
(* timed and not stored already, and the harness's count is kept.          *)
(*                                                                         *)
(* Last, for any scenarios that keep to the commands: as long as nothing   *)
(* goes wrong but handshakes and POSTs, CommandProcessor.tla implements    *)
(* Conversation.tla.  The code has nothing that ties an answer to its      *)
(* question: a result goes to whatever the processor's topmost generator   *)
(* is at the time.  That the answers are right rests on there being at     *)
(* most one thing outstanding for a processor, of the kind that its last   *)
(* command asked for: a place among the waiters, a callLater, a POST, a    *)
(* wait, an expectation, a closing connection or a reply that is owed.     *)
(***************************************************************************)
EXTENDS CommandProcessor, FiniteSetTheorems, TLAPS, WellFoundedInduction

-----------------------------------------------------------------------------
(* The connection pool: theorems about HarnessSpec. *)

Conn == [state : States, processor : Procs \cup {None}]

\* The connections of w in their websocket handshake; InState("handshake") for
\* the connections of the specification.
Handshaking(w) == {c \in Conns : w[c].state = "handshake"}

\* How one connection's change of state changes the number in handshake.
LEMMA HandshakesAfterUpdate ==
    ASSUME NEW w \in [Conns -> Conn], NEW c \in Conns, NEW x \in Conn
    PROVE  LET v == [w EXCEPT ![c] = x]
               n == Cardinality(Handshaking(w))
               m == Cardinality(Handshaking(v))
               was == w[c].state = "handshake"
               is == x.state = "handshake"
           IN  /\ n \in Nat /\ m \in Nat
               /\ (was <=> is) => m = n
               /\ (was /\ ~is) => m = n - 1 /\ n > 0
               /\ (~was /\ is) => m = n + 1
<1> DEFINE v == [w EXCEPT ![c] = x]
<1> DEFINE was == w[c].state = "handshake"
<1> DEFINE is == x.state = "handshake"
<1>1. IsFiniteSet(Handshaking(w)) /\ IsFiniteSet(Handshaking(v))
  BY FS_Subset, ConnsFinite DEF Handshaking
<1>2. Cardinality(Handshaking(w)) \in Nat /\ Cardinality(Handshaking(v)) \in Nat
  BY <1>1, FS_CardinalityType
<1>3. \A d \in Conns : v[d] = IF d = c THEN x ELSE w[d]
  OBVIOUS
<1>4. CASE was <=> is
  <2>1. Handshaking(v) = Handshaking(w)
    BY <1>3, <1>4 DEF Handshaking
  <2> QED
    BY <1>2, <1>4, <2>1
<1>5. CASE was /\ ~is
  <2>1. Handshaking(v) = Handshaking(w) \ {c} /\ c \in Handshaking(w)
    BY <1>3, <1>5 DEF Handshaking
  <2>2. Cardinality(Handshaking(v)) = Cardinality(Handshaking(w)) - 1
    BY <1>1, <2>1, FS_RemoveElement
  <2> QED
    BY <1>2, <1>5, <2>2
<1>6. CASE ~was /\ is
  <2>1. Handshaking(v) = Handshaking(w) \cup {c} /\ c \notin Handshaking(w)
    BY <1>3, <1>6 DEF Handshaking
  <2>2. Cardinality(Handshaking(v)) = Cardinality(Handshaking(w)) + 1
    BY <1>1, <2>1, FS_AddElement
  <2> QED
    BY <1>2, <1>6, <2>2
<1> QED
  BY <1>4, <1>5, <1>6

-----------------------------------------------------------------------------
(* The inductive invariant. *)

\* ConnectionsAreWaitedFor is inductive only together with RegistryExact: it
\* is because a connection that opened stays registered until it closes that
\* remove_client's retry replaces none but failed handshakes, one for one.
HarnessInv ==
    /\ HarnessTypeOK
    /\ RegistryExact
    /\ EventsReachTheOwner
    /\ ConnectionsAreWaitedFor
    /\ WaitersHaveConnections

LEMMA HarnessInitInv == HarnessInit => HarnessInv
<1> SUFFICES ASSUME HarnessInit PROVE HarnessInv
  OBVIOUS
<1>1. HarnessTypeOK
  BY DEF HarnessInit, HarnessTypeOK, Unused, States
<1>2. RegistryExact /\ EventsReachTheOwner
  BY DEF HarnessInit, RegistryExact, EventsReachTheOwner, Unused
<1>3. InState("handshake") = {}
  BY DEF HarnessInit, InState, Unused
<1>4. Opening = 0 /\ Len(waiters) = 0
  BY <1>3, FS_EmptySet DEF HarnessInit, Opening
<1> QED
  BY <1>1, <1>2, <1>4 DEF HarnessInv, ConnectionsAreWaitedFor, WaitersHaveConnections

\* One when connection state st counts as opening.
Counts(st) == IF st = "handshake" THEN 1 ELSE 0

\* How Opening changes in a step that gives connection c the state st.
OpeningMoves(c, st) ==
    /\ Opening \in Nat
    /\ Opening' = Opening + (attempts' - attempts) + Counts(st) - Counts(ws[c].state)

LEMMA OpeningAfterUpdate ==
    ASSUME HarnessTypeOK, NEW c \in Conns, NEW x \in Conn,
           ws' = [ws EXCEPT ![c] = x], attempts' \in Nat
    PROVE  OpeningMoves(c, x.state)
<1>1. ws \in [Conns -> Conn] /\ attempts \in Nat
  BY DEF HarnessTypeOK, Conn
<1>2. InState("handshake") = Handshaking(ws)
  BY DEF InState, Handshaking
<1>3. InState("handshake")' = Handshaking([ws EXCEPT ![c] = x])
  BY DEF InState, Handshaking
<1> DEFINE n == Cardinality(Handshaking(ws))
<1> DEFINE m == Cardinality(Handshaking([ws EXCEPT ![c] = x]))
<1>4. Opening = attempts + n /\ Opening' = attempts' + m
  BY <1>2, <1>3 DEF Opening
<1>5. /\ n \in Nat /\ m \in Nat
      /\ (ws[c].state = "handshake" <=> x.state = "handshake") => m = n
      /\ (ws[c].state = "handshake" /\ x.state # "handshake") => m = n - 1
      /\ (ws[c].state # "handshake" /\ x.state = "handshake") => m = n + 1
  BY <1>1, HandshakesAfterUpdate
<1> HIDE DEF n, m
<1> QED
  BY <1>1, <1>4, <1>5 DEF OpeningMoves, Counts

-----------------------------------------------------------------------------
(* One lemma per action. *)

LEMMA ConnectInv ==
    ASSUME HarnessInv, NEW p \in Procs, Connect(p)
    PROVE  HarnessInv'
<1> USE DEF HarnessInv
<1>1. HarnessTypeOK'
  BY DEF HarnessTypeOK, Connect
<1>2. RegistryExact' /\ EventsReachTheOwner'
  BY DEF RegistryExact, EventsReachTheOwner, Connect
<1>3. InState("handshake")' = InState("handshake")
  BY DEF InState, Connect
<1>4. Cardinality(InState("handshake")) \in Nat
  BY FS_Subset, FS_CardinalityType, ConnsFinite DEF InState
<1>5. Len(waiters') = Len(waiters) + 1 /\ Len(waiters) \in Nat
  BY DEF HarnessTypeOK, Connect
<1>6. attempts' = attempts + 1 /\ attempts \in Nat
  BY DEF HarnessTypeOK, Connect
<1>7. Opening' = Opening + 1 /\ Opening \in Nat
  BY <1>3, <1>4, <1>6 DEF Opening
<1> QED
  BY <1>1, <1>2, <1>5, <1>7 DEF ConnectionsAreWaitedFor, WaitersHaveConnections

LEMMA ConnectFailedInv ==
    ASSUME HarnessInv, ConnectFailed
    PROVE  HarnessInv'
<1> USE DEF HarnessInv
<1>1. HarnessTypeOK'
  BY DEF HarnessTypeOK, ConnectFailed
<1>2. RegistryExact' /\ EventsReachTheOwner'
  BY DEF RegistryExact, EventsReachTheOwner, ConnectFailed
<1>3. InState("handshake")' = InState("handshake")
  BY DEF InState, ConnectFailed
<1>4. Cardinality(InState("handshake")) \in Nat
  BY FS_Subset, FS_CardinalityType, ConnsFinite DEF InState
<1>5. Len(waiters') = Len(waiters) /\ Len(waiters) \in Nat
  BY DEF HarnessTypeOK, ConnectFailed
<1>6. Opening' = Opening - 1 /\ Opening \in Nat
  BY <1>3, <1>4 DEF Opening, ConnectFailed, HarnessTypeOK
<1> QED
  BY <1>1, <1>2, <1>5, <1>6
     DEF ConnectionsAreWaitedFor, WaitersHaveConnections, ConnectFailed

LEMMA TcpConnectedInv ==
    ASSUME HarnessInv, NEW c \in Conns, TcpConnected(c)
    PROVE  HarnessInv'
<1> USE DEF HarnessInv
<1> DEFINE x == [state |-> "handshake", processor |-> None]
<1>1. x \in Conn /\ ws' = [ws EXCEPT ![c] = x] /\ attempts' = attempts - 1
  BY DEF TcpConnected, Conn, States
<1>2. HarnessTypeOK'
  BY <1>1 DEF HarnessTypeOK, TcpConnected, Conn
<1>3. RegistryExact' /\ EventsReachTheOwner'
  BY DEF RegistryExact, EventsReachTheOwner, TcpConnected, HarnessTypeOK
<1>4. ws[c].state # "handshake" /\ x.state = "handshake"
      /\ attempts \in Nat /\ attempts' \in Nat
  BY <1>2 DEF TcpConnected, HarnessTypeOK
<1> HIDE DEF x
<1>5. OpeningMoves(c, x.state)
  BY <1>1, <1>4, OpeningAfterUpdate
<1>6. Opening' = Opening /\ Opening \in Nat
  BY <1>1, <1>4, <1>5 DEF OpeningMoves, Counts
<1> QED
  BY <1>2, <1>3, <1>6
     DEF ConnectionsAreWaitedFor, WaitersHaveConnections, TcpConnected

\* Who is in its handshake is counted as opening, so somebody waits for it.
LEMMA SomebodyWaits ==
    ASSUME HarnessInv, NEW c \in Conns, ws[c].state = "handshake"
    PROVE  waiters # <<>>
<1>1. IsFiniteSet(InState("handshake")) /\ c \in InState("handshake")
  BY FS_Subset, ConnsFinite DEF InState
<1>2. Cardinality(InState("handshake")) \in Nat /\ Cardinality(InState("handshake")) # 0
  BY <1>1, FS_CardinalityType, FS_EmptySet
<1>3. Opening > 0
  BY <1>2 DEF Opening, HarnessInv, HarnessTypeOK
<1> QED
  BY <1>2, <1>3 DEF HarnessInv, HarnessTypeOK, ConnectionsAreWaitedFor, Opening

LEMMA AddClientInv ==
    ASSUME HarnessInv, NEW c \in Conns, AddClient(c)
    PROVE  HarnessInv'
<1> USE DEF HarnessInv
<1>1. ws[c].state = "handshake" /\ waiters # <<>> /\ Assign(c)
  BY SomebodyWaits DEF AddClient
<1>2. Head(waiters) \in Procs /\ Tail(waiters) \in Seq(Procs)
      /\ Len(waiters) \in Nat /\ Len(Tail(waiters)) = Len(waiters) - 1
  BY <1>1 DEF HarnessTypeOK
<1> DEFINE x == [state |-> "open", processor |-> Head(waiters)]
<1>3. x \in Conn /\ ws' = [ws EXCEPT ![c] = x] /\ attempts' = attempts
      /\ waiters' = Tail(waiters)
  BY <1>1, <1>2 DEF Assign, Conn, States
<1>4. HarnessTypeOK'
  BY <1>1, <1>2, <1>3 DEF HarnessTypeOK, Assign, Conn
<1>5. RegistryExact' /\ EventsReachTheOwner'
  BY <1>1, <1>2, NoneIsNobody DEF RegistryExact, EventsReachTheOwner, Assign, HarnessTypeOK
<1>6. x.state # "handshake" /\ attempts \in Nat /\ attempts' \in Nat
  BY <1>4 DEF HarnessTypeOK
<1> HIDE DEF x
<1>7. OpeningMoves(c, x.state)
  BY <1>3, <1>6, OpeningAfterUpdate
<1>8. Opening' = Opening - 1 /\ Opening \in Nat
  BY <1>1, <1>3, <1>6, <1>7 DEF OpeningMoves, Counts
<1>9. Len(waiters') = Len(waiters) - 1 /\ Len(waiters) \in Nat
  BY <1>2, <1>3
<1> QED
  BY <1>4, <1>5, <1>8, <1>9
     DEF ConnectionsAreWaitedFor, WaitersHaveConnections

\* A connection that opened is registered and replaced by none; one that did
\* not is in its handshake, so that somebody waits for it and one replaces it.
LEMMA RemoveClientInv ==
    ASSUME HarnessInv, NEW c \in Conns, RemoveClient(c)
    PROVE  HarnessInv'
<1> USE DEF HarnessInv
<1>1. Unused \in Conn /\ ws' = [ws EXCEPT ![c] = Unused]
      /\ waiters' = waiters /\ wsClients' = [wsClients EXCEPT ![c] = None]
  BY DEF RemoveClient, Conn, States, Unused, Unregistered
<1>2. /\ attempts \in Nat /\ attempts' \in Nat
      /\ attempts' = attempts + (IF Reconnects(c) THEN 1 ELSE 0)
  BY DEF RemoveClient, AttemptsAfter, HarnessTypeOK
<1>3. HarnessTypeOK'
  BY <1>1, <1>2 DEF HarnessTypeOK, Conn
<1>4. RegistryExact' /\ EventsReachTheOwner'
  BY <1>1 DEF RegistryExact, EventsReachTheOwner, HarnessTypeOK, Unused
<1>5. Reconnects(c) <=> ws[c].state = "handshake"
  <2>1. CASE ws[c].state = "handshake"
    BY <2>1, SomebodyWaits DEF Reconnects, RegistryExact
  <2>2. CASE ws[c].state # "handshake"
    BY <2>2 DEF Reconnects, RegistryExact, RemoveClient, MayClose
  <2> QED
    BY <2>1, <2>2
<1>6. Unused.state # "handshake"
  BY DEF Unused
<1>7. OpeningMoves(c, Unused.state)
  BY <1>1, <1>2, OpeningAfterUpdate
<1>8. Opening' = Opening /\ Opening \in Nat
  BY <1>2, <1>5, <1>6, <1>7 DEF OpeningMoves, Counts
<1> QED
  BY <1>1, <1>3, <1>4, <1>8
     DEF ConnectionsAreWaitedFor, WaitersHaveConnections

\* A connection whose state changes, if at all, from open to closing, and that
\* keeps or loses its processor.
LEMMA ClosingInv ==
    ASSUME HarnessInv, NEW c \in Conns, NEW x \in Conn,
           x.state = Closing(ws[c]).state,
           x.processor \in {None, ws[c].processor},
           ws' = [ws EXCEPT ![c] = x],
           UNCHANGED <<waiters, attempts, wsClients>>
    PROVE  HarnessInv'
<1> USE DEF HarnessInv
<1>1. attempts \in Nat /\ attempts' = attempts
  BY DEF HarnessTypeOK
<1>2. HarnessTypeOK'
  BY DEF HarnessTypeOK, Conn
<1>3. \/ x.state = ws[c].state
      \/ ws[c].state = "open" /\ x.state = "closing"
  BY DEF Closing, HarnessTypeOK
<1>4. RegistryExact' /\ EventsReachTheOwner'
  BY <1>3 DEF RegistryExact, EventsReachTheOwner, HarnessTypeOK
<1>5. OpeningMoves(c, x.state)
  BY <1>1, OpeningAfterUpdate
<1>6. Opening' = Opening /\ Opening \in Nat
  BY <1>1, <1>3, <1>5 DEF OpeningMoves, Counts
<1> QED
  BY <1>2, <1>4, <1>6 DEF ConnectionsAreWaitedFor, WaitersHaveConnections

LEMMA SendCloseInv ==
    ASSUME HarnessInv, NEW c \in Conns, SendClose(c)
    PROVE  HarnessInv'
<1> DEFINE x == Closing(ws[c])
<1>1. x \in Conn /\ x.processor = ws[c].processor
  BY DEF HarnessInv, HarnessTypeOK, Closing, Conn, States
<1>2. ws' = [ws EXCEPT ![c] = x] /\ UNCHANGED <<waiters, attempts, wsClients>>
  BY DEF SendClose
<1> QED
  BY <1>1, <1>2, ClosingInv

LEMMA DetachInv ==
    ASSUME HarnessInv, NEW c \in Conns, Detach(c)
    PROVE  HarnessInv'
<1> DEFINE x == [Closing(ws[c]) EXCEPT !.processor = None]
<1>1. x \in Conn /\ x.state = Closing(ws[c]).state /\ x.processor = None
  BY DEF HarnessInv, HarnessTypeOK, Closing, Conn, States
<1>2. ws' = [ws EXCEPT ![c] = x] /\ UNCHANGED <<waiters, attempts, wsClients>>
  BY DEF Detach
<1> HIDE DEF x
<1> QED
  BY <1>1, <1>2, ClosingInv

-----------------------------------------------------------------------------
(* The theorems. *)

LEMMA HarnessNextInv == HarnessInv /\ [HarnessNext]_harnessVars => HarnessInv'
<1> SUFFICES ASSUME HarnessInv, [HarnessNext]_harnessVars PROVE HarnessInv'
  OBVIOUS
<1>1. ASSUME NEW p \in Procs, Connect(p) PROVE HarnessInv'
  BY <1>1, ConnectInv
<1>2. ASSUME NEW c \in Conns, TcpConnected(c) PROVE HarnessInv'
  BY <1>2, TcpConnectedInv
<1>3. ASSUME NEW c \in Conns, AddClient(c) PROVE HarnessInv'
  BY <1>3, AddClientInv
<1>4. ASSUME NEW c \in Conns, RemoveClient(c) PROVE HarnessInv'
  BY <1>4, RemoveClientInv
<1>5. ASSUME NEW c \in Conns, SendClose(c) PROVE HarnessInv'
  BY <1>5, SendCloseInv
<1>6. ASSUME NEW c \in Conns, Detach(c) PROVE HarnessInv'
  BY <1>6, DetachInv
<1>7. CASE ConnectFailed
  BY <1>7, ConnectFailedInv
<1>8. CASE UNCHANGED harnessVars
  BY <1>8 DEF harnessVars, HarnessInv, HarnessTypeOK, RegistryExact,
       EventsReachTheOwner, ConnectionsAreWaitedFor, WaitersHaveConnections,
       Opening, InState
<1> QED
  BY <1>1, <1>2, <1>3, <1>4, <1>5, <1>6, <1>7, <1>8 DEF HarnessNext

\* HarnessInv holds in every state of the harness.
THEOREM HarnessIsCorrect == HarnessSpec => []HarnessInv
<1>1. HarnessInit => HarnessInv
  BY HarnessInitInv
<1>2. HarnessInv /\ [HarnessNext]_harnessVars => HarnessInv'
  BY HarnessNextInv
<1> QED
  BY <1>1, <1>2, PTL DEF HarnessSpec

\* The harness's variables keep their types (RunnerHarness.__init__).
THEOREM HarnessIsTyped == HarnessSpec => []HarnessTypeOK
<1>1. HarnessInv => HarnessTypeOK
  BY DEF HarnessInv
<1> QED
  BY <1>1, HarnessIsCorrect, PTL

\* _ws_clients holds exactly the connections that opened and are not yet gone.
THEOREM RegistryIsExact == HarnessSpec => []RegistryExact
<1>1. HarnessInv => RegistryExact
  BY DEF HarnessInv
<1> QED
  BY <1>1, HarnessIsCorrect, PTL

\* No connection delivers an event to a processor it is not registered to.
THEOREM OwnersGetTheirEvents == HarnessSpec => []EventsReachTheOwner
<1>1. HarnessInv => EventsReachTheOwner
  BY DEF HarnessInv
<1> QED
  BY <1>1, HarnessIsCorrect, PTL

\* Whatever fails, no connection opens that no processor waits for: the
\* "Unnecessary open" branches of onOpen and add_client are never taken.
THEOREM NoUnnecessaryOpen == HarnessSpec => []ConnectionsAreWaitedFor
<1>1. HarnessInv => ConnectionsAreWaitedFor
  BY DEF HarnessInv
<1> QED
  BY <1>1, HarnessIsCorrect, PTL

\* Unless TCP connections are refused, every waiter has a connection on its
\* way, however many websocket handshakes fail.
THEOREM WaitersAreConnected == HarnessSpec => []WaitersHaveConnections
<1>1. HarnessInv => WaitersHaveConnections
  BY DEF HarnessInv
<1> QED
  BY <1>1, HarnessIsCorrect, PTL

-----------------------------------------------------------------------------
(* The processors: theorems about the composition. *)

Processor ==
    [depth : 0..MaxDepth, top : {"fresh", "suspended", "done"},
     asked : MoveKinds \cup {"start"},
     lastCommand : Commands \cup {"none"},
     expecting : SUBSET Channels, waiting : BOOLEAN, armed : BOOLEAN,
     connected : BOOLEAN, client : Conns \cup {None},
     notifications : Seq(Channels), timers : SUBSET Timers]

Calls == [op : {"nothing", "send", "throw", "handle"},
          p : Procs \cup {None}, what : Answers \cup {"exception"},
          arg : Conns \cup Channels \cup {None}]

Afters == [op : {"nothing", "handled", "timed out", "count"},
           p : Procs \cup {None}, what : Answers, arg : Conns \cup {None}]

-----------------------------------------------------------------------------
(* The inductive invariant. *)

\* What holds of a processor by itself.
Fits(v) ==
    /\ v.connected <=> v.client # None
    /\ v.expecting # {} => v.armed
    /\ Matching(v, v.expecting) = {}

\* Connection c is there, and it is p's.
Live(p, c) ==
    /\ c \in Conns
    /\ ws[c].state \in {"open", "closing"}
    /\ ws[c].processor = p
    /\ wsClients[c] = p

ProcsInv ==
    /\ vc \in [Procs -> Processor]
    /\ \A p \in Procs : Fits(vc[p])

\* What is outstanding for a processor; of one that was not started, nothing
\* is.  A generator that ended was the last one.
OutstandingInv ==
    /\ tries \in [Procs -> Nat]
    /\ soon \in [Procs -> Nat]
    /\ posts \in [Procs -> 0..MaxPosts]
    /\ removals \in [Procs -> 0..MaxRemovals]
    /\ \A p \in Procs :
          /\ soon[p] + vc[p].depth =< MaxSoon + MaxDepth
          /\ ~Born(p) =>
                vc[p] = Unborn /\ soon[p] = 0 /\ posts[p] = 0 /\ removals[p] = 0
          /\ vc[p].top = "done" => removals[p] > 0

BornInv ==
    /\ \A i \in 1..Len(waiters) : Born(waiters[i])
    /\ \A c \in Conns : wsClients[c] # None => Born(wsClients[c])

\* handle is called with a connection, or with the channel of a notification.
\* Of a connect the connection is live and nobody's client yet, of a disconnect
\* it is gone.
CallInv ==
    /\ call \in Calls
    /\ call.op = "nothing" => call = Nothing
    /\ call.op # "nothing" => call.p \in Procs /\ Born(call.p)
    /\ call.op = "handle" =>
          /\ after = Nothing
          /\ call.what \in Answers
          /\ call.what = "notification" => call.arg \in Channels
          /\ call.what # "notification" => call.arg \in Conns
          /\ call.what = "connect" =>
                Live(call.p, call.arg) /\ vc[call.p].client # call.arg
          /\ call.what = "disconnect" => ws[call.arg].state = "idle"

\* While an unexpected event waits to be delivered, its processor has no client.
AfterInv ==
    /\ after \in Afters
    /\ after.op = "nothing" => after = Nothing
    /\ after.op # "nothing" => after.p \in Procs /\ Born(after.p)
    /\ after.op = "handled" =>
          /\ after.what # "notification"
          /\ after.arg \in Conns
          /\ vc[after.p].client = None
          /\ after.what = "connect" => Live(after.p, after.arg)

\* p is about to be told that its client is gone.
Losing(p) ==
    /\ call.op = "handle" /\ call.what = "disconnect"
    /\ call.p = p /\ call.arg = vc[p].client

\* ClientIsLive, with the one handle that may find it otherwise singled out.
ClientsInv ==
    \A p \in Procs :
        vc[p].client # None => Live(p, vc[p].client) \/ Losing(p)

RepliesInv == replies \in [Conns -> Seq(Requests)]

\* The scenarios that are not over.
Alive == {p \in Procs : Born(p) /\ removals[p] = 0}

CountInv ==
    /\ processors \in Int
    /\ processors + ToCount =< Cardinality(Alive)

\* Everything but the counters.
CoreInv ==
    /\ HarnessInv /\ ProcsInv /\ BornInv /\ CallInv /\ AfterInv /\ ClientsInv

Inv == CoreInv /\ OutstandingInv /\ RepliesInv /\ CountInv

-----------------------------------------------------------------------------
(* Lemmas about the operators on processors. *)

LEMMA Bounds ==
    /\ MaxDepth \in Nat /\ MaxDepth > 0 /\ MaxRemovals \in Nat /\ MaxRemovals > 0
    /\ MaxSoon \in Nat /\ MaxPosts \in Nat /\ IsFiniteSet(Procs)
    /\ None \notin Procs /\ None \notin Conns
BY ConstantsFit, NoneIsNobody DEF ConstantsFit

LEMMA FreshFits ==
    /\ Fresh \in Processor /\ Fits(Fresh)
    /\ Fresh.depth = 1 /\ Fresh.top = "fresh" /\ Fresh.client = None
<1>1. <<>> \in Seq(Channels) /\ 1 \in 0..MaxDepth /\ Matching(Fresh, {}) = {}
  BY Bounds DEF Matching
<1>2. Fresh \in Processor
  BY <1>1 DEF Fresh, Processor
<1> QED
  BY <1>1, <1>2 DEF Fresh, Fits

LEMMA UnbornFits ==
    /\ Unborn \in Processor /\ Fits(Unborn)
    /\ Unborn.depth = 0 /\ Unborn.top = "fresh" /\ Unborn.client = None
    /\ Unborn.armed = FALSE
<1>1. 0 \in 0..MaxDepth /\ Matching(Unborn, {}) = {}
  BY Bounds DEF Matching
<1>2. Unborn \in Processor /\ Unborn.expecting = {} /\ Unborn.connected = FALSE
      /\ Unborn.depth = 0 /\ Unborn.top = "fresh" /\ Unborn.client = None
      /\ Unborn.armed = FALSE
  BY <1>1, FreshFits DEF Unborn, Fresh, Processor
<1> QED
  BY <1>1, <1>2 DEF Fits

\* Two processors that differ in nothing that Fits looks at.
Alike(v, w) ==
    /\ w.connected = v.connected /\ w.client = v.client
    /\ w.expecting = v.expecting /\ w.notifications = v.notifications
    /\ v.armed => w.armed

LEMMA AlikeFits ==
    ASSUME NEW v \in Processor, NEW w \in Processor, Fits(v), Alike(v, w)
    PROVE  Fits(w)
BY DEF Fits, Alike, Matching, Processor

LEMMA AskedFits ==
    ASSUME NEW p \in Procs, ProcsInv, NEW m \in Commands,
           NEW v, v = Asked(p, m)
    PROVE  /\ v \in Processor /\ Fits(v) /\ v.client = vc[p].client
           /\ v.depth = vc[p].depth /\ v.top = "suspended"
<1>1. vc[p] \in Processor /\ Fits(vc[p])
  BY DEF ProcsInv
<1>2. v \in Processor /\ Alike(vc[p], v) /\ v.depth = vc[p].depth
      /\ v.top = "suspended"
  BY <1>1 DEF Asked, Processor, MoveKinds, Alike
<1> QED
  BY <1>1, <1>2, AlikeFits DEF Alike

LEMMA NothingMatchesNothing ==
    ASSUME NEW v PROVE Matching(v, {}) = {}
BY DEF Matching

LEMMA DisconnectedFits ==
    ASSUME NEW v \in Processor, Fits(v), NEW w, w = Disconnected(v)
    PROVE  /\ w \in Processor /\ Fits(w) /\ w.client = None
           /\ w.depth = v.depth /\ w.top = v.top
<1>1. w \in Processor /\ w.client = None /\ ~w.connected
      /\ w.depth = v.depth /\ w.top = v.top
      /\ w.expecting = v.expecting /\ w.notifications = v.notifications
      /\ w.armed = v.armed
  BY DEF Disconnected, Processor
<1> QED
  BY <1>1 DEF Fits, Matching

\* Taking a stored notification leaves stored notifications.
LEMMA WithoutFirstType ==
    ASSUME NEW v \in Processor, NEW chs, Matching(v, chs) # {}
    PROVE  WithoutFirst(v, chs) \in Seq(Channels)
<1> DEFINE n == v.notifications
<1> DEFINE first(i) == i \in Matching(v, chs) /\ \A j \in Matching(v, chs) : i =< j
<1> DEFINE k == CHOOSE i \in Matching(v, chs) : \A j \in Matching(v, chs) : i =< j
<1>1. n \in Seq(Channels) /\ Len(n) \in Nat
  BY DEF Processor
<1>2. \E i \in Matching(v, chs) : \A j \in Matching(v, chs) : i =< j
  <2>1. Matching(v, chs) \subseteq Nat
    BY <1>1 DEF Matching
  <2>2. PICK i \in Matching(v, chs) :
           \A j \in Matching(v, chs) : <<j, i>> \notin OpToRel(<, Nat)
    BY <2>1, WFMin, NatLessThanWellFounded
  <2>3. \A j \in Matching(v, chs) : ~(j < i)
    BY <2>1, <2>2 DEF OpToRel
  <2> QED
    BY <2>1, <2>3
<1>3. k \in 1..Len(n)
  BY <1>1, <1>2 DEF Matching
<1> HIDE DEF k, n
<1>4. SubSeq(n, 1, k - 1) \in Seq(Channels) /\ SubSeq(n, k + 1, Len(n)) \in Seq(Channels)
  BY <1>1, <1>3
<1> QED
  BY <1>4 DEF WithoutFirst, k, n

-----------------------------------------------------------------------------
(* What a turn does with the harness, and what it leaves for later. *)

\* The harness's part of a turn that makes processor p go on: it connects, or a
\* connection is closed; one that is detached is nobody's client any more, and
\* is not the one a delayed connect is about.
Uses(p) ==
    \/ UNCHANGED harnessVars
    \/ Connect(p)
    \/ \E c \in Conns : SendClose(c)
    \/ \E c \in Conns :
          /\ Detach(c)
          /\ \A q \in Procs : vc'[q].client # c
          /\ (after'.op = "handled" /\ after'.what = "connect") => after'.arg # c

\* The turn ends, or enters p's scenario.
Proceeds(p) ==
    \/ call' = Nothing
    \/ call' = Throw(p)
    \/ \E a \in Answers : call' = Send(p, a)

\* What AfterInv says of the next state, but for the connections, which are
\* still as they were.
Afterwards ==
    /\ after' \in Afters
    /\ after'.op = "nothing" => after' = Nothing
    /\ after'.op # "nothing" => after'.p \in Procs /\ vc'[after'.p].depth > 0
    /\ after'.op = "handled" =>
          /\ after'.what # "notification"
          /\ after'.arg \in Conns
          /\ vc'[after'.p].client = None
          /\ after'.what = "connect" => Live(after'.p, after'.arg)

\* Likewise for ClientsInv.
ClientsStay ==
    \A q \in Procs : vc'[q].client # None => Live(q, vc'[q].client)

LEMMA UsesIsHarnessStep ==
    ASSUME NEW p \in Procs, Uses(p)
    PROVE  [HarnessNext]_harnessVars
BY DEF Uses, HarnessNext

\* A connection that is not detached stays live.
LEMMA LiveStays ==
    ASSUME HarnessInv, NEW p \in Procs, Uses(p), NEW q, NEW c, Live(q, c),
           \/ \E r \in Procs : vc'[r].client = c
           \/ after'.op = "handled" /\ after'.what = "connect" /\ after'.arg = c
    PROVE  Live(q, c)'
<1>1. ws \in [Conns -> [state : States, processor : Procs \cup {None}]]
  BY DEF HarnessInv, HarnessTypeOK
<1>2. CASE UNCHANGED harnessVars
  BY <1>2 DEF Live, harnessVars
<1>3. CASE Connect(p)
  BY <1>3 DEF Live, Connect
<1>4. ASSUME NEW d \in Conns, SendClose(d) PROVE Live(q, c)'
  BY <1>1, <1>4 DEF Live, SendClose, Closing
<1>5. ASSUME NEW d \in Conns, Detach(d), d # c PROVE Live(q, c)'
  BY <1>1, <1>5 DEF Live, Detach
<1> QED
  BY <1>2, <1>3, <1>4, <1>5 DEF Uses

LEMMA ProceedsInCalls ==
    ASSUME NEW p \in Procs, Proceeds(p)
    PROVE  /\ call' \in Calls
           /\ call'.op \in {"nothing", "send", "throw"}
           /\ call'.op = "nothing" => call' = Nothing
           /\ call'.op # "nothing" => call'.p = p
<1>1. CASE call' = Nothing
  BY <1>1 DEF Nothing, Frame, Calls, Answers, Requests
<1>2. CASE call' = Throw(p)
  BY <1>2 DEF Throw, Frame, Calls
<1>3. ASSUME NEW a \in Answers, call' = Send(p, a)
      PROVE  call' \in Calls /\ call'.op = "send" /\ call'.p = p
  BY <1>3 DEF Send, Frame, Calls
<1> QED
  BY <1>1, <1>2, <1>3 DEF Proceeds, Nothing, Throw, Frame

\* A turn that makes one processor w keeps the invariant, but for the counters.
LEMMA StepInv ==
    ASSUME CoreInv, NEW p \in Procs, NEW w \in Processor,
           vc' = [vc EXCEPT ![p] = w], Fits(w), w.depth > 0,
           Uses(p), Proceeds(p), Afterwards, ClientsStay
    PROVE  CoreInv' /\ [HarnessNext]_harnessVars
<1>1. [HarnessNext]_harnessVars /\ HarnessInv'
  BY UsesIsHarnessStep, HarnessNextInv DEF CoreInv
<1>2. ProcsInv' /\ \A q \in Procs : vc'[q] = IF q = p THEN w ELSE vc[q]
  BY DEF CoreInv, ProcsInv
<1>3. \A q \in Procs : Born(q) => Born(q)'
  BY <1>2 DEF Born
<1>4. Born(p)'
  BY <1>2 DEF Born
<1>5. BornInv'
  <2>1. \A i \in 1..Len(waiters') : vc'[waiters'[i]].depth > 0
    <3>1. waiters \in Seq(Procs) /\ \A i \in 1..Len(waiters) : waiters[i] \in Procs
      BY DEF CoreInv, HarnessInv, HarnessTypeOK
    <3>2. \A i \in 1..Len(waiters) : vc'[waiters[i]].depth > 0
      BY <1>3, <3>1 DEF CoreInv, BornInv, Born
    <3>3. CASE waiters' = waiters
      BY <3>2, <3>3
    <3>4. CASE Connect(p)
      <4>1. waiters' = Append(waiters, p)
        BY <3>4 DEF Connect
      <4>2. \A i \in 1..Len(waiters') :
               waiters'[i] = p \/ (i \in 1..Len(waiters) /\ waiters'[i] = waiters[i])
        BY <3>1, <4>1
      <4> QED
        BY <1>4, <3>2, <4>2 DEF Born
    <3> QED
      BY <3>3, <3>4 DEF Uses, harnessVars, SendClose, Detach
  <2>2. wsClients' = wsClients
    BY DEF Uses, harnessVars, SendClose, Detach, Connect
  <2>3. \A c \in Conns : wsClients[c] \in Procs \cup {None}
    BY DEF CoreInv, HarnessInv, HarnessTypeOK
  <2>4. \A c \in Conns : wsClients[c] # None => vc'[wsClients[c]].depth > 0
    BY <1>3, <2>3 DEF BornInv, CoreInv, Born
  <2> QED
    BY <2>1, <2>2, <2>4 DEF BornInv, Born
<1>6. CallInv'
  BY <1>4, ProceedsInCalls DEF CallInv
<1>7. AfterInv'
  <2>1. (after'.op = "handled" /\ after'.what = "connect") => Live(after.p, after.arg)'
    BY LiveStays DEF Afterwards, CoreInv
  <2> QED
    BY <2>1 DEF Afterwards, AfterInv, Born
<1>8. ClientsInv'
  BY LiveStays DEF ClientsStay, ClientsInv, CoreInv
<1> QED
  BY <1>1, <1>2, <1>5, <1>6, <1>7, <1>8 DEF CoreInv

-----------------------------------------------------------------------------
(* The events of connections. *)

\* Between two callbacks, every client is live.
LEMMA QuietClients ==
    ASSUME CoreInv, Quiet
    PROVE  /\ call = Nothing /\ after = Nothing
           /\ \A q \in Procs : vc[q].client # None => Live(q, vc[q].client)
BY DEF CoreInv, ClientsInv, Losing, Quiet, Nothing, Frame

\* A message reaches the processor of its connection.
LEMMA ArrivesInv ==
    ASSUME CoreInv, Quiet, NEW c \in Conns, Delivers(c),
           NEW type \in Answers, NEW arg,
           \/ type = "notification" /\ arg \in Channels
           \/ type \notin {"notification", "connect", "disconnect"} /\ arg = c,
           Arrives(c, type, arg), UNCHANGED <<harnessVars, vc, after>>
    PROVE  CoreInv'
<1>1. HarnessInv' /\ ProcsInv' /\ BornInv'
  BY HarnessNextInv DEF CoreInv, ProcsInv, BornInv, Born, harnessVars
<1>2. ws[c].processor \in Procs /\ ws[c].processor = wsClients[c]
  BY NoneIsNobody
     DEF Delivers, CoreInv, HarnessInv, HarnessTypeOK, EventsReachTheOwner
<1>3. Born(ws[c].processor)
  BY <1>2, NoneIsNobody DEF CoreInv, BornInv
<1>4. CallInv'
  <2>1. call' = Frame("handle", ws[c].processor, type, arg) /\ after' = Nothing
    BY QuietClients DEF Arrives
  <2>2. call' \in Calls /\ call'.op = "handle" /\ call'.p = ws[c].processor
        /\ call'.what = type /\ call'.arg = arg
    BY <1>2, <2>1 DEF Frame, Calls
  <2> QED
    BY <1>2, <1>3, <2>1, <2>2 DEF CallInv, Born
<1>5. AfterInv'
  BY QuietClients DEF CoreInv, AfterInv, Nothing, Frame
<1>6. ClientsInv'
  BY QuietClients DEF ClientsInv, Live, harnessVars
<1> QED
  BY <1>1, <1>4, <1>5, <1>6 DEF CoreInv

LEMMA OnOpenInv ==
    ASSUME CoreInv, NEW c \in Conns, OnOpen(c)
    PROVE  CoreInv' /\ [HarnessNext]_harnessVars
<1>1. Quiet /\ AddClient(c) /\ UNCHANGED <<vc, after>>
  BY DEF OnOpen, scenarioVars
<1>2. [HarnessNext]_harnessVars /\ HarnessInv'
  BY <1>1, HarnessNextInv DEF HarnessNext, CoreInv
<1>3. ws[c].state = "handshake" /\ waiters # <<>> /\ Assign(c)
  BY <1>1, SomebodyWaits DEF AddClient, CoreInv
<1>0. waiters \in Seq(Procs)
  BY DEF CoreInv, HarnessInv, HarnessTypeOK
<1>4. PICK p \in Procs : /\ p = Head(waiters) /\ p = waiters[1]
                        /\ 1 \in 1..Len(waiters)
  BY <1>0, <1>3
<1>5. Born(p)
  BY <1>4 DEF CoreInv, BornInv
<1>6. /\ waiters' = Tail(waiters)
      /\ wsClients' = [wsClients EXCEPT ![c] = p]
      /\ ws' = [ws EXCEPT ![c] = [state |-> "open", processor |-> p]]
      /\ call' = Frame("handle", p, "connect", c)
  BY <1>3, <1>4 DEF Assign, OnOpen
<1>7. ProcsInv'
  BY <1>1 DEF CoreInv, ProcsInv
<1>8. BornInv'
  <2>1. \A i \in 1..Len(waiters') :
           i + 1 \in 1..Len(waiters) /\ waiters'[i] = waiters[i + 1]
    BY <1>0, <1>3, <1>6
  <2>2. \A i \in 1..Len(waiters') : vc'[waiters'[i]].depth > 0
    BY <1>1, <2>1 DEF CoreInv, BornInv, Born
  <2>3. \A d \in Conns : wsClients'[d] = IF d = c THEN p ELSE wsClients[d]
    BY <1>6 DEF CoreInv, HarnessInv, HarnessTypeOK
  <2>4. \A d \in Conns : wsClients'[d] # None => vc'[wsClients'[d]].depth > 0
    BY <1>1, <1>5, <2>3 DEF CoreInv, BornInv, Born
  <2> QED
    BY <2>2, <2>4 DEF BornInv, Born
<1>9. Live(p, c)' /\ \A q \in Procs, d \in Conns : Live(q, d) => d # c /\ Live(q, d)'
  BY <1>3, <1>6 DEF Live, CoreInv, HarnessInv, HarnessTypeOK
<1>10. \A q \in Procs : vc[q].client # None => vc[q].client # c
  BY <1>1, <1>9, QuietClients DEF Live
<1>11. CallInv'
  <2>1. c # None /\ vc[p].client # c
    BY <1>4, <1>10, NoneIsNobody
  <2>2. call' \in Calls
    BY <1>4, <1>6 DEF Frame, Calls, Answers
  <2>3. call'.op = "handle" /\ call'.p = p /\ call'.what = "connect" /\ call'.arg = c
    BY <1>6 DEF Frame
  <2>4. after' = Nothing /\ "connect" \in Answers
    BY <1>1, QuietClients DEF Answers
  <2>5. Born(p)' /\ vc'[p].client # c
    BY <1>1, <1>5, <2>1 DEF Born
  <2> QED
    BY <1>4, <1>9, <2>2, <2>3, <2>4, <2>5 DEF CallInv, Born, Live
<1>12. AfterInv'
  BY <1>1, QuietClients DEF CoreInv, AfterInv, Nothing, Frame
<1>13. ClientsInv'
  <2>1. \A q \in Procs : vc[q].client # None =>
              Live(q, vc[q].client) /\ vc[q].client \in Conns
    BY <1>1, QuietClients DEF Live
  <2>2. \A q \in Procs : vc'[q].client # None => Live(q, vc[q].client)'
    BY <1>1, <1>9, <2>1
  <2> QED
    BY <1>1, <2>2 DEF ClientsInv
<1> QED
  BY <1>2, <1>7, <1>8, <1>11, <1>12, <1>13 DEF CoreInv

LEMMA OnCloseInv ==
    ASSUME CoreInv, NEW c \in Conns, OnClose(c)
    PROVE  CoreInv' /\ [HarnessNext]_harnessVars
<1>1. Quiet /\ RemoveClient(c) /\ UNCHANGED <<vc, after>>
  BY DEF OnClose, scenarioVars
<1>2. [HarnessNext]_harnessVars /\ HarnessInv'
  BY <1>1, HarnessNextInv DEF HarnessNext, CoreInv
<1>3. /\ waiters' = waiters
      /\ wsClients' = [wsClients EXCEPT ![c] = None]
      /\ ws' = [ws EXCEPT ![c] = Unused]
  BY <1>1 DEF RemoveClient, Unregistered
<1>4. /\ ws \in [Conns -> [state : States, processor : Procs \cup {None}]]
      /\ wsClients \in [Conns -> Procs \cup {None}]
  BY DEF CoreInv, HarnessInv, HarnessTypeOK
<1>5. ProcsInv'
  BY <1>1 DEF CoreInv, ProcsInv
<1>6. BornInv'
  BY <1>1, <1>3, <1>4 DEF CoreInv, BornInv, Born
<1>7. \A q, d : Live(q, d) /\ d # c => Live(q, d)'
  BY <1>3, <1>4 DEF Live
<1>8. AfterInv'
  BY <1>1, QuietClients DEF CoreInv, AfterInv, Nothing, Frame
<1>9. CASE ws[c].processor = None
  <2>1. call' = Nothing /\ call = Nothing
    BY <1>1, <1>9, QuietClients DEF OnClose
  <2>2. CallInv'
    BY <2>1 DEF CoreInv, CallInv, Nothing, Frame, Calls
  <2>3. \A q \in Procs : vc[q].client # None => Live(q, vc[q].client) /\ vc[q].client # c
    BY <1>1, <1>9, QuietClients, NoneIsNobody DEF Live
  <2>4. \A q \in Procs : vc'[q].client # None => Live(q, vc[q].client)'
    BY <1>1, <1>7, <2>3
  <2>5. ClientsInv'
    BY <1>1, <2>4 DEF ClientsInv
  <2> QED
    BY <1>2, <1>5, <1>6, <1>8, <2>2, <2>5 DEF CoreInv
<1>10. CASE ws[c].processor # None
  <2>1. PICK p \in Procs : p = ws[c].processor /\ Born(p)
    BY <1>4, <1>10, NoneIsNobody
       DEF CoreInv, BornInv, HarnessInv, EventsReachTheOwner
  <2>2. call' = Frame("handle", p, "disconnect", c)
    BY <1>10, <2>1 DEF OnClose, Arrives
  <2>3. CallInv'
    <3>1. call' \in Calls /\ call'.op = "handle" /\ call'.p = p
          /\ call'.what = "disconnect" /\ call'.arg = c /\ "disconnect" \in Answers
      BY <2>1, <2>2 DEF Frame, Calls, Answers
    <3>2. after' = Nothing /\ Born(p)' /\ ws'[c].state = "idle"
      BY <1>1, <1>3, <1>4, <2>1, QuietClients DEF Born, Unused
    <3> QED
      BY <2>1, <3>1, <3>2 DEF CallInv, Born
  <2>4. \A q \in Procs : vc[q].client # None => Live(q, vc[q].client)
    BY <1>1, QuietClients
  <2>5. \A q \in Procs :
            (vc'[q].client # None /\ vc'[q].client # c) => Live(q, vc[q].client)'
    BY <1>1, <1>7, <2>4
  <2>6. \A q \in Procs : vc'[q].client = c => Losing(q)'
    <3>1. ASSUME NEW q \in Procs, vc[q].client = c PROVE q = p
      BY <2>1, <2>4, <3>1, NoneIsNobody DEF Live
    <3>2. call'.op = "handle" /\ call'.what = "disconnect" /\ call'.p = p /\ call'.arg = c
      BY <2>2 DEF Frame
    <3> QED
      BY <1>1, <3>1, <3>2 DEF Losing
  <2>7. ClientsInv'
    BY <1>1, <2>5, <2>6 DEF ClientsInv
  <2> QED
    BY <1>2, <1>5, <1>6, <1>8, <2>3, <2>7 DEF CoreInv
<1> QED
  BY <1>9, <1>10

LEMMA TcpSettlesInv ==
    ASSUME CoreInv, TcpSettles
    PROVE  CoreInv' /\ [HarnessNext]_harnessVars
<1>1. Quiet /\ UNCHANGED <<vc, call, after>>
  BY DEF TcpSettles, OtherThanHarness, scenarioVars
<1>2. [HarnessNext]_harnessVars /\ HarnessInv'
  BY HarnessNextInv DEF TcpSettles, HarnessNext, CoreInv
<1>3. waiters' = waiters /\ wsClients' = wsClients
  BY DEF TcpSettles, ConnectFailed, TcpConnected
<1>4. \A q, d : Live(q, d) => Live(q, d)'
  BY DEF Live, TcpSettles, ConnectFailed, TcpConnected, CoreInv, HarnessInv,
     HarnessTypeOK
<1>5. ProcsInv' /\ BornInv'
  BY <1>1, <1>3 DEF CoreInv, ProcsInv, BornInv, Born
<1>6. CallInv' /\ AfterInv'
  BY <1>1, QuietClients DEF CoreInv, CallInv, AfterInv, Nothing, Frame
<1>7. ClientsInv'
  <2>1. \A q \in Procs : vc'[q].client # None => Live(q, vc[q].client)'
    BY <1>1, <1>4, QuietClients
  <2> QED
    BY <1>1, <2>1 DEF ClientsInv
<1> QED
  BY <1>2, <1>5, <1>6, <1>7 DEF CoreInv

-----------------------------------------------------------------------------
(* What a scenario's turn does. *)

\* Processor p became w, which differs from v in none of these.
Becomes(p, v, w) ==
    /\ vc' = [vc EXCEPT ![p] = w]
    /\ w.depth = v.depth /\ w.top = v.top /\ w.client = v.client

LEMMA EntersAt ==
    ASSUME CoreInv, NEW p \in Procs, Enters(p)
    PROVE  /\ Born(p) /\ vc[p].depth > 0
           /\ \A q \in Procs : vc[q].client # None => Live(q, vc[q].client)
BY DEF CoreInv, CallInv, ClientsInv, Losing, Enters, Born

\* What is left for later stays right when p keeps or loses its client.
LEMMA AfterStays ==
    ASSUME CoreInv, NEW p \in Procs, NEW w, vc' = [vc EXCEPT ![p] = w],
           w.depth > 0, w.client \in {vc[p].client, None}, after' = after
    PROVE  Afterwards
<1>1. \A q \in Procs : vc'[q] = IF q = p THEN w ELSE vc[q]
  BY DEF CoreInv, ProcsInv
<1> QED
  BY <1>1 DEF CoreInv, AfterInv, Afterwards, Born

\* The scenario or its method leaves the client as it is.
LEMMA ResultInv ==
    ASSUME CoreInv, NEW p \in Procs, NEW w \in Processor,
           \A q \in Procs : vc[q].client # None => Live(q, vc[q].client),
           vc' = [vc EXCEPT ![p] = w], Fits(w),
           w.depth > 0, w.client = vc[p].client,
           UNCHANGED harnessVars \/ Connect(p) \/ \E c \in Conns : SendClose(c),
           Proceeds(p), after' = after
    PROVE  CoreInv' /\ [HarnessNext]_harnessVars
<1>1. Afterwards
  BY AfterStays
<1>2. \A q \in Procs : vc'[q].client = vc[q].client
  BY DEF CoreInv, ProcsInv
<1>3. ClientsStay
  BY <1>2 DEF ClientsStay
<1>4. Uses(p)
  BY DEF Uses
<1> QED
  BY <1>1, <1>3, <1>4, StepInv

\* After an exception the client is detached.
LEMMA ExceptionUses ==
    ASSUME CoreInv, NEW p \in Procs, call.p = p, NEW v \in Processor, Fits(v),
           v.client = vc[p].client, v.depth > 0, SendException(p, v),
           (after'.op = "handled" /\ after'.what = "connect") => after'.arg # v.client
    PROVE  \E w \in Processor :
              /\ vc' = [vc EXCEPT ![p] = w] /\ Fits(w)
              /\ w.depth = v.depth /\ w.top = v.top /\ w.client = None
              /\ Uses(p) /\ Proceeds(p) /\ ClientsStay
<1>1. PICK w : w = IF v.connected THEN Disconnected(v) ELSE v
  OBVIOUS
<1>2. /\ w \in Processor /\ Fits(w) /\ w.client = None
      /\ w.depth = v.depth /\ w.top = v.top
  BY <1>1, DisconnectedFits DEF Fits
<1>3. vc' = [vc EXCEPT ![p] = w]
  BY <1>1 DEF SendException
<1>4. Proceeds(p)
  BY DEF SendException, Proceeds
<1>5. \A q \in Procs : vc'[q] = IF q = p THEN w ELSE vc[q]
  BY <1>3 DEF CoreInv, ProcsInv
<1>6. ASSUME NEW q \in Procs, vc'[q].client # None
      PROVE  /\ q # p /\ vc[q].client = vc'[q].client
             /\ v.client # None => vc[q].client # v.client
  <2>1. q # p /\ vc[q].client = vc'[q].client
    BY <1>2, <1>5, <1>6
  <2>2. Live(q, vc[q].client) \/ Losing(q)
    BY <1>6, <2>1 DEF CoreInv, ClientsInv
  <2>3. ASSUME v.client # None, vc[q].client = v.client PROVE FALSE
    <3>1. Live(q, v.client)
      BY <2>1, <2>2, <2>3 DEF Losing
    <3>2. Live(p, v.client) \/ ws[v.client].state = "idle"
      BY <2>3 DEF CoreInv, ClientsInv, Losing, CallInv
    <3> QED
      BY <2>1, <3>1, <3>2 DEF Live
  <2> QED
    BY <2>1, <2>3
<1>7. Uses(p)
  <2>1. CASE v.connected
    <3>1. v.client # None /\ v.client \in Conns /\ Detach(v.client)
      BY <2>1 DEF SendException, Processor, Fits
    <3>2. \A q \in Procs : vc'[q].client # v.client
      BY <1>6, <3>1
    <3> QED
      BY <3>1, <3>2 DEF Uses
  <2>2. CASE ~v.connected
    BY <2>2 DEF SendException, Uses
  <2> QED
    BY <2>1, <2>2
<1>8. ClientsStay
  <2>1. ASSUME NEW q \in Procs, vc'[q].client # None
        PROVE  Live(q, vc'[q].client)
    <3>1. q # p /\ vc[q].client = vc'[q].client /\ vc[q].client # None
      BY <1>6, <2>1
    <3>2. Live(q, vc[q].client) \/ Losing(q)
      BY <3>1 DEF CoreInv, ClientsInv
    <3> QED
      BY <3>1, <3>2 DEF Losing
  <2> QED
    BY <2>1 DEF ClientsStay
<1> QED
  BY <1>2, <1>3, <1>4, <1>7, <1>8

\* p's generator was resumed and yielded: its stack is as high as before.
RunsOn(p) ==
    \E w \in Processor :
        vc' = [vc EXCEPT ![p] = w] /\ w.depth = vc[p].depth /\ w.top = "suspended"

\* A command's method returns, with a result or without.
LEMMA MethodInv ==
    ASSUME CoreInv, NEW p \in Procs, Enters(p), NEW w \in Processor,
           vc' = [vc EXCEPT ![p] = w], Fits(w), w.depth = vc[p].depth,
           w.top = "suspended", w.client = vc[p].client,
           UNCHANGED harnessVars \/ Connect(p) \/ \E c \in Conns : SendClose(c),
           Proceeds(p), after' = after
    PROVE  CoreInv' /\ [HarnessNext]_harnessVars /\ RunsOn(p)
<1>1. w.depth > 0 /\ \A q \in Procs : vc[q].client # None => Live(q, vc[q].client)
  BY EntersAt
<1> QED
  BY <1>1, ResultInv DEF RunsOn

\* A command's method raises.
LEMMA MethodRaisesInv ==
    ASSUME CoreInv, NEW p \in Procs, Enters(p), NEW m \in Commands,
           NEW v, v = Asked(p, m), SendException(p, v), after' = after
    PROVE  CoreInv' /\ [HarnessNext]_harnessVars /\ RunsOn(p)
<1>1. /\ v \in Processor /\ Fits(v) /\ v.client = vc[p].client
      /\ v.depth = vc[p].depth /\ v.top = "suspended" /\ v.depth > 0
  BY AskedFits, EntersAt DEF CoreInv
<1>2. (after'.op = "handled" /\ after'.what = "connect") => after'.arg # v.client
  <2> SUFFICES ASSUME after.op = "handled", after.what = "connect",
                      after.arg = v.client
               PROVE  FALSE
    OBVIOUS
  <2>1. Live(after.p, after.arg) /\ after.arg \in Conns /\ after.p \in Procs
        /\ vc[after.p].client = None
    BY DEF CoreInv, AfterInv
  <2>2. Live(p, after.arg)
    BY <1>1, <2>1, EntersAt, NoneIsNobody
  <2> QED
    BY <1>1, <2>1, <2>2, NoneIsNobody DEF Live
<1>3. call.p = p
  BY DEF Enters
<1>4. PICK w \in Processor :
         /\ vc' = [vc EXCEPT ![p] = w] /\ Fits(w)
         /\ w.depth = v.depth /\ w.top = v.top /\ w.client = None
         /\ Uses(p) /\ Proceeds(p) /\ ClientsStay
  BY <1>1, <1>2, <1>3, ExceptionUses
<1>5. Afterwards
  BY <1>1, <1>4, AfterStays
<1>6. w.depth > 0
  BY <1>1, <1>4
<1> QED
  BY <1>1, <1>4, <1>5, <1>6, StepInv DEF RunsOn

\* What the result of looking for a notification is, when v looks for chs and
\* expects nothing it has, or looks for all that it expects.
LEMMA ExpectFits ==
    ASSUME NEW p \in Procs, NEW v \in Processor,
           v.connected <=> v.client # None, v.expecting # {} => v.armed,
           NEW chs \in SUBSET Channels,
           Matching(v, v.expecting) = {} \/ v.expecting = chs,
           Expect(p, v, chs)
    PROVE  \E w \in Processor : Becomes(p, v, w) /\ Fits(w) /\ Proceeds(p)
<1>1. CASE Matching(v, chs) # {}
  <2>1. WithoutFirst(v, chs) \in Seq(Channels)
    BY <1>1, WithoutFirstType
  <2>2. PICK u : u = [v EXCEPT !.notifications = WithoutFirst(v, chs)]
    OBVIOUS
  <2>3. /\ u \in Processor /\ u.client = v.client /\ u.depth = v.depth
        /\ u.top = v.top /\ u.connected = v.connected
    BY <2>1, <2>2 DEF Processor
  <2>4. PICK w : w = ClearExpecting(u)
    OBVIOUS
  <2>5. /\ w \in Processor /\ w.client = v.client /\ w.depth = v.depth
        /\ w.top = v.top /\ w.connected = v.connected /\ w.expecting = {}
    BY <2>3, <2>4 DEF ClearExpecting, Processor
  <2>6. vc' = [vc EXCEPT ![p] = w] /\ call' = Send(p, "notification")
    BY <1>1, <2>2, <2>4 DEF Expect, ResultNow
  <2>7. Fits(w)
    BY <2>5, NothingMatchesNothing DEF Fits
  <2>8. Proceeds(p)
    BY <2>6 DEF Proceeds, Answers
  <2> QED
    BY <2>5, <2>6, <2>7, <2>8 DEF Becomes
<1>2. CASE Matching(v, chs) = {} /\ v.expecting # {}
  <2>1. vc' = [vc EXCEPT ![p] = v] /\ call' = Nothing
    BY <1>2 DEF Expect, ResultLater
  <2>2. Fits(v)
    BY <1>2 DEF Fits
  <2> QED
    BY <2>1, <2>2 DEF Becomes, Proceeds
<1>3. CASE Matching(v, chs) = {} /\ v.expecting = {}
  <2>1. PICK w : w = SetExpecting(v, chs)
    OBVIOUS
  <2>2. vc' = [vc EXCEPT ![p] = w] /\ call' = Nothing
    BY <1>3, <2>1 DEF Expect, ResultLater
  <2>3. /\ w \in Processor /\ w.client = v.client /\ w.depth = v.depth
        /\ w.top = v.top /\ w.connected = v.connected /\ w.expecting = chs
        /\ w.armed /\ w.notifications = v.notifications
    BY <2>1 DEF SetExpecting, Processor
  <2>4. Fits(w)
    BY <1>3, <2>3 DEF Fits, Matching
  <2> QED
    BY <2>2, <2>3, <2>4 DEF Becomes, Proceeds
<1> QED
  BY <1>1, <1>2, <1>3

-----------------------------------------------------------------------------
(* The commands. *)

\* Every command keeps the invariant, uses the harness as Harness.tla says, and
\* leaves the stack of generators as high as it was.
LEMMA RunCommandInv ==
    ASSUME CoreInv, NEW p \in Procs, RunCommand(p)
    PROVE  CoreInv' /\ [HarnessNext]_harnessVars /\ RunsOn(p)
<1> DEFINE Done == CoreInv' /\ [HarnessNext]_harnessVars /\ RunsOn(p)
<1>1. after' = after
  BY DEF RunCommand
<1>2. ASSUME NEW m \in Commands, NEW v, v = Asked(p, m), Yields(p, m)
      PROVE  /\ Enters(p)
             /\ v \in Processor /\ Fits(v) /\ v.client = vc[p].client
             /\ v.depth = vc[p].depth /\ v.top = "suspended"
             /\ SendException(p, v) => Done
             /\ (/\ ResultLater(p, v)
                 /\ UNCHANGED harnessVars \/ Connect(p)
                    \/ \E c \in Conns : SendClose(c)) => Done
             /\ \A a \in Answers :
                   ResultNow(p, v, a) /\ UNCHANGED harnessVars => Done
  <2>1. Enters(p)
    BY <1>2 DEF Yields, Resumes
  <2>2. /\ v \in Processor /\ Fits(v) /\ v.client = vc[p].client
        /\ v.depth = vc[p].depth /\ v.top = "suspended"
    BY <1>2, AskedFits DEF CoreInv
  <2>3. SendException(p, v) => Done
    BY <1>1, <1>2, <2>1, MethodRaisesInv
  <2>4. ASSUME ResultLater(p, v),
               UNCHANGED harnessVars \/ Connect(p) \/ \E c \in Conns : SendClose(c)
        PROVE  Done
    BY <1>1, <2>1, <2>2, <2>4, MethodInv DEF ResultLater, Proceeds
  <2>5. ASSUME NEW a \in Answers, ResultNow(p, v, a), UNCHANGED harnessVars
        PROVE  Done
    BY <1>1, <2>1, <2>2, <2>5, MethodInv DEF ResultNow, Proceeds
  <2> QED
    BY <2>1, <2>2, <2>3, <2>4, <2>5
<1>3. CASE RunConnect(p)
  <2>1. PICK v : v = Asked(p, "connect")
    OBVIOUS
  <2> QED
    BY <1>2, <1>3, <2>1 DEF RunConnect, Commands
<1>4. CASE RunDisconnect(p)
  <2>1. PICK v : v = Asked(p, "disconnect")
    OBVIOUS
  <2>2. v.client \in Conns \cup {None}
    BY <1>2, <1>4, <2>1 DEF RunDisconnect, Commands, Processor
  <2> QED
    BY <1>2, <1>4, <2>1, <2>2 DEF RunDisconnect, Commands
<1>5. ASSUME NEW m \in Requests, RunRequest(p, m) PROVE Done
  <2>1. PICK v : v = Asked(p, m)
    OBVIOUS
  <2> QED
    BY <1>2, <1>5, <2>1 DEF RunRequest, Commands, Requests
<1>6. CASE RunAck(p)
  <2>1. PICK v : v = Asked(p, "ack")
    OBVIOUS
  <2> QED
    BY <1>2, <1>6, <2>1 DEF RunAck, Commands, Answers
<1>7. CASE RunSendNotification(p)
  <2>1. PICK v : v = Asked(p, "send_notification")
    OBVIOUS
  <2> QED
    BY <1>2, <1>7, <2>1 DEF RunSendNotification, Commands, Answers
<1>8. CASE RunExpect(p)
  <2>1. ASSUME NEW m \in Commands, Yields(p, m), NEW chs \in SUBSET Channels,
               Expect(p, Asked(p, m), chs), UNCHANGED harnessVars
        PROVE  Done
    <3>1. PICK v : v = Asked(p, m)
      OBVIOUS
    <3>2. PICK w \in Processor : Becomes(p, v, w) /\ Fits(w) /\ Proceeds(p)
      BY <1>2, <2>1, <3>1, ExpectFits DEF Fits
    <3> QED
      BY <1>1, <1>2, <2>1, <3>1, <3>2, MethodInv DEF Becomes
  <2>2. "expect_notification" \in Commands /\ "expect_notifications" \in Commands
    BY DEF Commands
  <2>3. UNCHANGED harnessVars
    BY <1>8 DEF RunExpect
  <2>4. ASSUME Yields(p, "expect_notification"), NEW ch \in Channels,
               Expect(p, Asked(p, "expect_notification"), {ch})
        PROVE  Done
    <3>1. {ch} \in SUBSET Channels
      OBVIOUS
    <3> QED
      BY <2>1, <2>2, <2>3, <2>4, <3>1
  <2>5. ASSUME Yields(p, "expect_notifications"), NEW chs \in SUBSET Channels \ {{}},
               Expect(p, Asked(p, "expect_notifications"), chs)
        PROVE  Done
    BY <2>1, <2>2, <2>3, <2>5
  <2> QED
    BY <1>8, <2>4, <2>5 DEF RunExpect
<1>9. CASE RunWait(p)
  <2>1. PICK v : v = Asked(p, "wait")
    OBVIOUS
  <2>2. PICK w : w = [v EXCEPT !.waiting = TRUE, !.armed = TRUE]
    OBVIOUS
  <2>3. /\ Enters(p) /\ v \in Processor /\ Fits(v) /\ v.client = vc[p].client
        /\ v.depth = vc[p].depth /\ v.top = "suspended"
    BY <1>2, <1>9, <2>1 DEF RunWait, Commands
  <2>4. /\ w \in Processor /\ Alike(v, w) /\ w.client = v.client
        /\ w.depth = v.depth /\ w.top = v.top
    BY <2>2, <2>3 DEF Processor, Alike
  <2>5. vc' = [vc EXCEPT ![p] = w] /\ Proceeds(p) /\ UNCHANGED harnessVars
    BY <1>9, <2>1, <2>2 DEF RunWait, ResultLater, Proceeds
  <2> QED
    BY <1>1, <2>3, <2>4, <2>5, AlikeFits, MethodInv
<1>10. ASSUME NEW m \in {"timer_start", "timer_end"}, Yields(p, m),
              NEW ts \in SUBSET Timers, NEW a \in Answers,
              ResultNow(p, [Asked(p, m) EXCEPT !.timers = ts], a),
              UNCHANGED harnessVars
       PROVE  Done
  <2>1. PICK v : v = Asked(p, m)
    OBVIOUS
  <2>2. PICK w : w = [v EXCEPT !.timers = ts]
    OBVIOUS
  <2>3. /\ Enters(p) /\ v \in Processor /\ Fits(v) /\ v.client = vc[p].client
        /\ v.depth = vc[p].depth /\ v.top = "suspended"
    BY <1>2, <1>10, <2>1 DEF Commands
  <2>4. /\ w \in Processor /\ Alike(v, w) /\ w.client = v.client
        /\ w.depth = v.depth /\ w.top = v.top
    BY <2>2, <2>3 DEF Processor, Alike
  <2>5. vc' = [vc EXCEPT ![p] = w] /\ Proceeds(p)
    BY <1>10, <2>1, <2>2 DEF ResultNow, Proceeds
  <2> QED
    BY <1>1, <1>10, <2>3, <2>4, <2>5, AlikeFits, MethodInv
<1>11. CASE RunTimerStart(p)
  <2>1. PICK v : v = Asked(p, "timer_start")
    OBVIOUS
  <2>2. v.timers \in SUBSET Timers
    BY <1>2, <1>11, <2>1 DEF RunTimerStart, Commands, Processor
  <2>3. PICK t \in Timers :
           \/ SendException(p, v)
           \/ ResultNow(p, [v EXCEPT !.timers = v.timers \cup {t}], "none")
              /\ UNCHANGED harnessVars
    BY <1>11, <2>1 DEF RunTimerStart
  <2>4. v.timers \cup {t} \in SUBSET Timers /\ "none" \in Answers
        /\ Yields(p, "timer_start") /\ "timer_start" \in Commands
    BY <1>11, <2>2 DEF Answers, RunTimerStart, Commands
  <2> QED
    BY <1>2, <1>10, <2>1, <2>3, <2>4
<1>12. CASE RunTimerEnd(p)
  <2>1. PICK v : v = Asked(p, "timer_end")
    OBVIOUS
  <2>2. v.timers \in SUBSET Timers
    BY <1>2, <1>12, <2>1 DEF RunTimerEnd, Commands, Processor
  <2>3. PICK t \in Timers :
           \/ SendException(p, v)
           \/ ResultNow(p, [v EXCEPT !.timers = v.timers \ {t}], "duration")
              /\ UNCHANGED harnessVars
    BY <1>12, <2>1 DEF RunTimerEnd
  <2>4. v.timers \ {t} \in SUBSET Timers /\ "duration" \in Answers
        /\ Yields(p, "timer_end") /\ "timer_end" \in Commands
    BY <1>12, <2>2 DEF Answers, RunTimerEnd, Commands
  <2> QED
    BY <1>2, <1>10, <2>1, <2>3, <2>4
<1>13. CASE RunCounter(p)
  <2>1. PICK v : v = Asked(p, "counter")
    OBVIOUS
  <2> QED
    BY <1>2, <1>13, <2>1 DEF RunCounter, Commands, Answers
<1>14. CASE RunSpawn(p)
  <2>1. PICK v : v = Asked(p, "spawn")
    OBVIOUS
  <2> QED
    BY <1>2, <1>14, <2>1 DEF RunSpawn, Commands, Answers
<1> QED
  BY <1>3, <1>4, <1>5, <1>6, <1>7, <1>8, <1>9, <1>11, <1>12, <1>13, <1>14
     DEF RunCommand

-----------------------------------------------------------------------------
(* The counters. *)

\* What a step may do to the counts, HarnessCount.tla says.
CountStep == [HarnessCounts!Next]_(HarnessCounts!counts)

\* A step of processor p changes what is outstanding for p alone.
LEMMA OutstandingStep ==
    ASSUME ProcsInv, OutstandingInv, NEW p \in Procs, NEW w \in Processor,
           vc' = [vc EXCEPT ![p] = w], w.depth > 0,
           tries' \in [Procs -> Nat], soon' \in [Procs -> Nat],
           posts' \in [Procs -> 0..MaxPosts],
           removals' \in [Procs -> 0..MaxRemovals],
           \A q \in Procs : q = p \/ ( /\ soon'[q] = soon[q] /\ posts'[q] = posts[q]
                                       /\ removals'[q] = removals[q] ),
           soon'[p] + w.depth =< MaxSoon + MaxDepth,
           w.top = "done" => removals'[p] > 0
    PROVE  OutstandingInv'
<1>1. \A q \in Procs : vc'[q] = IF q = p THEN w ELSE vc[q]
  BY DEF ProcsInv
<1>2. ASSUME NEW q \in Procs
      PROVE  /\ soon'[q] + vc'[q].depth =< MaxSoon + MaxDepth
             /\ ~(vc'[q].depth > 0) =>
                   vc'[q] = Unborn /\ soon'[q] = 0 /\ posts'[q] = 0 /\ removals'[q] = 0
             /\ vc'[q].top = "done" => removals'[q] > 0
  <2>1. CASE q = p
    BY <1>1, <2>1
  <2>2. CASE q # p
    BY <1>1, <1>2, <2>2 DEF OutstandingInv, Born
  <2> QED
    BY <2>1, <2>2
<1>3. Unborn' = Unborn
  BY DEF Unborn, Fresh
<1> QED
  BY <1>2, <1>3 DEF OutstandingInv, Born

LEMMA LaunchedFinite ==
    /\ IsFiniteSet({p \in Procs : Born(p)}) /\ IsFiniteSet(Alive)
    /\ Cardinality({p \in Procs : Born(p)}) \in Nat /\ Cardinality(Alive) \in Nat
BY Bounds, FS_Subset, FS_CardinalityType DEF Alive

\* Most steps start no processor and remove none.
LEMMA CountStays ==
    ASSUME CountInv, \A q \in Procs : Born(q)' <=> Born(q),
           removals' = removals, processors' \in Int,
           processors' + ToCount' = processors + ToCount
    PROVE  CountInv' /\ CountStep
<1>1. {q \in Procs : Born(q)}' = {q \in Procs : Born(q)} /\ Alive' = Alive
      /\ {q \in Procs : Born(q) /\ removals[q] = 0}'
            = {q \in Procs : Born(q) /\ removals[q] = 0}
  BY DEF Alive
<1>2. CountInv'
  BY <1>1 DEF CountInv
<1>3. CountStep
  BY <1>1 DEF CountStep, HarnessCounts!counts
<1> QED
  BY <1>2, <1>3

\* shutdown reports a processor to the harness: for the first time, which ends
\* it, or again; or the model counts its reports no further.
LEMMA CountReported ==
    ASSUME CountInv, OutstandingInv, NEW p \in Procs, Born(p),
           \A q \in Procs : Born(q)' <=> Born(q), ToCount' = ToCount,
           RemoveProcessor(p)
    PROVE  /\ CountInv' /\ CountStep
           /\ removals' \in [Procs -> 0..MaxRemovals] /\ removals'[p] > 0
           /\ \A q \in Procs : q = p \/ removals'[q] = removals[q]
<1> DEFINE Launched == {q \in Procs : Born(q)}
<1>1. removals \in [Procs -> 0..MaxRemovals] /\ processors \in Int
  BY DEF OutstandingInv, CountInv
<1>2. ToCount \in Int
  BY DEF ToCount
<1>3. Launched' = Launched
  OBVIOUS
<1>4. CASE removals[p] >= MaxRemovals
  <2>1. UNCHANGED countVars /\ removals[p] > 0
    BY <1>1, <1>4, Bounds DEF RemoveProcessor
  <2> QED
    BY <1>1, <2>1, CountStays DEF countVars
<1>5. CASE removals[p] < MaxRemovals
  <2>1. processors' = processors - 1 /\ removals' = [removals EXCEPT ![p] = @ + 1]
    BY <1>5 DEF RemoveProcessor
  <2>2. /\ removals' \in [Procs -> 0..MaxRemovals] /\ removals'[p] > 0
        /\ \A q \in Procs : q = p \/ removals'[q] = removals[q]
        /\ processors' \in Int
    BY <1>1, <1>5, <2>1, Bounds
  <2>3. Alive' = Alive \ {p}
    BY <2>2 DEF Alive
  <2>4. p \in Alive <=> removals[p] = 0
    BY DEF Alive
  <2>5. CASE removals[p] = 0
    <3>1. p \in Alive
      BY <2>4, <2>5
    <3>2. Cardinality(Alive') = Cardinality(Alive) - 1
      BY <2>3, <3>1, LaunchedFinite, FS_RemoveElement
    <3>3. Cardinality(Alive) > 0
      BY <3>1, LaunchedFinite, FS_EmptySet
    <3>4. CountInv'
      BY <1>1, <1>2, <2>1, <2>2, <3>2, LaunchedFinite DEF CountInv
    <3>5. CountStep
      <4>1. PICK n, m : /\ n = Cardinality(Alive) /\ m = Cardinality(Launched)
                        /\ n \in Nat /\ m \in Nat /\ n > 0
        BY <3>3, LaunchedFinite
      <4>2. Cardinality(Alive') = n - 1 /\ Cardinality(Launched') = m
        BY <1>3, <3>2, <4>1
      <4>3. processors' + ToCount' = (processors + ToCount) + 0 - 1
        BY <1>1, <1>2, <2>1
      <4>4. n - 1 = n + 0 - 1 /\ m = m + 0
        BY <4>1
      <4>5. HarnessCounts!End
        BY <4>1, <4>2, <4>3, <4>4 DEF HarnessCounts!End, HarnessCounts!By, Alive
      <4> QED
        BY <4>5 DEF CountStep, HarnessCounts!Next
    <3> QED
      BY <2>2, <3>4, <3>5
  <2>6. CASE removals[p] # 0
    <3>1. Alive' = Alive
      BY <2>3, <2>4, <2>6
    <3>2. CountInv'
      BY <1>1, <1>2, <2>1, <2>2, <3>1, LaunchedFinite DEF CountInv
    <3>3. Cardinality(Alive) < Cardinality(Launched)
      <4>1. Alive \subseteq Launched /\ Alive # Launched
        BY <2>4, <2>6 DEF Alive
      <4> QED
        BY <4>1, LaunchedFinite, FS_Subset
    <3>4. CountStep
      <4>1. HarnessCounts!EndReportedAgain
        BY <1>1, <1>2, <1>3, <2>1, <3>1, <3>3, LaunchedFinite
           DEF HarnessCounts!EndReportedAgain, HarnessCounts!By, Alive
      <4> QED
        BY <4>1 DEF CountStep, HarnessCounts!Next
    <3> QED
      BY <2>2, <3>2, <3>4
  <2> QED
    BY <2>5, <2>6
<1> QED
  BY <1>1, <1>4, <1>5, Bounds

\* Start launches a scenario.
LEMMA CountLaunched ==
    ASSUME CountInv, OutstandingInv, NEW p \in Procs, ~Born(p),
           \A q \in Procs : Born(q)' <=> (Born(q) \/ q = p),
           UNCHANGED countVars, ToCount = 0, ToCount' = 1
    PROVE  CountInv' /\ CountStep
<1> DEFINE Launched == {q \in Procs : Born(q)}
<1>1. processors' = processors /\ processors \in Int /\ removals' = removals
  BY DEF CountInv, countVars
<1>2. removals[p] = 0
  BY DEF OutstandingInv
<1>3. Launched' = Launched \cup {p} /\ p \notin Launched
  OBVIOUS
<1>4. Alive' = Alive \cup {p} /\ p \notin Alive
  BY <1>1, <1>2 DEF Alive
<1>5. Cardinality(Launched') = Cardinality(Launched) + 1
      /\ Cardinality(Alive') = Cardinality(Alive) + 1
  BY <1>3, <1>4, LaunchedFinite, FS_AddElement
<1>6. CountInv'
  BY <1>1, <1>5, LaunchedFinite DEF CountInv
<1>7. HarnessCounts!Launch
  BY <1>1, <1>5, LaunchedFinite
     DEF HarnessCounts!Launch, HarnessCounts!By, Alive
<1> QED
  BY <1>6, <1>7 DEF CountStep, HarnessCounts!Next

-----------------------------------------------------------------------------
(* Every step keeps the invariant, one lemma per kind of step. *)

\* What is proved of every step.
Kept == Inv' /\ [HarnessNext]_harnessVars /\ CountStep

\* What the generators' turns have in common.
LEMMA RunsFacts ==
    ASSUME Inv, NEW p \in Procs, Enters(p)
    PROVE  /\ Born(p) /\ vc[p].depth > 0 /\ vc[p] \in Processor /\ Fits(vc[p])
           /\ \A q \in Procs : vc[q].client # None => Live(q, vc[q].client)
           /\ soon[p] \in Nat /\ soon[p] + vc[p].depth =< MaxSoon + MaxDepth
BY EntersAt DEF Inv, CoreInv, ProcsInv, OutstandingInv

\* Who was born stays so.
LEMMA BornStays ==
    ASSUME ProcsInv, NEW p \in Procs, Born(p), NEW w,
           vc' = [vc EXCEPT ![p] = w], w.depth > 0
    PROVE  \A q \in Procs : Born(q)' <=> Born(q)
BY DEF ProcsInv, Born

\* shutdown, whatever the processor looks like by then.
LEMMA ShutdownInv ==
    ASSUME Inv, NEW p \in Procs, Enters(p), NEW v \in Processor, Fits(v),
           v.client = vc[p].client, v.depth = vc[p].depth,
           NEW ended, Shutdown(p, ended, v),
           UNCHANGED <<harnessVars, soon, posts, replies, after>>
    PROVE  Kept
<1> USE RunsFacts
<1>1. tries' \in [Procs -> Nat] /\ soon' \in [Procs -> Nat]
      /\ posts' \in [Procs -> 0..MaxPosts] /\ soon' = soon /\ posts' = posts
  <2>1. tries \in [Procs -> Nat]
    BY DEF Inv, OutstandingInv
  <2> QED
    BY <2>1 DEF Inv, OutstandingInv, Shutdown
<1>2. RepliesInv' /\ ToCount' = ToCount
  BY DEF Inv, RepliesInv, ToCount
<1>3. CASE RemoveProcessor(p) /\ vc' = [vc EXCEPT ![p] = v] /\ call' = Nothing
  <2>1. v.depth > 0 /\ Proceeds(p)
    BY <1>3 DEF Proceeds
  <2>2. CoreInv' /\ [HarnessNext]_harnessVars
    BY <1>3, <2>1, ResultInv DEF Inv
  <2>3. \A q \in Procs : Born(q)' <=> Born(q)
    BY <1>3, <2>1, BornStays DEF Inv, CoreInv
  <2>4. /\ CountInv' /\ CountStep
        /\ removals' \in [Procs -> 0..MaxRemovals] /\ removals'[p] > 0
        /\ \A q \in Procs : q = p \/ removals'[q] = removals[q]
    BY <1>2, <1>3, <2>3, CountReported DEF Inv
  <2>5. OutstandingInv'
    BY <1>1, <1>3, <2>1, <2>4, OutstandingStep DEF Inv, CoreInv
  <2> QED
    BY <1>2, <2>2, <2>4, <2>5 DEF Kept, Inv
<1>4. CASE /\ UNCHANGED countVars
           /\ vc' = [vc EXCEPT ![p] = Fresh]
           /\ call' = Send(p, "none")
  <2>1. Proceeds(p) /\ Fresh.depth > 0 /\ Fresh.top # "done"
        /\ Fresh.depth =< vc[p].depth /\ Fresh \in Processor /\ Fits(Fresh)
        /\ Fresh.client = None
    BY <1>4, FreshFits DEF Proceeds, Answers, Processor
  <2>2. PICK w \in Processor : w = Fresh
    BY <2>1
  <2>3. Afterwards
    BY <1>4, <2>1, <2>2, AfterStays DEF Inv
  <2>4. ClientsStay
    BY <1>4, <2>1 DEF ClientsStay, Inv, CoreInv, ProcsInv
  <2>5. Uses(p)
    BY DEF Uses
  <2>6. CoreInv' /\ [HarnessNext]_harnessVars
    BY <1>4, <2>1, <2>2, <2>3, <2>4, <2>5, StepInv DEF Inv
  <2>7. \A q \in Procs : Born(q)' <=> Born(q)
    BY <1>4, <2>1, BornStays DEF Inv, CoreInv
  <2>8. removals' = removals /\ processors' = processors
    BY <1>4 DEF countVars
  <2>9. CountInv' /\ CountStep
    BY <1>2, <2>7, <2>8, CountStays DEF Inv, CountInv
  <2>10. removals' \in [Procs -> 0..MaxRemovals]
    BY <2>8 DEF Inv, OutstandingInv
  <2>11. soon'[p] + w.depth =< MaxSoon + MaxDepth
    BY <1>1, <2>1, <2>2, Bounds, FreshFits DEF Processor
  <2>12. OutstandingInv'
    BY <1>1, <1>4, <2>1, <2>2, <2>8, <2>10, <2>11, OutstandingStep DEF Inv, CoreInv
  <2> QED
    BY <1>2, <2>6, <2>9, <2>12 DEF Kept, Inv
<1> QED
  BY <1>3, <1>4 DEF Shutdown

LEMMA RunInvalidInv ==
    ASSUME Inv, NEW p \in Procs, RunInvalid(p)
    PROVE  Kept
<1>1. Enters(p)
  BY DEF RunInvalid, Yields, Resumes, Catches
<1>2. PICK v : v = [vc[p] EXCEPT !.top = "suspended", !.asked = "invalid"]
  OBVIOUS
<1>3. /\ v \in Processor /\ Alike(vc[p], v) /\ v.client = vc[p].client
      /\ v.depth = vc[p].depth
  BY <1>1, <1>2, RunsFacts DEF Processor, MoveKinds, Alike
<1>4. Fits(v)
  BY <1>1, <1>3, AlikeFits, RunsFacts
<1> QED
  BY <1>1, <1>2, <1>3, <1>4, ShutdownInv DEF RunInvalid

LEMMA ScenarioFailsInv ==
    ASSUME Inv, NEW p \in Procs, ScenarioFails(p)
    PROVE  Kept
<1>1. Enters(p)
  BY DEF ScenarioFails, TypeErrors, Uncaught, Runs, Resumes, Catches
<1>2. PICK v : v = IF TypeErrors(p) THEN vc[p] ELSE [vc[p] EXCEPT !.top = "done"]
  OBVIOUS
<1>3. /\ v \in Processor /\ Alike(vc[p], v) /\ v.client = vc[p].client
      /\ v.depth = vc[p].depth
  BY <1>1, <1>2, RunsFacts DEF Processor, Alike
<1>4. Fits(v)
  BY <1>1, <1>3, AlikeFits, RunsFacts
<1> QED
  BY <1>1, <1>2, <1>3, <1>4, ShutdownInv DEF ScenarioFails

\* A step of a running scenario that leaves the counts and the tries alone.
LEMMA UncountedInv ==
    ASSUME Inv, NEW p \in Procs, Born(p), NEW w \in Processor,
           vc' = [vc EXCEPT ![p] = w], w.depth > 0, w.top = "done" => removals[p] > 0,
           CoreInv', [HarnessNext]_harnessVars,
           UNCHANGED <<tries, countVars>>, ToCount' = ToCount,
           soon' \in [Procs -> Nat], posts' \in [Procs -> 0..MaxPosts],
           \A q \in Procs : q = p \/ (soon'[q] = soon[q] /\ posts'[q] = posts[q]),
           soon'[p] + w.depth =< MaxSoon + MaxDepth, RepliesInv'
    PROVE  Kept
<1>1. removals' = removals /\ processors' = processors /\ tries' = tries
  BY DEF countVars
<1>2. \A q \in Procs : Born(q)' <=> Born(q)
  BY BornStays DEF Inv, CoreInv
<1>3. CountInv' /\ CountStep
  BY <1>1, <1>2, CountStays DEF Inv, CountInv
<1>4. removals' \in [Procs -> 0..MaxRemovals] /\ tries' \in [Procs -> Nat]
  BY <1>1 DEF Inv, OutstandingInv
<1>5. OutstandingInv'
  BY <1>1, <1>4, OutstandingStep DEF Inv, CoreInv
<1> QED
  BY <1>3, <1>5 DEF Kept, Inv

LEMMA RunNestedInv ==
    ASSUME Inv, NEW p \in Procs, RunNested(p)
    PROVE  Kept
<1>1. Enters(p)
  BY DEF RunNested, Yields, Resumes
<1>0. /\ Born(p) /\ vc[p].depth > 0 /\ vc[p].depth \in 0..MaxDepth
      /\ vc[p] \in Processor /\ Fits(vc[p])
      /\ \A q \in Procs : vc[q].client # None => Live(q, vc[q].client)
      /\ soon[p] \in Nat /\ soon[p] + vc[p].depth =< MaxSoon + MaxDepth
  BY <1>1, RunsFacts DEF Processor
<1> USE <1>1, <1>0
<1>2. PICK w : w = [vc[p] EXCEPT !.depth = vc[p].depth + 1, !.top = "fresh",
                             !.asked = "start"]
  OBVIOUS
<1>3. /\ vc[p].depth < MaxDepth /\ soon[p] < MaxSoon
      /\ soon' = [soon EXCEPT ![p] = @ + 1]
      /\ vc' = [vc EXCEPT ![p] = w] /\ Proceeds(p)
      /\ UNCHANGED <<harnessVars, tries, posts, countVars, replies, after>>
  BY <1>2 DEF RunNested, ResultLater, Proceeds
<1>4. vc[p].depth + 1 \in 0..MaxDepth /\ vc[p].depth + 1 > 0
  BY <1>3, Bounds
<1>5. /\ w \in Processor /\ Alike(vc[p], w) /\ w.client = vc[p].client
      /\ w.depth = vc[p].depth + 1 /\ w.top = "fresh" /\ w.depth > 0
  BY <1>2, <1>4 DEF Processor, MoveKinds, Alike
<1>6. Fits(w)
  BY <1>5, AlikeFits
<1>7. CoreInv' /\ [HarnessNext]_harnessVars
  BY <1>3, <1>5, <1>6, ResultInv DEF Inv
<1>8. /\ soon' \in [Procs -> Nat] /\ soon'[p] = soon[p] + 1
      /\ \A q \in Procs : q = p \/ soon'[q] = soon[q]
      /\ posts' \in [Procs -> 0..MaxPosts] /\ posts' = posts
  BY <1>3 DEF Inv, OutstandingInv
<1>9. soon'[p] + w.depth =< MaxSoon + MaxDepth
  BY <1>3, <1>5, <1>8, Bounds DEF Processor
<1>10. RepliesInv' /\ ToCount' = ToCount
  BY <1>3 DEF Inv, RepliesInv, ToCount
<1> QED
  BY <1>3, <1>5, <1>7, <1>8, <1>9, <1>10, UncountedInv

LEMMA ScenarioReturnsInv ==
    ASSUME Inv, NEW p \in Procs, ScenarioReturns(p)
    PROVE  Kept
<1>1. Enters(p)
  BY DEF ScenarioReturns, StopsAtOnce, Runs, Resumes, Catches
<1>0. /\ Born(p) /\ vc[p].depth > 0 /\ vc[p].depth \in 0..MaxDepth
      /\ vc[p] \in Processor /\ Fits(vc[p])
      /\ \A q \in Procs : vc[q].client # None => Live(q, vc[q].client)
      /\ soon[p] \in Nat /\ soon[p] + vc[p].depth =< MaxSoon + MaxDepth
  BY <1>1, RunsFacts DEF Processor
<1> USE <1>1, <1>0
<1>2. CASE OneLeft(p)
  <2>1. PICK v : v = [vc[p] EXCEPT !.top = "done"]
    OBVIOUS
  <2>2. /\ v \in Processor /\ Alike(vc[p], v) /\ v.client = vc[p].client
        /\ v.depth = vc[p].depth
    BY <2>1 DEF Processor, Alike
  <2>3. Fits(v)
    BY <2>2, AlikeFits
  <2> QED
    BY <1>2, <2>1, <2>2, <2>3, ShutdownInv DEF ScenarioReturns
<1>3. CASE ~OneLeft(p)
  <2>1. PICK w : w = [vc[p] EXCEPT !.depth = vc[p].depth - 1, !.top = "suspended",
                               !.asked = "nested"]
    OBVIOUS
  <2>2. /\ soon' = [soon EXCEPT ![p] = @ + 1]
        /\ vc' = [vc EXCEPT ![p] = w] /\ Proceeds(p)
        /\ UNCHANGED <<harnessVars, tries, posts, countVars, replies, after>>
    BY <1>3, <2>1 DEF ScenarioReturns, Proceeds
  <2>3. vc[p].depth - 1 \in 0..MaxDepth /\ vc[p].depth - 1 > 0
    BY <1>3, Bounds DEF OneLeft
  <2>4. /\ w \in Processor /\ Alike(vc[p], w) /\ w.client = vc[p].client
        /\ w.depth = vc[p].depth - 1 /\ w.top = "suspended" /\ w.depth > 0
    BY <2>1, <2>3 DEF Processor, MoveKinds, Alike
  <2>5. Fits(w)
    BY <2>4, AlikeFits
  <2>6. CoreInv' /\ [HarnessNext]_harnessVars
    BY <2>2, <2>4, <2>5, ResultInv DEF Inv
  <2>7. /\ soon' \in [Procs -> Nat] /\ soon'[p] = soon[p] + 1
        /\ \A q \in Procs : q = p \/ soon'[q] = soon[q]
        /\ posts' \in [Procs -> 0..MaxPosts] /\ posts' = posts
    BY <2>2 DEF Inv, OutstandingInv
  <2>8. soon'[p] + w.depth =< MaxSoon + MaxDepth
    BY <2>4, <2>7, Bounds
  <2>9. RepliesInv' /\ ToCount' = ToCount
    BY <2>2 DEF Inv, RepliesInv, ToCount
  <2> QED
    BY <2>2, <2>4, <2>6, <2>7, <2>8, <2>9, UncountedInv
<1> QED
  BY <1>2, <1>3

LEMMA RunCommandKept ==
    ASSUME Inv, NEW p \in Procs, RunCommand(p)
    PROVE  Kept
<1>1. Enters(p)
  BY DEF RunCommand, RunConnect, RunDisconnect, RunAck, RunExpect, RunWait,
     RunCounter, RunSpawn, RunTimerStart, RunTimerEnd, RunRequest,
     RunSendNotification, Yields, Resumes
<1>0. /\ Born(p) /\ vc[p].depth > 0 /\ vc[p].depth \in 0..MaxDepth
      /\ vc[p] \in Processor /\ Fits(vc[p])
      /\ \A q \in Procs : vc[q].client # None => Live(q, vc[q].client)
      /\ soon[p] \in Nat /\ soon[p] + vc[p].depth =< MaxSoon + MaxDepth
  BY <1>1, RunsFacts DEF Processor
<1> USE <1>1, <1>0
<1>2. CoreInv' /\ [HarnessNext]_harnessVars /\ RunsOn(p)
  BY RunCommandInv DEF Inv
<1>3. PICK w \in Processor :
         vc' = [vc EXCEPT ![p] = w] /\ w.depth = vc[p].depth /\ w.top = "suspended"
  BY <1>2 DEF RunsOn
<1>4. UNCHANGED <<tries, soon, countVars, after>>
  BY DEF RunCommand
<1>5. ToCount' = ToCount /\ soon' = soon /\ soon' \in [Procs -> Nat]
  BY <1>4 DEF ToCount, Inv, OutstandingInv
<1>6. posts \in [Procs -> 0..MaxPosts]
  BY DEF Inv, OutstandingInv
<1>7. UNCHANGED posts \/ (posts[p] < MaxPosts /\ posts' = [posts EXCEPT ![p] = @ + 1])
  BY DEF RunCommand, RunRequest, RunSendNotification
<1>8. posts' \in [Procs -> 0..MaxPosts] /\ \A q \in Procs : q = p \/ posts'[q] = posts[q]
  <2>1. CASE UNCHANGED posts
    BY <1>6, <2>1
  <2>2. CASE posts[p] < MaxPosts /\ posts' = [posts EXCEPT ![p] = @ + 1]
    BY <1>6, <2>2, Bounds
  <2> QED
    BY <1>7, <2>1, <2>2
<1>9. RepliesInv'
  <2>1. replies \in [Conns -> Seq(Requests)]
    BY DEF Inv, RepliesInv
  <2>2. ASSUME NEW m \in Requests, RunRequest(p, m) PROVE RepliesInv'
    <3>1. PICK c : c = Asked(p, m).client
      OBVIOUS
    <3>2. \/ replies' = replies
          \/ replies' = [replies EXCEPT ![c] = Append(@, m)]
      BY <2>2, <3>1 DEF RunRequest
    <3>3. \A d \in Conns : Append(replies[d], m) \in Seq(Requests)
      BY <2>1, <2>2
    <3> QED
      BY <2>1, <3>2, <3>3 DEF RepliesInv
  <2>3. CASE UNCHANGED replies
    BY <2>1, <2>3 DEF RepliesInv
  <2> QED
    BY <2>2, <2>3 DEF RunCommand, RunSendNotification
<1> QED
  BY <1>2, <1>3, <1>4, <1>5, <1>8, <1>9, UncountedInv

\* A step that touches neither a stack of generators nor the harness.
LEMMA IdleStepInv ==
    ASSUME Inv, NEW p \in Procs, Born(p), NEW w \in Processor,
           Becomes(p, vc[p], w), Fits(w),
           \A q \in Procs : vc[q].client # None => Live(q, vc[q].client),
           UNCHANGED <<harnessVars, tries, countVars, replies>>,
           Proceeds(p), Afterwards, ToCount' = ToCount,
           soon' = soon \/ (soon[p] > 0 /\ soon' = [soon EXCEPT ![p] = @ - 1]),
           posts' = posts \/ (posts[p] > 0 /\ posts' = [posts EXCEPT ![p] = @ - 1])
    PROVE  Kept
<1>1. /\ vc[p] \in Processor /\ vc[p].depth > 0 /\ vc' = [vc EXCEPT ![p] = w]
      /\ w.depth = vc[p].depth /\ w.top = vc[p].top /\ w.client = vc[p].client
      /\ vc[p].depth \in 0..MaxDepth
  BY DEF Inv, CoreInv, ProcsInv, Born, Becomes, Processor
<1>2. Uses(p) /\ ClientsStay
  BY <1>1 DEF Uses, ClientsStay, Inv, CoreInv, ProcsInv
<1>3. CoreInv' /\ [HarnessNext]_harnessVars
  BY <1>1, <1>2, StepInv DEF Inv
<1>4. /\ soon \in [Procs -> Nat] /\ posts \in [Procs -> 0..MaxPosts]
      /\ soon[p] + vc[p].depth =< MaxSoon + MaxDepth
      /\ vc[p].top = "done" => removals[p] > 0
  BY DEF Inv, OutstandingInv
<1>5. /\ soon' \in [Procs -> Nat] /\ \A q \in Procs : q = p \/ soon'[q] = soon[q]
      /\ soon'[p] =< soon[p]
  <2>1. CASE soon' = soon
    BY <1>4, <2>1
  <2>2. CASE soon[p] > 0 /\ soon' = [soon EXCEPT ![p] = @ - 1]
    BY <1>4, <2>2
  <2> QED
    BY <2>1, <2>2
<1>6. posts' \in [Procs -> 0..MaxPosts] /\ \A q \in Procs : q = p \/ posts'[q] = posts[q]
  <2>1. CASE posts' = posts
    BY <1>4, <2>1
  <2>2. CASE posts[p] > 0 /\ posts' = [posts EXCEPT ![p] = @ - 1]
    BY <1>4, <2>2, Bounds
  <2> QED
    BY <2>1, <2>2
<1>7. soon'[p] + w.depth =< MaxSoon + MaxDepth
  BY <1>1, <1>4, <1>5, Bounds
<1>8. RepliesInv'
  BY DEF Inv, RepliesInv
<1> QED
  BY <1>1, <1>3, <1>4, <1>5, <1>6, <1>7, <1>8, UncountedInv

LEMMA VcStays ==
    ASSUME ProcsInv, NEW p \in Procs, vc' = vc
    PROVE  vc[p] \in Processor /\ Becomes(p, vc[p], vc[p]) /\ Fits(vc[p])
BY DEF ProcsInv, Becomes

\* Between callbacks, and while handle has returned.
LEMMA CallerFacts ==
    ASSUME Inv, call = Nothing
    PROVE  \A q \in Procs : vc[q].client # None => Live(q, vc[q].client)
BY DEF Inv, CoreInv, ClientsInv, Losing, Nothing, Frame

LEMMA NothingIsDone ==
    ASSUME after' = Nothing
    PROVE  Afterwards /\ ToCount' = 0
BY DEF Afterwards, Afters, Nothing, Frame, ToCount, Answers

LEMMA TimerTailInv ==
    ASSUME Inv, TimerTail
    PROVE  Kept
<1>1. PICK p \in Procs : p = after.p /\ Born(p)
  BY DEF TimerTail, Inv, CoreInv, AfterInv
<1>2. /\ call = Nothing /\ after' = Nothing /\ after.op = "timed out"
      /\ UNCHANGED <<harnessVars, tries, soon, posts, countVars, replies>>
  BY DEF TimerTail
<1>3. Afterwards /\ ToCount' = ToCount
  BY <1>2, NothingIsDone DEF ToCount
<1>4. CASE Waits(p)
  <2>1. PICK w : w = [vc[p] EXCEPT !.waiting = FALSE]
    OBVIOUS
  <2>2. vc' = [vc EXCEPT ![p] = w] /\ Proceeds(p)
    BY <1>1, <1>4, <2>1 DEF TimerTail, ResultNow, Proceeds, Answers
  <2>3. vc[p] \in Processor /\ Fits(vc[p])
    BY DEF Inv, CoreInv, ProcsInv
  <2>4. w \in Processor /\ Alike(vc[p], w) /\ Becomes(p, vc[p], w)
    BY <2>1, <2>2, <2>3 DEF Processor, Alike, Becomes
  <2>5. Fits(w)
    BY <2>3, <2>4, AlikeFits
  <2> QED
    BY <1>1, <1>2, <1>3, <2>2, <2>4, <2>5, CallerFacts, IdleStepInv
<1>5. CASE ~Waits(p)
  <2>1. vc' = vc /\ Proceeds(p)
    BY <1>1, <1>2, <1>5 DEF TimerTail, Proceeds
  <2> QED
    BY <1>1, <1>2, <1>3, <2>1, VcStays, CallerFacts, IdleStepInv DEF Inv, CoreInv
<1> QED
  BY <1>4, <1>5

LEMMA CountTailInv ==
    ASSUME Inv, CountTail
    PROVE  Kept
<1>1. PICK p \in Procs : p = after.p /\ Born(p)
  BY DEF CountTail, Inv, CoreInv, AfterInv
<1>2. /\ call = Nothing /\ call' = Nothing /\ after' = Nothing /\ after.op = "count"
      /\ UNCHANGED <<harnessVars, vc, tries, soon, posts, replies, removals>>
      /\ processors' = processors + 1
  BY DEF CountTail, scenarioVars
<1>3. Afterwards /\ ToCount' = 0 /\ ToCount = 1
  BY <1>2, NothingIsDone DEF ToCount
<1>4. Proceeds(p) /\ Uses(p)
  BY <1>2 DEF Proceeds, Uses
<1>5. ClientsStay
  BY <1>2, CallerFacts DEF ClientsStay
<1>6. /\ vc[p] \in Processor /\ Fits(vc[p]) /\ vc[p].depth > 0
      /\ vc' = [vc EXCEPT ![p] = vc[p]]
  BY <1>1, <1>2, VcStays DEF Inv, CoreInv, Becomes, Born
<1>7. CoreInv' /\ [HarnessNext]_harnessVars
  BY <1>3, <1>4, <1>5, <1>6, StepInv DEF Inv
<1>8. CountInv' /\ CountStep
  BY <1>2, <1>3, CountStays DEF Inv, CountInv, Born
<1>9. OutstandingInv' /\ RepliesInv'
  BY <1>2 DEF Inv, OutstandingInv, RepliesInv, Born, Unborn, Fresh
<1> QED
  BY <1>7, <1>8, <1>9 DEF Kept, Inv

\* A callback of a processor: nothing is left to do but what it leaves.
LEMMA CallbackInv ==
    ASSUME Inv, NEW p \in Procs, Quiet, vc' = vc,
           soon' = soon \/ (soon[p] > 0 /\ soon' = [soon EXCEPT ![p] = @ - 1]),
           posts' = posts \/ (posts[p] > 0 /\ posts' = [posts EXCEPT ![p] = @ - 1]),
           soon[p] > 0 \/ posts[p] > 0, Proceeds(p),
           UNCHANGED <<harnessVars, tries, countVars, replies, after>>
    PROVE  Kept
<1>1. Born(p)
  BY Bounds DEF Inv, OutstandingInv
<1>2. call = Nothing /\ after' = Nothing /\ after = Nothing
  BY DEF Quiet
<1>3. Afterwards /\ ToCount' = ToCount
  BY <1>2, NothingIsDone DEF ToCount, Nothing, Frame
<1> QED
  BY <1>1, <1>2, <1>3, CallerFacts, VcStays, IdleStepInv DEF Inv, CoreInv

LEMMA CallbacksInv ==
    ASSUME Inv, NEW p \in Procs,
           CalledLater(p) \/ PostAnswered(p) \/ ContentFails(p)
    PROVE  Kept
<1>1. CASE CalledLater(p)
  <2>1. Proceeds(p)
    BY <1>1 DEF CalledLater, Proceeds, Answers
  <2> QED
    BY <1>1, <2>1, CallbackInv DEF CalledLater
<1>2. CASE PostAnswered(p)
  <2>1. Proceeds(p)
    BY <1>2 DEF PostAnswered, Proceeds, Answers
  <2> QED
    BY <1>2, <2>1, CallbackInv DEF PostAnswered
<1>3. CASE ContentFails(p)
  <2>1. Proceeds(p)
    BY <1>3 DEF ContentFails, Proceeds, Quiet
  <2> QED
    BY <1>3, <2>1, CallbackInv DEF ContentFails
<1> QED
  BY <1>1, <1>2, <1>3

LEMMA TimerFiresInv ==
    ASSUME Inv, NEW p \in Procs, TimerFires(p)
    PROVE  Kept
<1>1. /\ Quiet /\ vc[p].armed /\ after' = Frame("timed out", p, "none", None)
      /\ UNCHANGED <<harnessVars, tries, soon, posts, countVars, replies>>
  BY DEF TimerFires
<1>2. /\ vc[p] \in Processor /\ Fits(vc[p]) /\ Born(p)
      /\ \A q \in Procs : vc[q].client # None => Live(q, vc[q].client)
  BY <1>1, UnbornFits, QuietClients DEF Inv, CoreInv, ProcsInv, OutstandingInv
<1>3. call = Nothing /\ after = Nothing
  BY <1>1 DEF Quiet
<1>4. PICK u : u = [vc[p] EXCEPT !.armed = FALSE]
  OBVIOUS
<1>5. PICK w : w = IF u.expecting # {} THEN [u EXCEPT !.expecting = {}] ELSE u
  OBVIOUS
<1>6. vc' = [vc EXCEPT ![p] = w] /\ Proceeds(p)
  BY <1>4, <1>5 DEF TimerFires, ResultNow, ResultLater, Proceeds, Answers
<1>7. /\ u \in Processor /\ u.connected = vc[p].connected /\ u.client = vc[p].client
      /\ u.depth = vc[p].depth /\ u.top = vc[p].top
  BY <1>2, <1>4 DEF Processor
<1>8. /\ w \in Processor /\ w.connected = vc[p].connected /\ w.client = vc[p].client
      /\ w.depth = vc[p].depth /\ w.top = vc[p].top /\ w.expecting = {}
  BY <1>5, <1>7 DEF Processor
<1>9. Fits(w) /\ Becomes(p, vc[p], w)
  BY <1>2, <1>6, <1>8, NothingMatchesNothing DEF Fits, Becomes
<1>10. vc'[p].depth > 0
  BY <1>2, <1>6, <1>8 DEF Born, Inv, CoreInv, ProcsInv
<1>11. Afterwards /\ ToCount' = ToCount
  BY <1>1, <1>3, <1>10, NoneIsNobody
     DEF Afterwards, Afters, Frame, Nothing, ToCount, Answers
<1> QED
  BY <1>1, <1>2, <1>6, <1>8, <1>9, <1>11, IdleStepInv

LEMMA StartInv ==
    ASSUME Inv, NEW p \in Procs, Start(p)
    PROVE  Kept
<1>1. /\ Quiet /\ ~Born(p) /\ vc' = [vc EXCEPT ![p] = Fresh]
      /\ call' = Send(p, "none") /\ after' = Frame("count", p, "none", None)
      /\ UNCHANGED <<harnessVars, tries, soon, posts, countVars, replies>>
  BY DEF Start
<1>2. PICK w \in Processor : w = Fresh /\ Fits(w) /\ w.depth = 1 /\ w.depth > 0
                             /\ w.top # "done" /\ w.client = None
  BY FreshFits
<1>3. \A q \in Procs : vc'[q] = IF q = p THEN w ELSE vc[q]
  BY <1>1, <1>2 DEF Inv, CoreInv, ProcsInv
<1>4. Proceeds(p) /\ Uses(p)
  BY <1>1 DEF Proceeds, Uses, Answers
<1>5. ClientsStay
  BY <1>1, <1>2, <1>3, QuietClients DEF ClientsStay, Inv
<1>6. Afterwards
  BY <1>1, <1>2, <1>3, NoneIsNobody DEF Afterwards, Afters, Frame, Answers, Nothing
<1>7. CoreInv' /\ [HarnessNext]_harnessVars
  BY <1>1, <1>2, <1>4, <1>5, <1>6, StepInv DEF Inv
<1>8. \A q \in Procs : Born(q)' <=> (Born(q) \/ q = p)
  BY <1>2, <1>3 DEF Born
<1>9. ToCount = 0 /\ ToCount' = 1
  BY <1>1 DEF ToCount, Quiet, Nothing, Frame
<1>10. CountInv' /\ CountStep
  BY <1>1, <1>8, <1>9, CountLaunched DEF Inv
<1>11. soon[p] = 0 /\ removals' = removals
  BY <1>1 DEF Inv, OutstandingInv, countVars
<1>12. OutstandingInv'
  <2>1. /\ tries' \in [Procs -> Nat] /\ soon' \in [Procs -> Nat]
        /\ posts' \in [Procs -> 0..MaxPosts]
        /\ removals' \in [Procs -> 0..MaxRemovals]
    BY <1>1, <1>11 DEF Inv, OutstandingInv
  <2>2. soon'[p] + w.depth =< MaxSoon + MaxDepth
    BY <1>1, <1>2, <1>11, Bounds
  <2> QED
    BY <1>1, <1>2, <1>11, <2>1, <2>2, OutstandingStep DEF Inv, CoreInv
<1>13. RepliesInv'
  BY <1>1 DEF Inv, RepliesInv
<1> QED
  BY <1>7, <1>10, <1>12, <1>13 DEF Kept, Inv

-----------------------------------------------------------------------------
(* handle. *)

\* handle delivers its event: the client is the connection, none, or as before.
LEMMA DeliverInv ==
    ASSUME Inv, NEW p \in Procs, Born(p), NEW type \in Answers, NEW c \in Conns,
           Deliver(p, type, c), type = "connect" => Live(p, c),
           \A q \in Procs : \/ vc[q].client = None
                            \/ Live(q, vc[q].client)
                            \/ q = p /\ type = "disconnect",
           UNCHANGED <<harnessVars, tries, soon, posts, countVars, replies>>,
           after' = Nothing, ToCount = 0
    PROVE  Kept
<1>1. /\ vc[p] \in Processor /\ Fits(vc[p]) /\ vc[p].depth > 0
      /\ vc[p].depth \in 0..MaxDepth /\ c # None
  BY NoneIsNobody DEF Inv, CoreInv, ProcsInv, Born, Processor
<1>2. PICK w : w = CASE type = "connect" -> [vc[p] EXCEPT !.connected = TRUE,
                                                          !.client = c]
                     [] type = "disconnect" -> [vc[p] EXCEPT !.connected = FALSE,
                                                             !.client = None]
                     [] OTHER -> vc[p]
  OBVIOUS
<1>3. vc' = [vc EXCEPT ![p] = w] /\ call' = Send(p, type)
  BY <1>2 DEF Deliver
<1>4. /\ w \in Processor /\ w.depth = vc[p].depth /\ w.top = vc[p].top
      /\ w.expecting = vc[p].expecting /\ w.armed = vc[p].armed
      /\ w.notifications = vc[p].notifications
      /\ w.connected <=> w.client # None
      /\ type = "connect" => w.client = c
      /\ type = "disconnect" => w.client = None
      /\ (type # "connect" /\ type # "disconnect") => w = vc[p]
  <2>1. CASE type = "connect"
    BY <1>1, <1>2, <2>1 DEF Processor
  <2>2. CASE type = "disconnect"
    BY <1>1, <1>2, <2>2 DEF Processor
  <2>3. CASE type # "connect" /\ type # "disconnect"
    BY <1>1, <1>2, <2>3 DEF Fits
  <2> QED
    BY <2>1, <2>2, <2>3
<1>5. Fits(w)
  BY <1>1, <1>4 DEF Fits, Matching
<1>6. Proceeds(p) /\ Uses(p) /\ Afterwards /\ ToCount' = ToCount
  BY <1>3, NothingIsDone DEF Proceeds, Uses
<1>7. ClientsStay
  <2>1. \A q \in Procs : vc'[q] = IF q = p THEN w ELSE vc[q]
    BY <1>3 DEF Inv, CoreInv, ProcsInv
  <2> QED
    BY <1>4, <2>1 DEF ClientsStay
<1>8. CoreInv' /\ [HarnessNext]_harnessVars
  BY <1>1, <1>3, <1>4, <1>5, <1>6, <1>7, StepInv DEF Inv
<1>9. /\ soon' \in [Procs -> Nat] /\ posts' \in [Procs -> 0..MaxPosts]
      /\ soon' = soon /\ posts' = posts
      /\ w.top = "done" => removals[p] > 0
      /\ soon[p] + vc[p].depth =< MaxSoon + MaxDepth
  BY <1>4 DEF Inv, OutstandingInv
<1>10. RepliesInv'
  BY DEF Inv, RepliesInv
<1> QED
  BY <1>1, <1>3, <1>4, <1>6, <1>8, <1>9, <1>10, UncountedInv

LEMMA HandleTailInv ==
    ASSUME Inv, HandleTail
    PROVE  Kept
<1>1. /\ call = Nothing /\ after.op = "handled" /\ after' = Nothing
      /\ Deliver(after.p, after.what, after.arg)
      /\ UNCHANGED <<harnessVars, tries, soon, posts, countVars, replies>>
  BY DEF HandleTail
<1>2. PICK p \in Procs, type \in Answers, c \in Conns :
         /\ p = after.p /\ type = after.what /\ c = after.arg /\ Born(p)
         /\ type = "connect" => Live(p, c)
  BY <1>1 DEF Inv, CoreInv, AfterInv, Afters
<1>3. ToCount = 0
  BY <1>1 DEF ToCount
<1> QED
  BY <1>1, <1>2, <1>3, CallerFacts, DeliverInv

\* handle stores a notification, or looks for what it expects.
LEMMA HandleNotificationInv ==
    ASSUME Inv, NEW p \in Procs, Born(p), NEW ch \in Channels,
           HandleNotification(p, ch), after = Nothing,
           \A q \in Procs : vc[q].client # None => Live(q, vc[q].client),
           UNCHANGED <<harnessVars, tries, soon, posts, countVars, replies, after>>
    PROVE  Kept
<1>1. vc[p] \in Processor /\ Fits(vc[p])
  BY DEF Inv, CoreInv, ProcsInv
<1>2. PICK v : v = Store(vc[p], ch)
  OBVIOUS
<1>3. /\ v \in Processor /\ v.client = vc[p].client /\ v.depth = vc[p].depth
      /\ v.top = vc[p].top /\ v.expecting = vc[p].expecting /\ v.armed = vc[p].armed
      /\ v.connected = vc[p].connected
  <2>1. Append(vc[p].notifications, ch) \in Seq(Channels)
    BY <1>1 DEF Processor
  <2> QED
    BY <1>1, <1>2, <2>1 DEF Store, Processor
<1>4. PICK w \in Processor : Becomes(p, v, w) /\ Fits(w) /\ Proceeds(p)
  <2>1. CASE v.expecting # {}
    <3>1. Expect(p, v, v.expecting)
      BY <1>2, <2>1 DEF HandleNotification
    <3>2. /\ v.connected <=> v.client # None
          /\ v.expecting # {} => v.armed
          /\ v.expecting \in SUBSET Channels
      BY <1>1, <1>3 DEF Fits, Processor
    <3> QED
      BY <1>3, <3>1, <3>2, ExpectFits
  <2>2. CASE v.expecting = {}
    <3>1. vc' = [vc EXCEPT ![p] = v] /\ call' = Nothing
      BY <1>2, <2>2 DEF HandleNotification, ResultLater
    <3>2. Fits(v)
      BY <1>1, <1>3, <2>2, NothingMatchesNothing DEF Fits
    <3> QED
      BY <1>3, <3>1, <3>2 DEF Becomes, Proceeds
  <2> QED
    BY <2>1, <2>2
<1>5. Becomes(p, vc[p], w)
  BY <1>3, <1>4 DEF Becomes
<1>6. Afterwards /\ ToCount' = ToCount
  BY NothingIsDone DEF ToCount
<1> QED
  BY <1>4, <1>5, <1>6, IdleStepInv

\* An unexpected event detaches the client and is left for later.
LEMMA HandleUnexpectedInv ==
    ASSUME Inv, NEW p \in Procs, call.op = "handle", call.p = p,
           NEW type \in Answers, type = call.what, type # "notification",
           NEW c \in Conns, c = call.arg,
           SendException(p, vc[p]), after' = Frame("handled", p, type, c),
           UNCHANGED <<tries, soon, posts, countVars, replies>>
    PROVE  Kept
<1>1. /\ Born(p) /\ after = Nothing
      /\ type = "connect" => Live(p, c) /\ vc[p].client # c
  BY DEF Inv, CoreInv, CallInv
<1>2. /\ vc[p] \in Processor /\ Fits(vc[p]) /\ vc[p].depth > 0
      /\ vc[p].depth \in 0..MaxDepth
  BY <1>1 DEF Inv, CoreInv, ProcsInv, Born, Processor
<1>3. /\ after'.op = "handled" /\ after'.p = p /\ after'.what = type /\ after'.arg = c
      /\ after' \in Afters
  BY DEF Frame, Afters
<1>4. PICK w \in Processor :
         /\ vc' = [vc EXCEPT ![p] = w] /\ Fits(w)
         /\ w.depth = vc[p].depth /\ w.top = vc[p].top /\ w.client = None
         /\ Uses(p) /\ Proceeds(p) /\ ClientsStay
  BY <1>1, <1>2, <1>3, ExceptionUses DEF Inv
<1>5. vc'[p] = w
  BY <1>4 DEF Inv, CoreInv, ProcsInv
<1>6. Afterwards
  BY <1>1, <1>2, <1>3, <1>4, <1>5 DEF Afterwards, Nothing, Frame
<1>7. CoreInv' /\ [HarnessNext]_harnessVars
  BY <1>2, <1>4, <1>6, StepInv DEF Inv
<1>8. ToCount' = ToCount
  BY <1>1, <1>3 DEF ToCount, Nothing, Frame
<1>9. /\ soon' \in [Procs -> Nat] /\ posts' \in [Procs -> 0..MaxPosts]
      /\ soon' = soon /\ posts' = posts
      /\ w.top = "done" => removals[p] > 0
      /\ soon[p] + vc[p].depth =< MaxSoon + MaxDepth
  BY <1>4 DEF Inv, OutstandingInv
<1>10. RepliesInv'
  BY DEF Inv, RepliesInv
<1> QED
  BY <1>1, <1>2, <1>4, <1>7, <1>8, <1>9, <1>10, UncountedInv

LEMMA HandleCallInv ==
    ASSUME Inv, HandleCall
    PROVE  Kept
<1>1. /\ call.op = "handle" /\ UNCHANGED <<tries, soon, posts, countVars, replies>>
  BY DEF HandleCall
<1>2. PICK p \in Procs : p = call.p /\ Born(p)
  BY <1>1 DEF Inv, CoreInv, CallInv
<1>3. after = Nothing /\ ToCount = 0 /\ call.what \in Answers
  BY <1>1 DEF Inv, CoreInv, CallInv, ToCount, Nothing, Frame
<1>4. CASE call.what = "notification"
  <2>1. call.arg \in Channels
    BY <1>1, <1>4 DEF Inv, CoreInv, CallInv
  <2>2. HandleNotification(p, call.arg) /\ UNCHANGED <<harnessVars, after>>
    BY <1>2, <1>4 DEF HandleCall
  <2>3. \A q \in Procs : vc[q].client # None => Live(q, vc[q].client)
    BY <1>4 DEF Inv, CoreInv, ClientsInv, Losing
  <2> QED
    BY <1>1, <1>2, <1>3, <2>1, <2>2, <2>3, HandleNotificationInv
<1>5. CASE call.what # "notification"
  <2>1. PICK type \in Answers, c \in Conns :
           /\ type = call.what /\ c = call.arg
           /\ type = "connect" => Live(p, c)
    BY <1>1, <1>2, <1>3, <1>5 DEF Inv, CoreInv, CallInv
  <2>2. HandleEvent(p, type, c)
    BY <1>2, <1>5, <2>1 DEF HandleCall
  <2>3. CASE type = "register" \/ vc[p].lastCommand = type
    <3>1. Deliver(p, type, c) /\ UNCHANGED <<harnessVars, after>>
      BY <2>2, <2>3 DEF HandleEvent
    <3>2. \A q \in Procs : \/ vc[q].client = None
                           \/ Live(q, vc[q].client)
                           \/ q = p /\ type = "disconnect"
      BY <1>2, <2>1 DEF Inv, CoreInv, ClientsInv, Losing
    <3> QED
      BY <1>1, <1>2, <1>3, <2>1, <3>1, <3>2, DeliverInv
  <2>4. CASE ~(type = "register" \/ vc[p].lastCommand = type)
    <3>1. SendException(p, vc[p]) /\ after' = Frame("handled", p, type, c)
      BY <2>2, <2>4 DEF HandleEvent
    <3> QED
      BY <1>1, <1>2, <1>5, <2>1, <3>1, HandleUnexpectedInv
  <2> QED
    BY <2>3, <2>4
<1> QED
  BY <1>4, <1>5

-----------------------------------------------------------------------------
(* What Twisted, Autobahn and the server report. *)

\* No event of a connection touches what is counted.
LEMMA EventInv ==
    ASSUME Inv, CoreInv', [HarnessNext]_harnessVars,
           UNCHANGED <<scenarioVars, countVars, after>>, RepliesInv'
    PROVE  Kept
<1>1. /\ vc' = vc /\ soon' = soon /\ posts' = posts /\ tries' = tries
      /\ removals' = removals /\ processors' = processors /\ ToCount' = ToCount
  BY DEF scenarioVars, countVars, ToCount
<1>2. OutstandingInv'
  BY <1>1 DEF Inv, OutstandingInv, Born, Unborn, Fresh
<1>3. CountInv' /\ CountStep
  BY <1>1, CountStays DEF Inv, CountInv, Born
<1> QED
  BY <1>2, <1>3 DEF Kept, Inv

LEMMA ConnectionEventsInv ==
    ASSUME Inv, NEW c \in Conns,
           OnOpen(c) \/ OnClose(c) \/ OnReply(c) \/ OnNotification(c) \/ OnGarbage(c)
    PROVE  Kept
<1>1. replies \in [Conns -> Seq(Requests)]
  BY DEF Inv, RepliesInv
<1>2. CASE OnOpen(c)
  <2>1. RepliesInv' /\ UNCHANGED <<scenarioVars, countVars, after>>
    BY <1>1, <1>2 DEF OnOpen, RepliesInv
  <2> QED
    BY <1>2, <2>1, OnOpenInv, EventInv DEF Inv
<1>3. CASE OnClose(c)
  <2>1. <<>> \in Seq(Requests)
    OBVIOUS
  <2>2. RepliesInv' /\ UNCHANGED <<scenarioVars, countVars, after>>
    BY <1>1, <1>3, <2>1 DEF OnClose, RepliesInv
  <2> QED
    BY <1>3, <2>2, OnCloseInv, EventInv DEF Inv
<1>4. CASE OnReply(c)
  <2>1. /\ Quiet /\ Delivers(c) /\ replies[c] # <<>>
        /\ replies' = [replies EXCEPT ![c] = Tail(@)]
        /\ Arrives(c, Head(replies[c]), c)
        /\ UNCHANGED <<harnessVars, scenarioVars, countVars, after>>
    BY <1>4 DEF OnReply
  <2>2. Head(replies[c]) \in Requests /\ Tail(replies[c]) \in Seq(Requests)
    BY <1>1, <2>1
  <2>3. /\ Head(replies[c]) \in Answers
        /\ Head(replies[c]) \notin {"notification", "connect", "disconnect"}
    BY <2>2 DEF Requests, Answers
  <2>4. CoreInv'
    BY <2>1, <2>3, ArrivesInv DEF Inv, scenarioVars
  <2>5. RepliesInv'
    BY <1>1, <2>1, <2>2 DEF RepliesInv
  <2> QED
    BY <2>1, <2>4, <2>5, EventInv
<1>5. CASE OnNotification(c)
  <2>1. /\ Quiet /\ Delivers(c)
        /\ UNCHANGED <<harnessVars, scenarioVars, countVars, replies, after>>
    BY <1>5 DEF OnNotification
  <2>2. PICK ch \in Channels : Arrives(c, "notification", ch)
    BY <1>5 DEF OnNotification
  <2>3. CoreInv' /\ RepliesInv'
    BY <1>1, <2>1, <2>2, ArrivesInv DEF Inv, scenarioVars, RepliesInv, Answers
  <2> QED
    BY <2>1, <2>3, EventInv
<1>6. CASE OnGarbage(c)
  <2>1. /\ Quiet /\ Delivers(c) /\ Arrives(c, "error", c)
        /\ UNCHANGED <<harnessVars, scenarioVars, countVars, replies, after>>
    BY <1>6 DEF OnGarbage
  <2>2. CoreInv' /\ RepliesInv'
    BY <1>1, <2>1, ArrivesInv DEF Inv, scenarioVars, RepliesInv, Answers
  <2> QED
    BY <2>1, <2>2, EventInv
<1> QED
  BY <1>2, <1>3, <1>4, <1>5, <1>6

-----------------------------------------------------------------------------
(* The theorems. *)

LEMMA InitInv == Init => Inv /\ HarnessInit /\ HarnessCounts!Init
<1> SUFFICES ASSUME Init PROVE Inv /\ HarnessInit /\ HarnessCounts!Init
  OBVIOUS
<1>1. HarnessInit /\ HarnessInv
  BY HarnessInitInv DEF Init
<1>2. \A p \in Procs : vc[p] = Unborn /\ ~Born(p)
  BY UnbornFits DEF Init, Born
<1>3. ProcsInv /\ ClientsInv
  BY <1>2, UnbornFits DEF Init, ProcsInv, ClientsInv
<1>4. BornInv
  BY DEF Init, HarnessInit, BornInv
<1>5. CallInv /\ AfterInv /\ ToCount = 0
  BY DEF Init, CallInv, AfterInv, Calls, Afters, Nothing, Frame, ToCount, Answers
<1>6. OutstandingInv
  BY <1>2, UnbornFits, Bounds DEF Init, OutstandingInv
<1>7. RepliesInv
  BY DEF Init, RepliesInv
<1>8. Alive = {} /\ {p \in Procs : Born(p)} = {}
      /\ {p \in Procs : Born(p) /\ removals[p] = 0} = {}
  BY <1>2 DEF Alive
<1>9. CountInv /\ HarnessCounts!Init
  <2>1. Cardinality(Alive) = 0 /\ Cardinality({p \in Procs : Born(p)}) = 0
        /\ Cardinality({p \in Procs : Born(p) /\ removals[p] = 0}) = 0
    BY <1>8, FS_EmptySet
  <2>2. processors = 0 /\ processors + ToCount = 0
    BY <1>5 DEF Init
  <2> QED
    BY <2>1, <2>2 DEF CountInv, HarnessCounts!Init
<1> QED
  BY <1>1, <1>3, <1>4, <1>5, <1>6, <1>7, <1>9 DEF Inv, CoreInv

LEMMA NextInv == Inv /\ [Next]_vars => Kept
<1> SUFFICES ASSUME Inv, [Next]_vars PROVE Kept
  OBVIOUS
<1>1. ASSUME NEW p \in Procs,
             \/ RunCommand(p) \/ RunNested(p) \/ RunInvalid(p)
             \/ ScenarioReturns(p) \/ ScenarioFails(p)
      PROVE  Kept
  BY <1>1, RunCommandKept, RunNestedInv, RunInvalidInv, ScenarioReturnsInv,
     ScenarioFailsInv
<1>2. CASE HandleCall \/ HandleTail \/ TimerTail \/ CountTail
  BY <1>2, HandleCallInv, HandleTailInv, TimerTailInv, CountTailInv
<1>3. ASSUME NEW p \in Procs,
             \/ Start(p) \/ CalledLater(p) \/ PostAnswered(p)
             \/ ContentFails(p) \/ TimerFires(p)
      PROVE  Kept
  BY <1>3, StartInv, CallbacksInv, TimerFiresInv
<1>4. ASSUME NEW c \in Conns,
             \/ OnOpen(c) \/ OnClose(c) \/ OnReply(c)
             \/ OnNotification(c) \/ OnGarbage(c)
      PROVE  Kept
  BY <1>4, ConnectionEventsInv
<1>5. CASE TcpSettles
  <2>1. RepliesInv' /\ UNCHANGED <<scenarioVars, countVars, after>>
    BY <1>5 DEF TcpSettles, OtherThanHarness, Inv, RepliesInv
  <2> QED
    BY <1>5, <2>1, TcpSettlesInv, EventInv DEF Inv
<1>6. CASE UNCHANGED vars
  <2>1. UNCHANGED <<harnessVars, scenarioVars, countVars, replies, call, after>>
    BY <1>6 DEF vars
  <2>2. HarnessInv' /\ RepliesInv'
    BY <2>1, HarnessNextInv DEF Inv, CoreInv, RepliesInv
  <2>3. CoreInv'
    BY <2>1, <2>2 DEF Inv, CoreInv, ProcsInv, BornInv, CallInv, AfterInv,
       ClientsInv, Losing, Live, Born, harnessVars, scenarioVars, Nothing, Frame
  <2> QED
    BY <2>1, <2>2, <2>3, EventInv
<1> QED
  BY <1>1, <1>2, <1>3, <1>4, <1>5, <1>6 DEF Next, Turn, Event, Rest

\* Inv holds in every state.
THEOREM ProcessorsAreCorrect == Spec => []Inv
<1>1. Init => Inv
  BY InitInv
<1>2. Inv /\ [Next]_vars => Inv'
  BY NextInv DEF Kept
<1> QED
  BY <1>1, <1>2, PTL DEF Spec

\* Whatever its scenarios do, the processors use the harness only as
\* Harness.tla says: what is proved of it above holds here, too.
THEOREM HarnessIsUsedAsSpecified == Spec => HarnessSpec
<1>1. Init => HarnessInit
  BY InitInv
<1>2. Inv /\ [Next]_vars => [HarnessNext]_harnessVars
  BY NextInv DEF Kept
<1> QED
  BY <1>1, <1>2, ProcessorsAreCorrect, PTL DEF Spec, HarnessSpec

\* So a waiter of the composed system has its connection on the way, and none
\* is opened in vain, as long as no TCP connection is refused
\* (RunnerHarness.connect, remove_client).
THEOREM ScenariosGetTheirConnections ==
    Spec => [](WaitersHaveConnections /\ ConnectionsAreWaitedFor /\ RegistryExact)
<1> QED
  BY HarnessIsUsedAsSpecified, WaitersAreConnected, NoUnnecessaryOpen,
     RegistryIsExact, PTL

\* The processors and the calls between them keep their types
\* (CommandProcessor._reset).
THEOREM ProcessorsAreTyped == Spec => []TypeOK
<1>1. Inv => TypeOK
  <2> SUFFICES ASSUME Inv PROVE TypeOK
    OBVIOUS
  <2>1. HarnessTypeOK /\ vc \in [Procs -> Processor] /\ call \in Calls
        /\ after \in Afters /\ replies \in [Conns -> Seq(Requests)]
    BY DEF Inv, CoreInv, HarnessInv, ProcsInv, CallInv, AfterInv, RepliesInv
  <2>2. tries \in [Procs -> Nat] /\ posts \in [Procs -> 0..MaxPosts]
        /\ removals \in [Procs -> 0..MaxRemovals] /\ processors \in Int
    BY DEF Inv, OutstandingInv, CountInv
  <2>3. soon \in [Procs -> 0..(MaxSoon + MaxDepth)]
    <3>1. soon \in [Procs -> Nat]
      BY DEF Inv, OutstandingInv
    <3>2. ASSUME NEW p \in Procs PROVE soon[p] =< MaxSoon + MaxDepth
      <4>1. vc[p].depth \in 0..MaxDepth
        BY <2>1 DEF Processor
      <4>2. soon[p] + vc[p].depth =< MaxSoon + MaxDepth
        BY DEF Inv, OutstandingInv
      <4> QED
        BY <3>1, <4>1, <4>2, Bounds
    <3> QED
      BY <3>1, <3>2, Bounds
  <2> QED
    BY <2>1, <2>2, <2>3 DEF TypeOK, Processor, Calls, Afters
<1> QED
  BY <1>1, ProcessorsAreCorrect, PTL

\* A processor's _ws_client is there and is its own, so that a command is never
\* sent on a connection that is gone or somebody else's (handle,
\* _send_exception).
THEOREM ClientsAreLive == Spec => []ClientIsLive
<1>1. Inv => ClientIsLive
  BY DEF Inv, CoreInv, ProcsInv, Fits, ClientsInv, Losing, Live, ClientIsLive
<1> QED
  BY <1>1, ProcessorsAreCorrect, PTL

\* No expectation is left without the timer that ends it (setTimeout, _reset).
THEOREM ExpectationsAreTimed == Spec => []ExpectingIsTimed
<1>1. Inv => ExpectingIsTimed
  BY DEF Inv, CoreInv, ProcsInv, Fits, ExpectingIsTimed
<1> QED
  BY <1>1, ProcessorsAreCorrect, PTL

\* No processor waits for a notification that it has stored (handle,
\* expect_notifications).
THEOREM StoredIsNotAwaited == Spec => []NothingOverlooked
<1>1. Inv => NothingOverlooked
  BY DEF Inv, CoreInv, ProcsInv, Fits, NothingOverlooked
<1> QED
  BY <1>1, ProcessorsAreCorrect, PTL

\* The harness counts no processor whose generators are over (add_processor,
\* remove_processor, shutdown).
THEOREM OnlyTheAliveAreCounted == Spec => []CountedAreAlive
<1>1. Inv => CountedAreAlive
  <2> SUFFICES ASSUME Inv, Quiet
               PROVE  processors
                          =< Cardinality({p \in Procs : Born(p) /\ vc[p].top # "done"})
    BY DEF CountedAreAlive
  <2> DEFINE Undone == {p \in Procs : Born(p) /\ vc[p].top # "done"}
  <2>1. Alive \subseteq Undone
    BY DEF Alive, Inv, OutstandingInv
  <2>2. IsFiniteSet(Undone)
    BY Bounds, FS_Subset
  <2>3. Cardinality(Alive) =< Cardinality(Undone) /\ Cardinality(Undone) \in Nat
    BY <2>1, <2>2, FS_Subset, FS_CardinalityType
  <2>4. ToCount = 0 /\ processors \in Int /\ processors + ToCount =< Cardinality(Alive)
    BY DEF Inv, CountInv, Quiet, ToCount, Nothing, Frame
  <2> QED
    BY <2>3, <2>4, LaunchedFinite
<1> QED
  BY <1>1, ProcessorsAreCorrect, PTL

\* A harness's processors move its count just as HarnessCount.tla says, which is
\* what LoadRunner.tla takes for granted of each harness (run, shutdown).
THEOREM CountIsKeptByProcessors == Spec => CountIsKept
<1>1. Init => HarnessCounts!Init
  BY InitInv
<1>2. Inv /\ [Next]_vars => CountStep
  BY NextInv DEF Kept
<1> QED
  BY <1>1, <1>2, ProcessorsAreCorrect, PTL
     DEF Spec, CountIsKept, HarnessCounts!Spec, CountStep

-----------------------------------------------------------------------------
(* The inductive invariant of an orderly run. *)

\* Nothing is outstanding for processor p.
Settled(p) ==
    /\ ~Waiting(p)
    /\ soon[p] = 0 /\ posts[p] = 0
    /\ ~vc[p].waiting /\ vc[p].expecting = {}
    /\ \A c \in Conns : ws[c].processor = p =>
          ws[c].state = "open" /\ replies[c] = <<>>

\* p is being told of its new connection c.
Connecting(p, c) ==
    /\ call.op = "handle" /\ call.what = "connect"
    /\ call.p = p /\ call.arg = c

\* Whatever is outstanding for p is what its last command asked for, and the
\* only connection p has is its client.
AskedFor(p) ==
    /\ vc[p].asked \in Commands => vc[p].lastCommand = vc[p].asked
    /\ vc[p].top = "fresh" => vc[p].asked = "start"
    /\ Waiting(p) => vc[p].asked = "connect" /\ vc[p].client = None
    /\ soon[p] > 0 => soon[p] = 1 /\ vc[p].asked \in {"start", "nested"}
    /\ posts[p] > 0 => posts[p] = 1 /\ vc[p].asked = "send_notification"
    /\ vc[p].waiting => vc[p].asked = "wait"
    /\ vc[p].expecting # {} => vc[p].asked \in Abstract!Expecting
    /\ \A c \in Conns : ws[c].processor = p =>
          /\ vc[p].client = c \/ Connecting(p, c)
          /\ ws[c].state = "closing" => vc[p].asked = "disconnect"
          /\ replies[c] # <<>> =>
                vc[p].asked \in Requests /\ replies[c] = <<vc[p].asked>>

\* p's timer ran out, and timeoutConnection is not finished.
TimesOut(p) == after.op = "timed out" /\ after.p = p

\* A wait has a timer, or the one that ran out is about to end it.
Timed(p) == vc[p].waiting => vc[p].armed \/ TimesOut(p)

OverInv(p) == removals[p] > 0 => Settled(p)

\* Nobody waits twice.
WaitOnce == \A i, j \in 1..Len(waiters) : waiters[i] = waiters[j] => i = j

\* What is owed is owed to somebody.
OwedToSomebody == \A c \in Conns : ws[c].processor = None => replies[c] = <<>>

\* A scenario that is entered, or is about to be because of an event, is not
\* over, has nothing else outstanding, and is told what it asked for.
TellsInv ==
    /\ call.op \in {"send", "throw"} => Settled(call.p) /\ removals[call.p] = 0
    /\ call.op = "send" => call.what \in Abstract!Results(vc[call.p].asked)
    /\ call.op = "throw" => vc[call.p].client = None /\ call.what = "exception"
    /\ call.op = "handle" /\ call.what # "notification" =>
          /\ Settled(call.p) /\ removals[call.p] = 0
          /\ call.what \in Abstract!OwnEvent /\ vc[call.p].asked = call.what
          /\ call.what = "connect" => vc[call.p].client = None
          /\ call.what = "disconnect" =>
                \A c \in Conns : ws[c].processor # call.p

OrderlyInv ==
    /\ \A p \in Procs : AskedFor(p) /\ Timed(p) /\ OverInv(p)
    /\ WaitOnce /\ OwedToSomebody /\ TellsInv
    /\ after.op # "handled"

-----------------------------------------------------------------------------
(* What a step of one processor leaves alone, and what it means for the    *)
(* conversations.                                                          *)

\* A step of processor p changes nothing of another one,
Apart(p) ==
    \A q \in Procs \ {p} :
       /\ vc'[q] = vc[q] /\ soon'[q] = soon[q] /\ posts'[q] = posts[q]
       /\ removals'[q] = removals[q]
       /\ Waiting(q)' <=> Waiting(q)
       /\ \A c \in Conns : ws'[c].processor = q =>
             ws'[c] = ws[c] /\ replies'[c] = replies[c]

\* and the calls it returns from and makes are p's.
Attends(p) ==
    /\ call.op # "nothing" => call.p = p
    /\ call'.op # "nothing" => call'.p = p
    /\ after' = after \/ after = Nothing \/ after.p = p
    /\ after'.op # "handled"

\* What is proved of every step.
Ordered == OrderlyInv' /\ [Abstract!Next]_(Abstract!conversation)

LEMMA OthersStay ==
    ASSUME OrderlyInv, NEW p, Apart(p), Attends(p),
           NEW q \in Procs, q # p
    PROVE  /\ AskedFor(q)' /\ Timed(q)' /\ OverInv(q)'
           /\ Talk(q)' = Talk(q)
<1>1. /\ vc'[q] = vc[q] /\ soon'[q] = soon[q] /\ posts'[q] = posts[q]
      /\ removals'[q] = removals[q]
      /\ Waiting(q)' <=> Waiting(q)
      /\ \A c \in Conns : ws'[c].processor = q =>
            ws'[c] = ws[c] /\ replies'[c] = replies[c]
  BY DEF Apart
<1>2. AskedFor(q) /\ Timed(q) /\ OverInv(q)
  BY DEF OrderlyInv
<1>3. \A c \in Conns : ~Connecting(q, c)
  BY DEF Attends, Connecting
<1>4. ~Enters(q) /\ ~Enters(q)'
  BY DEF Attends, Enters
<1>5. AskedFor(q)'
  BY <1>1, <1>2, <1>3 DEF AskedFor
<1>6. Timed(q)'
  <2>1. TimesOut(q) => TimesOut(q)'
    <3>1. after # Nothing \/ ~TimesOut(q)
      <4>1. Nothing.op = "nothing"
        BY DEF Nothing, Frame
      <4> QED
        BY <4>1, Zenon DEF TimesOut
    <3>2. after.p # p \/ ~TimesOut(q)
      BY Zenon DEF TimesOut
    <3> QED
      BY <3>1, <3>2, Zenon DEF Attends, TimesOut
  <2> QED
    BY <1>1, <1>2, <2>1 DEF Timed
<1>7. OverInv(q)'
  BY <1>1, <1>2 DEF OverInv, Settled
<1>8. Talk(q)' = Talk(q)
  BY <1>1, <1>4 DEF Talk, Born
<1> QED
  BY <1>5, <1>6, <1>7, <1>8

LEMMA KeepsOrder ==
    ASSUME OrderlyInv, NEW p \in Procs, Apart(p), Attends(p),
           AskedFor(p)', Timed(p)', OverInv(p)',
           WaitOnce', OwedToSomebody', TellsInv'
    PROVE  OrderlyInv'
<1>1. \A q \in Procs : AskedFor(q)' /\ Timed(q)' /\ OverInv(q)'
  BY OthersStay
<1> QED
  BY <1>1 DEF OrderlyInv, Attends

\* The conversations go on as p's does.
LEMMA Speaks ==
    ASSUME OrderlyInv, NEW p \in Procs, Apart(p), Attends(p)
    PROVE  /\ Talk(p)' = Talk(p) => UNCHANGED Abstract!conversation
           /\ \A t, m, a : Talk(p)' = <<t, m, a>> => Abstract!Becomes(p, t, m, a)
<1>1. \A q \in Procs : q # p => Talk(q)' = Talk(q)
  BY OthersStay
<1>2. ASSUME Talk(p)' = Talk(p) PROVE UNCHANGED Abstract!conversation
  <2>1. \A q \in Procs : Talk(q)' = Talk(q)
    BY <1>1, <1>2
  <2> QED
    BY <2>1 DEF Abstract!conversation
<1>3. ASSUME NEW t, NEW m, NEW a, Talk(p)' = <<t, m, a>>
      PROVE  Abstract!Becomes(p, t, m, a)
  <2>1. /\ Talk(p)'[1] = t /\ Talk(p)'[2] = m /\ Talk(p)'[3] = a
    BY <1>3
  <2> HIDE DEF Talk
  <2> QED
    BY <1>1, <2>1 DEF Abstract!Becomes
<1> QED
  BY <1>2, <1>3

-----------------------------------------------------------------------------
(* A scenario runs and yields. *)

LEMMA EntersFacts ==
    ASSUME Inv, OrderlyInv, NEW p \in Procs, Enters(p)
    PROVE  /\ Settled(p) /\ removals[p] = 0 /\ Born(p) /\ call.p = p
           /\ Talk(p) = <<"scenario", vc[p].asked, call.what>>
           /\ vc[p] \in Processor /\ (vc[p].connected <=> vc[p].client # None)
           /\ \A c \in Conns : ws[c].processor = p => vc[p].client = c
           /\ vc[p].client # None =>
                 vc[p].client \in Conns /\ ws[vc[p].client].processor = p
           /\ call.op = "throw" => vc[p].client = None /\ call.what = "exception"
<1>1. call.p = p /\ call.op \in {"send", "throw"}
  BY DEF Enters
<1>2. /\ Settled(p) /\ removals[p] = 0
      /\ call.op = "throw" => vc[p].client = None /\ call.what = "exception"
  BY <1>1 DEF OrderlyInv, TellsInv
<1>3. Born(p) /\ vc[p] \in Processor /\ Fits(vc[p])
  BY RunsFacts
<1>4. \A c \in Conns : ws[c].processor = p => vc[p].client = c
  BY <1>1 DEF OrderlyInv, AskedFor, Connecting
<1>5. vc[p].client # None =>
         vc[p].client \in Conns /\ ws[vc[p].client].processor = p
  BY RunsFacts DEF Live
<1>6. Talk(p) = <<"scenario", vc[p].asked, call.what>>
  BY <1>2, <1>3 DEF Talk
<1> QED
  BY <1>1, <1>2, <1>3, <1>4, <1>5, <1>6 DEF Fits

\* What p's commands do with the harness touches only p's connections.
Serves(p) ==
    \/ UNCHANGED harnessVars
    \/ Connect(p)
    \/ \E c \in Conns : ws[c].processor = p /\ (SendClose(c) \/ Detach(c))

LEMMA WaitersAfterConnect ==
    ASSUME HarnessTypeOK, NEW p \in Procs, Connect(p)
    PROVE  /\ Waiting(p)'
           /\ \A q \in Procs \ {p} : Waiting(q)' <=> Waiting(q)
           /\ WaitOnce /\ ~Waiting(p) => WaitOnce'
<1>1. waiters \in Seq(Procs) /\ waiters' = Append(waiters, p)
  BY DEF HarnessTypeOK, Connect
<1>2. Len(waiters') = Len(waiters) + 1 /\ Len(waiters) \in Nat
      /\ waiters'[Len(waiters) + 1] = p
      /\ \A i \in 1..Len(waiters) : waiters'[i] = waiters[i]
  BY <1>1
<1>3. Waiting(p)'
  BY <1>2 DEF Waiting
<1>4. ASSUME NEW q \in Procs, q # p PROVE Waiting(q)' <=> Waiting(q)
  BY <1>2, <1>4 DEF Waiting
<1>5. ASSUME WaitOnce, ~Waiting(p) PROVE WaitOnce'
  <2>1. ASSUME NEW i \in 1..Len(waiters'), NEW j \in 1..Len(waiters'),
               waiters'[i] = waiters'[j]
        PROVE  i = j
    <3>1. i \in 1..Len(waiters) \/ i = Len(waiters) + 1
      BY <1>2
    <3>2. j \in 1..Len(waiters) \/ j = Len(waiters) + 1
      BY <1>2
    <3>3. CASE i \in 1..Len(waiters) /\ j \in 1..Len(waiters)
      BY <1>2, <1>5, <2>1, <3>3 DEF WaitOnce
    <3>4. CASE i \in 1..Len(waiters) /\ j = Len(waiters) + 1
      BY <1>2, <1>5, <2>1, <3>4 DEF Waiting
    <3>5. CASE i = Len(waiters) + 1 /\ j \in 1..Len(waiters)
      BY <1>2, <1>5, <2>1, <3>5 DEF Waiting
    <3> QED
      BY <3>1, <3>2, <3>3, <3>4, <3>5
  <2> QED
    BY <2>1 DEF WaitOnce
<1> QED
  BY <1>3, <1>4, <1>5

LEMMA ServesApart ==
    ASSUME Inv, NEW p \in Procs, NEW w, vc' = [vc EXCEPT ![p] = w], Serves(p),
           \A q \in Procs \ {p} :
              soon'[q] = soon[q] /\ posts'[q] = posts[q] /\ removals'[q] = removals[q],
           \A c \in Conns : ws[c].processor # p => replies'[c] = replies[c]
    PROVE  Apart(p)
<1> SUFFICES ASSUME NEW q \in Procs, q # p
             PROVE  /\ vc'[q] = vc[q]
                    /\ Waiting(q)' <=> Waiting(q)
                    /\ \A c \in Conns : ws'[c].processor = q =>
                          ws'[c] = ws[c] /\ replies'[c] = replies[c]
  BY DEF Apart
<1>1. vc'[q] = vc[q]
  BY DEF Inv, CoreInv, ProcsInv
<1>2. HarnessTypeOK
  BY DEF Inv, CoreInv, HarnessInv
<1>3. Waiting(q)' <=> Waiting(q)
  <2>1. CASE Connect(p)
    BY <1>2, <2>1, WaitersAfterConnect
  <2>2. CASE UNCHANGED waiters
    BY <2>2 DEF Waiting
  <2> QED
    BY <2>1, <2>2 DEF Serves, harnessVars, SendClose, Detach
<1>4. ASSUME NEW c \in Conns, ws'[c].processor = q PROVE ws'[c] = ws[c]
  <2>1. CASE UNCHANGED ws
    BY <2>1
  <2>2. ASSUME NEW d \in Conns, ws[d].processor = p, SendClose(d) \/ Detach(d)
        PROVE  ws'[c] = ws[c]
    <3>1. ws'[d].processor \in {p, None}
      BY <1>2, <2>2 DEF HarnessTypeOK, SendClose, Detach, Closing
    <3>2. c # d
      BY <1>4, <3>1, NoneIsNobody
    <3> QED
      BY <1>2, <2>2, <3>2 DEF HarnessTypeOK, SendClose, Detach
  <2> QED
    BY <2>1, <2>2 DEF Serves, harnessVars, Connect
<1> QED
  BY <1>1, <1>3, <1>4

\* The scenario of p asks for m, or for a nested generator, or returns from one,
\* and is answered later.
LEMMA LaterOrder ==
    ASSUME Inv, OrderlyInv, NEW p \in Procs, Enters(p), NEW w \in Processor,
           vc' = [vc EXCEPT ![p] = w], w.depth > 0, w.asked \in Abstract!Askable,
           call' = Nothing, UNCHANGED <<after, removals>>, Apart(p),
           AskedFor(p)', w.waiting => w.armed, WaitOnce', OwedToSomebody'
    PROVE  Ordered
<1>1. vc'[p] = w
  BY DEF Inv, CoreInv, ProcsInv
<1>2. /\ removals[p] = 0 /\ call.p = p
      /\ Talk(p) = <<"scenario", vc[p].asked, call.what>>
  BY EntersFacts
<1>3. call'.op = "nothing"
  BY DEF Nothing, Frame
<1>4. Attends(p)
  BY <1>2, <1>3 DEF Attends, OrderlyInv
<1>5. Timed(p)' /\ OverInv(p)' /\ TellsInv'
  BY <1>1, <1>2, <1>3 DEF Timed, OverInv, TellsInv
<1>6. OrderlyInv'
  BY <1>4, <1>5, KeepsOrder
<1>7. Talk(p)' = <<"processor", w.asked, "nothing">>
  BY <1>1, <1>2, <1>3 DEF Talk, Born, Enters
<1>8. Abstract!Ask(p)
  BY <1>2, <1>4, <1>7, Speaks DEF Abstract!Ask
<1> QED
  BY <1>6, <1>8 DEF Ordered, Abstract!Next

\* It asks for m and hears at once.
LEMMA NowOrder ==
    ASSUME Inv, OrderlyInv, NEW p \in Procs, Enters(p), NEW w \in Processor,
           NEW m \in Commands,
           vc' = [vc EXCEPT ![p] = w], w.depth > 0, w.asked = m,
           w.lastCommand = m, w.top = "suspended", ~w.waiting, w.expecting = {},
           UNCHANGED <<after, removals, soon, posts, replies, waiters>>,
           \/ /\ UNCHANGED harnessVars
              /\ w.client = vc[p].client
              /\ \E a \in Abstract!Results(m) : call' = Send(p, a)
           \/ /\ call' = Throw(p) /\ w.client = None
              /\ \/ vc[p].client = None /\ UNCHANGED harnessVars
                 \/ vc[p].client # None /\ Detach(vc[p].client)
    PROVE  Ordered
<1> DEFINE client == vc[p].client
<1>1. vc'[p] = w /\ HarnessTypeOK
  BY DEF Inv, CoreInv, ProcsInv, HarnessInv
<1>2. /\ removals[p] = 0 /\ call.p = p /\ Settled(p)
      /\ Talk(p) = <<"scenario", vc[p].asked, call.what>>
      /\ \A c \in Conns : ws[c].processor = p => client = c
      /\ client # None => client \in Conns /\ ws[client].processor = p
  BY EntersFacts
<1>3. /\ call'.p = p /\ call'.op \in {"send", "throw"}
      /\ call'.op = "send" => call'.what \in Abstract!Results(m)
      /\ call'.op = "throw" => w.client = None /\ call'.what = "exception"
      /\ call'.what \in Abstract!Results(m) \cup {"exception"}
  BY DEF Send, Throw, Frame
<1>4. Attends(p)
  BY <1>2, <1>3 DEF Attends, OrderlyInv
<1>5. Apart(p)
  <2>1. Serves(p)
    BY <1>2 DEF Serves
  <2> QED
    BY <2>1, ServesApart
<1>6. /\ \A c \in Conns : ws'[c].processor = p => ws'[c] = ws[c] /\ w.client = c
      /\ \A c \in Conns : ws'[c].processor = None =>
            ws[c].processor \in {None, p}
  <2>1. CASE UNCHANGED harnessVars /\ w.client = client
    <3>1. ws' = ws
      BY <2>1 DEF harnessVars
    <3> QED
      BY <1>2, <2>1, <3>1
  <2>2. CASE client # None /\ Detach(client)
    BY <1>1, <1>2, <2>2, NoneIsNobody DEF Detach, HarnessTypeOK
  <2> QED
    BY <1>2, <2>1, <2>2
<1>7. Settled(p)'
  BY <1>1, <1>2, <1>6 DEF Settled, Waiting
<1>8. AskedFor(p)'
  BY <1>1, <1>6, <1>7 DEF AskedFor, Settled
<1>9. Timed(p)' /\ OverInv(p)' /\ TellsInv'
  BY <1>1, <1>2, <1>3, <1>7 DEF Timed, OverInv, TellsInv
<1>10. WaitOnce'
  BY DEF WaitOnce, OrderlyInv
<1>11. OwedToSomebody'
  BY <1>2, <1>6 DEF OwedToSomebody, OrderlyInv, Settled
<1>12. OrderlyInv'
  BY <1>4, <1>5, <1>8, <1>9, <1>10, <1>11, KeepsOrder
<1>13. Talk(p)' = <<"scenario", m, call'.what>>
  BY <1>1, <1>2, <1>3 DEF Talk, Born, Enters
<1>14. m \in Abstract!Askable
  BY DEF Commands, Abstract!Askable, Abstract!OwnEvent, Abstract!NoResult,
     Abstract!Expecting
<1>15. Abstract!AskAndHear(p)
  BY <1>2, <1>3, <1>4, <1>5, <1>13, <1>14, Speaks DEF Abstract!AskAndHear
<1> QED
  BY <1>12, <1>15 DEF Ordered, Abstract!Next

-----------------------------------------------------------------------------
(* The commands. *)

\* What a method leaves alone that ends its command at once.
Bystanders == <<after, removals, soon, posts, replies>>

LEMMA AskedFacts ==
    ASSUME Inv, OrderlyInv, NEW p \in Procs, NEW m \in Commands, Yields(p, m),
           NEW v, v = Asked(p, m)
    PROVE  /\ Enters(p) /\ v \in Processor /\ v.depth > 0 /\ v.depth = vc[p].depth
           /\ v.asked = m /\ v.lastCommand = m /\ v.top = "suspended"
           /\ v.client = vc[p].client /\ ~v.waiting /\ v.expecting = {}
           /\ v.connected <=> v.client # None
<1>1. Enters(p)
  BY DEF Yields, Resumes
<1>2. vc[p] \in Processor /\ Settled(p) /\ (vc[p].connected <=> vc[p].client # None)
  BY <1>1, EntersFacts
<1>3. v \in Processor /\ v.depth = vc[p].depth /\ vc[p].depth > 0
  BY <1>1, AskedFits, RunsFacts DEF Inv, CoreInv
<1> QED
  BY <1>1, <1>2, <1>3 DEF Asked, Settled, Processor

LEMMA ResultNowOrder ==
    ASSUME Inv, OrderlyInv, NEW p \in Procs, NEW m \in Commands, Yields(p, m),
           NEW w \in Processor, w.depth > 0, w.asked = m, w.lastCommand = m,
           w.top = "suspended", ~w.waiting, w.expecting = {},
           w.client = vc[p].client, NEW a \in Abstract!Results(m),
           ResultNow(p, w, a), UNCHANGED harnessVars, UNCHANGED Bystanders
    PROVE  Ordered
<1>1. vc' = [vc EXCEPT ![p] = w] /\ call' = Send(p, a)
  BY DEF ResultNow
<1>2. UNCHANGED <<after, removals, soon, posts, replies, waiters>>
  BY DEF Bystanders, harnessVars
<1>3. Enters(p)
  BY DEF Yields, Resumes
<1> QED
  BY <1>1, <1>2, <1>3, NowOrder

LEMMA SendExceptionOrder ==
    ASSUME Inv, OrderlyInv, NEW p \in Procs, NEW m \in Commands, Yields(p, m),
           SendException(p, Asked(p, m)), UNCHANGED Bystanders
    PROVE  Ordered
<1>1. PICK v : v = Asked(p, m)
  OBVIOUS
<1>2. /\ Enters(p) /\ v \in Processor /\ v.depth > 0
      /\ v.asked = m /\ v.lastCommand = m /\ v.top = "suspended"
      /\ v.client = vc[p].client /\ ~v.waiting /\ v.expecting = {}
      /\ v.connected <=> v.client # None
  BY <1>1, AskedFacts
<1>3. PICK w : w = IF v.connected THEN Disconnected(v) ELSE v
  OBVIOUS
<1>4. /\ w \in Processor /\ w.depth > 0 /\ w.asked = m /\ w.lastCommand = m
      /\ w.top = "suspended" /\ ~w.waiting /\ w.expecting = {}
      /\ w.client = None
  BY <1>2, <1>3 DEF Disconnected, Processor
<1>5. /\ vc' = [vc EXCEPT ![p] = w] /\ call' = Throw(p)
      /\ \/ vc[p].client = None /\ UNCHANGED harnessVars
         \/ vc[p].client # None /\ Detach(vc[p].client)
  BY <1>1, <1>2, <1>3 DEF SendException
<1>6. UNCHANGED <<after, removals, soon, posts, replies, waiters>>
  BY <1>5 DEF Bystanders, harnessVars, Detach
<1> QED
  BY <1>2, <1>4, <1>5, <1>6, NowOrder

\* A method that returns without a result and without touching the harness
\* leaves outstanding what it sets in w, or a POST.
LEMMA ResultLaterOrder ==
    ASSUME Inv, OrderlyInv, NEW p \in Procs, NEW m \in Commands, Yields(p, m),
           NEW w \in Processor, w.depth > 0, w.asked = m, w.lastCommand = m,
           w.top = "suspended", w.client = vc[p].client,
           w.waiting => m = "wait" /\ w.armed,
           w.expecting # {} => m \in Abstract!Expecting,
           ResultLater(p, w), UNCHANGED <<harnessVars, after, removals, soon, replies>>,
           \/ UNCHANGED posts
           \/ m = "send_notification" /\ posts' = [posts EXCEPT ![p] = @ + 1]
    PROVE  Ordered
<1>1. vc' = [vc EXCEPT ![p] = w] /\ call' = Nothing
  BY DEF ResultLater
<1>2. Enters(p) /\ m \in Abstract!Askable
  BY DEF Yields, Resumes, Commands, Abstract!Askable, Abstract!OwnEvent,
     Abstract!NoResult, Abstract!Expecting
<1>3. /\ Settled(p)
      /\ \A c \in Conns : ws[c].processor = p => vc[p].client = c
  BY <1>2, EntersFacts
<1>4. vc'[p] = w
  BY <1>1 DEF Inv, CoreInv, ProcsInv
<1>5. waiters' = waiters /\ ws' = ws /\ soon' = soon /\ replies' = replies
      /\ removals' = removals /\ after' = after
  BY DEF harnessVars
<1>6. posts'[p] > 0 => posts'[p] = 1 /\ m = "send_notification"
      /\ \A q \in Procs \ {p} : posts'[q] = posts[q]
  BY <1>3 DEF Settled, Inv, OutstandingInv
<1>7. \A q \in Procs \ {p} : posts'[q] = posts[q]
  BY DEF Inv, OutstandingInv
<1>8. Apart(p)
  BY <1>1, <1>5, <1>7, ServesApart DEF Serves
<1>9. AskedFor(p)'
  BY <1>3, <1>4, <1>5, <1>6 DEF AskedFor, Settled, Waiting
<1>10. WaitOnce' /\ OwedToSomebody'
  BY <1>5 DEF WaitOnce, OwedToSomebody, OrderlyInv
<1> QED
  BY <1>1, <1>2, <1>4, <1>5, <1>8, <1>9, <1>10, LaterOrder

LEMMA RunConnectOrder ==
    ASSUME Inv, OrderlyInv, NEW p \in Procs, RunConnect(p), UNCHANGED Bystanders
    PROVE  Ordered
<1>1. PICK v : v = Asked(p, "connect")
  OBVIOUS
<1>2. Yields(p, "connect") /\ "connect" \in Commands
  BY DEF RunConnect, Commands
<1>3. /\ Enters(p) /\ v \in Processor /\ v.depth > 0
      /\ v.asked = "connect" /\ v.lastCommand = "connect" /\ v.top = "suspended"
      /\ v.client = vc[p].client /\ ~v.waiting /\ v.expecting = {}
      /\ v.connected <=> v.client # None
  BY <1>1, <1>2, AskedFacts
<1>4. CASE SendException(p, v)
  BY <1>1, <1>2, <1>4, SendExceptionOrder
<1>5. CASE ~v.connected /\ Connect(p) /\ ResultLater(p, v)
  <2>1. vc' = [vc EXCEPT ![p] = v] /\ call' = Nothing
    BY <1>5 DEF ResultLater
  <2>2. /\ Settled(p)
        /\ \A c \in Conns : ws[c].processor = p => vc[p].client = c
    BY <1>3, EntersFacts
  <2>3. vc'[p] = v /\ HarnessTypeOK
    BY <2>1 DEF Inv, CoreInv, ProcsInv, HarnessInv
  <2>4. ws' = ws /\ soon' = soon /\ posts' = posts /\ replies' = replies
        /\ after' = after /\ removals' = removals
    BY <1>5 DEF Connect, Bystanders
  <2>5. Apart(p)
    BY <1>5, <2>1, <2>4, ServesApart DEF Serves
  <2>6. AskedFor(p)'
    BY <1>3, <1>5, <2>2, <2>3, <2>4 DEF AskedFor, Settled
  <2>7. WaitOnce'
    BY <1>5, <2>2, <2>3, WaitersAfterConnect DEF OrderlyInv, Settled
  <2>8. OwedToSomebody'
    BY <2>4 DEF OwedToSomebody, OrderlyInv
  <2>9. "connect" \in Abstract!Askable
    BY DEF Abstract!Askable, Abstract!OwnEvent
  <2> QED
    BY <1>3, <2>1, <2>4, <2>5, <2>6, <2>7, <2>8, <2>9, LaterOrder
<1> QED
  BY <1>1, <1>4, <1>5 DEF RunConnect, Unconnectable

LEMMA RunDisconnectOrder ==
    ASSUME Inv, OrderlyInv, NEW p \in Procs, RunDisconnect(p), UNCHANGED Bystanders
    PROVE  Ordered
<1>1. PICK v : v = Asked(p, "disconnect")
  OBVIOUS
<1>2. Yields(p, "disconnect") /\ "disconnect" \in Commands
  BY DEF RunDisconnect, Commands
<1>3. /\ Enters(p) /\ v \in Processor /\ v.depth > 0
      /\ v.asked = "disconnect" /\ v.lastCommand = "disconnect" /\ v.top = "suspended"
      /\ v.client = vc[p].client /\ ~v.waiting /\ v.expecting = {}
  BY <1>1, <1>2, AskedFacts
<1>4. CASE SendException(p, v)
  BY <1>1, <1>2, <1>4, SendExceptionOrder
<1>5. CASE v.client # None /\ SendClose(v.client) /\ ResultLater(p, v)
  <2>1. vc' = [vc EXCEPT ![p] = v] /\ call' = Nothing
    BY <1>5 DEF ResultLater
  <2>2. /\ Settled(p)
        /\ \A c \in Conns : ws[c].processor = p => vc[p].client = c
        /\ v.client \in Conns /\ ws[v.client].processor = p
    BY <1>3, <1>5, EntersFacts
  <2>3. vc'[p] = v /\ HarnessTypeOK
    BY <2>1 DEF Inv, CoreInv, ProcsInv, HarnessInv
  <2>4. waiters' = waiters /\ soon' = soon /\ posts' = posts /\ replies' = replies
        /\ after' = after /\ removals' = removals
    BY <1>5 DEF SendClose, Bystanders
  <2>5. \A c \in Conns : ws'[c].processor = ws[c].processor
    BY <1>5, <2>2, <2>3 DEF SendClose, Closing, HarnessTypeOK
  <2>6. Apart(p)
    BY <1>5, <2>1, <2>2, <2>4, ServesApart DEF Serves
  <2>7. AskedFor(p)'
    BY <1>3, <2>2, <2>3, <2>4, <2>5 DEF AskedFor, Settled, Waiting
  <2>8. WaitOnce' /\ OwedToSomebody'
    BY <2>4, <2>5 DEF WaitOnce, OwedToSomebody, OrderlyInv
  <2>9. "disconnect" \in Abstract!Askable
    BY DEF Abstract!Askable, Abstract!OwnEvent
  <2> QED
    BY <1>3, <2>1, <2>4, <2>6, <2>7, <2>8, <2>9, LaterOrder
<1> QED
  BY <1>1, <1>4, <1>5 DEF RunDisconnect

LEMMA RunRequestOrder ==
    ASSUME Inv, OrderlyInv, NEW p \in Procs, NEW m \in Requests, RunRequest(p, m),
           UNCHANGED <<after, removals, soon>>
    PROVE  Ordered
<1>1. PICK v : v = Asked(p, m)
  OBVIOUS
<1>2. Yields(p, m) /\ m \in Commands /\ posts' = posts
  BY DEF RunRequest, Requests, Commands
<1>3. /\ Enters(p) /\ v \in Processor /\ v.depth > 0
      /\ v.asked = m /\ v.lastCommand = m /\ v.top = "suspended"
      /\ v.client = vc[p].client /\ ~v.waiting /\ v.expecting = {}
  BY <1>1, <1>2, AskedFacts
<1>4. CASE SendException(p, v) /\ UNCHANGED replies
  <2>1. UNCHANGED Bystanders
    BY <1>2, <1>4 DEF Bystanders
  <2> QED
    BY <1>1, <1>2, <1>4, <2>1, SendExceptionOrder
<1>5. CASE /\ v.client # None /\ ResultLater(p, v) /\ UNCHANGED harnessVars
           /\ replies' = IF ws[v.client].state = "open"
                         THEN [replies EXCEPT ![v.client] = Append(@, m)]
                         ELSE replies
  <2>1. vc' = [vc EXCEPT ![p] = v] /\ call' = Nothing
    BY <1>5 DEF ResultLater
  <2>2. /\ Settled(p)
        /\ \A c \in Conns : ws[c].processor = p => vc[p].client = c
        /\ v.client \in Conns /\ ws[v.client].processor = p
    BY <1>3, <1>5, EntersFacts
  <2>3. vc'[p] = v
    BY <2>1 DEF Inv, CoreInv, ProcsInv
  <2>4. waiters' = waiters /\ ws' = ws /\ soon' = soon /\ posts' = posts
        /\ after' = after /\ removals' = removals
    BY <1>2, <1>5 DEF harnessVars
  <2>5. /\ replies'[v.client] = <<m>>
        /\ \A c \in Conns \ {v.client} : replies'[c] = replies[c]
    <3>1. replies \in [Conns -> Seq(Requests)] /\ replies[v.client] = <<>>
          /\ ws[v.client].state = "open"
      BY <2>2 DEF Settled, Inv, RepliesInv
    <3>2. Append(replies[v.client], m) = <<m>>
      BY <3>1
    <3> QED
      BY <1>5, <2>2, <3>1, <3>2
  <2>6. Apart(p)
    BY <1>5, <2>1, <2>2, <2>4, <2>5, ServesApart DEF Serves
  <2>7. AskedFor(p)'
    BY <1>3, <2>2, <2>3, <2>4, <2>5 DEF AskedFor, Settled, Waiting
  <2>8. WaitOnce' /\ OwedToSomebody'
    BY <2>2, <2>4, <2>5, NoneIsNobody DEF WaitOnce, OwedToSomebody, OrderlyInv
  <2>9. m \in Abstract!Askable
    BY DEF Requests, Abstract!Askable, Abstract!OwnEvent
  <2> QED
    BY <1>3, <2>1, <2>4, <2>6, <2>7, <2>8, <2>9, LaterOrder
<1> QED
  BY <1>1, <1>4, <1>5 DEF RunRequest

LEMMA RunExpectOrder ==
    ASSUME Inv, OrderlyInv, NEW p \in Procs, RunExpect(p), UNCHANGED Bystanders
    PROVE  Ordered
<1>1. ASSUME NEW m \in Abstract!Expecting, Yields(p, m),
             NEW chs \in SUBSET Channels, NEW v, v = Asked(p, m),
             Expect(p, v, chs), UNCHANGED harnessVars
      PROVE  Ordered
  <2>1. m \in Commands
    BY DEF Abstract!Expecting, Commands
  <2>2. /\ v \in Processor /\ v.depth > 0
        /\ v.asked = m /\ v.lastCommand = m /\ v.top = "suspended"
        /\ v.client = vc[p].client /\ ~v.waiting /\ v.expecting = {}
    BY <1>1, <2>1, AskedFacts
  <2>3. CASE Matching(v, chs) # {}
    <3>1. WithoutFirst(v, chs) \in Seq(Channels)
      BY <2>2, <2>3, WithoutFirstType
    <3>2. PICK u : u = [v EXCEPT !.notifications = WithoutFirst(v, chs)]
      OBVIOUS
    <3>3. PICK w : w = ClearExpecting(u)
      OBVIOUS
    <3>4. /\ u \in Processor /\ u.depth = v.depth /\ u.asked = m
          /\ u.lastCommand = m /\ u.top = "suspended" /\ u.client = v.client
          /\ u.waiting = v.waiting
      BY <2>2, <3>1, <3>2 DEF Processor
    <3>5. /\ w \in Processor /\ w.depth = u.depth /\ w.asked = m
          /\ w.lastCommand = m /\ w.top = "suspended" /\ w.client = u.client
          /\ w.waiting = u.waiting /\ w.expecting = {}
      BY <3>3, <3>4 DEF ClearExpecting, Processor
    <3>6. ResultNow(p, w, "notification")
      BY <1>1, <2>3, <3>2, <3>3 DEF Expect
    <3>7. "notification" \in Abstract!Results(m)
      BY DEF Abstract!Results, Abstract!Expecting, Abstract!OwnEvent,
         Abstract!NoResult
    <3> QED
      BY <1>1, <2>1, <2>2, <3>4, <3>5, <3>6, <3>7, ResultNowOrder
  <2>4. CASE Matching(v, chs) = {}
    <3>1. PICK w : w = SetExpecting(v, chs)
      OBVIOUS
    <3>2. ResultLater(p, w)
      BY <1>1, <2>2, <2>4, <3>1 DEF Expect
    <3>3. /\ w \in Processor /\ w.depth = v.depth /\ w.asked = m
          /\ w.lastCommand = m /\ w.top = "suspended" /\ w.client = v.client
          /\ ~w.waiting
      BY <2>2, <3>1 DEF SetExpecting, Processor
    <3>4. UNCHANGED <<harnessVars, after, removals, soon, replies>> /\ UNCHANGED posts
      BY <1>1 DEF Bystanders
    <3> QED
      BY <1>1, <2>1, <2>2, <3>2, <3>3, <3>4, ResultLaterOrder
  <2> QED
    BY <2>3, <2>4
<1>2. "expect_notification" \in Abstract!Expecting
      /\ "expect_notifications" \in Abstract!Expecting
  BY DEF Abstract!Expecting
<1>3. UNCHANGED harnessVars
  BY DEF RunExpect
<1>4. ASSUME Yields(p, "expect_notification"), NEW ch \in Channels,
             Expect(p, Asked(p, "expect_notification"), {ch})
      PROVE  Ordered
  <2>1. {ch} \in SUBSET Channels
    OBVIOUS
  <2> QED
    BY <1>1, <1>2, <1>3, <1>4, <2>1
<1>5. ASSUME Yields(p, "expect_notifications"), NEW chs \in SUBSET Channels \ {{}},
             Expect(p, Asked(p, "expect_notifications"), chs)
      PROVE  Ordered
  BY <1>1, <1>2, <1>3, <1>5
<1> QED
  BY <1>4, <1>5 DEF RunExpect

LEMMA RunWaitOrder ==
    ASSUME Inv, OrderlyInv, NEW p \in Procs, RunWait(p), UNCHANGED Bystanders
    PROVE  Ordered
<1>1. PICK v : v = Asked(p, "wait")
  OBVIOUS
<1>2. Yields(p, "wait") /\ "wait" \in Commands
  BY DEF RunWait, Commands
<1>3. /\ v \in Processor /\ v.depth > 0
      /\ v.asked = "wait" /\ v.lastCommand = "wait" /\ v.top = "suspended"
      /\ v.client = vc[p].client /\ v.expecting = {}
  BY <1>1, <1>2, AskedFacts
<1>4. PICK w : w = [v EXCEPT !.waiting = TRUE, !.armed = TRUE]
  OBVIOUS
<1>5. /\ w \in Processor /\ w.depth > 0
      /\ w.asked = "wait" /\ w.lastCommand = "wait" /\ w.top = "suspended"
      /\ w.client = vc[p].client /\ w.expecting = {} /\ w.armed
  BY <1>3, <1>4 DEF Processor
<1>6. ResultLater(p, w) /\ UNCHANGED <<harnessVars, after, removals, soon, replies>>
      /\ UNCHANGED posts
  BY <1>1, <1>4 DEF RunWait, Bystanders
<1> QED
  BY <1>2, <1>5, <1>6, ResultLaterOrder

LEMMA RunSendNotificationOrder ==
    ASSUME Inv, OrderlyInv, NEW p \in Procs, RunSendNotification(p),
           UNCHANGED <<after, removals, soon>>
    PROVE  Ordered
<1> DEFINE m == "send_notification"
<1>1. PICK v : v = Asked(p, m)
  OBVIOUS
<1>2. Yields(p, m) /\ m \in Commands /\ replies' = replies
  BY DEF RunSendNotification, Commands
<1>3. /\ v \in Processor /\ v.depth > 0
      /\ v.asked = m /\ v.lastCommand = m /\ v.top = "suspended"
      /\ v.client = vc[p].client /\ ~v.waiting /\ v.expecting = {}
  BY <1>1, <1>2, AskedFacts
<1>4. CASE /\ posts' = [posts EXCEPT ![p] = @ + 1]
           /\ ResultLater(p, v) /\ UNCHANGED harnessVars
  <2>1. UNCHANGED <<harnessVars, after, removals, soon, replies>>
    BY <1>2, <1>4
  <2> QED
    BY <1>2, <1>3, <1>4, <2>1, ResultLaterOrder
<1>5. CASE ResultNow(p, v, "failure") /\ UNCHANGED <<posts, harnessVars>>
  <2>1. "failure" \in Abstract!Results(m) /\ UNCHANGED harnessVars
        /\ UNCHANGED Bystanders
    BY <1>2, <1>5 DEF Abstract!Results, Abstract!OwnEvent, Abstract!NoResult,
       Abstract!Expecting, Bystanders
  <2> QED
    BY <1>2, <1>3, <1>5, <2>1, ResultNowOrder
<1>6. CASE SendException(p, v) /\ UNCHANGED posts
  <2>1. UNCHANGED Bystanders
    BY <1>2, <1>6 DEF Bystanders
  <2> QED
    BY <1>1, <1>2, <1>6, <2>1, SendExceptionOrder
<1> QED
  BY <1>1, <1>4, <1>5, <1>6 DEF RunSendNotification

LEMMA RunTimerOrder ==
    ASSUME Inv, OrderlyInv, NEW p \in Procs, RunTimerStart(p) \/ RunTimerEnd(p),
           UNCHANGED Bystanders
    PROVE  Ordered
<1>1. ASSUME NEW m \in {"timer_start", "timer_end"}, Yields(p, m),
             NEW v, v = Asked(p, m), NEW ts \in SUBSET Timers,
             NEW a \in Abstract!Results(m),
             ResultNow(p, [v EXCEPT !.timers = ts], a), UNCHANGED harnessVars
      PROVE  Ordered
  <2>1. m \in Commands
    BY DEF Commands
  <2>2. /\ v \in Processor /\ v.depth > 0
        /\ v.asked = m /\ v.lastCommand = m /\ v.top = "suspended"
        /\ v.client = vc[p].client /\ ~v.waiting /\ v.expecting = {}
    BY <1>1, <2>1, AskedFacts
  <2>3. PICK w : w = [v EXCEPT !.timers = ts]
    OBVIOUS
  <2>4. /\ w \in Processor /\ w.depth > 0
        /\ w.asked = m /\ w.lastCommand = m /\ w.top = "suspended"
        /\ w.client = vc[p].client /\ ~w.waiting /\ w.expecting = {}
    BY <2>2, <2>3 DEF Processor
  <2>5. ResultNow(p, w, a)
    BY <1>1, <2>3
  <2> QED
    BY <1>1, <2>1, <2>4, <2>5, ResultNowOrder
<1>2. "none" \in Abstract!Results("timer_start")
      /\ "duration" \in Abstract!Results("timer_end")
  BY DEF Abstract!Results, Abstract!OwnEvent, Abstract!NoResult, Abstract!Expecting
<1>3. "timer_start" \in Commands /\ "timer_end" \in Commands
  BY DEF Commands
<1>4. CASE RunTimerStart(p)
  <2>1. PICK v : v = Asked(p, "timer_start")
    OBVIOUS
  <2>2. v.timers \in SUBSET Timers
    BY <1>3, <1>4, <2>1, AskedFacts DEF RunTimerStart, Processor
  <2>3. PICK t \in Timers :
           \/ SendException(p, v)
           \/ ResultNow(p, [v EXCEPT !.timers = v.timers \cup {t}], "none")
              /\ UNCHANGED harnessVars
    BY <1>4, <2>1 DEF RunTimerStart
  <2>4. v.timers \cup {t} \in SUBSET Timers /\ Yields(p, "timer_start")
    BY <1>4, <2>2 DEF RunTimerStart
  <2> QED
    BY <1>1, <1>2, <1>3, <2>1, <2>3, <2>4, SendExceptionOrder
<1>5. CASE RunTimerEnd(p)
  <2>1. PICK v : v = Asked(p, "timer_end")
    OBVIOUS
  <2>2. v.timers \in SUBSET Timers
    BY <1>3, <1>5, <2>1, AskedFacts DEF RunTimerEnd, Processor
  <2>3. PICK t \in Timers :
           \/ SendException(p, v)
           \/ ResultNow(p, [v EXCEPT !.timers = v.timers \ {t}], "duration")
              /\ UNCHANGED harnessVars
    BY <1>5, <2>1 DEF RunTimerEnd
  <2>4. v.timers \ {t} \in SUBSET Timers /\ Yields(p, "timer_end")
    BY <1>5, <2>2 DEF RunTimerEnd
  <2> QED
    BY <1>1, <1>2, <1>3, <2>1, <2>3, <2>4, SendExceptionOrder
<1> QED
  BY <1>4, <1>5

LEMMA RunNowOrder ==
    ASSUME Inv, OrderlyInv, Orderly, NEW p \in Procs,
           RunAck(p) \/ RunCounter(p) \/ RunSpawn(p), UNCHANGED Bystanders
    PROVE  Ordered
<1>1. ASSUME NEW m \in {"ack", "counter", "spawn"}, Yields(p, m),
             NEW v, v = Asked(p, m), UNCHANGED harnessVars, ResultNow(p, v, "none")
      PROVE  Ordered
  <2>1. m \in Commands /\ "none" \in Abstract!Results(m)
    BY DEF Commands, Abstract!Results, Abstract!OwnEvent, Abstract!NoResult
  <2>2. /\ v \in Processor /\ v.depth > 0
        /\ v.asked = m /\ v.lastCommand = m /\ v.top = "suspended"
        /\ v.client = vc[p].client /\ ~v.waiting /\ v.expecting = {}
    BY <1>1, <2>1, AskedFacts
  <2> QED
    BY <1>1, <2>1, <2>2, ResultNowOrder
<1>2. "ack" \in Commands
  BY DEF Commands
<1>3. CASE RunAck(p)
  BY <1>1, <1>2, <1>3, SendExceptionOrder DEF RunAck
<1>4. CASE RunCounter(p)
  BY <1>1, <1>4 DEF RunCounter
<1>5. CASE RunSpawn(p)
  BY <1>1, <1>5 DEF RunSpawn, Orderly
<1> QED
  BY <1>3, <1>4, <1>5

LEMMA RunCommandOrder ==
    ASSUME Inv, OrderlyInv, Orderly, NEW p \in Procs, RunCommand(p)
    PROVE  Ordered
<1>1. UNCHANGED <<after, removals, soon>>
  BY DEF RunCommand, countVars
<1>2. CASE \E m \in Requests : RunRequest(p, m)
  BY <1>1, <1>2, RunRequestOrder
<1>3. CASE RunSendNotification(p)
  BY <1>1, <1>3, RunSendNotificationOrder
<1>4. CASE UNCHANGED <<posts, replies>>
  <2>1. UNCHANGED Bystanders
    BY <1>1, <1>4 DEF Bystanders
  <2> QED
    BY <1>2, <1>3, <2>1, RunConnectOrder, RunDisconnectOrder, RunNowOrder,
       RunExpectOrder, RunWaitOrder, RunTimerOrder DEF RunCommand
<1> QED
  BY <1>2, <1>3, <1>4 DEF RunCommand

-----------------------------------------------------------------------------
(* Generators are pushed and end. *)

LEMMA NestedOrder ==
    ASSUME Inv, OrderlyInv, NEW p \in Procs, Enters(p), NEW w \in Processor,
           vc' = [vc EXCEPT ![p] = w], w.depth > 0, w.asked \in {"start", "nested"},
           w.top = "fresh" => w.asked = "start",
           w.client = vc[p].client, w.waiting = vc[p].waiting,
           w.expecting = vc[p].expecting,
           soon' = [soon EXCEPT ![p] = @ + 1], call' = Nothing,
           UNCHANGED <<harnessVars, posts, countVars, replies, after>>
    PROVE  Ordered
<1>1. /\ Settled(p)
      /\ \A c \in Conns : ws[c].processor = p => vc[p].client = c
  BY EntersFacts
<1>2. vc'[p] = w /\ soon \in [Procs -> Nat]
  BY DEF Inv, CoreInv, ProcsInv, OutstandingInv
<1>3. waiters' = waiters /\ ws' = ws /\ posts' = posts /\ replies' = replies
      /\ after' = after /\ removals' = removals
  BY DEF harnessVars, countVars
<1>4. soon'[p] = 1 /\ \A q \in Procs \ {p} : soon'[q] = soon[q]
  BY <1>1, <1>2 DEF Settled
<1>5. Apart(p)
  BY <1>3, <1>4, ServesApart DEF Serves
<1>6. w.asked \notin Commands /\ w.asked \in Abstract!Askable
  BY DEF Commands, Abstract!Askable, Abstract!NoResult
<1>7. AskedFor(p)'
  BY <1>1, <1>2, <1>3, <1>4, <1>6 DEF AskedFor, Settled, Waiting
<1>8. WaitOnce' /\ OwedToSomebody'
  BY <1>3 DEF WaitOnce, OwedToSomebody, OrderlyInv
<1>9. ~w.waiting
  BY <1>1 DEF Settled
<1> QED
  BY <1>3, <1>5, <1>6, <1>7, <1>8, <1>9, LaterOrder

\* A scenario is over.
LEMMA EndOrder ==
    ASSUME Inv, OrderlyInv, NEW p \in Procs, Enters(p), NEW w \in Processor,
           vc' = [vc EXCEPT ![p] = w], RemoveProcessor(p), call' = Nothing,
           w = [vc[p] EXCEPT !.top = "done"],
           UNCHANGED <<harnessVars, soon, posts, replies, after>>
    PROVE  Ordered
<1>1. /\ Settled(p) /\ removals[p] = 0 /\ call.p = p
      /\ vc[p] \in Processor
      /\ Talk(p) = <<"scenario", vc[p].asked, call.what>>
      /\ \A c \in Conns : ws[c].processor = p => vc[p].client = c
  BY EntersFacts
<1>2. /\ vc'[p] = w /\ w.asked = vc[p].asked /\ w.lastCommand = vc[p].lastCommand
      /\ w.top = "done" /\ w.client = vc[p].client
      /\ w.waiting = vc[p].waiting /\ w.expecting = vc[p].expecting
  BY <1>1 DEF Inv, CoreInv, ProcsInv, Processor
<1>3. waiters' = waiters /\ ws' = ws /\ soon' = soon /\ posts' = posts
      /\ replies' = replies /\ after' = after
  BY DEF harnessVars
<1>4. removals'[p] > 0 /\ \A q \in Procs \ {p} : removals'[q] = removals[q]
  BY <1>1, Bounds DEF RemoveProcessor, Inv, OutstandingInv
<1>5. Apart(p)
  BY <1>3, <1>4, ServesApart DEF Serves
<1>6. call'.op = "nothing" /\ Attends(p)
  BY <1>1, <1>3 DEF Attends, Nothing, Frame, OrderlyInv
<1>7. Settled(p)'
  BY <1>1, <1>2, <1>3 DEF Settled, Waiting
<1>8. AskedFor(p)'
  BY <1>1, <1>2, <1>3, <1>7 DEF AskedFor, Settled, OrderlyInv
<1>9. Timed(p)' /\ OverInv(p)' /\ TellsInv'
  BY <1>6, <1>7 DEF Timed, Settled, OverInv, TellsInv
<1>10. WaitOnce' /\ OwedToSomebody'
  BY <1>3 DEF WaitOnce, OwedToSomebody, OrderlyInv
<1>11. OrderlyInv'
  BY <1>5, <1>6, <1>8, <1>9, <1>10, KeepsOrder
<1>12. Talk(p)' = <<"over", "start", "nothing">>
  BY <1>4 DEF Talk
<1>13. Abstract!End(p)
  BY <1>1, <1>5, <1>6, <1>12, Speaks DEF Abstract!End
<1> QED
  BY <1>11, <1>13 DEF Ordered, Abstract!Next

LEMMA ScenarioReturnsOrder ==
    ASSUME Inv, OrderlyInv, NEW p \in Procs, ScenarioReturns(p)
    PROVE  Ordered
<1>1. Enters(p) /\ UNCHANGED <<harnessVars, posts, replies, after>>
  BY DEF ScenarioReturns, StopsAtOnce, Runs, Resumes, Catches
<1>2. vc[p] \in Processor
  BY <1>1, EntersFacts
<1>3. CASE OneLeft(p)
  <2>1. PICK w : w = [vc[p] EXCEPT !.top = "done"]
    OBVIOUS
  <2>2. w \in Processor
    BY <1>2, <2>1 DEF Processor
  <2>3. RemoveProcessor(p) /\ vc' = [vc EXCEPT ![p] = w] /\ call' = Nothing
        /\ soon' = soon
    BY <1>3, <2>1 DEF ScenarioReturns, Shutdown
  <2> QED
    BY <1>1, <2>1, <2>2, <2>3, EndOrder
<1>4. CASE ~OneLeft(p)
  <2>1. PICK w : w = [vc[p] EXCEPT !.depth = vc[p].depth - 1, !.top = "suspended",
                               !.asked = "nested"]
    OBVIOUS
  <2>2. vc[p].depth - 1 \in 0..MaxDepth /\ vc[p].depth - 1 > 0
    BY <1>1, <1>2, <1>4, RunsFacts, Bounds DEF OneLeft, Processor
  <2>3. /\ w \in Processor /\ w.depth > 0 /\ w.asked = "nested"
        /\ w.top = "suspended" /\ w.client = vc[p].client
        /\ w.waiting = vc[p].waiting /\ w.expecting = vc[p].expecting
    BY <1>2, <2>1, <2>2 DEF Processor, MoveKinds
  <2>4. /\ soon' = [soon EXCEPT ![p] = @ + 1] /\ vc' = [vc EXCEPT ![p] = w]
        /\ call' = Nothing /\ UNCHANGED countVars
    BY <1>4, <2>1 DEF ScenarioReturns
  <2> QED
    BY <1>1, <2>3, <2>4, NestedOrder
<1> QED
  BY <1>3, <1>4

LEMMA ScenarioFailsOrder ==
    ASSUME Inv, OrderlyInv, Orderly, NEW p \in Procs, ScenarioFails(p)
    PROVE  Ordered
<1>1. Enters(p) /\ UNCHANGED <<harnessVars, soon, posts, replies, after>>
  BY DEF ScenarioFails, TypeErrors, Uncaught, Runs, Resumes, Catches
<1>2. /\ Settled(p) /\ removals[p] = 0 /\ call.p = p /\ Born(p)
      /\ vc[p] \in Processor
      /\ Talk(p) = <<"scenario", vc[p].asked, call.what>>
      /\ \A c \in Conns : ws[c].processor = p => vc[p].client = c
      /\ call.op = "throw" => vc[p].client = None /\ call.what = "exception"
  BY <1>1, EntersFacts
\* The first thing that is sent into a generator is None.
<1>3. ~TypeErrors(p)
  <2> SUFFICES ASSUME TypeErrors(p) PROVE FALSE
    OBVIOUS
  <2>1. call.op = "send" /\ vc[p].asked = "start" /\ call.what # "none"
    BY DEF TypeErrors, OrderlyInv, AskedFor
  <2>2. call.what \in Abstract!Results("start")
    BY <1>2, <2>1 DEF OrderlyInv, TellsInv
  <2> QED
    BY <2>1, <2>2 DEF Abstract!Results, Abstract!OwnEvent, Abstract!NoResult,
       Abstract!Expecting
<1>4. call.op = "throw"
  BY <1>3 DEF ScenarioFails, Uncaught, Orderly
<1>5. PICK w : w = [vc[p] EXCEPT !.top = "done"]
  OBVIOUS
<1>6. w \in Processor /\ Shutdown(p, FALSE, w)
  BY <1>2, <1>3, <1>5 DEF Processor, ScenarioFails
<1>7. CASE RemoveProcessor(p) /\ vc' = [vc EXCEPT ![p] = w] /\ call' = Nothing
  BY <1>1, <1>5, <1>6, <1>7, EndOrder
<1>8. CASE /\ vc' = [vc EXCEPT ![p] = Fresh] /\ call' = Send(p, "none")
           /\ UNCHANGED countVars
  <2>1. /\ vc'[p] = Fresh /\ Fresh.asked = "start" /\ Fresh.top = "fresh"
        /\ ~Fresh.waiting /\ Fresh.expecting = {} /\ Fresh.depth > 0
    BY <1>8 DEF Inv, CoreInv, ProcsInv, Fresh
  <2>2. waiters' = waiters /\ ws' = ws /\ soon' = soon /\ posts' = posts
        /\ replies' = replies /\ after' = after /\ removals' = removals
    BY <1>1, <1>8 DEF harnessVars, countVars
  <2>3. \A c \in Conns : ws[c].processor # p
    BY <1>2, <1>4, NoneIsNobody
  <2>4. Apart(p)
    BY <1>1, <1>8, <2>2, ServesApart DEF Serves
  <2>5. call'.op = "send" /\ call'.p = p /\ call'.what = "none"
    BY <1>8 DEF Send, Frame
  <2>6. Attends(p)
    BY <1>2, <2>2, <2>5 DEF Attends, OrderlyInv
  <2>7. Settled(p)'
    BY <1>2, <2>1, <2>2, <2>3 DEF Settled, Waiting
  <2>8. AskedFor(p)'
    BY <2>1, <2>2, <2>3, <2>7 DEF AskedFor, Settled, Commands
  <2>9. "none" \in Abstract!Results("start")
    BY DEF Abstract!Results, Abstract!OwnEvent, Abstract!NoResult
  <2>10. Timed(p)' /\ OverInv(p)' /\ TellsInv'
    BY <1>2, <2>1, <2>2, <2>5, <2>7, <2>9 DEF Timed, OverInv, TellsInv
  <2>11. WaitOnce' /\ OwedToSomebody'
    BY <2>2 DEF WaitOnce, OwedToSomebody, OrderlyInv
  <2>12. OrderlyInv'
    BY <2>4, <2>6, <2>8, <2>10, <2>11, KeepsOrder
  <2>13. Talk(p)' = <<"scenario", "start", "none">>
    BY <1>2, <2>1, <2>2, <2>5 DEF Talk, Born, Enters
  <2>14. Abstract!StartAgain(p)
    BY <1>2, <1>4, <2>4, <2>6, <2>13, Speaks DEF Abstract!StartAgain
  <2> QED
    BY <2>12, <2>14 DEF Ordered, Abstract!Next
<1> QED
  BY <1>6, <1>7, <1>8 DEF Shutdown

-----------------------------------------------------------------------------
(* Answers, and what no scenario notices. *)

\* What is outstanding was not answered yet: the scenario is not over.
LEMMA OutstandingIsNotOver ==
    ASSUME Inv, OrderlyInv, NEW p \in Procs, ~Settled(p)
    PROVE  removals[p] = 0
BY DEF OrderlyInv, OverInv, Inv, OutstandingInv

\* What p did not ask for is not outstanding.
LEMMA NothingElse ==
    ASSUME Inv, OrderlyInv, NEW p \in Procs
    PROVE  /\ vc[p].asked # "connect" => ~Waiting(p)
           /\ vc[p].asked \notin {"start", "nested"} => soon[p] = 0
           /\ vc[p].asked # "send_notification" => posts[p] = 0
           /\ vc[p].asked # "wait" => ~vc[p].waiting
           /\ vc[p].asked \notin Abstract!Expecting => vc[p].expecting = {}
           /\ \A c \in Conns : ws[c].processor = p =>
                 /\ vc[p].asked # "disconnect" => ws[c].state = "open"
                 /\ vc[p].asked \notin Requests => replies[c] = <<>>
<1>1. AskedFor(p) /\ soon[p] \in Nat /\ posts[p] \in Nat
  BY Bounds DEF OrderlyInv, Inv, OutstandingInv
<1>2. ASSUME NEW c \in Conns, ws[c].processor = p
      PROVE  ws[c].state \in {"open", "closing"}
  BY <1>2, NoneIsNobody
     DEF Inv, CoreInv, HarnessInv, RegistryExact, EventsReachTheOwner
<1> QED
  BY <1>1, <1>2 DEF AskedFor

\* p's scenario hears an answer that it asked for, and nothing else is
\* outstanding then.
LEMMA AnswerOrder ==
    ASSUME Inv, OrderlyInv, NEW p \in Procs, Born(p), ~Enters(p), removals[p] = 0,
           NEW w \in Processor, vc' = [vc EXCEPT ![p] = w], w.depth > 0,
           w.asked = vc[p].asked, w.lastCommand = vc[p].lastCommand,
           w.top = vc[p].top, NEW a \in Abstract!Results(w.asked),
           call' = Send(p, a), UNCHANGED <<harnessVars, countVars, replies>>,
           Apart(p), Attends(p), Settled(p)',
           \A c \in Conns : ws[c].processor = p => w.client = c
    PROVE  Ordered
<1>1. waiters' = waiters /\ ws' = ws /\ replies' = replies /\ removals' = removals
  BY DEF harnessVars, countVars
<1>2. vc'[p] = w
  BY DEF Inv, CoreInv, ProcsInv
<1>3. call'.op = "send" /\ call'.p = p /\ call'.what = a
  BY DEF Send, Frame
<1>4. AskedFor(p)'
  BY <1>1, <1>2 DEF AskedFor, Settled, OrderlyInv
<1>5. Timed(p)' /\ OverInv(p)' /\ TellsInv'
  BY <1>1, <1>2, <1>3 DEF Timed, Settled, OverInv, TellsInv
<1>6. WaitOnce' /\ OwedToSomebody'
  BY <1>1 DEF WaitOnce, OwedToSomebody, OrderlyInv
<1>7. OrderlyInv'
  BY <1>4, <1>5, <1>6, KeepsOrder
<1>8. /\ Talk(p) = <<"processor", w.asked, "nothing">>
      /\ Talk(p)' = <<"scenario", w.asked, a>>
  BY <1>1, <1>2, <1>3 DEF Talk, Born, Enters
<1>9. Abstract!Answer(p)
  BY <1>8, Speaks DEF Abstract!Answer
<1> QED
  BY <1>7, <1>9 DEF Ordered, Abstract!Next

\* No scenario notices anything of a step that enters none.
LEMMA UnnoticedOrder ==
    ASSUME OrderlyInv, NEW p \in Procs, Apart(p), Attends(p),
           AskedFor(p)', Timed(p)', OverInv(p)',
           WaitOnce', OwedToSomebody', TellsInv',
           Talk(p)' = Talk(p)
    PROVE  Ordered
BY KeepsOrder, Speaks DEF Ordered

\* Nor of one that is about no processor.
LEMMA NobodyOrder ==
    ASSUME OrderlyInv, call = Nothing, UNCHANGED <<call, after>>, Apart(None),
           WaitOnce', OwedToSomebody'
    PROVE  Ordered
<1>1. call.op = "nothing" /\ call'.op = "nothing" /\ after'.op # "handled"
  BY DEF Nothing, Frame, OrderlyInv
<1>2. Attends(None)
  BY <1>1 DEF Attends
<1>3. \A q \in Procs : /\ AskedFor(q)' /\ Timed(q)' /\ OverInv(q)'
                       /\ Talk(q)' = Talk(q)
  BY <1>2, NoneIsNobody, OthersStay
<1>4. TellsInv'
  BY <1>1 DEF TellsInv
<1>5. OrderlyInv'
  BY <1>1, <1>3, <1>4 DEF OrderlyInv
<1>6. UNCHANGED Abstract!conversation
  BY <1>3 DEF Abstract!conversation
<1> QED
  BY <1>5, <1>6 DEF Ordered

\* A notification is handled.
LEMMA HandleNotificationOrder ==
    ASSUME Inv, OrderlyInv, HandleCall, call.what = "notification"
    PROVE  Ordered
<1>1. PICK p \in Procs, ch \in Channels : p = call.p /\ ch = call.arg /\ Born(p)
  BY DEF HandleCall, Inv, CoreInv, CallInv
<1>2. /\ call.op = "handle" /\ HandleNotification(p, ch)
      /\ UNCHANGED <<harnessVars, after, soon, posts, countVars, replies>>
  BY <1>1 DEF HandleCall
<1>3. vc[p] \in Processor /\ AskedFor(p) /\ Timed(p) /\ OverInv(p)
      /\ ~Enters(p) /\ \A c \in Conns : ~Connecting(p, c)
  BY <1>2 DEF Inv, CoreInv, ProcsInv, OrderlyInv, Enters, Connecting
<1>4. PICK v : v = Store(vc[p], ch)
  OBVIOUS
<1>5. v.notifications \in Seq(Channels)
      /\ v = [vc[p] EXCEPT !.notifications = v.notifications]
  <2>1. vc[p].notifications \in Seq(Channels)
    BY <1>3 DEF Processor
  <2>2. Append(vc[p].notifications, ch) \in Seq(Channels)
    BY <2>1
  <2> QED
    BY <1>3, <1>4, <2>2 DEF Store, Processor
<1>6. /\ v \in Processor /\ v.depth = vc[p].depth /\ v.top = vc[p].top
      /\ v.asked = vc[p].asked /\ v.lastCommand = vc[p].lastCommand
      /\ v.expecting = vc[p].expecting /\ v.waiting = vc[p].waiting
      /\ v.armed = vc[p].armed /\ v.client = vc[p].client
  BY <1>3, <1>5 DEF Processor
<1>7. waiters' = waiters /\ ws' = ws /\ soon' = soon /\ posts' = posts
      /\ replies' = replies /\ after' = after /\ removals' = removals
  BY <1>2 DEF harnessVars, countVars
<1>8. ASSUME NEW w, vc' = [vc EXCEPT ![p] = w] PROVE Apart(p) /\ vc'[p] = w
  <2>1. Serves(p)
    BY <1>2 DEF Serves
  <2>2. vc'[p] = w
    BY <1>8 DEF Inv, CoreInv, ProcsInv
  <2> QED
    BY <1>7, <1>8, <2>1, <2>2, ServesApart
<1>9. CASE ResultLater(p, v)
  <2>1. vc' = [vc EXCEPT ![p] = v] /\ call' = Nothing /\ call'.op = "nothing"
    BY <1>9 DEF ResultLater, Nothing, Frame
  <2>2. Apart(p) /\ vc'[p] = v
    BY <1>8, <2>1
  <2>3. Attends(p)
    BY <1>1, <1>7, <2>1 DEF Attends, OrderlyInv
  <2>4. AskedFor(p)' /\ OverInv(p)'
    BY <1>3, <1>6, <1>7, <2>2 DEF AskedFor, OverInv, Settled, Waiting
  <2>5. Timed(p)'
    BY <1>3, <1>6, <1>7, <2>2 DEF Timed, TimesOut
  <2>6. WaitOnce' /\ OwedToSomebody' /\ TellsInv'
    BY <1>7, <2>1 DEF WaitOnce, OwedToSomebody, TellsInv, OrderlyInv
  <2>7. Talk(p)' = Talk(p)
    BY <1>3, <1>6, <1>7, <2>1, <2>2 DEF Talk, Born, Enters
  <2> QED
    BY <2>2, <2>3, <2>4, <2>5, <2>6, <2>7, UnnoticedOrder
<1>10. CASE v.expecting # {} /\ Matching(v, v.expecting) # {}
  <2>1. WithoutFirst(v, v.expecting) \in Seq(Channels)
    BY <1>6, <1>10, WithoutFirstType
  <2>2. PICK u : u = [v EXCEPT !.notifications = WithoutFirst(v, v.expecting)]
    OBVIOUS
  <2>3. PICK w : w = ClearExpecting(u)
    OBVIOUS
  <2>4. /\ u \in Processor /\ u.depth = v.depth /\ u.top = v.top
        /\ u.asked = v.asked /\ u.lastCommand = v.lastCommand
        /\ u.waiting = v.waiting /\ u.client = v.client
    BY <1>6, <2>1, <2>2 DEF Processor
  <2>5. /\ w \in Processor /\ w.depth = v.depth /\ w.top = v.top
        /\ w.asked = v.asked /\ w.lastCommand = v.lastCommand
        /\ w.waiting = v.waiting /\ w.client = v.client /\ w.expecting = {}
    BY <2>3, <2>4 DEF ClearExpecting, Processor
  <2>6. vc' = [vc EXCEPT ![p] = w] /\ call' = Send(p, "notification")
    BY <1>2, <1>4, <1>10, <2>2, <2>3 DEF HandleNotification, Expect, ResultNow
  <2>7. Apart(p) /\ vc'[p] = w
    BY <1>8, <2>6
  <2>8. Attends(p)
    BY <1>1, <1>7, <2>6 DEF Attends, OrderlyInv, Send, Frame
  <2>9. v.asked \in Abstract!Expecting
    BY <1>3, <1>6, <1>10 DEF AskedFor
  <2>10. "notification" \in Abstract!Results(w.asked)
    BY <2>5, <2>9 DEF Abstract!Results, Abstract!Expecting, Abstract!OwnEvent,
       Abstract!NoResult
  <2>11. v.asked \notin Requests \cup {"connect", "disconnect", "start", "nested",
                                       "send_notification", "wait"}
    BY <2>9 DEF Abstract!Expecting, Requests
  <2>12. vc[p].asked \notin Requests /\ vc[p].asked # "connect"
         /\ vc[p].asked # "disconnect" /\ vc[p].asked # "wait"
         /\ vc[p].asked # "send_notification"
         /\ vc[p].asked \notin {"start", "nested"}
    BY <1>6, <2>11
  <2>13. Settled(p)'
    BY <1>6, <1>7, <2>5, <2>7, <2>12, NothingElse DEF Settled, Waiting
  <2>14. removals[p] = 0
    BY <1>6, <1>10, OutstandingIsNotOver DEF Settled
  <2>15. \A c \in Conns : ws[c].processor = p => w.client = c
    BY <1>3, <1>6, <2>5 DEF AskedFor
  <2>16. w.depth > 0 /\ w.asked = vc[p].asked /\ w.top = vc[p].top
         /\ w.lastCommand = vc[p].lastCommand
    BY <1>1, <1>6, <2>5 DEF Born
  <2>17. UNCHANGED <<harnessVars, countVars, replies>>
    BY <1>2
  <2> QED
    BY <1>1, <1>3, <2>5, <2>6, <2>7, <2>8, <2>10, <2>13, <2>14, <2>15, <2>16,
       <2>17, AnswerOrder
<1> QED
  BY <1>2, <1>4, <1>9, <1>10 DEF HandleNotification, Expect

\* Any other event is handled: it is the result of the last command.
LEMMA HandleEventOrder ==
    ASSUME Inv, OrderlyInv, HandleCall, call.what # "notification"
    PROVE  Ordered
<1> DEFINE type == call.what
<1>1. PICK p \in Procs, c \in Conns : p = call.p /\ c = call.arg /\ Born(p)
  BY DEF HandleCall, Inv, CoreInv, CallInv
<1>2. /\ call.op = "handle" /\ HandleEvent(p, type, c)
      /\ UNCHANGED <<soon, posts, countVars, replies>>
  BY <1>1 DEF HandleCall
<1>3. /\ Settled(p) /\ removals[p] = 0 /\ ~Enters(p) /\ AskedFor(p)
      /\ vc[p] \in Processor /\ vc[p].depth > 0
      /\ type \in Abstract!OwnEvent /\ vc[p].asked = type
      /\ type = "connect" => vc[p].client = None
      /\ type = "disconnect" => \A d \in Conns : ws[d].processor # p
  BY <1>1, <1>2
     DEF OrderlyInv, TellsInv, Enters, Inv, CoreInv, ProcsInv, Born
<1>4. vc[p].lastCommand = type
  BY <1>3 DEF AskedFor, Commands, Abstract!OwnEvent
<1>5. Deliver(p, type, c) /\ UNCHANGED <<harnessVars, after>>
  BY <1>2, <1>4 DEF HandleEvent
<1>6. PICK w : w = CASE type = "connect" -> [vc[p] EXCEPT !.connected = TRUE,
                                                          !.client = c]
                     [] type = "disconnect" -> [vc[p] EXCEPT !.connected = FALSE,
                                                             !.client = None]
                     [] OTHER -> vc[p]
  OBVIOUS
<1>7. /\ w \in Processor /\ w.depth = vc[p].depth /\ w.top = vc[p].top
      /\ w.asked = vc[p].asked /\ w.lastCommand = vc[p].lastCommand
      /\ w.waiting = vc[p].waiting /\ w.expecting = vc[p].expecting
      /\ w.client = CASE type = "connect" -> c [] type = "disconnect" -> None
                      [] OTHER -> vc[p].client
  BY <1>3, <1>6 DEF Processor
<1>8. vc' = [vc EXCEPT ![p] = w] /\ call' = Send(p, type)
  <2>1. vc \in [Procs -> Processor]
    BY DEF Inv, CoreInv, ProcsInv
  <2> QED
    BY <1>5, <1>6, <2>1 DEF Deliver
<1>9. waiters' = waiters /\ ws' = ws /\ soon' = soon /\ posts' = posts
      /\ replies' = replies /\ after' = after /\ removals' = removals
  BY <1>2, <1>5 DEF harnessVars, countVars
<1>10. vc'[p] = w
  BY <1>8 DEF Inv, CoreInv, ProcsInv
<1>11. Apart(p)
  BY <1>5, <1>8, <1>9, ServesApart DEF Serves
<1>12. Attends(p)
  BY <1>1, <1>8, <1>9 DEF Attends, OrderlyInv, Send, Frame
<1>13. Settled(p)'
  BY <1>3, <1>7, <1>9, <1>10 DEF Settled, Waiting
<1>14. ASSUME NEW d \in Conns, ws[d].processor = p PROVE w.client = d
  <2>1. vc[p].client = d \/ (type = "connect" /\ d = c)
    BY <1>1, <1>3, <1>14 DEF AskedFor, Connecting
  <2> QED
    BY <1>3, <1>7, <1>14, <2>1, NoneIsNobody
<1>15. type \in Abstract!Results(w.asked)
  BY <1>3, <1>7 DEF Abstract!Results, Abstract!OwnEvent, Abstract!NoResult,
     Abstract!Expecting
<1>16. UNCHANGED <<harnessVars, countVars, replies>> /\ w.depth > 0
  BY <1>2, <1>3, <1>5, <1>7
<1> QED
  BY <1>1, <1>3, <1>7, <1>8, <1>11, <1>12, <1>13, <1>14, <1>15, <1>16, AnswerOrder

\* timeoutConnection ends a wait, if there is one.
LEMMA TimerTailOrder ==
    ASSUME Inv, OrderlyInv, TimerTail
    PROVE  Ordered
<1>1. PICK p \in Procs : p = after.p /\ Born(p)
  BY DEF TimerTail, Inv, CoreInv, AfterInv
<1>2. /\ call = Nothing /\ after' = Nothing
      /\ UNCHANGED <<harnessVars, soon, posts, countVars, replies>>
  BY DEF TimerTail
<1>3. call.op = "nothing" /\ after'.op = "nothing" /\ ~Enters(p)
  BY <1>2 DEF Nothing, Frame, Enters
<1>4. vc[p] \in Processor /\ vc[p].depth > 0 /\ AskedFor(p) /\ OverInv(p)
      /\ \A c \in Conns : ~Connecting(p, c)
  BY <1>1, <1>3 DEF Inv, CoreInv, ProcsInv, OrderlyInv, Born, Connecting
<1>5. waiters' = waiters /\ ws' = ws /\ soon' = soon /\ posts' = posts
      /\ replies' = replies /\ removals' = removals
  BY <1>2 DEF harnessVars, countVars
<1>6. CASE vc[p].waiting
  <2>1. PICK w : w = [vc[p] EXCEPT !.waiting = FALSE]
    OBVIOUS
  <2>2. vc' = [vc EXCEPT ![p] = w] /\ call' = Send(p, "none")
    BY <1>1, <1>6, <2>1 DEF TimerTail, Waits, ResultNow
  <2>3. /\ w \in Processor /\ w.depth = vc[p].depth /\ w.top = vc[p].top
        /\ w.asked = vc[p].asked /\ w.lastCommand = vc[p].lastCommand
        /\ ~w.waiting /\ w.client = vc[p].client /\ w.expecting = vc[p].expecting
    BY <1>4, <2>1 DEF Processor
  <2>4. vc'[p] = w
    BY <2>2 DEF Inv, CoreInv, ProcsInv
  <2>5. Apart(p)
    BY <1>2, <1>5, <2>2, ServesApart DEF Serves
  <2>6. Attends(p)
    BY <1>1, <1>3, <2>2 DEF Attends, Send, Frame
  <2>7. vc[p].asked = "wait"
    BY <1>4, <1>6 DEF AskedFor
  <2>8. "wait" \notin Abstract!Expecting /\ "wait" \notin Requests
        /\ "none" \in Abstract!Results("wait")
    BY DEF Abstract!Expecting, Requests, Abstract!Results, Abstract!OwnEvent,
       Abstract!NoResult
  <2>9. Settled(p)'
    BY <1>5, <2>3, <2>4, <2>7, <2>8, NothingElse DEF Settled, Waiting
  <2>10. removals[p] = 0
    BY <1>6, OutstandingIsNotOver DEF Settled
  <2>11. \A c \in Conns : ws[c].processor = p => w.client = c
    BY <1>4, <2>3 DEF AskedFor
  <2>12. UNCHANGED <<harnessVars, countVars, replies>> /\ w.depth > 0
    BY <1>2, <1>4, <2>3
  <2> QED
    BY <1>1, <1>3, <2>2, <2>3, <2>5, <2>6, <2>7, <2>8, <2>9, <2>10, <2>11, <2>12,
       AnswerOrder
<1>7. CASE ~vc[p].waiting
  <2>1. vc' = vc /\ call' = Nothing
    BY <1>1, <1>2, <1>7 DEF TimerTail, Waits
  <2>2. vc' = [vc EXCEPT ![p] = vc[p]]
    BY <2>1 DEF Inv, CoreInv, ProcsInv
  <2>3. Apart(p)
    BY <1>2, <1>5, <2>2, ServesApart DEF Serves
  <2>4. Attends(p)
    BY <1>1, <1>2, <1>3, <2>1 DEF Attends
  <2>5. AskedFor(p)' /\ OverInv(p)' /\ Timed(p)'
    BY <1>4, <1>5, <1>7, <2>1 DEF AskedFor, OverInv, Settled, Waiting, Timed
  <2>6. WaitOnce' /\ OwedToSomebody' /\ TellsInv'
    BY <1>2, <1>3, <1>5, <2>1 DEF WaitOnce, OwedToSomebody, TellsInv, OrderlyInv
  <2>7. Talk(p)' = Talk(p)
    BY <1>2, <1>5, <2>1 DEF Talk, Born, Enters
  <2> QED
    BY <2>3, <2>4, <2>5, <2>6, <2>7, UnnoticedOrder
<1> QED
  BY <1>4, <1>6, <1>7 DEF Processor

\* A processor whose run() returns is counted.
LEMMA CountTailOrder ==
    ASSUME Inv, OrderlyInv, CountTail
    PROVE  Ordered
<1>1. PICK p \in Procs : p = after.p /\ after.op = "count"
  BY DEF CountTail, Inv, CoreInv, AfterInv
<1>2. /\ call = Nothing /\ call' = Nothing /\ after' = Nothing /\ vc' = vc
      /\ UNCHANGED <<harnessVars, soon, posts, removals, replies>>
  BY DEF CountTail, scenarioVars
<1>3. call.op = "nothing" /\ after'.op = "nothing"
  BY <1>2 DEF Nothing, Frame
<1>4. waiters' = waiters /\ ws' = ws /\ soon' = soon /\ posts' = posts
      /\ replies' = replies /\ removals' = removals
  BY <1>2 DEF harnessVars
<1>5. vc' = [vc EXCEPT ![p] = vc[p]]
  BY <1>2 DEF Inv, CoreInv, ProcsInv
<1>6. Apart(p)
  BY <1>2, <1>4, <1>5, ServesApart DEF Serves
<1>7. Attends(p)
  BY <1>1, <1>2, <1>3 DEF Attends
<1>8. ~TimesOut(p)
  BY <1>1, Zenon DEF TimesOut
<1>9. AskedFor(p)' /\ OverInv(p)' /\ Timed(p)'
  BY <1>2, <1>4, <1>8
     DEF AskedFor, OverInv, Settled, Waiting, Timed, Connecting, OrderlyInv
<1>10. WaitOnce' /\ OwedToSomebody' /\ TellsInv'
  BY <1>2, <1>3, <1>4 DEF WaitOnce, OwedToSomebody, TellsInv, OrderlyInv
<1>11. Talk(p)' = Talk(p)
  BY <1>2, <1>4 DEF Talk, Born, Enters
<1> QED
  BY <1>6, <1>7, <1>9, <1>10, <1>11, UnnoticedOrder

-----------------------------------------------------------------------------
(* What the reactor calls. *)

LEMMA QuietFacts ==
    ASSUME Inv, OrderlyInv, Quiet, NEW p \in Procs
    PROVE  /\ call = Nothing /\ after = Nothing /\ Nothing.op = "nothing"
           /\ call.op = "nothing" /\ ~Enters(p) /\ ~TimesOut(p)
           /\ vc[p] \in Processor /\ AskedFor(p) /\ OverInv(p)
           /\ vc[p].waiting => vc[p].armed
           /\ \A c \in Conns : ws[c].processor = p => vc[p].client = c
<1>1. call = Nothing /\ after = Nothing /\ Nothing.op = "nothing"
  BY DEF Quiet, Nothing, Frame
<1>2. call.op = "nothing" /\ after.op = "nothing"
  BY <1>1
<1>3. ~TimesOut(p)
  BY <1>2, Zenon DEF TimesOut
<1>4. ~Enters(p)
  BY <1>2 DEF Enters
<1>5. vc[p] \in Processor /\ AskedFor(p) /\ Timed(p) /\ OverInv(p)
  BY DEF Inv, CoreInv, ProcsInv, OrderlyInv
<1>6. vc[p].waiting => vc[p].armed
  BY <1>3, <1>5 DEF Timed
<1>7. \A c \in Conns : ws[c].processor = p => vc[p].client = c
  BY <1>2, <1>5 DEF AskedFor, Connecting
<1> QED
  BY <1>1, <1>2, <1>3, <1>4, <1>5, <1>6, <1>7

LEMMA StartOrder ==
    ASSUME Inv, OrderlyInv, NEW p \in Procs, Start(p)
    PROVE  Ordered
<1>1. /\ Quiet /\ ~Born(p) /\ vc' = [vc EXCEPT ![p] = Fresh]
      /\ call' = Send(p, "none") /\ after' = Frame("count", p, "none", None)
      /\ UNCHANGED <<harnessVars, soon, posts, countVars, replies>>
  BY DEF Start
<1>2. call.op = "nothing" /\ after = Nothing /\ ~Enters(p)
  BY <1>1, QuietFacts
<1>3. waiters' = waiters /\ ws' = ws /\ soon' = soon /\ posts' = posts
      /\ replies' = replies /\ removals' = removals
  BY <1>1 DEF harnessVars, countVars
<1>4. /\ vc'[p] = Fresh /\ Fresh.asked = "start" /\ Fresh.top = "fresh"
      /\ ~Fresh.waiting /\ Fresh.expecting = {} /\ Fresh.depth > 0
  BY <1>1 DEF Inv, CoreInv, ProcsInv, Fresh
<1>5. call'.op = "send" /\ call'.p = p /\ call'.what = "none"
      /\ after'.op # "handled"
  BY <1>1 DEF Send, Frame
<1>6. Apart(p)
  BY <1>1, <1>3, ServesApart DEF Serves
<1>7. Attends(p)
  BY <1>2, <1>5 DEF Attends
<1>8. soon[p] = 0 /\ posts[p] = 0 /\ removals[p] = 0
  BY <1>1 DEF Inv, OutstandingInv
<1>9. ~Waiting(p)
  BY <1>1 DEF Waiting, Inv, CoreInv, BornInv
<1>10. \A c \in Conns : ws[c].processor # p
  BY <1>1, NoneIsNobody
     DEF Inv, CoreInv, BornInv, HarnessInv, EventsReachTheOwner
<1>11. Settled(p)'
  BY <1>3, <1>4, <1>8, <1>9, <1>10 DEF Settled, Waiting
<1>12. AskedFor(p)'
  BY <1>3, <1>4, <1>10, <1>11 DEF AskedFor, Settled, Commands
<1>13. "none" \in Abstract!Results("start")
  BY DEF Abstract!Results, Abstract!OwnEvent, Abstract!NoResult
<1>14. Timed(p)' /\ OverInv(p)' /\ TellsInv'
  BY <1>3, <1>4, <1>5, <1>8, <1>11, <1>13 DEF Timed, OverInv, TellsInv
<1>15. WaitOnce' /\ OwedToSomebody'
  BY <1>3 DEF WaitOnce, OwedToSomebody, OrderlyInv
<1>16. OrderlyInv'
  BY <1>6, <1>7, <1>12, <1>14, <1>15, KeepsOrder
<1>17. /\ Talk(p) = <<"unborn", "start", "nothing">>
       /\ Talk(p)' = <<"scenario", "start", "none">>
  BY <1>1, <1>3, <1>4, <1>5, <1>8 DEF Talk, Born, Enters
<1>18. Abstract!Begin(p)
  BY <1>6, <1>7, <1>17, Speaks DEF Abstract!Begin
<1> QED
  BY <1>16, <1>18 DEF Ordered, Abstract!Next

\* A callLater or a finished POST answers what it was made for.
LEMMA CalledBackOrder ==
    ASSUME Inv, OrderlyInv, NEW p \in Procs, Quiet,
           NEW a \in Abstract!Results(vc[p].asked), call' = Send(p, a),
           UNCHANGED <<harnessVars, vc, countVars, replies, after>>,
           \/ /\ soon[p] > 0 /\ soon' = [soon EXCEPT ![p] = @ - 1]
              /\ UNCHANGED posts
           \/ /\ posts[p] > 0 /\ posts' = [posts EXCEPT ![p] = @ - 1]
              /\ UNCHANGED soon
    PROVE  Ordered
<1>1. /\ call.op = "nothing" /\ after = Nothing /\ ~Enters(p)
      /\ vc[p] \in Processor /\ AskedFor(p)
      /\ \A c \in Conns : ws[c].processor = p => vc[p].client = c
      /\ after'.op # "handled"
  BY QuietFacts
<1>2. waiters' = waiters /\ ws' = ws /\ replies' = replies /\ removals' = removals
  BY DEF harnessVars, countVars
<1>3. vc' = [vc EXCEPT ![p] = vc[p]] /\ soon \in [Procs -> Nat]
      /\ posts \in [Procs -> 0..MaxPosts]
  BY DEF Inv, CoreInv, ProcsInv, OutstandingInv
<1>4. /\ \A q \in Procs \ {p} : soon'[q] = soon[q] /\ posts'[q] = posts[q]
      /\ soon'[p] = 0 /\ posts'[p] = 0
      /\ vc[p].asked \in {"start", "nested", "send_notification"}
  <2>1. CASE soon[p] > 0 /\ soon' = [soon EXCEPT ![p] = @ - 1] /\ posts' = posts
    <3>1. soon[p] = 1 /\ vc[p].asked \in {"start", "nested"}
      BY <1>1, <2>1 DEF AskedFor
    <3>2. posts[p] = 0
      BY <3>1, NothingElse
    <3> QED
      BY <1>3, <2>1, <3>1, <3>2
  <2>2. CASE posts[p] > 0 /\ posts' = [posts EXCEPT ![p] = @ - 1] /\ soon' = soon
    <3>1. posts[p] = 1 /\ vc[p].asked = "send_notification"
      BY <1>1, <2>2 DEF AskedFor
    <3>2. soon[p] = 0
      BY <3>1, NothingElse
    <3> QED
      BY <1>3, <2>2, <3>1, <3>2
  <2> QED
    BY <2>1, <2>2
<1>5. vc[p].asked \notin Abstract!Expecting /\ vc[p].asked \notin Requests
      /\ vc[p].asked \notin {"connect", "disconnect", "wait"}
  BY <1>4 DEF Abstract!Expecting, Requests
<1>6. Settled(p)'
  BY <1>2, <1>4, <1>5, NothingElse DEF Settled, Waiting
<1>7. Apart(p)
  BY <1>2, <1>3, <1>4, ServesApart DEF Serves
<1>8. Attends(p)
  BY <1>1 DEF Attends, Send, Frame
<1>9. ~Settled(p)
  BY <1>3 DEF Settled
<1>10. removals[p] = 0
  BY <1>9, OutstandingIsNotOver
<1>11. Born(p) /\ vc[p].depth > 0
  BY <1>3 DEF Inv, OutstandingInv, Born
<1>12. UNCHANGED <<harnessVars, countVars, replies>>
  OBVIOUS
<1> QED
  BY <1>1, <1>3, <1>6, <1>7, <1>8, <1>10, <1>11, <1>12, AnswerOrder

LEMMA CallbacksOrder ==
    ASSUME Inv, OrderlyInv, NEW p \in Procs, CalledLater(p) \/ PostAnswered(p)
    PROVE  Ordered
<1>1. Quiet /\ UNCHANGED <<harnessVars, vc, countVars, replies, after>>
  BY DEF CalledLater, PostAnswered
<1>2. AskedFor(p)
  BY DEF OrderlyInv
<1>3. CASE CalledLater(p)
  <2>1. soon[p] > 0 /\ vc[p].asked \in {"start", "nested"}
    BY <1>2, <1>3 DEF CalledLater, AskedFor
  <2>2. "none" \in Abstract!Results(vc[p].asked)
    BY <2>1 DEF Abstract!Results, Abstract!OwnEvent, Abstract!NoResult
  <2> QED
    BY <1>1, <1>3, <2>1, <2>2, CalledBackOrder DEF CalledLater
<1>4. CASE PostAnswered(p)
  <2>1. posts[p] > 0 /\ vc[p].asked = "send_notification"
    BY <1>2, <1>4 DEF PostAnswered, AskedFor
  <2>2. PICK a \in {"response", "failure"} : call' = Send(p, a)
    BY <1>4 DEF PostAnswered
  <2>3. a \in Abstract!Results(vc[p].asked)
    BY <2>1 DEF Abstract!Results, Abstract!OwnEvent, Abstract!NoResult,
       Abstract!Expecting
  <2> QED
    BY <1>1, <1>4, <2>1, <2>2, <2>3, CalledBackOrder DEF PostAnswered
<1> QED
  BY <1>3, <1>4

LEMMA TimerFiresOrder ==
    ASSUME Inv, OrderlyInv, NEW p \in Procs, TimerFires(p)
    PROVE  Ordered
<1>1. Quiet /\ vc[p].armed
      /\ UNCHANGED <<harnessVars, soon, posts, countVars, replies>>
  BY DEF TimerFires
<1>2. PICK v : v = [vc[p] EXCEPT !.armed = FALSE]
  OBVIOUS
<1>3. /\ call = Nothing /\ call.op = "nothing" /\ after = Nothing /\ ~Enters(p)
      /\ vc[p] \in Processor /\ AskedFor(p) /\ OverInv(p)
      /\ \A c \in Conns : ws[c].processor = p => vc[p].client = c
  BY <1>1, QuietFacts
<1>4. /\ v \in Processor /\ v.depth = vc[p].depth /\ v.top = vc[p].top
      /\ v.asked = vc[p].asked /\ v.lastCommand = vc[p].lastCommand
      /\ v.waiting = vc[p].waiting /\ v.client = vc[p].client
      /\ v.expecting = vc[p].expecting
  BY <1>2, <1>3 DEF Processor
<1>5. Born(p) /\ vc[p].depth > 0
  BY <1>1, <1>3, UnbornFits DEF Inv, OutstandingInv, Born
<1>6. waiters' = waiters /\ ws' = ws /\ soon' = soon /\ posts' = posts
      /\ replies' = replies /\ removals' = removals
  BY <1>1 DEF harnessVars, countVars
<1>7. TimesOut(p)' /\ after'.op # "handled"
  <2>1. after' = Frame("timed out", p, "none", None)
    BY DEF TimerFires
  <2> QED
    BY <2>1 DEF TimesOut, Frame
<1>8. ASSUME NEW w, vc' = [vc EXCEPT ![p] = w] PROVE Apart(p) /\ vc'[p] = w
  <2>1. Serves(p)
    BY <1>1 DEF Serves
  <2>2. vc'[p] = w
    BY <1>8 DEF Inv, CoreInv, ProcsInv
  <2> QED
    BY <1>6, <1>8, <2>1, <2>2, ServesApart
<1>9. CASE v.expecting # {}
  <2>1. PICK w : w = [v EXCEPT !.expecting = {}]
    OBVIOUS
  <2>2. vc' = [vc EXCEPT ![p] = w] /\ call' = Send(p, "none")
    BY <1>2, <1>9, <2>1 DEF TimerFires, ResultNow
  <2>3. /\ w \in Processor /\ w.depth = v.depth /\ w.top = v.top
        /\ w.asked = v.asked /\ w.lastCommand = v.lastCommand
        /\ w.waiting = v.waiting /\ w.client = v.client /\ w.expecting = {}
    BY <1>4, <2>1 DEF Processor
  <2>4. Apart(p) /\ vc'[p] = w
    BY <1>8, <2>2
  <2>5. Attends(p)
    BY <1>3, <1>7, <2>2 DEF Attends, Send, Frame
  <2>6. vc[p].asked \in Abstract!Expecting
    BY <1>3, <1>4, <1>9 DEF AskedFor
  <2>7. vc[p].asked \notin Requests /\ vc[p].asked # "connect"
        /\ vc[p].asked # "disconnect" /\ vc[p].asked # "wait"
        /\ vc[p].asked # "send_notification"
        /\ vc[p].asked \notin {"start", "nested"}
    BY <2>6 DEF Abstract!Expecting, Requests
  <2>8. "none" \in Abstract!Results(w.asked)
    BY <1>4, <2>3, <2>6 DEF Abstract!Results, Abstract!Expecting,
       Abstract!OwnEvent, Abstract!NoResult
  <2>9. Settled(p)'
    BY <1>4, <1>6, <2>3, <2>4, <2>7, NothingElse DEF Settled, Waiting
  <2>10. removals[p] = 0
    BY <1>4, <1>9, OutstandingIsNotOver DEF Settled
  <2>11. UNCHANGED <<harnessVars, countVars, replies>> /\ w.depth > 0
         /\ w.asked = vc[p].asked /\ w.top = vc[p].top
         /\ w.lastCommand = vc[p].lastCommand /\ w.client = vc[p].client
    BY <1>1, <1>4, <1>5, <2>3
  <2> QED
    BY <1>3, <1>5, <2>2, <2>3, <2>4, <2>5, <2>8, <2>9, <2>10, <2>11, AnswerOrder
<1>10. CASE v.expecting = {}
  <2>1. vc' = [vc EXCEPT ![p] = v] /\ call' = Nothing
    BY <1>2, <1>10 DEF TimerFires, ResultLater
  <2>2. Apart(p) /\ vc'[p] = v
    BY <1>8, <2>1
  <2>3. Attends(p) /\ call'.op = "nothing"
    BY <1>3, <1>7, <2>1 DEF Attends
  <2>4. AskedFor(p)' /\ OverInv(p)' /\ Timed(p)'
    BY <1>3, <1>4, <1>6, <1>7, <2>2
       DEF AskedFor, OverInv, Settled, Waiting, Timed
  <2>5. WaitOnce' /\ OwedToSomebody' /\ TellsInv'
    BY <1>6, <2>3 DEF WaitOnce, OwedToSomebody, TellsInv, OrderlyInv
  <2>6. Talk(p)' = Talk(p)
    BY <1>3, <1>4, <1>6, <2>2, <2>3 DEF Talk, Born, Enters
  <2> QED
    BY <2>2, <2>3, <2>4, <2>5, <2>6, UnnoticedOrder
<1> QED
  BY <1>9, <1>10

-----------------------------------------------------------------------------
(* What connections report. *)

\* The event that arrives for p is what p asked for, and all that p asked for;
\* or it is a notification, about which there is nothing to say yet.
LEMMA ArrivesOrder ==
    ASSUME Inv, OrderlyInv, NEW p \in Procs, Quiet, Born(p), NEW type, NEW arg,
           call' = Frame("handle", p, type, arg),
           UNCHANGED <<vc, soon, posts, countVars, after>>,
           Apart(p), WaitOnce', OwedToSomebody',
           AskedFor(p)', OverInv(p)',
           \/ type = "notification"
           \/ /\ Settled(p)' /\ removals[p] = 0
              /\ type \in Abstract!OwnEvent /\ vc[p].asked = type
              /\ type = "connect" => vc[p].client = None
              /\ type = "disconnect" => \A d \in Conns : ws'[d].processor # p
    PROVE  Ordered
<1>1. call'.op = "handle" /\ call'.p = p /\ call'.what = type /\ call'.arg = arg
  BY DEF Frame
<1>2. /\ call.op = "nothing" /\ after = Nothing /\ ~Enters(p)
      /\ vc[p].waiting => vc[p].armed
      /\ after'.op # "handled"
  BY QuietFacts
<1>3. removals' = removals
  BY DEF countVars
<1>4. Attends(p)
  BY <1>1, <1>2 DEF Attends
<1>5. Timed(p)'
  BY <1>2 DEF Timed
<1>6. TellsInv'
  BY <1>1, <1>3 DEF TellsInv
<1>7. Talk(p)' = Talk(p)
  BY <1>1, <1>2, <1>3 DEF Talk, Born, Enters
<1> QED
  BY <1>4, <1>5, <1>6, <1>7, UnnoticedOrder

LEMMA OnOpenOrder ==
    ASSUME Inv, OrderlyInv, NEW c \in Conns, OnOpen(c)
    PROVE  Ordered
<1>1. Quiet /\ UNCHANGED <<vc, soon, posts, countVars, replies, after>>
  BY DEF OnOpen, scenarioVars
<1>2. HarnessInv /\ HarnessTypeOK /\ waiters \in Seq(Procs)
  BY DEF Inv, CoreInv, HarnessInv, HarnessTypeOK
<1>3. ws[c].state = "handshake" /\ waiters # <<>> /\ Assign(c)
  BY <1>2, SomebodyWaits DEF OnOpen, AddClient
<1>4. PICK p \in Procs : p = Head(waiters) /\ p = waiters[1]
                         /\ 1 \in 1..Len(waiters)
  BY <1>2, <1>3
<1>5. Waiting(p) /\ Born(p)
  BY <1>4 DEF Waiting, Inv, CoreInv, BornInv
<1>6. /\ waiters' = Tail(waiters)
      /\ ws' = [ws EXCEPT ![c] = [state |-> "open", processor |-> p]]
      /\ call' = Frame("handle", p, "connect", c)
  BY <1>3, <1>4 DEF Assign, OnOpen
<1>7. /\ AskedFor(p) /\ vc[p].asked = "connect" /\ vc[p].client = None
      /\ \A d \in Conns : ws[d].processor # p
  BY <1>1, <1>5, QuietFacts, NoneIsNobody DEF AskedFor
<1>8. \A i \in 1..Len(waiters') :
         i + 1 \in 1..Len(waiters) /\ i + 1 # 1 /\ waiters'[i] = waiters[i + 1]
  BY <1>2, <1>3, <1>6
<1>9. ~Waiting(p)'
  BY <1>4, <1>8 DEF Waiting, OrderlyInv, WaitOnce
<1>10. WaitOnce'
  <2>1. ASSUME NEW i \in 1..Len(waiters'), NEW j \in 1..Len(waiters'),
               waiters'[i] = waiters'[j]
        PROVE  i = j
    BY <1>8, <2>1 DEF OrderlyInv, WaitOnce
  <2> QED
    BY <2>1 DEF WaitOnce
<1>11. \A q \in Procs \ {p} : Waiting(q)' <=> Waiting(q)
  <2>1. ASSUME NEW q \in Procs \ {p} PROVE Waiting(q)' => Waiting(q)
    BY <1>8 DEF Waiting
  <2>2. ASSUME NEW q \in Procs \ {p}, Waiting(q) PROVE Waiting(q)'
    <3>1. PICK i \in 1..Len(waiters) : waiters[i] = q
      BY <2>2 DEF Waiting
    <3>2. i # 1
      BY <1>4, <3>1
    <3>3. i - 1 \in 1..Len(waiters') /\ waiters'[i - 1] = waiters[i]
      BY <1>2, <1>3, <1>6, <3>2
    <3> QED
      BY <3>1, <3>3 DEF Waiting
  <2> QED
    BY <2>1, <2>2
<1>12. /\ ws'[c] = [state |-> "open", processor |-> p]
       /\ \A d \in Conns \ {c} : ws'[d] = ws[d]
       /\ ws[c].processor = None
  BY <1>2, <1>3, <1>6
     DEF HarnessTypeOK, HarnessInv, EventsReachTheOwner, RegistryExact
<1>13. replies' = replies /\ replies[c] = <<>>
  BY <1>1, <1>12 DEF OrderlyInv, OwedToSomebody
<1>14. Apart(p)
  BY <1>1, <1>11, <1>12, <1>13 DEF Apart, countVars
<1>15. OwedToSomebody'
  BY <1>12, <1>13 DEF OrderlyInv, OwedToSomebody
<1>16. "connect" \in Abstract!OwnEvent /\ "connect" \notin Abstract!Expecting
       /\ "connect" \notin Requests
  BY DEF Abstract!OwnEvent, Abstract!Expecting, Requests
<1>17. Settled(p)'
  BY <1>1, <1>7, <1>9, <1>12, <1>13, <1>16, NothingElse DEF Settled
<1>18. AskedFor(p)'
  <2>1. Connecting(p, c)'
    BY <1>6 DEF Connecting, Frame
  <2> QED
    BY <1>1, <1>7, <1>9, <1>12, <1>13, <1>17, <2>1 DEF AskedFor, Settled
<1>19. removals[p] = 0 /\ OverInv(p)'
  BY <1>5, <1>17, OutstandingIsNotOver DEF Settled, OverInv
<1>20. UNCHANGED <<vc, soon, posts, countVars, after>>
  BY <1>1
<1> QED
  BY <1>1, <1>5, <1>6, <1>7, <1>10, <1>14, <1>15, <1>16, <1>17, <1>18, <1>19,
     <1>20, ArrivesOrder

LEMMA OnCloseOrder ==
    ASSUME Inv, OrderlyInv, Orderly, NEW c \in Conns, OnClose(c)
    PROVE  Ordered
<1>1. Quiet /\ UNCHANGED <<vc, soon, posts, countVars, after>>
      /\ replies' = [replies EXCEPT ![c] = <<>>]
  BY DEF OnClose, scenarioVars
<1>2. HarnessInv /\ HarnessTypeOK /\ replies \in [Conns -> Seq(Requests)]
  BY DEF Inv, CoreInv, HarnessInv, RepliesInv
<1>3. waiters' = waiters /\ ws' = [ws EXCEPT ![c] = Unused] /\ MayClose(c)
  BY DEF OnClose, RemoveClient
<1>4. ws[c].processor = None \/ ws[c].state = "closing"
  <2>1. ws[c].state = "handshake" => ws[c].processor = None
    BY <1>2 DEF HarnessInv, RegistryExact, EventsReachTheOwner
  <2> QED
    BY <1>3, <2>1 DEF MayClose, Orderly
<1>5. /\ ws'[c].processor = None /\ replies'[c] = <<>>
      /\ \A d \in Conns \ {c} : ws'[d] = ws[d] /\ replies'[d] = replies[d]
  BY <1>1, <1>2, <1>3 DEF Unused, HarnessTypeOK
<1>6. WaitOnce' /\ OwedToSomebody'
  BY <1>3, <1>5 DEF WaitOnce, OwedToSomebody, OrderlyInv
<1>7. \A q : Waiting(q)' <=> Waiting(q)
  BY <1>3 DEF Waiting
<1>8. CASE ws[c].processor = None
  <2>1. UNCHANGED <<call, after>> /\ call = Nothing
    BY <1>1, <1>8 DEF OnClose, Quiet
  <2>2. Apart(None)
    BY <1>1, <1>5, <1>7, NoneIsNobody DEF Apart, countVars
  <2> QED
    BY <1>6, <2>1, <2>2, NobodyOrder
<1>9. CASE ws[c].processor # None /\ ws[c].state = "closing"
  <2>1. PICK p \in Procs : p = ws[c].processor /\ Born(p)
    BY <1>2, <1>9, NoneIsNobody
       DEF HarnessTypeOK, HarnessInv, EventsReachTheOwner, Inv, CoreInv, BornInv
  <2>2. call' = Frame("handle", p, "disconnect", c)
    BY <1>9, <2>1 DEF OnClose, Arrives
  <2>3. /\ AskedFor(p) /\ vc[p].asked = "disconnect" /\ vc[p].client = c
        /\ \A d \in Conns : ws[d].processor = p => d = c
    BY <1>1, <1>9, <2>1, QuietFacts DEF AskedFor
  <2>4. \A d \in Conns : ws'[d].processor # p
    BY <1>5, <2>3, NoneIsNobody
  <2>5. Apart(p)
    BY <1>1, <1>5, <1>7, NoneIsNobody DEF Apart, countVars
  <2>6. "disconnect" \in Abstract!OwnEvent /\ "disconnect" \notin Abstract!Expecting
        /\ "disconnect" \notin Requests
    BY DEF Abstract!OwnEvent, Abstract!Expecting, Requests
  <2>7. Settled(p)'
    BY <1>1, <1>7, <2>3, <2>4, <2>6, NothingElse DEF Settled
  <2>8. AskedFor(p)'
    BY <1>1, <2>3, <2>4, <2>7 DEF AskedFor, Settled
  <2>9. removals[p] = 0 /\ OverInv(p)'
    BY <1>9, <2>1, <2>7, OutstandingIsNotOver DEF Settled, OverInv
  <2> QED
    BY <1>1, <1>6, <2>1, <2>2, <2>3, <2>4, <2>5, <2>6, <2>7, <2>8, <2>9,
       ArrivesOrder
<1> QED
  BY <1>4, <1>8, <1>9

LEMMA OnReplyOrder ==
    ASSUME Inv, OrderlyInv, NEW c \in Conns, OnReply(c)
    PROVE  Ordered
<1>1. /\ Quiet /\ Delivers(c) /\ replies[c] # <<>>
      /\ replies' = [replies EXCEPT ![c] = Tail(@)]
      /\ UNCHANGED <<harnessVars, vc, soon, posts, countVars, after>>
  BY DEF OnReply, scenarioVars
<1>2. HarnessInv /\ HarnessTypeOK /\ replies \in [Conns -> Seq(Requests)]
  BY DEF Inv, CoreInv, HarnessInv, RepliesInv
<1>3. PICK p \in Procs : p = ws[c].processor /\ Born(p)
  BY <1>1, <1>2, NoneIsNobody
     DEF Delivers, HarnessTypeOK, HarnessInv, EventsReachTheOwner, Inv, CoreInv,
         BornInv
<1>4. /\ AskedFor(p) /\ vc[p].client = c
      /\ vc[p].asked \in Requests /\ replies[c] = <<vc[p].asked>>
      /\ \A d \in Conns : ws[d].processor = p => d = c
  BY <1>1, <1>3, QuietFacts DEF AskedFor
<1>5. call' = Frame("handle", p, vc[p].asked, c)
  <2>1. Head(replies[c]) = vc[p].asked
    BY <1>4
  <2> QED
    BY <1>3, <2>1 DEF OnReply, Arrives
<1>6. /\ replies'[c] = <<>> /\ ws' = ws /\ waiters' = waiters
      /\ \A d \in Conns \ {c} : replies'[d] = replies[d]
  BY <1>1, <1>2, <1>4 DEF harnessVars
<1>7. Apart(p)
  BY <1>1, <1>3, <1>6 DEF Apart, countVars, Waiting
<1>8. /\ vc[p].asked \notin Abstract!Expecting /\ vc[p].asked \in Abstract!OwnEvent
      /\ vc[p].asked \notin {"connect", "disconnect", "wait", "start", "nested",
                             "send_notification"}
  BY <1>4 DEF Requests, Abstract!OwnEvent, Abstract!Expecting
<1>9. Settled(p)'
  BY <1>1, <1>4, <1>6, <1>8, NothingElse DEF Settled, Waiting
<1>10. AskedFor(p)'
  BY <1>1, <1>4, <1>6, <1>9 DEF AskedFor, Settled
<1>11. WaitOnce' /\ OwedToSomebody'
  BY <1>6 DEF WaitOnce, OwedToSomebody, OrderlyInv
<1>12. removals[p] = 0 /\ OverInv(p)'
  BY <1>1, <1>3, <1>9, OutstandingIsNotOver DEF Settled, OverInv
<1>13. UNCHANGED <<vc, soon, posts, countVars, after>>
  BY <1>1
<1> QED
  BY <1>1, <1>3, <1>5, <1>7, <1>8, <1>9, <1>10, <1>11, <1>12, <1>13, ArrivesOrder

LEMMA OnNotificationOrder ==
    ASSUME Inv, OrderlyInv, NEW c \in Conns, OnNotification(c)
    PROVE  Ordered
<1>1. /\ Quiet /\ Delivers(c)
      /\ UNCHANGED <<harnessVars, vc, soon, posts, countVars, replies, after>>
  BY DEF OnNotification, scenarioVars
<1>2. PICK p \in Procs : p = ws[c].processor /\ Born(p)
  BY <1>1, NoneIsNobody
     DEF Delivers, HarnessTypeOK, HarnessInv, EventsReachTheOwner, Inv, CoreInv,
         BornInv
<1>3. PICK ch \in Channels : call' = Frame("handle", p, "notification", ch)
  BY <1>2 DEF OnNotification, Arrives
<1>4. ws' = ws /\ waiters' = waiters /\ replies' = replies
  BY <1>1 DEF harnessVars
<1>5. Apart(p)
  BY <1>1, <1>4 DEF Apart, countVars, Waiting
<1>6. AskedFor(p) /\ \A d \in Conns : ws[d].processor = p => vc[p].client = d
  BY <1>1, QuietFacts
<1>7. AskedFor(p)'
  BY <1>1, <1>4, <1>6 DEF AskedFor, Waiting
<1>8. OverInv(p)'
  BY <1>1, <1>4 DEF OverInv, Settled, Waiting, countVars, OrderlyInv
<1>9. WaitOnce' /\ OwedToSomebody'
  BY <1>4 DEF WaitOnce, OwedToSomebody, OrderlyInv
<1>10. UNCHANGED <<vc, soon, posts, countVars, after>>
  BY <1>1
<1> QED
  BY <1>1, <1>2, <1>3, <1>5, <1>7, <1>8, <1>9, <1>10, ArrivesOrder

LEMMA TcpSettlesOrder ==
    ASSUME Inv, OrderlyInv, TcpSettles
    PROVE  Ordered
<1>1. /\ Quiet /\ UNCHANGED <<vc, soon, posts, countVars, replies, call, after>>
      /\ waiters' = waiters
  BY DEF TcpSettles, OtherThanHarness, scenarioVars, ConnectFailed, TcpConnected
<1>2. HarnessInv /\ HarnessTypeOK
  BY DEF Inv, CoreInv, HarnessInv
<1>3. \A d \in Conns : ws'[d].processor = ws[d].processor
                       /\ (ws'[d].processor # None => ws'[d] = ws[d])
  <2>1. ASSUME NEW c \in Conns, TcpConnected(c)
        PROVE  \A d \in Conns : ws'[d].processor = ws[d].processor
                                /\ (ws'[d].processor # None => ws'[d] = ws[d])
    <3>1. ws[c].state = "idle" /\ ws[c].processor = None
      BY <1>2, <2>1
         DEF TcpConnected, HarnessInv, RegistryExact, EventsReachTheOwner
    <3> QED
      BY <1>2, <2>1, <3>1 DEF TcpConnected, HarnessTypeOK
  <2>2. CASE ConnectFailed
    BY <2>2 DEF ConnectFailed
  <2> QED
    BY <2>1, <2>2 DEF TcpSettles
<1>4. Apart(None)
  BY <1>1, <1>3, NoneIsNobody DEF Apart, countVars, Waiting
<1>5. WaitOnce' /\ OwedToSomebody'
  BY <1>1, <1>3 DEF WaitOnce, OwedToSomebody, OrderlyInv
<1> QED
  BY <1>1, <1>4, <1>5, NobodyOrder DEF Quiet

-----------------------------------------------------------------------------
(* The theorems. *)

LEMMA InitOrder == Init => OrderlyInv /\ Abstract!Init
<1> SUFFICES ASSUME Init PROVE OrderlyInv /\ Abstract!Init
  OBVIOUS
<1>1. /\ \A p \in Procs : vc[p] = Unborn /\ soon[p] = 0 /\ posts[p] = 0
                          /\ removals[p] = 0
      /\ waiters = <<>> /\ call.op = "nothing" /\ after.op = "nothing"
      /\ \A c \in Conns : ws[c].processor = None /\ replies[c] = <<>>
  BY DEF Init, HarnessInit, Unused, Nothing, Frame
<1>2. Unborn.depth = 0 /\ Unborn.asked = "start" /\ Unborn.top = "fresh"
      /\ ~Unborn.waiting /\ Unborn.expecting = {}
  BY DEF Unborn, Fresh
<1>3. WaitOnce /\ OwedToSomebody /\ TellsInv
  BY <1>1 DEF WaitOnce, OwedToSomebody, TellsInv
<1>4. \A p \in Procs : AskedFor(p) /\ Timed(p) /\ OverInv(p)
  BY <1>1, <1>2, NoneIsNobody
     DEF AskedFor, Timed, OverInv, Waiting, Commands
<1>5. \A p \in Procs : Talk(p) = <<"unborn", "start", "nothing">>
  BY <1>1, <1>2 DEF Talk, Born
<1> QED
  BY <1>1, <1>3, <1>4, <1>5 DEF OrderlyInv, Abstract!Init

LEMMA NextOrder ==
    ASSUME Inv, OrderlyInv, Orderly, [Next]_vars
    PROVE  Ordered
<1>1. ASSUME NEW p \in Procs,
             \/ RunCommand(p) \/ RunInvalid(p)
             \/ ScenarioReturns(p) \/ ScenarioFails(p)
      PROVE  Ordered
  BY <1>1, RunCommandOrder, ScenarioReturnsOrder, ScenarioFailsOrder
     DEF RunInvalid, Yields, Catches, Orderly
<1>2. ASSUME NEW p \in Procs, RunNested(p) PROVE Ordered
  <2>1. Enters(p) /\ UNCHANGED <<harnessVars, posts, countVars, replies, after>>
    BY <1>2 DEF RunNested, Yields, Resumes
  <2>2. vc[p] \in Processor /\ vc[p].depth + 1 \in 0..MaxDepth /\ vc[p].depth + 1 > 0
    BY <1>2, <2>1, EntersFacts, Bounds DEF RunNested, Processor
  <2>3. PICK w : w = [vc[p] EXCEPT !.depth = vc[p].depth + 1, !.top = "fresh",
                                   !.asked = "start"]
    OBVIOUS
  <2>4. /\ w \in Processor /\ w.depth > 0 /\ w.asked = "start"
        /\ w.client = vc[p].client /\ w.waiting = vc[p].waiting
        /\ w.expecting = vc[p].expecting
    BY <2>2, <2>3 DEF Processor, MoveKinds
  <2>5. /\ vc' = [vc EXCEPT ![p] = w] /\ call' = Nothing
        /\ soon' = [soon EXCEPT ![p] = @ + 1]
    BY <1>2, <2>3 DEF RunNested, ResultLater
  <2> QED
    BY <2>1, <2>4, <2>5, NestedOrder
<1>3. CASE HandleCall \/ HandleTail \/ TimerTail \/ CountTail
  BY <1>3, HandleNotificationOrder, HandleEventOrder, TimerTailOrder, CountTailOrder
     DEF HandleTail, OrderlyInv
<1>4. ASSUME NEW p \in Procs,
             \/ Start(p) \/ CalledLater(p) \/ PostAnswered(p)
             \/ ContentFails(p) \/ TimerFires(p)
      PROVE  Ordered
  BY <1>4, StartOrder, CallbacksOrder, TimerFiresOrder DEF ContentFails, Orderly
<1>5. ASSUME NEW c \in Conns,
             \/ OnOpen(c) \/ OnClose(c) \/ OnReply(c)
             \/ OnNotification(c) \/ OnGarbage(c)
      PROVE  Ordered
  BY <1>5, OnOpenOrder, OnCloseOrder, OnReplyOrder, OnNotificationOrder
     DEF OnGarbage, Orderly
<1>6. CASE TcpSettles
  BY <1>6, TcpSettlesOrder
<1>7. CASE UNCHANGED vars
  <2>1. UNCHANGED <<waiters, ws, vc, soon, posts, removals, replies, call, after>>
    BY <1>7 DEF vars, harnessVars, scenarioVars, countVars
  <2>2. OrderlyInv'
    <3>1. \A p \in Procs : TimesOut(p)' = TimesOut(p)
      BY <2>1, Zenon DEF TimesOut
    <3>2. \A p \in Procs : AskedFor(p)' /\ Timed(p)' /\ OverInv(p)'
      BY <2>1, <3>1 DEF OrderlyInv, AskedFor, Timed, OverInv, Settled, Waiting,
         Connecting
    <3>3. WaitOnce' /\ OwedToSomebody' /\ TellsInv' /\ after'.op # "handled"
      BY <2>1 DEF OrderlyInv, WaitOnce, OwedToSomebody, TellsInv, Settled, Waiting
    <3> QED
      BY <3>2, <3>3 DEF OrderlyInv
  <2>3. \A p \in Procs : Talk(p)' = Talk(p)
    BY <2>1 DEF Talk, Born, Enters
  <2>4. UNCHANGED Abstract!conversation
    BY <2>3 DEF Abstract!conversation
  <2> QED
    BY <2>2, <2>4 DEF Ordered
<1> QED
  BY <1>1, <1>2, <1>3, <1>4, <1>5, <1>6, <1>7 DEF Next, Turn, Event, Rest

\* In an orderly run at most one thing is outstanding for a processor, and it is
\* what its last command asked for.
THEOREM OneThingIsOutstanding == Spec => [](Orderly => OrderlyInv)
<1>1. Init => (Orderly => OrderlyInv)
  BY InitOrder
<1>2. Inv /\ (Orderly => OrderlyInv) /\ [Next]_vars => (Orderly => OrderlyInv)'
  BY NextOrder DEF Ordered, Orderly
<1> QED
  BY <1>1, <1>2, ProcessorsAreCorrect, PTL DEF Spec

\* The processor answers every command of a scenario exactly once, by a result
\* that belongs to it or at once by an exception, and leaves it alone when it is
\* over: CommandProcessor.tla implements Conversation.tla (handle,
\* _send_command_result, _send_exception, shutdown).
THEOREM ConversationsAreKept ==
    ASSUME Orderly
    PROVE  Spec => ConversationIsKept
<1>1. Init => OrderlyInv /\ Abstract!Init
  BY InitOrder
<1>2. Inv /\ OrderlyInv /\ [Next]_vars =>
         OrderlyInv' /\ [Abstract!Next]_(Abstract!conversation)
  BY NextOrder DEF Ordered
<1> QED
  BY <1>1, <1>2, ProcessorsAreCorrect, PTL DEF Spec, ConversationIsKept, Abstract!Spec

\* A scenario that is over is not entered again (shutdown).
THEOREM OverScenariosStayOver == Spec => []OverIsFinal
<1>1. Inv /\ (Orderly => OrderlyInv) => OverIsFinal
  BY DEF OverIsFinal, OrderlyInv, TellsInv, Enters
<1> QED
  BY <1>1, ProcessorsAreCorrect, OneThingIsOutstanding, PTL

\* A processor has one connection at most (connect, add_client,
\* _send_exception).
THEOREM ConnectionsAreNotShared == Spec => []OneConnection
<1>1. Inv /\ (Orderly => OrderlyInv) => OneConnection
  <2> SUFFICES ASSUME Inv, OrderlyInv, NEW p \in Procs, NEW c \in Conns,
                      NEW d \in Conns, ws[c].processor = p, ws[d].processor = p
               PROVE  c = d
    BY DEF OneConnection
  <2>1. AskedFor(p)
    BY DEF OrderlyInv
  <2>2. (Connecting(p, c) \/ Connecting(p, d)) => vc[p].client = None
    BY DEF Connecting, OrderlyInv, TellsInv
  <2> QED
    BY <2>1, <2>2, NoneIsNobody DEF AskedFor, Connecting
<1> QED
  BY <1>1, ProcessorsAreCorrect, OneThingIsOutstanding, PTL

\* A scenario in its wait has its timer (wait, setTimeout, timeoutConnection).
THEOREM WaitsAreTimed == Spec => []WaitingIsTimed
<1>1. (Orderly => OrderlyInv) => WaitingIsTimed
  <2> SUFFICES ASSUME OrderlyInv, after.op # "timed out", NEW p \in Procs,
                      vc[p].waiting
               PROVE  vc[p].armed
    BY Zenon DEF WaitingIsTimed
  <2>1. ~TimesOut(p)
    BY Zenon DEF TimesOut
  <2> QED
    BY <2>1 DEF OrderlyInv, Timed
<1> QED
  BY <1>1, OneThingIsOutstanding, PTL
=============================================================================
