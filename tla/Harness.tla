------------------------------ MODULE Harness ------------------------------
(***************************************************************************)
(* aplt/runner.py, RunnerHarness: how the websocket connections that one   *)
(* harness opens are handed to the command processors that asked for them. *)
(*                                                                         *)
(* connect() appends the processor to _connect_waiters and asks Twisted    *)
(* for one more connection; nothing ties that connection to the processor. *)
(* The connection that opens first takes the processor that has waited     *)
(* longest (add_client); a connection that goes away without ever having   *)
(* been registered is replaced by a new one when somebody still waits      *)
(* (remove_client).                                                        *)
(*                                                                         *)
(* The actions are the harness's methods and the events Twisted and        *)
(* Autobahn report.  CommandProcessor.tla composes them with the scenarios *)
(* that use the connections; on its own this module lets any processor     *)
(* connect, close or drop its connection at any time.                      *)
(***************************************************************************)
EXTENDS Naturals, Sequences, FiniteSets

CONSTANTS
    Procs,    \* the command processors of one harness
    Conns,    \* connections, reused after they close: a bound on how many
              \* are being opened or open at once
    None,     \* Python's None: no processor, no connection
    Faults    \* what the network and the servers may do, see FaultKinds

\* tcp: the TCP connection is refused.  handshake: the websocket handshake
\* fails.  drop: an open connection is lost, be it that the other side closes
\* it or that onMessage raises (handle does for a message of unknown type) and
\* Twisted therefore drops the transport.  garbage: a message that is no JSON.
\* post, content: a POST, or the reading of its response, fails.
FaultKinds == {"tcp", "handshake", "drop", "garbage", "post", "content"}

ASSUME ConnsFinite == IsFiniteSet(Conns)
ASSUME NoneIsNobody == None \notin Procs /\ None \notin Conns
ASSUME FaultsKnown == Faults \subseteq FaultKinds

VARIABLES
    waiters,     \* _connect_waiters, the oldest first
    attempts,    \* connectWS calls whose TCP connection is not settled
    wsClients,   \* _ws_clients: the processor a connection is registered to
    ws           \* each connection's protocol state and processor attribute

harnessVars == <<waiters, attempts, wsClients, ws>>

States == {"idle", "handshake", "open", "closing"}
Unused == [state |-> "idle", processor |-> None]

InState(st) == {c \in Conns : ws[c].state = st}
Used == {c \in Conns : ws[c].state # "idle"}

HarnessTypeOK ==
    /\ waiters \in Seq(Procs)
    /\ attempts \in Nat
    /\ wsClients \in [Conns -> Procs \cup {None}]
    /\ ws \in [Conns -> [state : States, processor : Procs \cup {None}]]

HarnessInit ==
    /\ waiters = <<>>
    /\ attempts = 0
    /\ wsClients = [c \in Conns |-> None]
    /\ ws = [c \in Conns |-> Unused]

-----------------------------------------------------------------------------
(* What the processors ask for. *)

\* Bounds: no more than Conns connections are in use or on their way, and
\* (after refused TCP connections) no more than that many waiters.
RoomToConnect ==
    /\ attempts + Cardinality(Used) < Cardinality(Conns)
    /\ Len(waiters) < Cardinality(Conns)

\* RunnerHarness.connect: the wait and the connection are not tied together.
Connect(p) ==
    /\ RoomToConnect
    /\ waiters' = Append(waiters, p)
    /\ attempts' = attempts + 1
    /\ UNCHANGED <<wsClients, ws>>

\* sendClose: starts the closing handshake of an open connection.
Closing(conn) ==
    IF conn.state = "open" THEN [conn EXCEPT !.state = "closing"] ELSE conn

SendClose(c) ==
    /\ ws' = [ws EXCEPT ![c] = Closing(@)]
    /\ UNCHANGED <<waiters, attempts, wsClients>>

\* _send_exception: del ws_client.processor, then ws_client.sendClose().
Detach(c) ==
    /\ ws' = [ws EXCEPT ![c] = [Closing(@) EXCEPT !.processor = None]]
    /\ UNCHANGED <<waiters, attempts, wsClients>>

-----------------------------------------------------------------------------
(* What Twisted and Autobahn report. *)

\* The TCP connection is up, its websocket handshake begins.
TcpConnected(c) ==
    /\ attempts > 0
    /\ ws[c].state = "idle"
    /\ attempts' = attempts - 1
    /\ ws' = [ws EXCEPT ![c] = [state |-> "handshake", processor |-> None]]
    /\ UNCHANGED <<waiters, wsClients>>

\* The TCP connection is refused.  No protocol exists yet, so onClose is not
\* called, and the factory the harness builds does not override
\* clientConnectionFailed: the waiter stays, nothing connects in its place.
ConnectFailed ==
    /\ "tcp" \in Faults
    /\ attempts > 0
    /\ attempts' = attempts - 1
    /\ UNCHANGED <<waiters, wsClients, ws>>

\* Mutant of Assign: the deque is popped at the other end for the registry.
AssignTwo(c) ==
    /\ waiters # <<>>
    /\ waiters' = Tail(waiters)
    /\ wsClients' = [wsClients EXCEPT ![c] = waiters[Len(waiters)]]
    /\ ws' = [ws EXCEPT ![c] = [state |-> "open", processor |-> Head(waiters)]]
    /\ UNCHANGED attempts

\* add_client, called by onOpen: the longest waiting processor is registered
\* and becomes the connection's processor.
Assign(c) ==
    /\ waiters # <<>>
    /\ waiters' = Tail(waiters)
    /\ wsClients' = [wsClients EXCEPT ![c] = Head(waiters)]
    /\ ws' = [ws EXCEPT ![c] = [state |-> "open", processor |-> Head(waiters)]]
    /\ UNCHANGED attempts

\* add_client with nobody waiting: the connection is closed again.
\* ConnectionsAreWaitedFor below says that this never happens.
UnneededOpen(c) ==
    /\ waiters = <<>>
    /\ ws' = [ws EXCEPT ![c] = [state |-> "closing", processor |-> None]]
    /\ UNCHANGED <<waiters, attempts, wsClients>>

AddClient(c) ==
    /\ ws[c].state = "handshake"
    /\ IF waiters # <<>> THEN Assign(c) ELSE UnneededOpen(c)

\* When a connection may close: after sendClose always, otherwise by fault.
MayClose(c) ==
    \/ ws[c].state = "closing"
    \/ ws[c].state = "open" /\ "drop" \in Faults
    \/ ws[c].state = "handshake" /\ "handshake" \in Faults

\* Mutants of Reconnects: a retry for registered connections too, none at all.
ReconnectsAlways(c) == waiters # <<>>
ReconnectsNever(c) == FALSE

\* remove_client's retry: an unregistered connection went away while
\* somebody waits.
Reconnects(c) == wsClients[c] = None /\ waiters # <<>>

AttemptsMiscounted(c) == IF Reconnects(c) THEN attempts ELSE attempts - 1
AttemptsAfter(c) == attempts + (IF Reconnects(c) THEN 1 ELSE 0)

StillRegistered(c) == wsClients
Unregistered(c) == [wsClients EXCEPT ![c] = None]

\* remove_client, called by onClose: the registry gives up the connection and
\* may start another.  (AttemptsMiscounted and StillRegistered are mutants: a
\* closed connection counted as one on its way, a registry that never shrinks.)
RemoveClient(c) ==
    /\ MayClose(c)
    /\ attempts' = AttemptsAfter(c)
    /\ wsClients' = Unregistered(c)
    /\ ws' = [ws EXCEPT ![c] = Unused]
    /\ UNCHANGED waiters

-----------------------------------------------------------------------------
HarnessNext ==
    \/ \E p \in Procs : Connect(p)
    \/ \E c \in Conns :
        \/ TcpConnected(c)
        \/ AddClient(c)
        \/ RemoveClient(c)
        \/ SendClose(c)
        \/ Detach(c)
    \/ ConnectFailed

HarnessSpec == HarnessInit /\ [][HarnessNext]_harnessVars

\* The network settles every TCP connection, a closing handshake ends, and a
\* websocket handshake does not fail forever: opening is strongly fair, for a
\* failed handshake takes its connection away and a retry brings another one.
HarnessFairness ==
    /\ WF_harnessVars(\E c \in Conns : TcpConnected(c))
    /\ SF_harnessVars(\E c \in Conns : AddClient(c))

HarnessFairSpec == HarnessSpec /\ HarnessFairness

-----------------------------------------------------------------------------
(* Properties. *)

\* A connection is in the registry exactly from the moment it opens until it
\* is gone: _ws_clients leaks no closed connection and forgets no open one
\* (add_client, remove_client), whatever the processor does with it.
RegistryExact ==
    \A c \in Conns :
        wsClients[c] # None <=> ws[c].state \in {"open", "closing"}

\* A connection delivers its events to the processor it is registered to or,
\* after _send_exception deleted the attribute, to nobody: never to another.
EventsReachTheOwner ==
    \A c \in Conns : ws[c].processor \in {None, wsClients[c]}

Opening == attempts + Cardinality(InState("handshake"))

\* Every connection on its way is waited for by a processor of its own, so
\* that the "Unnecessary open" branches of onOpen and add_client are dead.
ConnectionsAreWaitedFor == Opening =< Len(waiters)

\* Without TCP failures nobody waits in vain either: for every waiter a
\* connection is on its way, failed handshakes included (remove_client's
\* retry).
WaitersHaveConnections == "tcp" \notin Faults => Opening = Len(waiters)

Waiting(p) == \E i \in 1..Len(waiters) : waiters[i] = p

\* A processor that waits for a connection gets one, even if handshakes fail
\* and other processors connect in the meantime (the deque is first in first
\* out).  Only a refused TCP connection starves a waiter, perhaps another than
\* the one that asked for it: nobody retries it, and from then on there are
\* fewer connections on their way than waiters.
WaitersAreServed ==
    \A p \in Procs :
        Waiting(p) ~> (\E c \in Conns : wsClients[c] = p)
                          \/ Opening < Len(waiters)
=============================================================================
