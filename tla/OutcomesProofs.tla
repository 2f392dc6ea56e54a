---------------------------- MODULE OutcomesProofs ----------------------------
(***************************************************************************)
(* How a scenario comes out for which nothing goes wrong: what it looks    *)
(* into is there, and it leaves the server as it found it.  Two invariants *)
(* say so place by place, on top of where its notifications are            *)
(* (DeliveryProofs.tla).  From them follow FailuresHaveCauses and          *)
(* NothingIsLeftBehind.                                                    *)
(***************************************************************************)
EXTENDS DeliveryProofs

-----------------------------------------------------------------------------
(* What is there to be given: as long as nothing went wrong, a scenario    *)
(* that is given None, or the wrong notification, had a POST refused as    *)
(* unauthorised.                                                           *)

\* The last POST was refused as unauthorised.
Lacking(c) ==
    IF proc[c].waits = "send" THEN post[c].code = "401"
    ELSE scn[c].response = "401"

\* The server has the channel a POST goes to, unless the token is a bad one.
Endpoints(c) ==
    /\ Reachable(plan.kind, scn[c].pc) => Len(scn[c].channels) \in server[c].subs
    /\ \A k \in DOMAIN down[c] :
          down[c][k].type = "register" =>
              Len(scn[c].channels) + 1 \in server[c].subs
    /\ (proc[c].waits = "send" /\ post[c].code = "404") =>
          Instr(c).arg = "bad_token"

\* What was sent is pending until it is acknowledged, and it is the last that
\* was sent.
Outstanding(c) ==
    (/\ plan.kind \notin Several
     /\ scn[c].pc \notin Vacancies[plan.kind] /\ ~Unposted(c)) =>
         Lacking(c) \/ Pending(c) # {}
Latest(c) ==
    /\ (/\ Replaced(plan.kind, scn[c].pc)
        /\ ~Unposted(c) /\ ~Lacking(c)) =>
            \A n \in Pending(c) \cup Afloat(c) :
                n.data = LastSubject(plan.kind)
    /\ (/\ plan.kind \in {"basic", "basic_topic"}
        /\ scn[c].pc \in Due[plan.kind]
        /\ scn[c].notif # NoNotif /\ ~Lacking(c)) =>
            scn[c].notif.data = LastSubject(plan.kind)

Present(c) ==
    /\ scn[c].same
    /\ At(c, "created") => scn[c].response \in {"201", "401"}
    /\ (plan.kind \in Several /\ At(c, "ack")) => scn[c].notif # NoNotif
    /\ Endpoints(c)
    /\ Outstanding(c)
    /\ Latest(c)

ClientPresent(c) ==
    mishaps[c] = {} =>
        /\ Running(c) => Present(c)
        /\ scn[c].status = "raised" => scn[c].response = "401"
PresentInv == \A c \in Clients : ClientPresent(c)

LEMMA MovingIsPresent ==
    ASSUME Inv, Inv', NEW c \in Clients, Running(c), ~Returns(c), Running(c)',
           Present(c), Whereabouts(c), Whereabouts(c)', plan' = plan,
           LeadsTo(plan.kind, plan.once, scn[c].pc, scn'[c].pc),
           proc'[c].waits = "nothing", scn'[c].same,
           server'[c].subs = server[c].subs,
           IF Instr(c).op = "register"
           THEN Len(scn'[c].channels) \in server'[c].subs
           ELSE scn'[c].channels = scn[c].channels,
           (Instr(c).op = "send" /\ Instr(c).arg \notin Bad) =>
               ~Unposted(c) /\ scn'[c].response \in {"201", "401"},
           (Instr(c).op = "send" /\ Instr(c).arg \in Bad) \/ Lacking(c)' = Lacking(c),
           Pending(c)' = Pending(c) \/ Instr(c).op \in {"ack", "ack_ids"},
           Pending(c)' \cup Afloat(c)' \subseteq Pending(c) \cup Afloat(c),
           IF Instr(c).op = "expect"
           THEN scn'[c].notif = NoNotif \/ scn'[c].notif \in Afloat(c)
           ELSE scn'[c].notif = scn[c].notif,
           (Instr(c).op = "if_notif" /\ scn'[c].pc # Instr(c).arg) =>
               scn[c].notif # NoNotif
    PROVE  Present(c)'
<1>1. /\ Timely(plan.kind, Instr(c), scn[c].pc)
      /\ Founded(plan.kind, Instr(c), scn[c].pc)
  BY TheCarrying
<1>2. /\ Leads(plan.kind, plan.once, Instr(c), scn[c].pc, scn'[c].pc)
      /\ Settles(plan.kind, plan.once, Instr(c), scn[c].pc, scn'[c].pc)
      /\ ~Returns(c)' =>
            /\ Precedes(plan.kind, Instr(c), scn[c].pc, Instr(c)', scn'[c].pc)
            /\ Timely(plan.kind, Instr(c)', scn'[c].pc)
  BY TheNext
<1>3. (Returns(c)' /\ plan.kind # "_expect_notifications") =>
         scn'[c].pc \in Vacancies[plan.kind] \ Due[plan.kind]
  <2>1. ASSUME Returns(c)'
        PROVE  scn'[c].pc = Len(Script[plan.kind]) + 1
    <3>1. scn'[c].pc \in Places(plan.kind)
      BY DEF Inv, ClientInv, InPlace
    <3>2. scn'[c].pc > Len(Script[plan.kind])
      BY <2>1 DEF Returns
    <3>. QED  BY <3>1, <3>2, ThePlan, ScriptsAreSequences DEF Places
  <2>. QED  BY <2>1, ThePlan, ScriptsCarryWhatIsOnItsWay DEF ScriptsCarry, Ends
<1>4. At(c, "send")' => Unposted(c)'
  BY DEF Unposted
<1>5. Unposted(c) => Instr(c).op = "send" /\ Instr(c).arg \in Bad
  BY DEF Unposted, At
<1>6. At(c, "created")' => scn'[c].response \in {"201", "401"}
  BY <1>2 DEF At, Precedes
<1>7. (plan.kind \in Several /\ At(c, "ack")') => scn'[c].notif # NoNotif
  BY <1>2 DEF At, Precedes
<1>8. Endpoints(c)'
  <2>1. Reachable(plan.kind, scn'[c].pc) =>
           Len(scn'[c].channels) \in server'[c].subs
    BY <1>2 DEF Settles, Present, Endpoints
  <2>2. ASSUME NEW k \in DOMAIN down'[c] PROVE down'[c][k].type # "register"
    BY DEF Inv, ClientInv, InTouch, Replies, Request
  <2>. QED  BY <2>1, <2>2 DEF Endpoints
<1>9. Outstanding(c)'
  <2>1. SUFFICES ASSUME plan.kind \notin Several,
                        scn'[c].pc \notin Vacancies[plan.kind], ~Unposted(c)'
                 PROVE  Lacking(c)' \/ Pending(c)' # {}
    BY DEF Outstanding
  <2>2. ~Returns(c)'
    BY <1>3, <2>1 DEF Several
  <2>3. scn[c].pc \notin Vacancies[plan.kind]
    BY <1>2, <1>4, <2>1, <2>2 DEF Precedes, At
  <2>4. ~(Instr(c).op = "send" /\ Instr(c).arg \in Bad)
    BY <1>1, <2>3 DEF Timely
  <2>5. Lacking(c) \/ Pending(c) # {}
    BY <1>5, <2>1, <2>3, <2>4 DEF Present, Outstanding
  <2>6. Instr(c).op \notin {"ack", "ack_ids"}
    BY <1>1, <1>2, <2>1 DEF Settles, Timely, Several
  <2>. QED  BY <2>4, <2>5, <2>6
<1>10. Latest(c)'
  <2>1. ASSUME Replaced(plan.kind, scn'[c].pc), ~Unposted(c)', ~Lacking(c)',
               ~Returns(c)', NEW n \in Pending(c) \cup Afloat(c)
        PROVE  n.data = LastSubject(plan.kind)
    <3>1. Replaced(plan.kind, scn[c].pc)
      BY <1>2, <1>4, <2>1 DEF Precedes, At
    <3>2. ~(Instr(c).op = "send" /\ Instr(c).arg \in Bad)
      BY <1>1, <3>1 DEF Founded, LastSubject, Bad
    <3>. QED  BY <1>5, <2>1, <3>1, <3>2 DEF Present, Latest
  <2>2. ASSUME Returns(c)', Replaced(plan.kind, scn'[c].pc)
        PROVE  Pending(c)' \cup Afloat(c)' = {}
    BY <1>3, <2>2 DEF Replaced, Whereabouts, Clears, Vacant
  <2>3. (/\ Replaced(plan.kind, scn'[c].pc) /\ ~Unposted(c)' /\ ~Lacking(c)') =>
            \A n \in Pending(c)' \cup Afloat(c)' :
                n.data = LastSubject(plan.kind)
    BY <2>1, <2>2
  <2>4. ASSUME plan.kind \in {"basic", "basic_topic"},
               scn'[c].pc \in Due[plan.kind], scn'[c].notif # NoNotif,
               ~Lacking(c)'
        PROVE  scn'[c].notif.data = LastSubject(plan.kind)
    <3>1. ~Returns(c)'
      BY <1>3, <2>4
    <3>2. ~At(c, "send")' /\ ~Unposted(c)'
      BY <1>2, <2>4, <3>1 DEF Timely, At, Unposted
    <3>3. CASE Instr(c).op = "expect"
      <4>1. scn'[c].notif \in Afloat(c)
        BY <2>4, <3>3
      <4>2. CASE plan.kind = "basic"
        BY <4>1, <4>2 DEF Whereabouts, Aimed, Subjects, LastSubject
      <4>3. CASE plan.kind = "basic_topic"
        <5>1. Replaced(plan.kind, scn'[c].pc)
          <6>1. scn'[c].pc \in 16..19
            BY <2>4, <4>3 DEF Due
          <6>. QED  BY <4>3, <6>1 DEF Replaced
        <5>. QED  BY <2>1, <2>4, <3>1, <3>2, <4>1, <5>1
      <4>. QED  BY <2>4, <4>2, <4>3
    <3>4. CASE Instr(c).op # "expect"
      <4>1. scn[c].pc \in Due[plan.kind]
        BY <1>2, <2>4, <3>4 DEF Leads
      <4>2. Instr(c).op # "send"
        BY <1>1, <4>1 DEF Timely
      <4>. QED  BY <2>4, <3>4, <4>1, <4>2 DEF Present, Latest
    <3>. QED  BY <3>3, <3>4
  <2>. QED  BY <2>3, <2>4 DEF Latest
<1>. QED  BY <1>6, <1>7, <1>8, <1>9, <1>10 DEF Present

\* Asking for something changes nothing.
LEMMA AskingIsPresent ==
    ASSUME Inv, Inv', NEW c \in Clients, Turn(c), ~Returns(c), Present(c),
           Asks(c), plan' = plan, scn' = scn, server' = server, down' = down,
           Instr(c).op = "send" => post'[c].code = "none"
    PROVE  Present(c)'
<1>1. /\ proc'[c].waits = Instr(c).op /\ proc'[c].inbox = proc[c].inbox
      /\ proc[c].waits = "nothing"
  BY WaitingFor DEF Asks, Turn
<1>2. /\ Instr(c)' = Instr(c) /\ Returns(c)' = Returns(c)
      /\ \A op : At(c, op)' = At(c, op)
  BY DEF Instr, Returns, Running, At
<1>3. Pending(c)' = Pending(c) /\ Afloat(c)' = Afloat(c)
  BY <1>1 DEF Pending, Afloat
<1>4. Unposted(c)' = Unposted(c)
  BY <1>1, <1>2 DEF Unposted, At
<1>5. Unposted(c) \/ Lacking(c)' = Lacking(c)
  BY <1>1 DEF Unposted, Lacking, At
<1>6. Unposted(c) => scn[c].pc \notin Due[plan.kind]
  <2>1. Running(c)
    BY DEF Turn
  <2>. QED  BY <2>1, TheCarrying DEF Timely, Unposted, At
<1>7. Endpoints(c)'
  BY <1>1, <1>2 DEF Present, Endpoints
<1>8. Outstanding(c)'
  BY <1>3, <1>4, <1>5 DEF Present, Outstanding
<1>9. Latest(c)'
  BY <1>3, <1>4, <1>5, <1>6 DEF Present, Latest
<1>. QED  BY <1>2, <1>7, <1>8, <1>9 DEF Present

\* What a step notes, when it goes wrong.
LEMMA Noted ==
    ASSUME Inv, NEW c \in Clients, mishaps'[c] = {}
    PROVE  /\ ~Refused(c) /\ ~Drops(c) /\ ~PostFails(c)
           /\ ServerAnswers(c) => "uaid" \notin mishaps'[c]
BY Domains DEF Refused, Drops, PostFails

LEMMA GoingOnIsPresent ==
    ASSUME Inv, Inv', NEW c \in Clients, Running(c), ~Returns(c), Running(c)',
           Present(c), Whereabouts(c), Whereabouts(c)', plan' = plan,
           GoesOn(Instr(c), plan.once),
           Instr(c).op \notin {"register", "if_notif"},
           NEW s \in ScenarioSet, s.pc = scn[c].pc, Continue(c, s),
           s.same, s.channels = scn[c].channels,
           IF Instr(c).op = "expect"
           THEN s.notif = NoNotif \/ s.notif \in Afloat(c)
           ELSE s.notif = scn[c].notif,
           Instr(c).op # "send" => s.response = scn[c].response,
           (Instr(c).op = "send" /\ Instr(c).arg \notin Bad) =>
               /\ ~Unposted(c) /\ s.response \in {"201", "401"}
               /\ s.response = "401" <=> Lacking(c),
           proc'[c].waits = "nothing",
           server'[c].subs = server[c].subs,
           Pending(c)' = Pending(c) \/ Instr(c).op \in {"ack", "ack_ids"},
           Pending(c)' \subseteq Pending(c), Afloat(c)' \subseteq Afloat(c)
    PROVE  Present(c)'
<1>1. /\ LeadsTo(plan.kind, plan.once, scn[c].pc, scn'[c].pc)
      /\ scn'[c].channels = s.channels /\ scn'[c].notif = s.notif
      /\ scn'[c].same = s.same /\ scn'[c].response = s.response
  BY Proceeding
<1>2. (Instr(c).op = "send" /\ Instr(c).arg \in Bad) \/ Lacking(c)' = Lacking(c)
  <2>1. Lacking(c)' = (s.response = "401")
    BY <1>1 DEF Lacking
  <2>2. Instr(c).op # "send" => Lacking(c) = (scn[c].response = "401")
    BY Waiting DEF Lacking
  <2>3. CASE Instr(c).op = "send"
    BY <2>1, <2>3 DEF Lacking
  <2>4. CASE Instr(c).op # "send"
    BY <2>1, <2>2, <2>4
  <2>. QED  BY <2>3, <2>4
<1>3. Pending(c)' \cup Afloat(c)' \subseteq Pending(c) \cup Afloat(c)
  OBVIOUS
<1>4. (Instr(c).op = "send" /\ Instr(c).arg \notin Bad) =>
         ~Unposted(c) /\ scn'[c].response \in {"201", "401"}
  BY <1>1
<1>5. IF Instr(c).op = "register"
      THEN Len(scn'[c].channels) \in server'[c].subs
      ELSE scn'[c].channels = scn[c].channels
  BY <1>1
<1>6. IF Instr(c).op = "expect"
      THEN scn'[c].notif = NoNotif \/ scn'[c].notif \in Afloat(c)
      ELSE scn'[c].notif = scn[c].notif
  BY <1>1
<1>. QED  BY <1>1, <1>2, <1>3, <1>4, <1>5, <1>6, MovingIsPresent

\* Commands whose answer comes later.
LEMMA AskedIsPresent ==
    ASSUME Inv, Inv', NEW c \in Clients, mishaps'[c] = {}, Present(c),
           RunConnect(c) \/ RunDisconnect(c) \/ RunRequest(c) \/ RunWait(c)
    PROVE  Present(c)'
<1>1. /\ Turn(c) /\ ~Returns(c) /\ Instr(c).op # "send" /\ plan' = plan
  BY DEF RunConnect, RunDisconnect, RunRequest, RunWait, Runs, Shared, Requests
<1>2. Asks(c) /\ scn' = scn /\ server' = server /\ down' = down
  BY Noted DEF RunConnect, RunDisconnect, RunRequest, RunWait, Outside, network
<1>. QED  BY <1>1, <1>2, AskingIsPresent

LEMMA RunSendNotificationIsPresent ==
    ASSUME Inv, Inv', NEW c \in Clients, RunSendNotification(c), Running(c)',
           Present(c), Whereabouts(c), Whereabouts(c)'
    PROVE  Present(c)'
<1>1. /\ Turn(c) /\ Running(c) /\ ~Returns(c) /\ Instr(c).op = "send"
      /\ plan' = plan /\ server' = server /\ down' = down
      /\ proc[c].waits = "nothing"
  BY DEF RunSendNotification, Runs, Turn
<1>2. CASE Instr(c).arg = "no_endpoint"
  <2>1. PICK s : s = [scn[c] EXCEPT !.response = "failed"]
    OBVIOUS
  <2>2. /\ Continue(c, s) /\ proc' = proc
        /\ tally' = [tally EXCEPT ![c].posted = @ + 1]
    BY <1>2, <2>1 DEF RunSendNotification
  <2>3. /\ s \in ScenarioSet /\ s.pc = scn[c].pc
        /\ s.channels = scn[c].channels /\ s.notif = scn[c].notif
        /\ s.same = scn[c].same
    <3>1. scn[c] \in ScenarioSet
      BY Typed
    <3>. QED  BY <2>1, <3>1 DEF ScenarioSet
  <2>4. /\ GoesOn(Instr(c), plan.once) /\ Instr(c).arg \in Bad
        /\ s.same
    BY <1>1, <1>2, <2>3 DEF GoesOn, Bad, Present
  <2>5. Afloat(c)' = Afloat(c) /\ Pending(c)' = Pending(c)
    BY <1>1, <2>2 DEF Afloat, Pending
  <2>. QED  BY <1>1, <2>2, <2>3, <2>4, <2>5, GoingOnIsPresent
<1>3. CASE Instr(c).arg # "no_endpoint"
  <2>1. SignAndPost(c) /\ Asks(c) /\ scn' = scn
    BY <1>3 DEF RunSendNotification
  <2>2. PICK signed : Posts(c, signed)
    <3>1. CASE plan.claims = "none"
      BY <2>1, <3>1 DEF SignAndPost
    <3>2. CASE plan.claims = "text"
      BY <2>1, <3>2 DEF SignAndPost
    <3>3. CASE plan.claims = "dict"
      BY <2>1, <3>3 DEF SignAndPost
    <3>. QED  BY <3>1, <3>2, <3>3, ThePlan
  <2>3. post'[c].code = "none"
    <3>1. PICK p : p = Post(Target(c), Instr(c).arg, signed)
      OBVIOUS
    <3>2. p.code = "none"
      BY <3>1 DEF Post
    <3>3. post'[c] = p
      BY <2>2, <3>1, Types DEF Posts, Inv
    <3>. QED  BY <3>2, <3>3
  <2>. QED  BY <1>1, <2>1, <2>3, AskingIsPresent
<1>. QED  BY <1>2, <1>3

LEMMA RunExpectIsPresent ==
    ASSUME Inv, Inv', NEW c \in Clients, RunExpect(c), Running(c)',
           Present(c), Whereabouts(c), Whereabouts(c)'
    PROVE  Present(c)'
<1>1. /\ Turn(c) /\ Running(c) /\ ~Returns(c) /\ Instr(c).op = "expect"
      /\ proc[c].waits = "nothing" /\ plan' = plan /\ server' = server
      /\ down' = down
  BY DEF RunExpect, Runs, Turn, Shared, Outside, network
<1>2. proc \in [Clients -> ProcessorSet] /\ proc[c].inbox \in Seq(Notifs)
  BY Types DEF Inv, ProcessorSet
<1>3. CASE Stored(c) = {}
  <2>1. Asks(c) /\ scn' = scn
    BY <1>3 DEF RunExpect
  <2>. QED  BY <1>1, <2>1, AskingIsPresent
<1>4. CASE Stored(c) # {}
  <2>1. PICK k : k = CHOOSE m \in Stored(c) : \A j \in Stored(c) : m =< j
    OBVIOUS
  <2>2. k \in 1..Len(proc[c].inbox)
    <3>1. Stored(c) \subseteq 1..Len(proc[c].inbox)
      BY <1>2 DEF Stored
    <3>2. \E m \in Stored(c) : \A j \in Stored(c) : m =< j
      BY <1>2, <1>4, <3>1, LeastNumber
    <3>3. k \in Stored(c)
      BY <2>1, <3>2
    <3>. QED  BY <3>1, <3>3
  <2>3. PICK n : n = proc[c].inbox[k]
    OBVIOUS
  <2>4. n \in Notifs /\ n \in Elements(proc[c].inbox)
    BY <1>2, <2>2, <2>3 DEF Elements
  <2>5. PICK rest : rest = Without(proc[c].inbox, k)
    OBVIOUS
  <2>6. PICK s : s = [scn[c] EXCEPT !.notif = n]
    OBVIOUS
  <2>7. /\ Continue(c, s)
        /\ proc' = [proc EXCEPT ![c].inbox = rest]
    BY <1>2, <1>4, <2>1, <2>3, <2>5, <2>6 DEF RunExpect, GivenNotif, Without
  <2>8. proc'[c].inbox = rest /\ proc'[c].waits = "nothing"
    <3>1. proc'[c] = [proc[c] EXCEPT !.inbox = rest]
      BY <1>2, <2>7
    <3>2. proc[c] \in ProcessorSet
      BY Typed
    <3>. QED  BY <1>1, <3>1, <3>2 DEF ProcessorSet
  <2>9. Elements(rest) \subseteq Elements(proc[c].inbox)
    BY <1>2, <2>2, <2>5, WithoutOne DEF Without
  <2>10. /\ s \in ScenarioSet /\ s.pc = scn[c].pc /\ s.notif = n
         /\ s.channels = scn[c].channels /\ s.same = scn[c].same
         /\ s.response = scn[c].response
    <3>1. scn[c] \in ScenarioSet
      BY Typed
    <3>. QED  BY <2>4, <2>6, <3>1 DEF ScenarioSet
  <2>11. Afloat(c)' \subseteq Afloat(c) /\ Pending(c)' = Pending(c)
    BY <1>1, <2>8, <2>9 DEF Afloat, Pending
  <2>12. /\ GoesOn(Instr(c), plan.once) /\ n \in Afloat(c)
         /\ s.same
    BY <1>1, <2>4, <2>10 DEF GoesOn, Afloat, Present
  <2>. QED  BY <1>1, <2>7, <2>8, <2>10, <2>11, <2>12, GoingOnIsPresent
<1>. QED  BY <1>3, <1>4

LEMMA RunAckIsPresent ==
    ASSUME Inv, Inv', NEW c \in Clients, RunAck(c), Running(c)',
           mishaps'[c] = {}, Present(c), Whereabouts(c), Whereabouts(c)'
    PROVE  Present(c)'
<1>1. /\ Running(c) /\ ~Returns(c) /\ Instr(c).op = "ack"
      /\ proc[c].waits = "nothing" /\ plan' = plan
  BY DEF RunAck, Runs, Turn, Shared
<1>2. scn[c].notif # NoNotif
  <2>1. ASSUME Raise(c, proc[c]) PROVE FALSE
    BY <1>1, <2>1, Typed, RaisingForGood
  <2>. QED  BY <2>1 DEF RunAck
<1>3. /\ Acknowledged(c, {scn[c].notif.id}) /\ Continue(c, scn[c])
      /\ proc' = proc /\ down' = down
  BY <1>2, Noted DEF RunAck, network
<1>4. /\ Pending(c)' \subseteq Pending(c) /\ server'[c].subs = server[c].subs
  BY <1>3, StillPending DEF Whereabouts, Numbered
<1>5. Afloat(c)' = Afloat(c)
  BY <1>3 DEF Afloat
<1>6. GoesOn(Instr(c), plan.once) /\ scn[c] \in ScenarioSet /\ scn[c].same
  BY <1>1, Typed DEF GoesOn, Present
<1>. QED  BY <1>1, <1>3, <1>4, <1>5, <1>6, GoingOnIsPresent

LEMMA RunAckIdsIsPresent ==
    ASSUME Inv, Inv', NEW c \in Clients, AcksIds(c), Running(c)',
           Present(c), Whereabouts(c), Whereabouts(c)'
    PROVE  Present(c)'
<1>1. /\ Running(c) /\ ~Returns(c) /\ Instr(c).op = "ack_ids"
      /\ proc[c].waits = "nothing" /\ plan' = plan /\ proc' = proc
      /\ down' = down
  BY DEF AcksIds, Runs, Turn, Shared, network
<1>2. Afloat(c)' = Afloat(c)
  BY <1>1 DEF Afloat
<1>3. GoesOn(Instr(c), plan.once) /\ Branches(Instr(c), plan.once)
  BY <1>1 DEF GoesOn, Branches
<1>4. CASE scn[c].ids = <<>>
  <2>1. Continue(c, scn[c]) /\ server' = server
    BY <1>4 DEF AcksIds
  <2>2. scn[c] \in ScenarioSet /\ scn[c].same /\ Pending(c)' = Pending(c)
    BY <2>1, Typed DEF Present, Pending
  <2>. QED  BY <1>1, <1>2, <1>3, <2>1, <2>2, GoingOnIsPresent
<1>5. CASE scn[c].ids # <<>>
  <2>1. PICK ids : Acknowledged(c, ids)
    BY <1>5 DEF AcksIds
  <2>2. Pending(c)' \subseteq Pending(c) /\ server'[c].subs = server[c].subs
    BY <2>1, StillPending DEF Whereabouts, Numbered
  <2>3. PICK none : none = <<>>
    OBVIOUS
  <2>4. PICK s : s = [scn[c] EXCEPT !.ids = none]
    OBVIOUS
  <2>5. /\ s \in ScenarioSet /\ s.channels = scn[c].channels
        /\ s.notif = scn[c].notif /\ s.same = scn[c].same
        /\ s.response = scn[c].response
    <3>1. none \in Seq(Nat)
      BY <2>3, EmptySeq
    <3>2. scn[c] \in ScenarioSet
      BY Typed
    <3>. QED  BY <2>4, <3>1, <3>2 DEF ScenarioSet
  <2>6. scn' = [scn EXCEPT ![c] = GoTo(s, Instr(c).arg)]
    BY <1>5, <2>3, <2>4 DEF AcksIds
  <2>7. /\ scn'[c].pc = Instr(c).arg /\ scn'[c].channels = s.channels
        /\ scn'[c].notif = s.notif /\ scn'[c].same = s.same
        /\ scn'[c].response = s.response
    <3>1. PICK l : l = Instr(c).arg
      OBVIOUS
    <3>2. scn' = [scn EXCEPT ![c] = GoTo(s, l)]
      BY <2>6, <3>1
    <3>3. s \in ScenarioSet
      BY <2>5
    <3>4. scn'[c].pc = l /\ scn'[c].channels = s.channels
      BY <3>2, <3>3, Continuing
    <3>5. scn'[c].notif = s.notif /\ scn'[c].same = s.same
      BY <3>2, <3>3, Continuing
    <3>6. scn'[c].response = s.response
      BY <3>2, <3>3, Continuing
    <3>. QED  BY <3>1, <3>4, <3>5, <3>6
  <2>8. LeadsTo(plan.kind, plan.once, scn[c].pc, scn'[c].pc)
    BY <1>1, <1>3, <2>7, TheCarrying
  <2>9. Lacking(c)' = Lacking(c)
    BY <1>1, <2>5, <2>7 DEF Lacking
  <2>10. Pending(c)' \cup Afloat(c)' \subseteq Pending(c) \cup Afloat(c)
    BY <1>2, <2>2
  <2>. QED
    BY <1>1, <2>2, <2>5, <2>7, <2>8, <2>9, <2>10, MovingIsPresent DEF Present
<1>. QED  BY <1>4, <1>5

LEMMA RunCollectIsPresent ==
    ASSUME Inv, Inv', NEW c \in Clients, RunCollect(c), Running(c)',
           Present(c), Whereabouts(c), Whereabouts(c)'
    PROVE  Present(c)'
<1>1. /\ Running(c) /\ ~Returns(c) /\ Instr(c).op = "collect"
      /\ proc[c].waits = "nothing" /\ plan' = plan /\ proc' = proc
      /\ server' = server /\ down' = down
  BY DEF RunCollect, Runs, Turn, Shared, Outside, network
<1>2. PICK s \in ScenarioSet :
          /\ Continue(c, s) /\ s.pc = scn[c].pc
          /\ s.channels = scn[c].channels /\ s.notif = scn[c].notif
          /\ s.same = scn[c].same /\ s.response = scn[c].response
  <2>1. scn[c] \in ScenarioSet
    BY Typed
  <2>2. PICK ids : ids = Append(scn[c].ids, scn[c].notif.id)
    OBVIOUS
  <2>3. ids \in Seq(Nat)
    BY <2>1, <2>2 DEF ScenarioSet, Notifs
  <2>4. PICK t : t = [scn[c] EXCEPT !.ids = ids]
    OBVIOUS
  <2>5. /\ t \in ScenarioSet /\ t.pc = scn[c].pc
        /\ t.channels = scn[c].channels /\ t.notif = scn[c].notif
        /\ t.same = scn[c].same /\ t.response = scn[c].response
    BY <2>1, <2>3, <2>4 DEF ScenarioSet
  <2>6. CASE scn[c].notif = NoNotif
    BY <2>1, <2>6 DEF RunCollect
  <2>7. CASE scn[c].notif # NoNotif
    <3>1. Continue(c, t)
      BY <2>1, <2>2, <2>4, <2>7 DEF RunCollect, ScenarioSet
    <3>. QED  BY <2>5, <3>1
  <2>. QED  BY <2>6, <2>7
<1>3. Afloat(c)' = Afloat(c) /\ Pending(c)' = Pending(c)
  BY <1>1 DEF Afloat, Pending
<1>4. GoesOn(Instr(c), plan.once) /\ s.same
  BY <1>1, <1>2 DEF GoesOn, Present
<1>. QED  BY <1>1, <1>2, <1>3, <1>4, GoingOnIsPresent

\* What a scenario does by itself.
LEMMA RestIsPresent ==
    ASSUME Inv, Inv', NEW c \in Clients, mishaps'[c] = {}, Running(c)',
           RunTimer(c) \/ RunCounter(c) \/ RunCheck(c),
           Present(c), Whereabouts(c), Whereabouts(c)'
    PROVE  Present(c)'
<1>1. /\ Running(c) /\ ~Returns(c) /\ plan' = plan
      /\ Instr(c).op \in {"timer_start", "timer_end", "counter", "created",
                          "same_uaid", "needed", "data"}
      /\ proc[c].waits = "nothing"
  BY DEF RunTimer, RunCounter, RunCheck, Runs, Turn, Shared
<1>2. ~Raise(c, proc[c])
  BY <1>1, Typed, RaisingForGood
<1>3. /\ Continue(c, scn[c]) /\ server' = server /\ down' = down
      /\ \/ proc' = proc
         \/ \E b \in BOOLEAN : proc' = [proc EXCEPT ![c].timing = b]
  BY <1>2, Noted DEF RunTimer, RunCounter, RunCheck, Outside, network
<1>4. proc'[c].waits = "nothing" /\ proc'[c].inbox = proc[c].inbox
  BY <1>1, <1>3, Types DEF Inv, ProcessorSet
<1>5. Afloat(c)' = Afloat(c) /\ Pending(c)' = Pending(c)
  BY <1>3, <1>4 DEF Afloat, Pending
<1>6. GoesOn(Instr(c), plan.once) /\ scn[c] \in ScenarioSet /\ scn[c].same
  BY <1>1, Typed DEF GoesOn, Present
<1>. QED  BY <1>1, <1>3, <1>4, <1>5, <1>6, GoingOnIsPresent

LEMMA RunBranchIsPresent ==
    ASSUME Inv, Inv', NEW c \in Clients, RunBranch(c), Running(c)',
           Present(c), Whereabouts(c), Whereabouts(c)'
    PROVE  Present(c)'
<1>1. /\ Running(c) /\ ~Returns(c) /\ proc[c].waits = "nothing"
      /\ Instr(c).op \in {"jump", "for", "if_once", "if_notif", "loop"}
      /\ plan' = plan /\ proc' = proc /\ server' = server /\ down' = down
      /\ LeadsTo(plan.kind, plan.once, scn[c].pc, scn'[c].pc)
      /\ scn'[c].channels = scn[c].channels
      /\ scn'[c].notif = scn[c].notif
      /\ scn'[c].same = scn[c].same
      /\ scn'[c].response = scn[c].response
      /\ Instr(c).op = "if_notif" =>
            scn'[c].pc = IF scn[c].notif = NoNotif THEN Instr(c).arg
                         ELSE scn[c].pc + 1
  BY Branching
<1>2. Afloat(c)' = Afloat(c) /\ Pending(c)' = Pending(c)
  BY <1>1 DEF Afloat, Pending
<1>3. Lacking(c)' = Lacking(c)
  BY <1>1 DEF Lacking
<1>4. scn'[c].same /\ proc'[c].waits = "nothing"
  BY <1>1 DEF Present
<1>5. Pending(c)' \cup Afloat(c)' \subseteq Pending(c) \cup Afloat(c)
  BY <1>2
<1>. QED  BY <1>1, <1>2, <1>3, <1>4, <1>5, MovingIsPresent

-----------------------------------------------------------------------------
(* What its processor tells it, and what the server does.                  *)

LEMMA WaitedIsPresent ==
    ASSUME Inv, Inv', NEW c \in Clients, Opens(c) \/ WaitEnds(c), Running(c)',
           Present(c), Whereabouts(c), Whereabouts(c)'
    PROVE  Present(c)'
<1>1. /\ Running(c) /\ ~Returns(c) /\ Instr(c).op \in {"connect", "wait"}
  BY Waiting DEF Opens, WaitEnds, Awaits
<1>2. /\ plan' = plan /\ server' = server /\ down' = down
      /\ Continue(c, scn[c])
      /\ \/ proc' = [proc EXCEPT ![c].waits = "nothing"]
         \/ proc' = [proc EXCEPT ![c].waits = "nothing", ![c].connected = TRUE]
  BY DEF Opens, WaitEnds, Answered, Shared, Outside, network
<1>3. proc'[c].waits = "nothing" /\ proc'[c].inbox = proc[c].inbox
  <2>1. proc \in [Clients -> ProcessorSet] /\ proc[c] \in ProcessorSet
    BY Types DEF Inv
  <2>2. \/ proc'[c] = [proc[c] EXCEPT !.waits = "nothing"]
        \/ proc'[c] = [proc[c] EXCEPT !.waits = "nothing", !.connected = TRUE]
    BY <1>2, <2>1
  <2>. QED  BY <2>1, <2>2 DEF ProcessorSet
<1>4. Afloat(c)' = Afloat(c) /\ Pending(c)' = Pending(c)
  BY <1>2, <1>3 DEF Afloat, Pending
<1>5. GoesOn(Instr(c), plan.once) /\ scn[c] \in ScenarioSet /\ scn[c].same
  BY <1>1, Typed DEF GoesOn, Present
<1>. QED  BY <1>1, <1>2, <1>3, <1>4, <1>5, GoingOnIsPresent

LEMMA ClosesIsPresent ==
    ASSUME Inv, Inv', NEW c \in Clients, Closes(c), Running(c)',
           Present(c), Whereabouts(c), Whereabouts(c)'
    PROVE  Present(c)'
<1>1. /\ Running(c) /\ ~Returns(c) /\ Instr(c).op = "disconnect"
  BY Waiting DEF Closes, Awaits
<1>2. /\ plan' = plan /\ Continue(c, scn[c]) /\ Unconnected(c)
      /\ proc' = [proc EXCEPT ![c].waits = "nothing", ![c].connected = FALSE]
  BY DEF Closes, Shared
<1>3. proc'[c].waits = "nothing" /\ proc'[c].inbox = proc[c].inbox
  <2>1. proc \in [Clients -> ProcessorSet] /\ proc[c] \in ProcessorSet
    BY Types DEF Inv
  <2>2. proc'[c] = [proc[c] EXCEPT !.waits = "nothing", !.connected = FALSE]
    BY <1>2, <2>1
  <2>. QED  BY <2>1, <2>2 DEF ProcessorSet
<1>4. /\ server'[c].pending = server[c].pending
      /\ server'[c].subs = server[c].subs
      /\ down'[c] = <<>>
  <2>1. /\ server \in [Clients -> AgentSet] /\ server[c] \in AgentSet
        /\ down \in [Clients -> Seq(FrameSet)]
    BY Types DEF Inv
  <2>2. server'[c] = [server[c] EXCEPT !.online = FALSE]
    BY <1>2, <2>1 DEF Unconnected
  <2>3. down'[c] = <<>>
    BY <1>2, <2>1 DEF Unconnected
  <2>. QED  BY <2>1, <2>2, <2>3 DEF AgentSet
<1>5. Afloat(c)' \subseteq Afloat(c) /\ Pending(c)' = Pending(c)
  <2>1. Told(down'[c]) = {}
    BY <1>4 DEF Told
  <2>. QED  BY <1>3, <1>4, <2>1 DEF Afloat, Pending
<1>6. GoesOn(Instr(c), plan.once) /\ scn[c] \in ScenarioSet /\ scn[c].same
  BY <1>1, Typed DEF GoesOn, Present
<1>. QED  BY <1>1, <1>2, <1>3, <1>4, <1>5, <1>6, GoingOnIsPresent

LEMMA TimesOutIsPresent ==
    ASSUME Inv, Inv', NEW c \in Clients, TimesOut(c), Running(c)',
           Present(c), Whereabouts(c), Whereabouts(c)'
    PROVE  Present(c)'
<1>1. /\ Running(c) /\ ~Returns(c) /\ Instr(c).op = "expect"
  BY Waiting DEF TimesOut, Awaits
<1>2. PICK s : s = [scn[c] EXCEPT !.notif = NoNotif]
  OBVIOUS
<1>3. /\ plan' = plan /\ server' = server /\ down' = down
      /\ Continue(c, s) /\ proc' = [proc EXCEPT ![c].waits = "nothing"]
  BY <1>2 DEF TimesOut, Shared, network, Answered
<1>4. /\ s \in ScenarioSet /\ s.pc = scn[c].pc /\ s.same = scn[c].same
      /\ s.channels = scn[c].channels /\ s.notif = NoNotif
      /\ s.response = scn[c].response
  <2>1. scn[c] \in ScenarioSet
    BY Typed
  <2>. QED  BY <1>2, <2>1, Beginnings DEF ScenarioSet
<1>5. proc'[c].waits = "nothing" /\ proc'[c].inbox = proc[c].inbox
  BY <1>3, WaitingFor
<1>6. Afloat(c)' = Afloat(c) /\ Pending(c)' = Pending(c)
  BY <1>3, <1>5 DEF Afloat, Pending
<1>7. GoesOn(Instr(c), plan.once) /\ s.same
  BY <1>1, <1>4 DEF GoesOn, Present
<1>. QED  BY <1>1, <1>3, <1>4, <1>5, <1>6, <1>7, GoingOnIsPresent

LEMMA PostAnsweredIsPresent ==
    ASSUME Inv, Inv', NEW c \in Clients, PostAnswered(c), Running(c)',
           Present(c), Whereabouts(c), Whereabouts(c)'
    PROVE  Present(c)'
<1>1. /\ Running(c) /\ ~Returns(c) /\ Instr(c).op = "send"
      /\ proc[c].waits = "send"
  BY Waiting DEF PostAnswered, Awaits
<1>2. PICK code : code = post[c].code
  OBVIOUS
<1>3. code \in {"201", "401", "404"}
  <2>1. post[c] \in PostSet
    BY Typed
  <2>. QED  BY <1>2, <2>1 DEF PostAnswered, PostSet
<1>4. PICK s : s = [scn[c] EXCEPT !.response = code]
  OBVIOUS
<1>5. /\ plan' = plan /\ server' = server /\ down' = down
      /\ Continue(c, s) /\ proc' = [proc EXCEPT ![c].waits = "nothing"]
  BY <1>2, <1>4 DEF PostAnswered, Responds, Shared, Answered
<1>6. /\ s \in ScenarioSet /\ s.pc = scn[c].pc /\ s.same = scn[c].same
      /\ s.channels = scn[c].channels /\ s.notif = scn[c].notif
      /\ s.response = code
  <2>1. scn[c] \in ScenarioSet
    BY Typed
  <2>. QED  BY <1>3, <1>4, <2>1 DEF ScenarioSet
<1>7. proc'[c].waits = "nothing" /\ proc'[c].inbox = proc[c].inbox
  BY <1>5, WaitingFor
<1>8. Afloat(c)' = Afloat(c) /\ Pending(c)' = Pending(c)
  BY <1>5, <1>7 DEF Afloat, Pending
<1>9. GoesOn(Instr(c), plan.once) /\ s.same
  BY <1>1, <1>6 DEF GoesOn, Present
<1>10. ~Unposted(c) /\ (Lacking(c) <=> code = "401")
  BY <1>1, <1>2, <1>3 DEF Unposted, Lacking
<1>11. Instr(c).arg \notin Bad => code # "404"
  BY <1>1, <1>2 DEF Present, Endpoints, Bad
<1>12. (Instr(c).op = "send" /\ Instr(c).arg \notin Bad) =>
          /\ ~Unposted(c) /\ s.response \in {"201", "401"}
          /\ s.response = "401" <=> Lacking(c)
  BY <1>3, <1>6, <1>10, <1>11
<1>. QED  BY <1>1, <1>5, <1>6, <1>7, <1>8, <1>9, <1>12, GoingOnIsPresent

\* Nothing but the network changes.
LEMMA StandingIsPresent ==
    ASSUME NEW c \in Clients, Present(c), plan' = plan,
           scn'[c] = scn[c], proc'[c].waits = proc[c].waits,
           post'[c] = post[c],
           \/ server[c].subs \subseteq server'[c].subs
           \/ ~Reachable(plan.kind, scn[c].pc),
           \A k \in DOMAIN down'[c] :
               down'[c][k].type = "register" =>
                   Len(scn[c].channels) + 1 \in server'[c].subs,
           Pending(c)' \cup Afloat(c)' \subseteq Pending(c) \cup Afloat(c),
           \/ Pending(c)' = Pending(c)
           \/ scn[c].pc \in Vacancies[plan.kind] \/ plan.kind \in Several
    PROVE  Present(c)'
<1>1. /\ Instr(c)' = Instr(c) /\ Returns(c)' = Returns(c)
      /\ \A op : At(c, op)' = At(c, op)
  BY DEF Instr, Returns, Running, At
<1>2. Unposted(c)' = Unposted(c) /\ Lacking(c)' = Lacking(c)
  BY <1>1 DEF Unposted, Lacking
<1>3. Endpoints(c)'
  BY <1>1 DEF Present, Endpoints
<1>4. Outstanding(c)'
  BY <1>2 DEF Present, Outstanding
<1>5. Latest(c)'
  BY <1>2 DEF Present, Latest
<1>. QED  BY <1>1, <1>3, <1>4, <1>5 DEF Present

LEMMA ExpectedArrivesIsPresent ==
    ASSUME Inv, Inv', NEW c \in Clients, Arrives(c), Running(c)',
           Present(c), Whereabouts(c), Whereabouts(c)',
           Head(down[c]).type = "notification",
           proc[c].waits = "expect", IsExpected(c, Head(down[c]).notif)
    PROVE  Present(c)'
<1>1. PICK n : n = Head(down[c]).notif
  OBVIOUS
<1>2. PICK s : s = [scn[c] EXCEPT !.notif = n]
  OBVIOUS
<1>3. /\ Running(c) /\ ~Returns(c) /\ Instr(c).op = "expect"
      /\ Continue(c, s) /\ proc' = [proc EXCEPT ![c].waits = "nothing"]
      /\ ~Replies(Head(down[c]))
  BY <1>1, <1>2, Waiting DEF Arrives, Answered, Replies
<1>4. /\ plan' = plan /\ server' = server /\ n \in Notifs
      /\ Told(down[c]) = Told(down'[c]) \cup {n}
  <2>1. /\ plan' = plan /\ server' = server /\ Head(down[c]) \in FrameSet
        /\ Told(down[c]) = Told(down'[c]) \cup
              (IF Replies(Head(down[c])) THEN {} ELSE {Head(down[c]).notif})
    BY TheFrames DEF Whereabouts
  <2>2. n \in Notifs
    BY <1>1, <2>1 DEF FrameSet
  <2>. QED  BY <1>1, <1>3, <2>1, <2>2
<1>5. /\ s \in ScenarioSet /\ s.pc = scn[c].pc /\ s.same = scn[c].same
      /\ s.channels = scn[c].channels /\ s.notif = n
      /\ s.response = scn[c].response
  <2>1. scn[c] \in ScenarioSet
    BY Typed
  <2>. QED  BY <1>2, <1>4, <2>1 DEF ScenarioSet
<1>6. proc'[c].waits = "nothing" /\ proc'[c].inbox = proc[c].inbox
  BY <1>3, WaitingFor
<1>7. /\ Afloat(c)' \subseteq Afloat(c) /\ n \in Afloat(c)
      /\ Pending(c)' = Pending(c)
  BY <1>4, <1>6 DEF Afloat, Pending
<1>8. GoesOn(Instr(c), plan.once) /\ s.same
  BY <1>3, <1>5 DEF GoesOn, Present
<1>9. s.notif \in Afloat(c) /\ server'[c].subs = server[c].subs
  BY <1>4, <1>5, <1>7
<1>. QED  BY <1>3, <1>4, <1>5, <1>6, <1>7, <1>8, <1>9, GoingOnIsPresent

LEMMA OtherArrivesIsPresent ==
    ASSUME Inv, Inv', NEW c \in Clients, Arrives(c), Running(c)',
           Present(c), Whereabouts(c), Whereabouts(c)',
           Head(down[c]).type = "notification",
           ~(proc[c].waits = "expect" /\ IsExpected(c, Head(down[c]).notif))
    PROVE  Present(c)'
<1>1. PICK n : n = Head(down[c]).notif
  OBVIOUS
<1>2. /\ scn' = scn /\ post' = post
      /\ proc' = [proc EXCEPT ![c].inbox = Append(@, n)]
      /\ ~Replies(Head(down[c]))
  BY <1>1 DEF Arrives, Replies
<1>3. /\ plan' = plan /\ server' = server /\ n \in Notifs
      /\ Told(down[c]) = Told(down'[c]) \cup {n}
  <2>1. /\ plan' = plan /\ server' = server /\ Head(down[c]) \in FrameSet
        /\ Told(down[c]) = Told(down'[c]) \cup
              (IF Replies(Head(down[c])) THEN {} ELSE {Head(down[c]).notif})
    BY TheFrames DEF Whereabouts
  <2>2. n \in Notifs
    BY <1>1, <2>1 DEF FrameSet
  <2>. QED  BY <1>1, <1>2, <2>1, <2>2
<1>4. proc \in [Clients -> ProcessorSet] /\ proc[c].inbox \in Seq(Notifs)
  BY Types DEF Inv, ProcessorSet
<1>5. PICK inbox : inbox = Append(proc[c].inbox, n)
  OBVIOUS
<1>6. proc'[c].waits = proc[c].waits /\ proc'[c].inbox = inbox
  <2>1. proc'[c] = [proc[c] EXCEPT !.inbox = inbox]
    BY <1>2, <1>4, <1>5
  <2>. QED  BY <1>4, <2>1 DEF ProcessorSet
<1>7. Elements(inbox) = Elements(proc[c].inbox) \cup {n}
  BY <1>3, <1>4, <1>5, ElementsAppended
<1>8. Afloat(c)' = Afloat(c) /\ Pending(c)' = Pending(c)
  BY <1>3, <1>6, <1>7 DEF Afloat, Pending
<1>9. ASSUME NEW k \in DOMAIN down'[c], down'[c][k].type = "register"
      PROVE  Len(scn[c].channels) + 1 \in server'[c].subs
  <2>1. k + 1 \in DOMAIN down[c] /\ down'[c][k] = down[c][k + 1]
    BY NextFrame DEF Arrives
  <2>. QED  BY <1>3, <1>9, <2>1 DEF Present, Endpoints
<1>10. /\ scn'[c] = scn[c] /\ post'[c] = post[c]
       /\ server[c].subs \subseteq server'[c].subs
       /\ Pending(c)' \cup Afloat(c)' \subseteq Pending(c) \cup Afloat(c)
  BY <1>2, <1>3, <1>8
<1>. QED  BY <1>3, <1>6, <1>8, <1>9, <1>10, StandingIsPresent

LEMMA ReplyArrivesIsPresent ==
    ASSUME Inv, Inv', NEW c \in Clients, Arrives(c), Running(c)',
           Present(c), Whereabouts(c), Whereabouts(c)',
           Head(down[c]).type # "notification"
    PROVE  Present(c)'
<1>1. PICK type : type = Head(down[c]).type
  OBVIOUS
<1>2. /\ Answered(c, [scn[c] EXCEPT
             !.same = type # "stranger",
             !.channels = IF type = "register"
                          THEN Append(@, Len(@) + 1) ELSE @])
      /\ Replies(Head(down[c])) /\ down[c] # <<>>
  BY <1>1 DEF Arrives, Shared, Replies
<1>3. /\ plan' = plan /\ server' = server /\ Running(c)
      /\ type \in Requests /\ proc[c].waits = type
      /\ Told(down[c]) = Told(down'[c])
  <2>1. /\ plan' = plan /\ server' = server /\ Running(c)
        /\ Head(down[c]) \in FrameSet /\ Head(down[c]).type # "stranger"
        /\ Told(down[c]) = Told(down'[c]) \cup
              (IF Replies(Head(down[c])) THEN {} ELSE {Head(down[c]).notif})
        /\ Replies(Head(down[c])) => proc[c].waits = Request(Head(down[c]).type)
    BY TheFrames DEF Whereabouts
  <2>2. type \in Requests
    BY <1>1, <1>2, <2>1 DEF FrameSet, Replies
  <2>3. proc[c].waits = type
    BY <1>1, <1>2, <2>1 DEF Request
  <2>. QED  BY <1>1, <1>2, <2>1, <2>2, <2>3
<1>4. ~Returns(c) /\ Instr(c).op = type
  BY <1>3, Waiting DEF Requests
<1>5. PICK chs : chs = IF type = "register"
                       THEN Append(scn[c].channels, Len(scn[c].channels) + 1)
                       ELSE scn[c].channels
  OBVIOUS
<1>6. /\ chs \in Seq(Nat)
      /\ type = "register" => Len(chs) = Len(scn[c].channels) + 1
      /\ type # "register" => chs = scn[c].channels
  <2>1. scn[c].channels \in Seq(Nat)
    BY Typed DEF ScenarioSet
  <2>. QED  BY <1>5, <2>1
<1>7. PICK known : known = (type # "stranger")
  OBVIOUS
<1>8. known = TRUE
  BY <1>3, <1>7 DEF Requests
<1>9. PICK s : s = [scn[c] EXCEPT !.same = known, !.channels = chs]
  OBVIOUS
<1>10. Continue(c, s) /\ proc' = [proc EXCEPT ![c].waits = "nothing"]
  BY <1>2, <1>5, <1>7, <1>9 DEF Answered
<1>11. /\ s \in ScenarioSet /\ s.pc = scn[c].pc /\ s.same = TRUE
       /\ s.notif = scn[c].notif /\ s.channels = chs
       /\ s.response = scn[c].response
  <2>1. scn[c] \in ScenarioSet
    BY Typed
  <2>. QED  BY <1>6, <1>8, <1>9, <2>1 DEF ScenarioSet
<1>12. /\ LeadsTo(plan.kind, plan.once, scn[c].pc, scn'[c].pc)
       /\ scn'[c].channels = chs /\ scn'[c].notif = scn[c].notif
       /\ scn'[c].same /\ scn'[c].response = scn[c].response
  <2>1. GoesOn(Instr(c), plan.once)
    BY <1>3, <1>4 DEF GoesOn, Requests
  <2>2. /\ LeadsTo(plan.kind, plan.once, scn[c].pc, scn'[c].pc)
        /\ scn'[c].channels = s.channels /\ scn'[c].notif = s.notif
        /\ scn'[c].same = s.same /\ scn'[c].response = s.response
    BY <1>3, <1>4, <1>10, <1>11, <2>1, Proceeding
  <2>. QED  BY <1>11, <2>2
<1>13. proc'[c].waits = "nothing" /\ proc'[c].inbox = proc[c].inbox
  BY <1>10, WaitingFor
<1>14. /\ Afloat(c)' = Afloat(c) /\ Pending(c)' = Pending(c)
       /\ Pending(c)' \cup Afloat(c)' \subseteq Pending(c) \cup Afloat(c)
  BY <1>3, <1>13 DEF Afloat, Pending
<1>15. type = "register" => Len(chs) \in server'[c].subs
  <2>1. 1 \in DOMAIN down[c] /\ Head(down[c]) = down[c][1]
    BY <1>2, NextFrame DEF Arrives
  <2>. QED  BY <1>1, <1>3, <1>6, <2>1 DEF Present, Endpoints
<1>16. Lacking(c)' = Lacking(c)
  BY <1>3, <1>12, <1>13 DEF Lacking, Requests
<1>17. /\ IF Instr(c).op = "register"
          THEN Len(scn'[c].channels) \in server'[c].subs
          ELSE scn'[c].channels = scn[c].channels
       /\ Instr(c).op \notin {"send", "expect", "if_notif"}
       /\ server'[c].subs = server[c].subs
  BY <1>3, <1>4, <1>6, <1>12, <1>15 DEF Requests
<1>. QED
  BY <1>3, <1>4, <1>12, <1>13, <1>14, <1>16, <1>17, MovingIsPresent

LEMMA ServerAnswersIsPresent ==
    ASSUME Inv, Inv', NEW c \in Clients, ServerAnswers(c), mishaps'[c] = {},
           Present(c), Whereabouts(c)
    PROVE  Present(c)'
<1>1. /\ Running(c) /\ ~Returns(c) /\ plan' = plan /\ scn' = scn
      /\ proc' = proc /\ post' = post
      /\ proc[c].waits = up[c] /\ Instr(c).op = up[c]
      /\ \A k \in DOMAIN down[c] : ~Replies(down[c][k])
  BY Requesting
<1>2. down \in [Clients -> Seq(FrameSet)] /\ down[c] \in Seq(FrameSet)
  BY Types DEF Inv
<1>3. CASE up[c] = "hello" /\ ServerGreets(c)
  <2>1. /\ server'[c].subs = server[c].subs
        /\ Pending(c)' = Pending(c) /\ Afloat(c)' = Pending(c)
    BY <1>3, GreetingTells
  <2>2. ASSUME NEW k \in DOMAIN down'[c], down'[c][k].type = "register"
        PROVE  FALSE
    <3>1. Running(c)' /\ proc'[c].waits = "hello"
      BY <1>1, <1>3 DEF Running
    <3>. QED  BY <2>2, <3>1 DEF Inv, ClientInv, InTouch, Replies, Request
  <2>. QED  BY <1>1, <2>1, <2>2, StandingIsPresent
<1>4. CASE up[c] = "register" /\ ServerRegisters(c)
  <2>1. PICK subs : subs = server[c].subs \cup {Len(scn[c].channels) + 1}
    OBVIOUS
  <2>2. server'[c].pending = server[c].pending /\ server'[c].subs = subs
    <3>1. server \in [Clients -> AgentSet] /\ server[c] \in AgentSet
      BY Types DEF Inv
    <3>2. server'[c] = [server[c] EXCEPT !.subs = subs]
      BY <1>4, <2>1, <3>1 DEF ServerRegisters
    <3>. QED  BY <3>1, <3>2 DEF AgentSet
  <2>3. PICK frames : frames = Append(down[c], Frame("register", NoNotif))
    OBVIOUS
  <2>4. down'[c] = frames /\ Told(frames) = Told(down[c])
    BY <1>2, <1>4, <2>3, ReplyingTraces DEF ServerRegisters
  <2>5. Pending(c)' = Pending(c) /\ Afloat(c)' = Afloat(c)
    BY <1>1, <2>2, <2>4 DEF Pending, Afloat
  <2>. QED  BY <1>1, <2>1, <2>2, <2>5, StandingIsPresent
<1>5. CASE up[c] = "unregister" /\ ServerUnregisters(c)
  <2>1. Pending(c)' \subseteq Pending(c)
    BY <1>5, Unregistering DEF Whereabouts, Numbered
  <2>2. PICK frames : frames = Append(down[c], Frame("unregister", NoNotif))
    OBVIOUS
  <2>3. /\ down'[c] = frames /\ Told(frames) = Told(down[c])
        /\ Sorts(frames) = Sorts(down[c]) \cup {"unregister"}
    BY <1>2, <1>5, <2>2, ReplyingTraces DEF ServerUnregisters
  <2>4. \A k \in DOMAIN down'[c] : down'[c][k].type # "register"
    <3>1. "register" \notin Sorts(down[c])
      BY <1>1 DEF Sorts, Replies
    <3>2. "register" \notin Sorts(frames)
      BY <2>3, <3>1
    <3>. QED  BY <2>3, <3>2 DEF Sorts
  <2>5. Pending(c)' \cup Afloat(c)' \subseteq Pending(c) \cup Afloat(c)
    BY <1>1, <2>1, <2>3 DEF Afloat
  <2>6. /\ ~Reachable(plan.kind, scn[c].pc)
        /\ scn[c].pc \in Vacancies[plan.kind] \/ plan.kind \in Several
    BY <1>1, <1>5, TheCarrying DEF Founded, Several
  <2>. QED  BY <1>1, <2>4, <2>5, <2>6, StandingIsPresent
<1>. QED  BY <1>3, <1>4, <1>5 DEF ServerAnswers

\* A POST whose channel the server does not know has a bad token.
LEMMA OnlyBadTokens ==
    ASSUME Inv, NEW c \in Clients, PostTaken(c), Present(c), Whereabouts(c),
           Code(c) = "404"
    PROVE  Instr(c).arg = "bad_token"
<1>1. /\ Running(c) /\ proc[c].waits = "send" /\ ~Returns(c)
      /\ Instr(c).op = "send"
  BY Waiting DEF PostTaken, Awaits
<1>2. /\ post[c].channel \notin server[c].subs
      /\ post[c].channel = Target(c) /\ post[c].data = Instr(c).arg
  BY <1>1 DEF Code, Whereabouts, Aimed
<1>3. Instr(c).arg # "no_endpoint"
  <2>1. post[c] \in PostSet
    BY Typed
  <2>. QED  BY <1>2, <2>1 DEF PostSet, Payloads
<1>4. ASSUME Instr(c).arg # "bad_token" PROVE FALSE
  <2>1. Reachable(plan.kind, scn[c].pc)
    BY <1>1, <1>3, <1>4, TheCarrying DEF Founded, Bad
  <2>2. Len(scn[c].channels) \in server[c].subs
    BY <2>1 DEF Present, Endpoints
  <2>3. scn[c].channels # <<>>
    BY <1>1, <2>1 DEF Reachable, Inv, ClientInv, InPlace
  <2>4. PICK chs \in Seq(Nat) : chs = scn[c].channels
    BY Typed DEF ScenarioSet
  <2>5. Len(chs) \in DOMAIN chs
    BY <2>3, <2>4
  <2>6. chs[Len(chs)] = Len(chs)
    BY <2>4, <2>5 DEF Whereabouts, Aimed
  <2>. QED  BY <1>2, <1>4, <2>2, <2>4, <2>6 DEF Target
<1>. QED  BY <1>4

LEMMA PostTakenIsPresent ==
    ASSUME Inv, Inv', NEW c \in Clients, PostTaken(c),
           Present(c), Whereabouts(c), Whereabouts(c)'
    PROVE  Present(c)'
<1>1. /\ Running(c) /\ proc[c].waits = "send" /\ post[c].code = "none"
      /\ ~Returns(c) /\ Instr(c).op = "send"
      /\ plan' = plan /\ scn' = scn /\ proc' = proc
  BY Waiting DEF PostTaken, Awaits, Shared
<1>2. post'[c].code = Code(c) /\ Code(c) \in {"201", "401", "404"}
  <2>1. PICK code : code = Code(c)
    OBVIOUS
  <2>2. post \in [Clients -> PostSet] /\ post[c] \in PostSet
    BY Types DEF Inv
  <2>3. post'[c] = [post[c] EXCEPT !.code = code]
    BY <2>1, <2>2 DEF PostTaken
  <2>4. code \in {"201", "401", "404"}
    BY <2>1 DEF Code
  <2>. QED  BY <2>1, <2>2, <2>3, <2>4 DEF PostSet
<1>3. /\ Instr(c)' = Instr(c) /\ Returns(c)' = Returns(c)
      /\ \A op : At(c, op)' = At(c, op)
  BY <1>1 DEF Instr, Returns, Running, At
<1>4. Lacking(c)' <=> Code(c) = "401"
  BY <1>1, <1>2 DEF Lacking
<1>5. /\ Timely(plan.kind, Instr(c), scn[c].pc)
      /\ Founded(plan.kind, Instr(c), scn[c].pc)
  BY <1>1, TheCarrying
<1>6. Code(c) = "404" =>
         /\ Instr(c).arg = "bad_token" /\ scn[c].pc \in Vacancies[plan.kind]
         /\ ~Replaced(plan.kind, scn[c].pc)
  <2>1. ASSUME Code(c) = "404" PROVE Instr(c).arg = "bad_token"
    BY <2>1, OnlyBadTokens
  <2>. QED
    BY <1>1, <1>5, <2>1 DEF Timely, Founded, Bad, LastSubject
<1>7. CASE Code(c) # "201"
  <2>1. server' = server /\ down' = down
    BY <1>7 DEF PostTaken
  <2>2. Endpoints(c)'
    BY <1>1, <1>2, <1>3, <1>6, <2>1 DEF Present, Endpoints
  <2>3. Outstanding(c)'
    BY <1>1, <1>2, <1>4, <1>6, <1>7 DEF Outstanding
  <2>4. Latest(c)'
    BY <1>1, <1>2, <1>4, <1>5, <1>6, <1>7 DEF Latest, Timely
  <2>. QED  BY <1>1, <1>3, <2>2, <2>3, <2>4 DEF Present, At
<1>8. CASE Code(c) = "201"
  <2>1. PICK n \in Notifs :
            /\ n.id = server[c].last + 1 /\ n.data = Instr(c).arg
            /\ server'[c].last = n.id /\ server'[c].pending = Keeps(c, n)
            /\ server'[c].subs = server[c].subs
            /\ server'[c].online = server[c].online
            /\ server[c].online =>
                  down'[c] = Append(down[c], Frame("notification", n))
            /\ ~server[c].online => down'[c] = down[c]
    BY <1>8, Created201 DEF Whereabouts
  <2>2. n \in Pending(c)'
    <3>1. Unlike(server[c].pending)
      BY DEF Whereabouts, Numbered
    <3>2. ASSUME NEW m \in Pending(c) PROVE m.id # n.id
      <4>1. m.id \in Nat /\ m.id =< server[c].last
        BY RealOnes DEF Whereabouts, Numbered
      <4>2. server[c].last \in Nat
        BY Typed DEF AgentSet
      <4>. QED  BY <2>1, <4>1, <4>2
    <3>. QED  BY <2>1, <3>1, <3>2, KeepingNew DEF Pending
  <2>3. Endpoints(c)'
    <3>1. ASSUME NEW k \in DOMAIN down'[c] PROVE down'[c][k].type # "register"
      BY <1>1 DEF Inv, ClientInv, InTouch, Replies, Request
    <3>. QED  BY <1>1, <1>2, <1>3, <1>8, <2>1, <3>1 DEF Present, Endpoints
  <2>4. Outstanding(c)'
    BY <2>2 DEF Outstanding
  <2>5. Latest(c)'
    <3>1. ASSUME Replaced(plan.kind, scn[c].pc),
                 NEW m \in Pending(c)' \cup Afloat(c)'
          PROVE  m.data = LastSubject(plan.kind)
      <4>1. plan.kind = "basic_topic" /\ plan.kind \notin Several
        BY <3>1 DEF Replaced, Several
      <4>2. ~server'[c].online
        <5>1. scn[c].pc \notin Linked[plan.kind]
          BY <1>1, <1>5, <4>1 DEF Timely
        <5>2. ~proc[c].connected
          BY <1>1, <4>1, <5>1 DEF Inv, ClientInv, InStep
        <5>. QED  BY <2>1, <5>2 DEF Whereabouts, Online
      <4>3. Afloat(c)' = {}
        BY <1>1, <4>1, <4>2 DEF Whereabouts, Reaches
      <4>4. m = n
        <5>1. m.id = n.id
          BY <1>1, <2>1, <3>1, <4>1 DEF Whereabouts, Numbered
        <5>2. PICK k \in DOMAIN server'[c].pending : server'[c].pending[k] = m
          BY <3>1, <4>3 DEF Pending, Elements
        <5>3. PICK l \in DOMAIN server'[c].pending : server'[c].pending[l] = n
          BY <2>2 DEF Pending, Elements
        <5>. QED  BY <5>1, <5>2, <5>3 DEF Whereabouts, Numbered, Unlike
      <4>. QED  BY <1>1, <1>5, <2>1, <3>1, <4>4 DEF Founded
    <3>2. scn'[c].pc \notin Due[plan.kind]
      BY <1>1, <1>5 DEF Timely
    <3>. QED  BY <1>1, <3>1, <3>2 DEF Latest
  <2>. QED  BY <1>1, <1>3, <2>3, <2>4, <2>5 DEF Present, At
<1>. QED  BY <1>2, <1>7, <1>8

-----------------------------------------------------------------------------
(* How a scenario ends when nothing goes wrong.                            *)

LEMMA RunningOn ==
    ASSUME Inv, NEW c \in Clients, Running(c), NEW s, NEW l,
           scn' = [scn EXCEPT ![c] = GoTo(s, l)],
           DOMAIN s = DOMAIN scn[c], s.status = scn[c].status
    PROVE  Running(c)'
<1>1. /\ scn \in [Clients -> ScenarioSet] /\ scn[c] \in ScenarioSet
  BY Types DEF Inv
<1>2. "status" \in DOMAIN s
  BY <1>1 DEF ScenarioSet
<1>3. scn'[c] = [s EXCEPT !.pc = l]
  BY <1>1 DEF GoTo
<1>4. scn'[c].status = s.status
  BY <1>2, <1>3
<1>. QED  BY <1>4 DEF Running

LEMMA ContinuingOn ==
    ASSUME Inv, NEW c \in Clients, Running(c), NEW s, Continue(c, s),
           DOMAIN s = DOMAIN scn[c], s.status = scn[c].status
    PROVE  Running(c)'
BY RunningOn DEF Continue, GoOn

\* With what changes in its locals it is still running.
LEMMA GoingOnAsItIs ==
    ASSUME Inv, NEW c \in Clients, Running(c), Continue(c, scn[c])
    PROVE  Running(c)'
BY ContinuingOn

LEMMA GoingOnWithNotif ==
    ASSUME Inv, NEW c \in Clients, Running(c), NEW x,
           Continue(c, [scn[c] EXCEPT !.notif = x])
    PROVE  Running(c)'
<1>1. scn[c] \in ScenarioSet
  BY Typed
<1>2. PICK s : s = [scn[c] EXCEPT !.notif = x]
  OBVIOUS
<1>3. DOMAIN s = DOMAIN scn[c] /\ s.status = scn[c].status
  BY <1>1, <1>2 DEF ScenarioSet
<1>4. Continue(c, s)
  BY <1>2
<1>. QED  BY <1>3, <1>4, ContinuingOn

LEMMA GoingOnWithIds ==
    ASSUME Inv, NEW c \in Clients, Running(c), NEW x,
           Continue(c, [scn[c] EXCEPT !.ids = x])
    PROVE  Running(c)'
<1>1. scn[c] \in ScenarioSet
  BY Typed
<1>2. PICK s : s = [scn[c] EXCEPT !.ids = x]
  OBVIOUS
<1>3. DOMAIN s = DOMAIN scn[c] /\ s.status = scn[c].status
  BY <1>1, <1>2 DEF ScenarioSet
<1>4. Continue(c, s)
  BY <1>2
<1>. QED  BY <1>3, <1>4, ContinuingOn

LEMMA GoingOnWithResponse ==
    ASSUME Inv, NEW c \in Clients, Running(c), NEW x,
           Continue(c, [scn[c] EXCEPT !.response = x])
    PROVE  Running(c)'
<1>1. scn[c] \in ScenarioSet
  BY Typed
<1>2. PICK s : s = [scn[c] EXCEPT !.response = x]
  OBVIOUS
<1>3. DOMAIN s = DOMAIN scn[c] /\ s.status = scn[c].status
  BY <1>1, <1>2 DEF ScenarioSet
<1>4. Continue(c, s)
  BY <1>2
<1>. QED  BY <1>3, <1>4, ContinuingOn

LEMMA GoingOnWithReply ==
    ASSUME Inv, NEW c \in Clients, Running(c), NEW x, NEW y, NEW s,
           s = [scn[c] EXCEPT !.same = x, !.channels = y], Continue(c, s)
    PROVE  Running(c)'
<1>1. scn[c] \in ScenarioSet
  BY Typed
<1>2. DOMAIN s = DOMAIN scn[c] /\ s.status = scn[c].status
  BY <1>1 DEF ScenarioSet
<1>. QED  BY <1>2, ContinuingOn

\* It ends by itself, or fails at a check or at a notification that is None.
Fails(c) ==
    /\ Raise(c, proc[c])
    /\ \/ RunCheck(c) /\ ~Holds(c, Instr(c))
       \/ RunAck(c) /\ scn[c].notif = NoNotif

LEMMA ScenariosGoOn ==
    ASSUME Inv, NEW c \in Clients, mishaps'[c] = {}, Scenario(c)
    PROVE  Running(c)' \/ Return(c) \/ Fails(c)
<1>1. Running(c) /\ ~Refused(c)
  BY Noted, ScenarioAlone DEF Alone
<1>2. Continue(c, scn[c]) => Running(c)'
  BY <1>1, GoingOnAsItIs
<1>3. CASE RunConnect(c) \/ RunDisconnect(c) \/ RunRequest(c) \/ RunWait(c)
  BY <1>1, <1>3 DEF RunConnect, RunDisconnect, RunRequest, RunWait, Running
<1>4. CASE RunSendNotification(c)
  <2>1. \/ scn' = scn
        \/ Continue(c, [scn[c] EXCEPT !.response = "failed"])
    BY <1>4 DEF RunSendNotification
  <2>2. CASE scn' = scn  BY <1>1, <2>2 DEF Running
  <2>3. CASE Continue(c, [scn[c] EXCEPT !.response = "failed"])
    BY <1>1, <2>3, GoingOnWithResponse
  <2>. QED  BY <2>1, <2>2, <2>3
<1>5. CASE RunExpect(c)
  <2>1. scn' = scn \/ \E n : Continue(c, [scn[c] EXCEPT !.notif = n])
    BY <1>5, Zenon DEF RunExpect, GivenNotif
  <2>2. CASE scn' = scn  BY <1>1, <2>2 DEF Running
  <2>3. ASSUME NEW n, Continue(c, [scn[c] EXCEPT !.notif = n])
        PROVE  Running(c)'
    BY <1>1, <2>3, GoingOnWithNotif
  <2>. QED  BY <2>1, <2>2, <2>3
<1>6. CASE RunAck(c)
  BY <1>1, <1>2, <1>6 DEF RunAck, Fails
<1>7. CASE RunTimer(c) \/ RunCounter(c)
  BY <1>1, <1>2, <1>7 DEF RunTimer, RunCounter
<1>8. CASE RunCollect(c)
  <2>1. \E ids : \/ Continue(c, scn[c])
                 \/ Continue(c, [scn[c] EXCEPT !.ids = ids])
    BY <1>8 DEF RunCollect
  <2>2. ASSUME NEW ids, Continue(c, [scn[c] EXCEPT !.ids = ids])
        PROVE  Running(c)'
    BY <1>1, <2>2, GoingOnWithIds
  <2>. QED  BY <1>2, <2>1, <2>2
<1>9. CASE RunAckIds(c)
  <2>1. CASE Continue(c, scn[c])  BY <1>2, <2>1
  <2>2. CASE ~Continue(c, scn[c])
    <3>1. PICK s : s = [scn[c] EXCEPT !.ids = <<>>]
      OBVIOUS
    <3>2. scn' = [scn EXCEPT ![c] = GoTo(s, Instr(c).arg)]
      BY <1>9, <2>2, <3>1, AckingIds DEF AcksIds
    <3>3. DOMAIN s = DOMAIN scn[c] /\ s.status = scn[c].status
      <4>1. scn[c] \in ScenarioSet
        BY Typed
      <4>. QED  BY <3>1, <4>1 DEF ScenarioSet
    <3>. QED  BY <1>1, <3>2, <3>3, RunningOn
  <2>. QED  BY <2>1, <2>2
<1>10. CASE RunCheck(c)
  <2>1. CASE Holds(c, Instr(c))
    <3>1. Continue(c, scn[c])
      BY <1>10, <2>1 DEF RunCheck
    <3>. QED  BY <1>2, <3>1
  <2>2. CASE ~Holds(c, Instr(c))
    BY <1>10, <2>2 DEF RunCheck, Fails
  <2>. QED  BY <2>1, <2>2
<1>11. CASE RunBranch(c)
  BY <1>11, Branching DEF Running
<1>. QED
  BY <1>3, <1>4, <1>5, <1>6, <1>7, <1>8, <1>9, <1>10, <1>11 DEF Scenario

LEMMA OthersGoOn ==
    ASSUME Inv, NEW c \in Clients, Answer(c) \/ Server(c)
    PROVE  Running(c)'
<1>1. Running(c)
  BY AnswerAlone, ServerAlone DEF Alone
<1>2. Continue(c, scn[c]) => Running(c)'
  BY <1>1, GoingOnAsItIs
<1>3. CASE Opens(c) \/ Closes(c) \/ WaitEnds(c)
  BY <1>2, <1>3 DEF Opens, Closes, WaitEnds, Answered
<1>4. CASE Arrives(c)
  <2>1. \/ scn' = scn
        \/ \E n : Continue(c, [scn[c] EXCEPT !.notif = n])
        \/ \E same, channels :
              Continue(c, [scn[c] EXCEPT !.same = same, !.channels = channels])
    BY <1>4, Zenon DEF Arrives, Answered
  <2>2. CASE scn' = scn  BY <1>1, <2>2 DEF Running
  <2>3. ASSUME NEW n, Continue(c, [scn[c] EXCEPT !.notif = n])
        PROVE  Running(c)'
    BY <1>1, <2>3, GoingOnWithNotif
  <2>4. ASSUME NEW x, NEW y,
               Continue(c, [scn[c] EXCEPT !.same = x, !.channels = y])
        PROVE  Running(c)'
    <3>1. PICK s : s = [scn[c] EXCEPT !.same = x, !.channels = y]
      OBVIOUS
    <3>2. Continue(c, s)
      BY <2>4, <3>1
    <3>. QED  BY <1>1, <3>1, <3>2, GoingOnWithReply, Zenon
  <2>. QED  BY <2>1, <2>2, <2>3, <2>4, Zenon
<1>5. CASE TimesOut(c)
  <2>1. Continue(c, [scn[c] EXCEPT !.notif = NoNotif])
    BY <1>5 DEF TimesOut, Answered
  <2>. QED  BY <1>1, <2>1, GoingOnWithNotif
<1>6. CASE PostAnswered(c) \/ PostFails(c)
  <2>1. \E x : Continue(c, [scn[c] EXCEPT !.response = x])
    BY <1>6 DEF PostAnswered, PostFails, Responds, Answered
  <2>2. ASSUME NEW x, Continue(c, [scn[c] EXCEPT !.response = x])
        PROVE  Running(c)'
    BY <1>1, <2>2, GoingOnWithResponse
  <2>. QED  BY <2>1, <2>2
<1>7. CASE Server(c)
  BY <1>1, <1>7 DEF Server, ServerAnswers, PostTaken, Running
<1>. QED  BY <1>3, <1>4, <1>5, <1>6, <1>7 DEF Answer

\* What is looked into is there, unless the last POST was unauthorised.
LEMMA FailingIsUnauthorised ==
    ASSUME Inv, NEW c \in Clients, Fails(c), Present(c), Whereabouts(c)
    PROVE  scn[c].response = "401" /\ Instr(c).op # "same_uaid"
<1>1. /\ Running(c) /\ ~Returns(c) /\ proc[c].waits = "nothing"
      /\ Instr(c).op \in {"created", "same_uaid", "needed", "data", "ack"}
  BY DEF Fails, RunCheck, RunAck, Runs, Turn
<1>2. /\ Timely(plan.kind, Instr(c), scn[c].pc)
      /\ Founded(plan.kind, Instr(c), scn[c].pc)
  BY <1>1, TheCarrying
<1>3. ~Unposted(c)
  BY <1>1 DEF Unposted, At
<1>4. Lacking(c) <=> scn[c].response = "401"
  BY <1>1 DEF Lacking
<1>5. ASSUME scn[c].notif = NoNotif, scn[c].pc \in Due[plan.kind],
             plan.kind \notin Several
      PROVE  scn[c].response = "401"
  <2>1. Pending(c) = {}
    BY <1>5 DEF Whereabouts, Clears, Vacant
  <2>2. scn[c].pc \notin Vacancies[plan.kind]
    BY <1>2, <1>5 DEF Founded
  <2>. QED  BY <1>3, <1>4, <1>5, <2>1, <2>2 DEF Present, Outstanding
<1>6. CASE Instr(c).op = "created"
  <2>1. scn[c].response # "201"
    BY <1>6 DEF Fails, RunAck, Runs, Holds
  <2>2. scn[c].response \in {"201", "401"}
    BY <1>1, <1>6 DEF Present, At
  <2>. QED  BY <1>6, <2>1, <2>2
<1>7. Instr(c).op # "same_uaid"
  <2>1. ASSUME Instr(c).op = "same_uaid" PROVE ~scn[c].same
    BY <2>1 DEF Fails, RunAck, Runs, Holds
  <2>. QED  BY <2>1 DEF Present
<1>8. CASE Instr(c).op = "needed"
  <2>1. scn[c].notif = NoNotif
    BY <1>8 DEF Fails, RunAck, Runs, Holds
  <2>. QED  BY <1>2, <1>5, <1>8, <2>1 DEF Founded
<1>9. CASE Instr(c).op = "data"
  <2>1. scn[c].notif.data # Instr(c).arg
    BY <1>9 DEF Fails, RunAck, Runs, Holds
  <2>. QED
    BY <1>2, <1>4, <1>5, <1>9, <2>1 DEF Founded, Present, Latest
<1>10. CASE Instr(c).op = "ack"
  <2>1. scn[c].notif = NoNotif
    BY <1>10 DEF Fails, RunCheck, Runs
  <2>2. plan.kind \notin Several
    BY <1>1, <1>10, <2>1 DEF Present, At
  <2>. QED  BY <1>2, <1>5, <1>10, <2>1, <2>2 DEF Timely
<1>. QED  BY <1>1, <1>6, <1>7, <1>8, <1>9, <1>10

LEMMA FailingKeeps ==
    ASSUME Inv, NEW c \in Clients, Fails(c)
    PROVE  /\ scn'[c].status = "raised" => scn'[c].response = scn[c].response
           /\ scn'[c].status = "returned" => Instr(c).try
<1>1. /\ scn \in [Clients -> ScenarioSet] /\ scn[c] \in ScenarioSet
  BY Types DEF Inv
<1>2. CASE Instr(c).try
  <2>1. scn' = [scn EXCEPT ![c].status = "returned"]
    BY <1>2 DEF Fails, Raise
  <2>2. scn'[c].status = "returned"
    BY <1>1, <2>1 DEF ScenarioSet
  <2>. QED  BY <1>2, <2>2
<1>3. CASE ~Instr(c).try /\ scn' = [scn EXCEPT ![c] = Fresh]
  <2>1. scn'[c].status = "running"
    BY <1>1, <1>3 DEF Fresh
  <2>. QED  BY <2>1
<1>4. CASE ~Instr(c).try /\ scn' = [scn EXCEPT ![c].status = "raised"]
  <2>1. scn'[c].status = "raised" /\ scn'[c].response = scn[c].response
    BY <1>1, <1>4 DEF ScenarioSet
  <2>. QED  BY <2>1
<1>. QED  BY <1>2, <1>3, <1>4 DEF Fails, Raise

LEMMA StepsArePresent ==
    ASSUME Inv, Inv', NEW c \in Clients, ClientTrace(c), ClientTrace(c)',
           ClientPresent(c),
           Scenario(c) \/ Answer(c) \/ Server(c) \/ Drops(c)
    PROVE  ClientPresent(c)'
<1>1. Alone(c)
  BY ScenarioAlone, AnswerAlone, ServerAlone
<1>2. SUFFICES ASSUME mishaps'[c] = {}
               PROVE  /\ Running(c)' => Present(c)'
                      /\ scn'[c].status = "raised" => scn'[c].response = "401"
  BY DEF ClientPresent
<1>3. Running(c) /\ mishaps[c] = {} /\ Present(c) /\ Whereabouts(c)
  BY <1>1, <1>2 DEF Alone, ClientPresent, ClientTrace, Traced
<1>4. ~Drops(c) /\ ~PostFails(c)
  BY <1>2, Noted
<1>5. ASSUME Running(c)' PROVE Present(c)'
  <2>1. Whereabouts(c)'
    BY <1>2, <1>5 DEF ClientTrace, Traced
  <2>2. CASE Scenario(c)
    <3>1. ~Return(c)
      <4>1. ASSUME Return(c) PROVE FALSE
        BY <1>5, <4>1, Domains DEF Return, Running
      <4>. QED  BY <4>1
    <3>. QED
      BY <1>2, <1>3, <1>5, <2>1, <2>2, <3>1, AskedIsPresent,
         RunSendNotificationIsPresent, RunExpectIsPresent, RunAckIsPresent,
         AckingIds, RunAckIdsIsPresent, RunCollectIsPresent, RestIsPresent,
         RunBranchIsPresent DEF Scenario
  <2>3. CASE Answer(c)
    BY <1>2, <1>3, <1>4, <1>5, <2>1, <2>3, WaitedIsPresent, ClosesIsPresent,
       ExpectedArrivesIsPresent, OtherArrivesIsPresent, ReplyArrivesIsPresent,
       TimesOutIsPresent, PostAnsweredIsPresent DEF Answer
  <2>4. CASE Server(c)
    BY <1>2, <1>3, <2>1, <2>4, ServerAnswersIsPresent, PostTakenIsPresent
       DEF Server
  <2>. QED  BY <1>4, <2>2, <2>3, <2>4
<1>6. ASSUME scn'[c].status = "raised" PROVE scn'[c].response = "401"
  <2>1. ~Running(c)' /\ ~Return(c)
    <3>1. ASSUME Return(c) PROVE FALSE
      <4>1. scn \in [Clients -> ScenarioSet] /\ scn[c] \in ScenarioSet
        BY Types DEF Inv
      <4>2. scn'[c].status = "returned"
        BY <3>1, <4>1 DEF Return, ScenarioSet
      <4>. QED  BY <1>6, <4>2
    <3>. QED  BY <1>6, <3>1 DEF Running
  <2>2. Fails(c)
    BY <1>2, <1>4, <2>1, ScenariosGoOn, OthersGoOn
  <2>. QED  BY <1>3, <1>6, <2>2, FailingIsUnauthorised, FailingKeeps
<1>. QED  BY <1>5, <1>6

LEMMA StayingPresent ==
    ASSUME NEW d \in Clients, ClientPresent(d), Stays(d), plan' = plan
    PROVE  ClientPresent(d)'
<1>1. /\ Running(d)' = Running(d) /\ Instr(d)' = Instr(d)
      /\ Returns(d)' = Returns(d) /\ \A op : At(d, op)' = At(d, op)
      /\ Afloat(d)' = Afloat(d) /\ Pending(d)' = Pending(d)
  BY DEF Stays, Running, Instr, Returns, At, Afloat, Pending
<1>2. Unposted(d)' = Unposted(d) /\ Lacking(d)' = Lacking(d)
  BY <1>1 DEF Stays, Unposted, Lacking
<1>3. Present(d) => Present(d)'
  <2>1. Endpoints(d) => Endpoints(d)'
    BY <1>1 DEF Stays, Endpoints
  <2>2. Outstanding(d) => Outstanding(d)'
    BY <1>1, <1>2 DEF Stays, Outstanding
  <2>3. Latest(d) => Latest(d)'
    BY <1>1, <1>2 DEF Stays, Latest
  <2>. QED  BY <1>1, <2>1, <2>2, <2>3 DEF Stays, Present
<1>. QED  BY <1>1, <1>3 DEF ClientPresent, Stays

LEMMA NextIsPresent ==
    ASSUME Inv, Inv', TraceInv, TraceInv', PresentInv, [Next]_vars
    PROVE  PresentInv'
<1>1. ASSUME NEW c \in Clients,
             Scenario(c) \/ Answer(c) \/ Server(c) \/ Drops(c)
      PROVE  PresentInv'
  <2>1. Alone(c)
    BY <1>1, ScenarioAlone, AnswerAlone, ServerAlone
  <2>2. ASSUME NEW d \in Clients PROVE ClientPresent(d)'
    <3>1. CASE d = c  BY <1>1, <3>1, StepsArePresent DEF PresentInv, TraceInv
    <3>2. CASE d # c  BY <2>1, <3>2, StayingPresent DEF PresentInv, Alone
    <3>. QED  BY <3>1, <3>2
  <2>. QED  BY <2>2 DEF PresentInv
<1>2. CASE DayPasses \/ Rest \/ UNCHANGED vars
  <2>1. /\ plan' = plan /\ scn' = scn /\ proc' = proc /\ server' = server
        /\ up' = up /\ down' = down /\ post' = post /\ mishaps' = mishaps
        /\ tally' = tally
    BY <1>2 DEF DayPasses, Rest, vars, Outside, network
  <2>2. ASSUME NEW d \in Clients PROVE ClientPresent(d)'
    BY <2>1, StayingPresent DEF PresentInv, Stays
  <2>. QED  BY <2>2 DEF PresentInv
<1>. QED  BY <1>1, <1>2 DEF Next

LEMMA InitIsPresent ==
    ASSUME Init
    PROVE  PresentInv
<1>1. Inv
  BY InitKeeps
<1>2. ASSUME NEW c \in Clients PROVE ClientPresent(c)
  <2>1. /\ scn[c].pc = 1 /\ scn[c].same = TRUE /\ scn[c].notif = NoNotif
        /\ scn[c].status \in {"running", "unborn"}
    BY <1>2 DEF Init, Fresh
  <2>2. /\ proc[c].waits = "nothing" /\ proc[c].inbox = <<>> /\ down[c] = <<>>
        /\ server[c].pending = <<>>
    BY <1>2 DEF Init, Idle, UserAgent
  <2>3. Afloat(c) = {} /\ Pending(c) = {}
    BY <2>2 DEF Afloat, Pending, Told, Elements
  <2>4. /\ 1 \in Vacancies[plan.kind] \ Due[plan.kind]
        /\ ~Reachable(plan.kind, 1)
    BY <1>1, ThePlan, ScriptsCarryWhatIsOnItsWay DEF ScriptsCarry, Begins
  <2>5. ASSUME Running(c), At(c, "created") \/ At(c, "ack") PROVE FALSE
    <3>1. ~Returns(c) /\ Instr(c).op \in {"created", "ack"}
      BY <2>5 DEF At
    <3>2. Timely(plan.kind, Instr(c), 1)
      BY <1>1, <2>1, <2>5, <3>1, TheCarrying
    <3>. QED  BY <2>4, <3>1, <3>2 DEF Timely
  <2>6. Endpoints(c)
    BY <2>1, <2>2, <2>4 DEF Endpoints
  <2>7. Outstanding(c)
    BY <2>1, <2>4 DEF Outstanding
  <2>8. Latest(c)
    BY <2>1, <2>3, <2>4 DEF Latest
  <2>. QED  BY <2>1, <2>5, <2>6, <2>7, <2>8 DEF ClientPresent, Present
<1>. QED  BY <1>2 DEF PresentInv

\* As long as nothing goes wrong for a scenario, what it looks into is there:
\* the server has the channel of every POST with a good token, what was sent is
\* pending until it is acknowledged, and it is the notification that was sent
\* last, unless the POST was unauthorised.
THEOREM WhatIsSentIsPresent == Spec => []PresentInv
<1>1. Init => PresentInv
  BY InitIsPresent
<1>2. Inv /\ Inv' /\ TraceInv /\ TraceInv' /\ PresentInv /\ [Next]_vars
         => PresentInv'
  BY NextIsPresent
<1>. QED
  BY <1>1, <1>2, ScenariosKeepInStep, NotificationsAreTraced, PTL DEF Spec

\* A scenario that raises reports a fault, for any number of clients, origins,
\* rounds and days: its assertions hold and the notifications it looks into are
\* there, unless something went wrong or a POST was unauthorised.
THEOREM ScenariosFailForACause == Spec => []FailuresHaveCauses
<1>1. PresentInv => FailuresHaveCauses
  BY DEF PresentInv, ClientPresent, FailuresHaveCauses
<1>. QED  BY <1>1, WhatIsSentIsPresent, PTL

-----------------------------------------------------------------------------
(* What is left on the server: as long as nothing goes wrong, a scenario   *)
(* that ends has no channel there and nothing pending.                     *)

Said(c, type) == \E k \in DOMAIN down[c] : down[c][k].type = type

\* A scenario with one channel: the server has it between its registration and
\* its unregistration.
OneAtMost(c) ==
    /\ server[c].subs \subseteq {1} /\ Len(scn[c].channels) =< 1
    /\ scn[c].pc \in Early[plan.kind] => scn[c].channels = <<>>
    /\ (scn[c].pc \in Bare[plan.kind] /\ ~Said(c, "register")) =>
          server[c].subs = {}
    /\ Said(c, "unregister") => server[c].subs = {}

\* _expect_notifications: the channels that it registered, those that the
\* server has, and how many frames are at most yet to be taken, in the loops
\* in which it registers, expects and unregisters.
InFirstLoop(c) ==
    LET i == scn[c].i  k == scn[c].pc IN
    /\ k < 3 => i = 0
    /\ k = 4 => i > 0
    /\ Len(scn[c].channels) = IF k = 4 THEN i - 1 ELSE i
    /\ server[c].subs = 1..(IF k = 4 /\ ~Said(c, "register") THEN i - 1 ELSE i)
InSecondLoop(c) ==
    /\ Len(scn[c].channels) = Qty
    /\ server[c].subs = 1..Qty
    /\ scn[c].pc = 8 => scn[c].i > 0
InThirdLoop(c) ==
    LET i == scn[c].i  k == scn[c].pc IN
    /\ Vacant(c)
    /\ Len(scn[c].channels) = Qty
    /\ k = 13 => i > 0
    /\ server[c].subs = IF k >= 15 THEN {}
                        ELSE (IF k = 13 /\ ~Said(c, "unregister") THEN i
                              ELSE i + 1)..Qty

Ahead(c) == Len(proc[c].inbox) + Len(down[c])
Most(i, k, greeted, registered, unposted) ==
    IF k < 3 THEN IF greeted THEN 1 ELSE 0
    ELSE IF (k = 4 /\ ~registered) \/ unposted THEN i - 1
    ELSE IF k < 7 THEN i
    ELSE IF k = 8 THEN Qty - i + 1
    ELSE Qty - i
Allowance(c) == Most(scn[c].i, scn[c].pc,
                     Said(c, "hello"), Said(c, "register"), Unposted(c))
InRounds(c) ==
    /\ scn[c].pc < 7 => InFirstLoop(c)
    /\ scn[c].pc \in 7..11 => InSecondLoop(c)
    /\ scn[c].pc < 12 => Ahead(c) =< Allowance(c)
    /\ scn[c].pc > 11 => InThirdLoop(c)

Tidy(c) ==
    /\ OneChannel(plan.kind, plan.once) => OneAtMost(c)
    /\ plan.kind = "_expect_notifications" => InRounds(c)

ClientTidy(c) ==
    mishaps[c] = {} =>
        /\ Running(c) => Tidy(c)
        /\ scn[c].status = "returned" =>
              \/ plan.kind = "notification_forever_bad_tokens"
              \/ server[c].pending = <<>> /\ server[c].subs = {}
TidyInv == \A c \in Clients : ClientTidy(c)

\* What an instruction that has been carried out leaves.
Carried(c) ==
    LET op == Instr(c).op IN
    /\ Running(c) /\ ~Returns(c) /\ plan' = plan
    /\ LeadsTo(plan.kind, plan.once, scn[c].pc, scn'[c].pc)
    /\ proc'[c].waits = "nothing"
    /\ server'[c].subs = server[c].subs
    /\ Pending(c)' \subseteq Pending(c) /\ Afloat(c)' \subseteq Afloat(c)
    /\ op = "if_notif" => scn'[c].pc \in {scn[c].pc + 1, Instr(c).arg}
    /\ op = "jump" => scn'[c].pc = Instr(c).arg
    /\ op \notin {"jump", "for", "if_once", "if_notif", "loop", "ack_ids"} =>
          scn'[c].pc = scn[c].pc + 1
    /\ op = "for" =>
          IF scn[c].i < Qty
          THEN scn'[c].pc = scn[c].pc + 1 /\ scn'[c].i = scn[c].i + 1
          ELSE scn'[c].pc = Instr(c).arg /\ scn'[c].i = 0
    /\ op # "for" => scn'[c].i = scn[c].i
    /\ IF op = "register"
       THEN Len(scn'[c].channels) = Len(scn[c].channels) + 1
       ELSE scn'[c].channels = scn[c].channels
    /\ Ahead(c)' =< Ahead(c)
    /\ op \in Requests => Said(c, op) /\ Ahead(c)' = Ahead(c) - 1
    /\ op = "expect" => scn'[c].notif = NoNotif \/ Ahead(c)' = Ahead(c) - 1
    /\ (op = "send" /\ Instr(c).arg # "no_endpoint") => ~Unposted(c)

LEMMA Counting ==
    ASSUME Inv, NEW c \in Clients
    PROVE  /\ scn[c].i \in 0..Qty /\ Qty \in Nat /\ scn[c].pc \in Nat
           /\ Len(scn[c].channels) \in Nat /\ Ahead(c) \in Nat
           /\ Len(proc[c].inbox) \in Nat /\ Len(down[c]) \in Nat
           /\ server[c].subs \in SUBSET Nat
<1>1. scn[c] \in ScenarioSet /\ proc[c] \in ProcessorSet /\ down[c] \in Seq(FrameSet)
  BY Typed
<1>2. /\ scn[c].i \in 0..Qty /\ scn[c].pc \in Nat
      /\ scn[c].channels \in Seq(Nat) /\ proc[c].inbox \in Seq(Notifs)
  BY <1>1 DEF ScenarioSet, ProcessorSet
<1>3. Qty \in Nat
  BY ConstantsFit
<1>4. server[c].subs \in SUBSET Nat
  BY Typed DEF AgentSet
<1>5. Len(scn[c].channels) \in Nat /\ Len(proc[c].inbox) \in Nat
  BY <1>2
<1>6. Len(down[c]) \in Nat
  BY <1>1
<1>7. Ahead(c) \in Nat
  <2>1. PICK m \in Nat, n \in Nat : m = Len(proc[c].inbox) /\ n = Len(down[c])
    BY <1>5, <1>6
  <2>2. m + n \in Nat
    OBVIOUS
  <2>. QED  BY <2>1, <2>2, Zenon DEF Ahead
<1>. QED  BY <1>2, <1>3, <1>4, <1>5, <1>6, <1>7

LEMMA CountingOn ==
    ASSUME Inv', NEW c \in Clients
    PROVE  /\ scn'[c].i \in 0..Qty /\ scn'[c].pc \in Nat
           /\ Len(scn'[c].channels) \in Nat /\ Ahead(c)' \in Nat
           /\ Len(proc'[c].inbox) \in Nat /\ Len(down'[c]) \in Nat
           /\ server'[c].subs \in SUBSET Nat
<1>1. TypeOK'
  BY DEF Inv
<1>2. /\ scn'[c] \in ScenarioSet /\ proc'[c] \in ProcessorSet
      /\ down'[c] \in Seq(FrameSet) /\ server'[c] \in AgentSet
  BY <1>1, PrimedTypes
<1>3. /\ scn'[c].i \in 0..Qty /\ scn'[c].pc \in Nat
      /\ scn'[c].channels \in Seq(Nat) /\ proc'[c].inbox \in Seq(Notifs)
  BY <1>2 DEF ScenarioSet, ProcessorSet
<1>4. server'[c].subs \in SUBSET Nat
  BY <1>2 DEF AgentSet
<1>5. Len(scn'[c].channels) \in Nat /\ Len(proc'[c].inbox) \in Nat
  BY <1>3
<1>6. Len(down'[c]) \in Nat
  BY <1>2
<1>7. Ahead(c)' \in Nat
  <2>1. PICK m \in Nat, n \in Nat : m = Len(proc'[c].inbox) /\ n = Len(down'[c])
    BY <1>5, <1>6
  <2>2. m + n \in Nat
    OBVIOUS
  <2>3. Ahead(c)' = m + n
    BY <2>1, Zenon DEF Ahead
  <2>. QED  BY <2>2, <2>3, Zenon
<1>. QED  BY <1>3, <1>4, <1>5, <1>6, <1>7

\* A reply is on its way only as long as the scenario waits for it.
LEMMA WhatIsSaid ==
    ASSUME Inv, NEW c \in Clients, NEW type \in Requests, Said(c, type)
    PROVE  proc[c].waits = type
BY DEF Said, Inv, ClientInv, InTouch, Replies, Request, Requests

LEMMA SaidInTheEnd ==
    ASSUME Inv', NEW c \in Clients, NEW type \in Requests, Said(c, type)'
    PROVE  proc'[c].waits = type
BY DEF Said, Inv, ClientInv, InTouch, Replies, Request, Requests

LEMMA CarriedKeepsOne ==
    ASSUME Inv, Inv', NEW c \in Clients, Running(c)', Carried(c),
           OneChannel(plan.kind, plan.once), OneAtMost(c)
    PROVE  OneAtMost(c)'
<1>1. Running(c) /\ ~Returns(c) /\ plan' = plan
  BY DEF Carried
<1>2. /\ plan.kind # "_expect_notifications"
      /\ Founded(plan.kind, Instr(c), scn[c].pc)
  BY <1>1, TheCarrying DEF OneChannel
<1>3. Settles(plan.kind, plan.once, Instr(c), scn[c].pc, scn'[c].pc)
  BY <1>1, TheNext DEF Carried
<1>4. \A type \in Requests : ~Said(c, type)'
  BY SaidInTheEnd DEF Carried, Requests
<1>5. server'[c].subs = server[c].subs
  BY DEF Carried
<1>6. \A type \in Requests : Said(c, type) => Instr(c).op = type
  BY <1>1, WhatIsSaid, Waiting DEF Requests
<1>7. Len(scn'[c].channels) =< 1
  <2>1. CASE Instr(c).op = "register"
    <3>1. scn[c].pc \in Early[plan.kind]
      BY <1>2, <2>1 DEF Founded
    <3>2. scn[c].channels = <<>>
      BY <3>1 DEF OneAtMost
    <3>3. Len(scn'[c].channels) = Len(scn[c].channels) + 1
      BY <2>1 DEF Carried
    <3>. QED  BY <3>2, <3>3
  <2>2. CASE Instr(c).op # "register"
    BY <2>2 DEF Carried, OneAtMost
  <2>. QED  BY <2>1, <2>2
<1>8. ASSUME scn'[c].pc \in Early[plan.kind] PROVE scn'[c].channels = <<>>
  <2>1. scn[c].pc \in Early[plan.kind] /\ Instr(c).op # "register"
    BY <1>3, <1>8 DEF Settles
  <2>. QED  BY <2>1 DEF Carried, OneAtMost
<1>9. ASSUME scn'[c].pc \in Bare[plan.kind] PROVE server'[c].subs = {}
  <2>1. \/ scn[c].pc \in Bare[plan.kind] /\ Instr(c).op # "register"
        \/ Instr(c).op = "unregister"
    BY <1>3, <1>9 DEF Settles
  <2>2. CASE scn[c].pc \in Bare[plan.kind] /\ Instr(c).op # "register"
    BY <1>5, <1>6, <2>2 DEF OneAtMost, Requests
  <2>3. CASE Instr(c).op = "unregister"
    BY <1>5, <2>3 DEF Carried, OneAtMost, Requests
  <2>. QED  BY <2>1, <2>2, <2>3
<1>. QED
  BY <1>1, <1>4, <1>5, <1>7, <1>8, <1>9 DEF OneAtMost, Requests

\* Where _expect_notifications is, and what it does there.
LEMMA InItsLoops ==
    ASSUME Inv, NEW c \in Clients, Running(c), ~Returns(c),
           plan.kind = "_expect_notifications"
    PROVE  scn[c].pc \in 1..15 /\ ExpectNotificationsAt(scn[c].pc, Instr(c))
<1>1. scn[c].pc \in 1..Len(Script["_expect_notifications"])
  BY TheCarrying
<1>. QED  BY <1>1, ExpectNotificationsReads DEF Instr

\* The instruction that is carried out there, and where it leads.
LEMMA CarriedInItsLoops ==
    ASSUME Inv, Inv', NEW c \in Clients, Running(c)', Carried(c),
           plan.kind = "_expect_notifications"
    PROVE  /\ scn[c].pc \in 1..15 /\ ExpectNotificationsAt(scn[c].pc, Instr(c))
           /\ \A type \in Requests : ~Said(c, type)'
           /\ \A type \in Requests : Said(c, type) <=> Instr(c).op = type
           /\ ~Unposted(c)
           /\ Unposted(c)' => scn'[c].pc = 5
<1>1. Running(c) /\ ~Returns(c) /\ plan' = plan /\ proc'[c].waits = "nothing"
  BY DEF Carried
<1>2. scn[c].pc \in 1..15 /\ ExpectNotificationsAt(scn[c].pc, Instr(c))
  BY <1>1, InItsLoops
<1>3. \A type \in Requests : ~Said(c, type)'
  BY <1>1, SaidInTheEnd DEF Requests
<1>4. ASSUME NEW type \in Requests PROVE Said(c, type) <=> Instr(c).op = type
  <2>1. Said(c, type) => Instr(c).op = type
    BY <1>1, WhatIsSaid, Waiting DEF Requests
  <2>. QED  BY <2>1 DEF Carried
<1>5. ~Unposted(c)
  BY <1>2 DEF Carried, Unposted, At, ExpectNotificationsAt
<1>6. ASSUME Unposted(c)' PROVE scn'[c].pc = 5
  <2>1. ~Returns(c)' /\ Instr(c)'.op = "send"
    BY <1>6 DEF Unposted, At
  <2>2. scn'[c].pc \in 1..Len(Script["_expect_notifications"])
    BY <1>1, <2>1, TheNext DEF Carried
  <2>3. ExpectNotificationsAt(scn'[c].pc, Instr(c)')
    BY <1>1, <2>2, ExpectNotificationsReads DEF Instr
  <2>. QED  BY <2>1, <2>3 DEF ExpectNotificationsAt
<1>. QED  BY <1>2, <1>3, <1>4, <1>5, <1>6

LEMMA FirstLoopGoesOn ==
    ASSUME Inv, Inv', NEW c \in Clients, Running(c)', Carried(c),
           plan.kind = "_expect_notifications", InRounds(c), scn[c].pc < 7
    PROVE  InRounds(c)'
<1>1. /\ scn[c].pc \in 1..6 /\ ExpectNotificationsAt(scn[c].pc, Instr(c))
      /\ \A type \in Requests : ~Said(c, type)'
      /\ \A type \in Requests : Said(c, type) <=> Instr(c).op = type
      /\ ~Unposted(c)
      /\ Unposted(c)' => scn'[c].pc = 5
  BY CarriedInItsLoops
<1>2. PICK i, k, n, a, q :
          /\ i = scn[c].i /\ k = scn[c].pc /\ n = Len(scn[c].channels)
          /\ a = Ahead(c) /\ q = Qty
  OBVIOUS
<1>3. PICK j, l, m, b :
          /\ j = scn'[c].i /\ l = scn'[c].pc /\ m = Len(scn'[c].channels)
          /\ b = Ahead(c)'
  OBVIOUS
<1>a. /\ i \in 0..q /\ q \in Nat /\ k \in 1..6 /\ n \in Nat /\ a \in Nat
      /\ j \in Nat /\ l \in Nat /\ m \in Nat /\ b \in Nat
  <2>1. i \in 0..q /\ q \in Nat /\ n \in Nat /\ a \in Nat
    BY <1>2, Counting, Zenon
  <2>2. j \in 0..q /\ l \in Nat /\ m \in Nat /\ b \in Nat
    BY <1>2, <1>3, CountingOn, Zenon
  <2>3. k \in 1..6
    BY <1>1, <1>2
  <2>. QED  BY <2>1, <2>2, <2>3
<1>4. /\ k < 3 => i = 0
      /\ k = 4 => i > 0
      /\ n = IF k = 4 THEN i - 1 ELSE i
      /\ server[c].subs = 1..i
      /\ a =< IF k = 1 THEN 0 ELSE IF k = 2 THEN 1 ELSE i
  <2>1. InFirstLoop(c) /\ Ahead(c) =< Allowance(c)
    BY <1>1 DEF InRounds
  <2>2. k = 4 => Said(c, "register")
    BY <1>1, <1>2 DEF ExpectNotificationsAt, Requests
  <2>3. k = 1 => ~Said(c, "hello")
    BY <1>1, <1>2 DEF ExpectNotificationsAt, Requests
  <2>4. /\ k < 3 => i = 0
        /\ k = 4 => i > 0
        /\ n = IF k = 4 THEN i - 1 ELSE i
        /\ server[c].subs = 1..i
    BY <1>2, <2>1, <2>2 DEF InFirstLoop
  <2>5. a =< Most(i, k, Said(c, "hello"), Said(c, "register"), Unposted(c))
    BY <1>2, <2>1, Zenon DEF Allowance
  <2>6. a =< IF k = 1 THEN 0 ELSE IF k = 2 THEN 1 ELSE i
    BY <1>1, <1>a, <2>2, <2>3, <2>5 DEF Most
  <2>. QED  BY <2>4, <2>6
<1>5. /\ k \in {2, 4} => b = a - 1
      /\ b =< a
      /\ m = IF k = 4 THEN n + 1 ELSE n
      /\ k = 3 => IF i < q THEN l = 4 /\ j = i + 1 ELSE l = 7 /\ j = 0
      /\ k # 3 => j = i
      /\ k \in {1, 2, 4, 5} => l = k + 1
      /\ k = 6 => l = 3
  <2>1. CASE k = 1
    BY <1>1, <1>2, <1>3, <1>a, <2>1 DEF Carried, ExpectNotificationsAt
  <2>2. CASE k = 2
    BY <1>1, <1>2, <1>3, <1>a, <2>2 DEF Carried, ExpectNotificationsAt, Requests
  <2>3. CASE k = 3
    BY <1>1, <1>2, <1>3, <1>a, <2>3 DEF Carried, ExpectNotificationsAt
  <2>4. CASE k = 4
    BY <1>1, <1>2, <1>3, <1>a, <2>4 DEF Carried, ExpectNotificationsAt, Requests
  <2>5. CASE k = 5
    BY <1>1, <1>2, <1>3, <1>a, <2>5 DEF Carried, ExpectNotificationsAt
  <2>6. CASE k = 6
    <3>1. Instr(c).op = "jump" /\ Instr(c).arg = 3
      BY <1>1, <1>2, <2>6 DEF ExpectNotificationsAt
    <3>2. l = 3 /\ j = i /\ b =< a /\ m = n
      BY <1>2, <1>3, <3>1 DEF Carried
    <3>. QED  BY <2>6, <3>2
  <2>. QED  BY <1>a, <2>1, <2>2, <2>3, <2>4, <2>5, <2>6
<1>6. \/ /\ l \in 1..6
         /\ l < 3 => j = 0
         /\ l = 4 => j > 0
         /\ m = IF l = 4 THEN j - 1 ELSE j
         /\ i = IF l = 4 THEN j - 1 ELSE j
         /\ b =< IF l < 3 THEN 0 ELSE IF l \in {4, 5} THEN j - 1 ELSE j
      \/ l = 7 /\ j = 0 /\ m = q /\ i = q /\ b =< q
  <2>1. CASE k = 1
    BY <1>a, <1>4, <1>5, <2>1
  <2>2. CASE k = 2
    BY <1>a, <1>4, <1>5, <2>2
  <2>3. CASE k = 3 /\ i < q
    BY <1>a, <1>4, <1>5, <2>3
  <2>4. CASE k = 3 /\ ~(i < q)
    BY <1>a, <1>4, <1>5, <2>4
  <2>5. CASE k \in 4..6
    BY <1>a, <1>4, <1>5, <2>5
  <2>. QED  BY <1>a, <2>1, <2>2, <2>3, <2>4, <2>5
<1>7. server'[c].subs = 1..i
  BY <1>4 DEF Carried
<1>8. CASE l \in 1..6
  <2>1. InFirstLoop(c)'
    BY <1>1, <1>3, <1>a, <1>6, <1>7, <1>8 DEF InFirstLoop, Requests
  <2>2. Allowance(c)' = Most(j, l, Said(c, "hello")', Said(c, "register")',
                             Unposted(c)')
    BY <1>3, Zenon DEF Allowance
  <2>3. ~Said(c, "hello")' /\ ~Said(c, "register")'
    BY <1>1 DEF Requests
  <2>4. b =< Most(j, l, Said(c, "hello")', Said(c, "register")', Unposted(c)')
    <3>1. CASE l < 3
      BY <1>a, <1>6, <1>8, <2>3, <3>1 DEF Most
    <3>2. CASE l = 4 \/ l = 5
      BY <1>a, <1>6, <1>8, <2>3, <3>2 DEF Most
    <3>3. CASE l = 3 \/ l = 6
      BY <1>1, <1>3, <1>a, <1>6, <1>8, <2>3, <3>3 DEF Most
    <3>. QED  BY <1>8, <3>1, <3>2, <3>3
  <2>5. Ahead(c)' =< Allowance(c)'
    BY <1>3, <2>2, <2>4, Zenon
  <2>6. scn'[c].pc \in 1..6
    BY <1>3, <1>8
  <2>. QED  BY <2>1, <2>5, <2>6 DEF InRounds
<1>9. CASE l = 7
  <2>1. InSecondLoop(c)'
    BY <1>2, <1>3, <1>a, <1>6, <1>7, <1>9 DEF InSecondLoop
  <2>2. Allowance(c)' = Most(j, l, Said(c, "hello")', Said(c, "register")',
                             Unposted(c)')
    BY <1>3, Zenon DEF Allowance
  <2>3. ~Unposted(c)'
    BY <1>1, <1>3, <1>9
  <2>4. b =< Most(j, l, Said(c, "hello")', Said(c, "register")', Unposted(c)')
    BY <1>2, <1>a, <1>6, <1>9, <2>3 DEF Most
  <2>5. Ahead(c)' =< Allowance(c)'
    BY <1>3, <2>2, <2>4, Zenon
  <2>. QED  BY <1>3, <1>9, <2>1, <2>5 DEF InRounds
<1>. QED  BY <1>6, <1>8, <1>9

LEMMA ThirdLoopGoesOn ==
    ASSUME Inv, Inv', NEW c \in Clients, Running(c)', Carried(c),
           plan.kind = "_expect_notifications", InRounds(c), scn[c].pc > 11
    PROVE  InRounds(c)'
<1>1. /\ scn[c].pc \in 12..15 /\ ExpectNotificationsAt(scn[c].pc, Instr(c))
      /\ \A type \in Requests : ~Said(c, type)'
      /\ \A type \in Requests : Said(c, type) <=> Instr(c).op = type
  BY CarriedInItsLoops
<1>2. PICK i, k, q : i = scn[c].i /\ k = scn[c].pc /\ q = Qty
  OBVIOUS
<1>3. PICK j, l : j = scn'[c].i /\ l = scn'[c].pc
  OBVIOUS
<1>a. i \in 0..q /\ q \in Nat /\ k \in 12..15
  <2>1. i \in 0..q /\ q \in Nat
    BY <1>2, Counting, Zenon
  <2>. QED  BY <1>1, <1>2, <2>1
<1>4. /\ k = 12 => IF i < q THEN l = 13 /\ j = i + 1 ELSE l = 15 /\ j = 0
      /\ k # 12 => j = i
      /\ k \in {13, 15} => l = k + 1
      /\ k = 14 => l = 12
  <2>1. CASE k = 12
    BY <1>1, <1>2, <1>3, <2>1 DEF Carried, ExpectNotificationsAt
  <2>2. CASE k = 14
    <3>1. Instr(c).op = "jump" /\ Instr(c).arg = 12
      BY <1>1, <1>2, <2>2 DEF ExpectNotificationsAt
    <3>2. l = 12 /\ j = i
      BY <1>2, <1>3, <3>1 DEF Carried
    <3>. QED  BY <2>2, <3>2
  <2>3. CASE k = 13 \/ k = 15
    <3>1. Instr(c).op \in {"unregister", "disconnect"}
      BY <1>1, <1>2, <2>3 DEF ExpectNotificationsAt
    <3>2. l = k + 1 /\ j = i
      BY <1>2, <1>3, <3>1 DEF Carried
    <3>. QED  BY <2>3, <3>2
  <2>. QED  BY <1>a, <2>1, <2>2, <2>3
<1>5. /\ scn'[c].channels = scn[c].channels /\ server'[c].subs = server[c].subs
      /\ Pending(c)' \subseteq Pending(c) /\ Afloat(c)' \subseteq Afloat(c)
  <2>1. Instr(c).op # "register"
    <3>1. Instr(c).op = "register" => scn[c].pc = 4
      BY <1>1 DEF ExpectNotificationsAt
    <3>. QED  BY <1>1, <3>1
  <2>. QED  BY <2>1 DEF Carried
<1>6. InThirdLoop(c)
  BY <1>2, <1>a DEF InRounds
<1>7. k = 13 => Said(c, "unregister")
  BY <1>1, <1>2 DEF ExpectNotificationsAt, Requests
<1>8. server[c].subs = IF k = 15 THEN {} ELSE (i + 1)..q
  BY <1>2, <1>a, <1>6, <1>7 DEF InThirdLoop
<1>9. /\ l \in 12..16
      /\ l = 13 => j > 0
      /\ server'[c].subs = IF l >= 15 THEN {}
                           ELSE IF l = 13 THEN j..q ELSE (j + 1)..q
  <2>1. CASE k = 12 /\ i < q
    BY <1>a, <1>4, <1>5, <1>8, <2>1
  <2>2. CASE k = 12 /\ ~(i < q)
    <3>1. i = q /\ (i + 1)..q = {}
      BY <1>a, <2>2
    <3>. QED  BY <1>a, <1>4, <1>5, <1>8, <2>2, <3>1
  <2>3. CASE k # 12
    BY <1>a, <1>4, <1>5, <1>8, <2>3
  <2>. QED  BY <2>1, <2>2, <2>3
<1>10. Vacant(c)'
  BY <1>5, <1>6 DEF InThirdLoop, Vacant
<1>11. ~Said(c, "unregister")'
  BY <1>1 DEF Requests
<1>12. InThirdLoop(c)'
  BY <1>2, <1>3, <1>5, <1>6, <1>9, <1>10, <1>11 DEF InThirdLoop
<1>13. scn'[c].pc \in 12..16
  BY <1>3, <1>9
<1>. QED  BY <1>12, <1>13 DEF InRounds

\* Nothing afloat is nothing ahead, once no reply is on its way.
LEMMA NothingAhead ==
    ASSUME Inv, Inv', NEW c \in Clients, Afloat(c)' = {}, Running(c)',
           proc'[c].waits = "nothing"
    PROVE  Ahead(c)' = 0
<1>1. TypeOK'
  BY DEF Inv
<1>2. proc'[c].inbox \in Seq(Notifs) /\ down'[c] \in Seq(FrameSet)
  BY <1>1, PrimedTypes DEF ProcessorSet
<1>3. PICK inbox \in Seq(Notifs), frames \in Seq(FrameSet) :
          inbox = proc'[c].inbox /\ frames = down'[c]
  BY <1>2
<1>4. Elements(inbox) = {} /\ Told(frames) = {}
  BY <1>3 DEF Afloat
<1>5. \A k \in DOMAIN frames : ~Replies(frames[k])
  <2>1. ASSUME NEW k \in DOMAIN frames, Replies(frames[k]) PROVE FALSE
    <3>1. Request(frames[k].type) = "nothing"
      BY <1>3, <2>1 DEF Inv, ClientInv, InTouch
    <3>2. frames[k] \in FrameSet
      OBVIOUS
    <3>. QED  BY <2>1, <3>1, <3>2 DEF FrameSet, Request, Replies, Requests
  <2>. QED  BY <2>1
<1>6. inbox = <<>> /\ frames = <<>>
  BY <1>4, <1>5, NothingIn, NothingTold
<1>7. Len(inbox) = 0 /\ Len(frames) = 0
  BY <1>6, EmptySeq
<1>8. Ahead(c)' = Len(inbox) + Len(frames)
  BY <1>3, Zenon DEF Ahead
<1>. QED  BY <1>7, <1>8

\* Nothing ahead is nothing afloat, and then nothing is pending, either.
LEMMA NothingIsAfloat ==
    ASSUME Inv, NEW c \in Clients, Ahead(c) = 0
    PROVE  Afloat(c) = {}
<1>1. PICK inbox \in Seq(Notifs), frames \in Seq(FrameSet) :
          inbox = proc[c].inbox /\ frames = down[c]
  BY Typed DEF ProcessorSet
<1>2. Len(inbox) \in Nat /\ Len(frames) \in Nat
  OBVIOUS
<1>3. Len(inbox) + Len(frames) = 0
  BY <1>1, Zenon DEF Ahead
<1>4. Len(inbox) = 0 /\ Len(frames) = 0
  BY <1>2, <1>3
<1>5. inbox = <<>> /\ frames = <<>>
  BY <1>4, EmptySeq
<1>. QED  BY <1>1, <1>5 DEF Afloat, Elements, Told

LEMMA NothingIsPending ==
    ASSUME Inv, NEW c \in Clients, Running(c), ~Returns(c), Whereabouts(c),
           scn[c].pc \in Linked[plan.kind] \ Due[plan.kind],
           Instr(c).op \notin {"connect", "hello", "ack_ids"},
           Afloat(c) = {}
    PROVE  Vacant(c)
<1>1. server[c].online
  BY AtWork DEF Whereabouts
<1>2. scn[c].ids = <<>>
  BY DEF Whereabouts, Clears, At
<1>3. Owed(c) = {}
  BY <1>2 DEF Owed, Elements
<1>. QED  BY <1>1, <1>3 DEF Whereabouts, Reaches, Vacant

LEMMA SecondLoopGoesOn ==
    ASSUME Inv, Inv', NEW c \in Clients, Running(c)', Carried(c),
           Whereabouts(c), Whereabouts(c)',
           plan.kind = "_expect_notifications", InRounds(c),
           scn[c].pc \in 7..11
    PROVE  InRounds(c)'
<1>1. /\ ExpectNotificationsAt(scn[c].pc, Instr(c))
      /\ ~Unposted(c)
      /\ Unposted(c)' => scn'[c].pc = 5
      /\ Running(c) /\ ~Returns(c) /\ plan' = plan
  BY CarriedInItsLoops DEF Carried
<1>2. PICK i, k, n, a, q :
          /\ i = scn[c].i /\ k = scn[c].pc /\ n = Len(scn[c].channels)
          /\ a = Ahead(c) /\ q = Qty
  OBVIOUS
<1>3. PICK j, l, m, b :
          /\ j = scn'[c].i /\ l = scn'[c].pc /\ m = Len(scn'[c].channels)
          /\ b = Ahead(c)'
  OBVIOUS
<1>4. /\ i \in 0..q /\ q \in Nat /\ k \in 7..11 /\ n \in Nat /\ a \in Nat
      /\ j \in Nat /\ l \in Nat /\ m \in Nat /\ b \in Nat
  <2>1. i \in 0..q /\ q \in Nat /\ n \in Nat /\ a \in Nat
    BY <1>2, Counting, Zenon
  <2>2. j \in 0..q /\ l \in Nat /\ m \in Nat /\ b \in Nat
    BY <1>2, <1>3, CountingOn, Zenon
  <2>3. k \in 7..11
    BY <1>2
  <2>. QED  BY <2>1, <2>2, <2>3
<1>5. /\ n = q /\ server[c].subs = 1..q
      /\ k = 8 => i > 0
      /\ a =< IF k = 8 THEN q - i + 1 ELSE q - i
  <2>1. InSecondLoop(c) /\ Ahead(c) =< Allowance(c)
    <3>1. ASSUME NEW p \in 7..11 PROVE p < 12
      OBVIOUS
    <3>2. scn[c].pc \in 7..11 /\ scn[c].pc < 12
      BY <3>1
    <3>. QED  BY <3>2 DEF InRounds
  <2>2. a =< Most(i, k, Said(c, "hello"), Said(c, "register"), Unposted(c))
    BY <1>2, <2>1, Zenon DEF Allowance
  <2>3. a =< IF k = 8 THEN q - i + 1 ELSE q - i
    <3>1. k \in 7..11 /\ q = Qty /\ ~Unposted(c)
      BY <1>1, <1>2, <1>4
    <3>2. CASE k = 8
      BY <2>2, <3>1, <3>2 DEF Most
    <3>3. CASE k # 8
      BY <2>2, <3>1, <3>3 DEF Most
    <3>. QED  BY <3>2, <3>3
  <2>. QED  BY <1>2, <2>1, <2>3 DEF InSecondLoop
<1>6. m = q /\ server'[c].subs = 1..q /\ b =< a
      /\ Pending(c)' \subseteq Pending(c) /\ Afloat(c)' \subseteq Afloat(c)
  <2>1. Instr(c).op # "register"
    <3>1. Instr(c).op = "register" => scn[c].pc = 4
      BY <1>1 DEF ExpectNotificationsAt
    <3>. QED  BY <3>1
  <2>. QED  BY <1>2, <1>3, <1>5, <2>1 DEF Carried
<1>7. CASE k = 7 /\ ~(i < q)
  <2>1. Instr(c).op = "for" /\ Instr(c).arg = 12 /\ i = q
    BY <1>1, <1>2, <1>4, <1>7 DEF ExpectNotificationsAt
  <2>2. l = 12 /\ j = 0
    BY <1>2, <1>3, <1>7, <2>1 DEF Carried
  <2>3. a = 0
    BY <1>4, <1>5, <1>7, <2>1
  <2>4. Vacant(c)
    <3>1. Afloat(c) = {}
      BY <1>2, <2>3, NothingIsAfloat
    <3>2. 7 \in Linked["_expect_notifications"] \ Due["_expect_notifications"]
      BY DEF Linked, Due
    <3>3. scn[c].pc \in Linked[plan.kind] \ Due[plan.kind]
      BY <1>2, <1>7, <3>2
    <3>4. Instr(c).op \notin {"connect", "hello", "ack_ids"}
      BY <2>1
    <3>. QED  BY <1>1, <3>1, <3>3, <3>4, NothingIsPending
  <2>5. Vacant(c)'
    BY <1>6, <2>4 DEF Vacant
  <2>6. InThirdLoop(c)'
    BY <1>2, <1>3, <1>6, <2>2, <2>5 DEF InThirdLoop
  <2>7. scn'[c].pc = 12
    BY <1>3, <2>2
  <2>. QED  BY <2>6, <2>7 DEF InRounds
<1>8. CASE ~(k = 7 /\ ~(i < q))
  <2>1. /\ l \in 7..11
        /\ l = 8 => j > 0
        /\ b =< IF l = 8 THEN q - j + 1 ELSE q - j
    <3>1. CASE k = 7
      <4>1. Instr(c).op = "for" /\ i < q
        BY <1>1, <1>2, <1>4, <1>8, <3>1 DEF ExpectNotificationsAt
      <4>2. l = 8 /\ j = i + 1
        BY <1>2, <1>3, <3>1, <4>1 DEF Carried
      <4>3. a =< q - i /\ b =< a
        BY <1>5, <1>6, <3>1
      <4>4. j > 0 /\ b =< q - j + 1
        BY <1>4, <4>2, <4>3
      <4>. QED  BY <4>2, <4>4
    <3>2. CASE k = 8
      <4>1. Instr(c).op = "expect"
        BY <1>1, <1>2, <3>2 DEF ExpectNotificationsAt
      <4>2. l = 9 /\ j = i
        BY <1>2, <1>3, <3>2, <4>1 DEF Carried
      <4>3. CASE b = a - 1
        BY <1>4, <1>5, <3>2, <4>2, <4>3
      <4>4. CASE b # a - 1
        <5>1. scn'[c].notif = NoNotif
          BY <1>2, <1>3, <4>1, <4>4 DEF Carried
        <5>2. 9 \in Due["_expect_notifications"]
          BY DEF Due
        <5>3. scn'[c].pc \in Due[plan'.kind]
          BY <1>1, <1>3, <4>2, <5>2
        <5>4. Afloat(c)' = {}
          BY <5>1, <5>3 DEF Whereabouts, Clears, Vacant
        <5>5. b = 0
          BY <1>3, <5>4, NothingAhead DEF Carried
        <5>. QED  BY <1>4, <4>2, <5>5
      <4>. QED  BY <4>3, <4>4
    <3>3. CASE k = 9
      <4>1. Instr(c).op = "if_notif" /\ Instr(c).arg = 7
        BY <1>1, <1>2, <3>3 DEF ExpectNotificationsAt
      <4>2. l \in {7, 10} /\ j = i
        BY <1>2, <1>3, <3>3, <4>1 DEF Carried
      <4>. QED  BY <1>4, <1>5, <1>6, <3>3, <4>2
    <3>4. CASE k = 10
      <4>1. Instr(c).op = "ack"
        BY <1>1, <1>2, <3>4 DEF ExpectNotificationsAt
      <4>2. l = 11 /\ j = i
        BY <1>2, <1>3, <3>4, <4>1 DEF Carried
      <4>. QED  BY <1>4, <1>5, <1>6, <3>4, <4>2
    <3>5. CASE k = 11
      <4>1. Instr(c).op = "jump" /\ Instr(c).arg = 7
        BY <1>1, <1>2, <3>5 DEF ExpectNotificationsAt
      <4>2. l = 7 /\ j = i
        BY <1>2, <1>3, <4>1 DEF Carried
      <4>. QED  BY <1>4, <1>5, <1>6, <3>5, <4>2
    <3>. QED  BY <1>4, <3>1, <3>2, <3>3, <3>4, <3>5
  <2>2. InSecondLoop(c)'
    BY <1>2, <1>3, <1>6, <2>1 DEF InSecondLoop
  <2>3. ~Unposted(c)'
    BY <1>1, <1>3, <2>1
  <2>4. b =< Most(j, l, Said(c, "hello")', Said(c, "register")', Unposted(c)')
    BY <1>2, <1>4, <2>1, <2>3 DEF Most
  <2>5. Ahead(c)' =< Allowance(c)'
    BY <1>3, <2>4, Zenon DEF Allowance
  <2>6. scn'[c].pc \in 7..11
    BY <1>3, <2>1
  <2>. QED  BY <2>2, <2>5, <2>6 DEF InRounds
<1>. QED  BY <1>7, <1>8

\* What carries out an instruction leaves things tidy.
LEMMA CarriedIsTidy ==
    ASSUME Inv, Inv', NEW c \in Clients, Running(c)', Carried(c), Tidy(c),
           Whereabouts(c), Whereabouts(c)'
    PROVE  Tidy(c)'
<1>1. Running(c) /\ ~Returns(c) /\ plan' = plan
  BY DEF Carried
<1>2. ASSUME OneChannel(plan.kind, plan.once) PROVE OneAtMost(c)'
  BY <1>2, CarriedKeepsOne DEF Tidy
<1>3. ASSUME plan.kind = "_expect_notifications" PROVE InRounds(c)'
  <2>1. InRounds(c)
    BY <1>3 DEF Tidy
  <2>2. scn[c].pc \in 1..15
    BY <1>1, <1>3, InItsLoops
  <2>3. CASE scn[c].pc < 7
    BY <1>3, <2>1, <2>3, FirstLoopGoesOn
  <2>4. CASE scn[c].pc \in 7..11
    BY <1>3, <2>1, <2>4, SecondLoopGoesOn
  <2>5. CASE scn[c].pc > 11
    BY <1>3, <2>1, <2>5, ThirdLoopGoesOn
  <2>. QED  BY <2>2, <2>3, <2>4, <2>5
<1>. QED  BY <1>1, <1>2, <1>3 DEF Tidy

-----------------------------------------------------------------------------
(* What carries out the instructions.                                      *)

LEMMA AsMuchAhead ==
    ASSUME Inv, NEW c \in Clients, proc'[c].inbox = proc[c].inbox,
           down'[c] = down[c]
    PROVE  Ahead(c)' = Ahead(c) /\ Ahead(c)' =< Ahead(c)
<1>1. Ahead(c)' = Ahead(c)
  BY DEF Ahead
<1>2. Ahead(c) \in Nat
  BY Counting
<1>3. PICK a \in Nat : a = Ahead(c)
  BY <1>2
<1>4. a =< a
  OBVIOUS
<1>. QED  BY <1>1, <1>3, <1>4, Zenon

LEMMA GoingOnCarries ==
    ASSUME Inv, NEW c \in Clients, Running(c), ~Returns(c), plan' = plan,
           GoesOn(Instr(c), plan.once),
           Instr(c).op \notin {"jump", "for", "if_once", "if_notif", "loop",
                               "ack_ids"},
           NEW s \in ScenarioSet, s.pc = scn[c].pc, s.i = scn[c].i,
           Continue(c, s),
           IF Instr(c).op = "register"
           THEN Len(s.channels) = Len(scn[c].channels) + 1
           ELSE s.channels = scn[c].channels,
           proc'[c].waits = "nothing",
           server'[c].subs = server[c].subs,
           Pending(c)' \subseteq Pending(c), Afloat(c)' \subseteq Afloat(c),
           Ahead(c)' =< Ahead(c),
           Instr(c).op \in Requests =>
               Said(c, Instr(c).op) /\ Ahead(c)' = Ahead(c) - 1,
           Instr(c).op = "expect" =>
               s.notif = NoNotif \/ Ahead(c)' = Ahead(c) - 1,
           (Instr(c).op = "send" /\ Instr(c).arg # "no_endpoint") =>
               ~Unposted(c)
    PROVE  Carried(c)
<1>1. /\ LeadsTo(plan.kind, plan.once, scn[c].pc, scn'[c].pc)
      /\ scn'[c].channels = s.channels /\ scn'[c].notif = s.notif
      /\ scn'[c].i = s.i /\ scn'[c].pc = scn[c].pc + 1
  BY Proceeding
<1>2. PICK op : op = Instr(c).op
  OBVIOUS
<1>3. op \notin {"jump", "for", "if_once", "if_notif", "loop", "ack_ids"}
  BY <1>2
<1>. QED  BY <1>1, <1>2, <1>3 DEF Carried

\* Nothing changes on the network, and nothing is given.
LEMMA GoingOnAsBefore ==
    ASSUME Inv, NEW c \in Clients, Running(c), ~Returns(c), plan' = plan,
           GoesOn(Instr(c), plan.once),
           Instr(c).op \notin {"jump", "for", "if_once", "if_notif", "loop",
                               "ack_ids", "expect"} \cup Requests,
           NEW s \in ScenarioSet, s.pc = scn[c].pc, s.i = scn[c].i,
           Continue(c, s), s.channels = scn[c].channels,
           proc'[c].waits = "nothing", proc'[c].inbox = proc[c].inbox,
           server'[c].subs = server[c].subs, down'[c] = down[c],
           Pending(c)' \subseteq Pending(c),
           (Instr(c).op = "send" /\ Instr(c).arg # "no_endpoint") =>
               ~Unposted(c)
    PROVE  Carried(c)
<1>1. Ahead(c)' =< Ahead(c)
  BY AsMuchAhead
<1>2. Afloat(c)' \subseteq Afloat(c)
  BY DEF Afloat
<1>3. Instr(c).op # "register"
  BY DEF Requests
<1>. QED  BY <1>1, <1>2, <1>3, GoingOnCarries

LEMMA NoEndpointCarries ==
    ASSUME Inv, NEW c \in Clients, RunSendNotification(c),
           Instr(c).arg = "no_endpoint"
    PROVE  Carried(c)
<1>1. /\ Running(c) /\ ~Returns(c) /\ Instr(c).op = "send"
      /\ plan' = plan /\ server' = server /\ down' = down
      /\ proc[c].waits = "nothing"
  BY DEF RunSendNotification, Runs, Turn
<1>2. PICK s : s = [scn[c] EXCEPT !.response = "failed"]
  OBVIOUS
<1>3. Continue(c, s) /\ proc' = proc
  BY <1>2 DEF RunSendNotification
<1>4. /\ s \in ScenarioSet /\ s.pc = scn[c].pc /\ s.i = scn[c].i
      /\ s.channels = scn[c].channels
  <2>1. scn[c] \in ScenarioSet
    BY Typed
  <2>. QED  BY <1>2, <2>1 DEF ScenarioSet
<1>5. GoesOn(Instr(c), plan.once) /\ Pending(c)' \subseteq Pending(c)
  BY <1>1 DEF GoesOn, Pending
<1>. QED  BY <1>1, <1>3, <1>4, <1>5, GoingOnAsBefore DEF Requests

LEMMA RunAckCarries ==
    ASSUME Inv, NEW c \in Clients, RunAck(c), mishaps'[c] = {}, Running(c)',
           Whereabouts(c)
    PROVE  Carried(c)
<1>1. /\ Running(c) /\ ~Returns(c) /\ Instr(c).op = "ack"
      /\ proc[c].waits = "nothing" /\ plan' = plan
  BY DEF RunAck, Runs, Turn, Shared
<1>2. scn[c].notif # NoNotif
  <2>1. ASSUME Raise(c, proc[c]) PROVE FALSE
    BY <1>1, <2>1, Typed, RaisingForGood
  <2>. QED  BY <2>1 DEF RunAck
<1>3. /\ Acknowledged(c, {scn[c].notif.id}) /\ Continue(c, scn[c])
      /\ proc' = proc /\ down' = down
  BY <1>2, Noted DEF RunAck, network
<1>4. /\ Pending(c)' \subseteq Pending(c) /\ server'[c].subs = server[c].subs
  BY <1>3, StillPending DEF Whereabouts, Numbered
<1>5. GoesOn(Instr(c), plan.once) /\ scn[c] \in ScenarioSet
  BY <1>1, Typed DEF GoesOn
<1>. QED  BY <1>1, <1>3, <1>4, <1>5, GoingOnAsBefore DEF Requests

LEMMA RunCollectCarries ==
    ASSUME Inv, NEW c \in Clients, RunCollect(c)
    PROVE  Carried(c)
<1>1. /\ Running(c) /\ ~Returns(c) /\ Instr(c).op = "collect"
      /\ proc[c].waits = "nothing" /\ plan' = plan /\ proc' = proc
      /\ server' = server /\ down' = down
  BY DEF RunCollect, Runs, Turn, Shared, Outside, network
<1>2. PICK s \in ScenarioSet :
          /\ Continue(c, s) /\ s.pc = scn[c].pc /\ s.i = scn[c].i
          /\ s.channels = scn[c].channels
  <2>1. scn[c] \in ScenarioSet
    BY Typed
  <2>2. PICK ids : ids = Append(scn[c].ids, scn[c].notif.id)
    OBVIOUS
  <2>3. ids \in Seq(Nat)
    BY <2>1, <2>2 DEF ScenarioSet, Notifs
  <2>4. PICK t : t = [scn[c] EXCEPT !.ids = ids]
    OBVIOUS
  <2>5. /\ t \in ScenarioSet /\ t.pc = scn[c].pc /\ t.i = scn[c].i
        /\ t.channels = scn[c].channels
    BY <2>1, <2>3, <2>4 DEF ScenarioSet
  <2>6. CASE scn[c].notif = NoNotif
    BY <2>1, <2>6 DEF RunCollect
  <2>7. CASE scn[c].notif # NoNotif
    <3>1. Continue(c, t)
      BY <2>1, <2>2, <2>4, <2>7 DEF RunCollect, ScenarioSet
    <3>. QED  BY <2>5, <3>1
  <2>. QED  BY <2>6, <2>7
<1>3. GoesOn(Instr(c), plan.once) /\ Pending(c)' \subseteq Pending(c)
  BY <1>1 DEF GoesOn, Pending
<1>. QED  BY <1>1, <1>2, <1>3, GoingOnAsBefore DEF Requests

LEMMA RestCarries ==
    ASSUME Inv, NEW c \in Clients, mishaps'[c] = {}, Running(c)',
           RunTimer(c) \/ RunCounter(c) \/ RunCheck(c)
    PROVE  Carried(c)
<1>1. /\ Running(c) /\ ~Returns(c) /\ plan' = plan
      /\ Instr(c).op \in {"timer_start", "timer_end", "counter", "created",
                          "same_uaid", "needed", "data"}
      /\ proc[c].waits = "nothing"
  BY DEF RunTimer, RunCounter, RunCheck, Runs, Turn, Shared
<1>2. ~Raise(c, proc[c])
  BY <1>1, Typed, RaisingForGood
<1>3. /\ Continue(c, scn[c]) /\ server' = server /\ down' = down
      /\ \/ proc' = proc
         \/ \E b \in BOOLEAN : proc' = [proc EXCEPT ![c].timing = b]
  BY <1>2, Noted DEF RunTimer, RunCounter, RunCheck, Outside, network
<1>4. proc'[c].waits = "nothing" /\ proc'[c].inbox = proc[c].inbox
  BY <1>1, <1>3, Types DEF Inv, ProcessorSet
<1>5. /\ GoesOn(Instr(c), plan.once) /\ scn[c] \in ScenarioSet
      /\ Pending(c)' \subseteq Pending(c)
  BY <1>1, <1>3, Typed DEF GoesOn, Pending
<1>. QED  BY <1>1, <1>3, <1>4, <1>5, GoingOnAsBefore DEF Requests

LEMMA WaitedCarries ==
    ASSUME Inv, NEW c \in Clients, Opens(c) \/ WaitEnds(c)
    PROVE  Carried(c)
<1>1. /\ Running(c) /\ ~Returns(c) /\ Instr(c).op \in {"connect", "wait"}
  BY Waiting DEF Opens, WaitEnds, Awaits
<1>2. /\ plan' = plan /\ server' = server /\ down' = down
      /\ Continue(c, scn[c])
      /\ \/ proc' = [proc EXCEPT ![c].waits = "nothing"]
         \/ proc' = [proc EXCEPT ![c].waits = "nothing", ![c].connected = TRUE]
  BY DEF Opens, WaitEnds, Answered, Shared, Outside, network
<1>3. proc'[c].waits = "nothing" /\ proc'[c].inbox = proc[c].inbox
  <2>1. proc \in [Clients -> ProcessorSet] /\ proc[c] \in ProcessorSet
    BY Types DEF Inv
  <2>2. \/ proc'[c] = [proc[c] EXCEPT !.waits = "nothing"]
        \/ proc'[c] = [proc[c] EXCEPT !.waits = "nothing", !.connected = TRUE]
    BY <1>2, <2>1
  <2>. QED  BY <2>1, <2>2 DEF ProcessorSet
<1>4. /\ GoesOn(Instr(c), plan.once) /\ scn[c] \in ScenarioSet
      /\ Pending(c)' \subseteq Pending(c)
  BY <1>1, <1>2, Typed DEF GoesOn, Pending
<1>. QED  BY <1>1, <1>2, <1>3, <1>4, GoingOnAsBefore DEF Requests

LEMMA PostAnsweredCarries ==
    ASSUME Inv, NEW c \in Clients, PostAnswered(c)
    PROVE  Carried(c)
<1>1. /\ Running(c) /\ ~Returns(c) /\ Instr(c).op = "send"
      /\ proc[c].waits = "send"
  BY Waiting DEF PostAnswered, Awaits
<1>2. PICK code : code = post[c].code
  OBVIOUS
<1>3. code \in {"201", "401", "404"}
  <2>1. post[c] \in PostSet
    BY Typed
  <2>. QED  BY <1>2, <2>1 DEF PostAnswered, PostSet
<1>4. PICK s : s = [scn[c] EXCEPT !.response = code]
  OBVIOUS
<1>5. /\ plan' = plan /\ server' = server /\ down' = down
      /\ Continue(c, s) /\ proc' = [proc EXCEPT ![c].waits = "nothing"]
  BY <1>2, <1>4 DEF PostAnswered, Responds, Shared, Answered
<1>6. /\ s \in ScenarioSet /\ s.pc = scn[c].pc /\ s.i = scn[c].i
      /\ s.channels = scn[c].channels
  <2>1. scn[c] \in ScenarioSet
    BY Typed
  <2>. QED  BY <1>3, <1>4, <2>1 DEF ScenarioSet
<1>7. proc'[c].waits = "nothing" /\ proc'[c].inbox = proc[c].inbox
  BY <1>5, WaitingFor
<1>8. GoesOn(Instr(c), plan.once) /\ Pending(c)' \subseteq Pending(c)
  BY <1>1, <1>5 DEF GoesOn, Pending
<1>9. ~Unposted(c)
  BY <1>1, <1>2, <1>3 DEF Unposted
<1>. QED  BY <1>1, <1>5, <1>6, <1>7, <1>8, <1>9, GoingOnAsBefore DEF Requests

\* One less is ahead once the scenario is given one that was stored, or a frame
\* was taken.
LEMMA OneLessStored ==
    ASSUME NEW S, NEW s \in Seq(S), NEW k \in 1..Len(s), NEW t,
           t = SubSeq(s, 1, k - 1) \o SubSeq(s, k + 1, Len(s))
    PROVE  Len(t) = Len(s) - 1
<1>1. PICK a, b : a = SubSeq(s, 1, k - 1) /\ b = SubSeq(s, k + 1, Len(s))
  OBVIOUS
<1>2. PICK n \in Nat : n = Len(s)
  OBVIOUS
<1>3. k \in Nat /\ 1 =< k /\ k =< n
  BY <1>2
<1>4. a \in Seq(S) /\ Len(a) = k - 1
  <2>1. /\ k - 1 \in Int /\ 1 \in Int /\ \A j \in 1..(k - 1) : s[j] \in S
        /\ 1 =< (k - 1) + 1
    BY <1>2, <1>3
  <2>2. (k - 1) - 1 + 1 = k - 1
    BY <1>3
  <2>. QED  BY <1>1, <2>1, <2>2, SubSeqProperties
<1>5. b \in Seq(S) /\ Len(b) = n - k
  <2>1. /\ k + 1 \in Int /\ n \in Int /\ \A j \in (k + 1)..n : s[j] \in S
        /\ k + 1 =< n + 1
    BY <1>2, <1>3
  <2>2. n - (k + 1) + 1 = n - k
    BY <1>2, <1>3
  <2>. QED  BY <1>1, <1>2, <2>1, <2>2, SubSeqProperties
<1>6. Len(t) = Len(a) + Len(b)
  BY <1>1, <1>4, <1>5, ConcatProperties
<1>7. (k - 1) + (n - k) = n - 1
  BY <1>2, <1>3
<1>. QED  BY <1>2, <1>4, <1>5, <1>6, <1>7

LEMMA OneFrameLess ==
    ASSUME Inv, NEW c \in Clients, Arrives(c)
    PROVE  Len(down'[c]) = Len(down[c]) - 1
<1>1. down \in [Clients -> Seq(FrameSet)] /\ down[c] \in Seq(FrameSet)
  BY Types DEF Inv
<1>2. down[c] # <<>> /\ down' = [down EXCEPT ![c] = Tail(@)]
  BY DEF Arrives
<1>3. PICK t : t = Tail(down[c])
  OBVIOUS
<1>4. Len(t) = Len(down[c]) - 1
  BY <1>1, <1>2, <1>3, HeadTailProperties
<1>5. down'[c] = t
  BY <1>1, <1>2, <1>3
<1>. QED  BY <1>4, <1>5

LEMMA OneLessAhead ==
    ASSUME Inv, NEW c \in Clients, NEW m \in Nat, NEW n \in Nat,
           Len(proc[c].inbox) = m, Len(down[c]) = n,
           \/ Len(proc'[c].inbox) = m - 1 /\ Len(down'[c]) = n
           \/ Len(proc'[c].inbox) = m /\ Len(down'[c]) = n - 1
    PROVE  Ahead(c)' = Ahead(c) - 1 /\ Ahead(c)' =< Ahead(c)
<1>1. Ahead(c) = m + n
  BY Zenon DEF Ahead
<1>2. Ahead(c)' = m + n - 1
  <2>1. Ahead(c)' = Len(proc'[c].inbox) + Len(down'[c])
    BY Zenon DEF Ahead
  <2>2. (m - 1) + n = m + n - 1 /\ m + (n - 1) = m + n - 1
    OBVIOUS
  <2>. QED  BY <2>1, <2>2, Zenon
<1>3. PICK a, b : a = Ahead(c) /\ b = Ahead(c)'
  OBVIOUS
<1>4. a = m + n /\ b = m + n - 1
  BY <1>1, <1>2, <1>3, Zenon
<1>5. b = a - 1 /\ b =< a
  BY <1>4
<1>. QED  BY <1>3, <1>5, Zenon

LEMMA StoredCarries ==
    ASSUME Inv, NEW c \in Clients, RunExpect(c), Stored(c) # {}
    PROVE  Carried(c)
<1>1. /\ Turn(c) /\ Running(c) /\ ~Returns(c) /\ Instr(c).op = "expect"
      /\ proc[c].waits = "nothing" /\ plan' = plan /\ server' = server
      /\ down' = down
  BY DEF RunExpect, Runs, Turn, Shared, Outside, network
<1>2. proc \in [Clients -> ProcessorSet] /\ proc[c].inbox \in Seq(Notifs)
  BY Types DEF Inv, ProcessorSet
<1>3. PICK k : k = CHOOSE m \in Stored(c) : \A j \in Stored(c) : m =< j
  OBVIOUS
<1>4. k \in 1..Len(proc[c].inbox)
  <2>1. Stored(c) \subseteq 1..Len(proc[c].inbox)
    BY <1>2 DEF Stored
  <2>2. \E m \in Stored(c) : \A j \in Stored(c) : m =< j
    BY <1>2, <2>1, LeastNumber
  <2>3. k \in Stored(c)
    BY <1>3, <2>2
  <2>. QED  BY <2>1, <2>3
<1>5. PICK n : n = proc[c].inbox[k]
  OBVIOUS
<1>6. n \in Notifs
  BY <1>2, <1>4, <1>5
<1>7. PICK rest : rest = Without(proc[c].inbox, k)
  OBVIOUS
<1>8. PICK s : s = [scn[c] EXCEPT !.notif = n]
  OBVIOUS
<1>9. /\ Continue(c, s)
      /\ proc' = [proc EXCEPT ![c].inbox = rest]
  BY <1>2, <1>3, <1>5, <1>7, <1>8 DEF RunExpect, GivenNotif, Without
<1>10. proc'[c].inbox = rest /\ proc'[c].waits = "nothing"
  <2>1. proc'[c] = [proc[c] EXCEPT !.inbox = rest]
    BY <1>2, <1>9
  <2>2. proc[c] \in ProcessorSet
    BY Typed
  <2>. QED  BY <1>1, <2>1, <2>2 DEF ProcessorSet
<1>11. Elements(rest) \subseteq Elements(proc[c].inbox)
  BY <1>2, <1>4, <1>7, WithoutOne DEF Without
<1>12. Len(rest) = Len(proc[c].inbox) - 1
  BY <1>2, <1>4, <1>7, OneLessStored DEF Without
<1>13. /\ s \in ScenarioSet /\ s.pc = scn[c].pc /\ s.i = scn[c].i
       /\ s.channels = scn[c].channels
  <2>1. scn[c] \in ScenarioSet
    BY Typed
  <2>. QED  BY <1>6, <1>8, <2>1 DEF ScenarioSet
<1>14. Afloat(c)' \subseteq Afloat(c) /\ Pending(c)' \subseteq Pending(c)
  BY <1>1, <1>10, <1>11 DEF Afloat, Pending
<1>15. Ahead(c)' = Ahead(c) - 1 /\ Ahead(c)' =< Ahead(c)
  <2>1. Len(proc[c].inbox) \in Nat /\ Len(down[c]) \in Nat
    BY Counting
  <2>2. Len(proc'[c].inbox) = Len(proc[c].inbox) - 1 /\ Len(down'[c]) = Len(down[c])
    BY <1>1, <1>10, <1>12
  <2>. QED  BY <2>1, <2>2, OneLessAhead
<1>16. GoesOn(Instr(c), plan.once) /\ server'[c].subs = server[c].subs
  BY <1>1 DEF GoesOn
<1>17. Instr(c).op \notin Requests
  BY <1>1 DEF Requests
<1>. QED
  BY <1>1, <1>9, <1>10, <1>13, <1>14, <1>15, <1>16, <1>17, GoingOnCarries

LEMMA ClosesCarries ==
    ASSUME Inv, NEW c \in Clients, Closes(c)
    PROVE  Carried(c)
<1>1. /\ Running(c) /\ ~Returns(c) /\ Instr(c).op = "disconnect"
  BY Waiting DEF Closes, Awaits
<1>2. /\ plan' = plan /\ Continue(c, scn[c]) /\ Unconnected(c)
      /\ proc' = [proc EXCEPT ![c].waits = "nothing", ![c].connected = FALSE]
  BY DEF Closes, Shared
<1>3. proc'[c].waits = "nothing" /\ proc'[c].inbox = proc[c].inbox
  <2>1. proc \in [Clients -> ProcessorSet] /\ proc[c] \in ProcessorSet
    BY Types DEF Inv
  <2>2. proc'[c] = [proc[c] EXCEPT !.waits = "nothing", !.connected = FALSE]
    BY <1>2, <2>1
  <2>. QED  BY <2>1, <2>2 DEF ProcessorSet
<1>4. /\ server'[c].pending = server[c].pending
      /\ server'[c].subs = server[c].subs
      /\ down'[c] = <<>>
  <2>1. /\ server \in [Clients -> AgentSet] /\ server[c] \in AgentSet
        /\ down \in [Clients -> Seq(FrameSet)]
    BY Types DEF Inv
  <2>2. server'[c] = [server[c] EXCEPT !.online = FALSE]
    BY <1>2, <2>1 DEF Unconnected
  <2>3. down'[c] = <<>>
    BY <1>2, <2>1 DEF Unconnected
  <2>. QED  BY <2>1, <2>2, <2>3 DEF AgentSet
<1>5. Afloat(c)' \subseteq Afloat(c) /\ Pending(c)' \subseteq Pending(c)
  <2>1. Told(down'[c]) = {}
    BY <1>4 DEF Told
  <2>. QED  BY <1>3, <1>4, <2>1 DEF Afloat, Pending
<1>6. Ahead(c)' =< Ahead(c)
  <2>1. PICK m \in Nat, n \in Nat : m = Len(proc[c].inbox) /\ n = Len(down[c])
    BY Counting
  <2>2. Ahead(c)' = m + Len(down'[c])
    BY <1>3, <2>1, Zenon DEF Ahead
  <2>3. Len(down'[c]) = 0
    BY <1>4, EmptySeq
  <2>4. Ahead(c) = m + n
    BY <2>1, Zenon DEF Ahead
  <2>. QED  BY <2>2, <2>3, <2>4
<1>7. GoesOn(Instr(c), plan.once) /\ scn[c] \in ScenarioSet
  BY <1>1, Typed DEF GoesOn
<1>. QED
  BY <1>1, <1>2, <1>3, <1>4, <1>5, <1>6, <1>7, GoingOnCarries DEF Requests

LEMMA TimesOutCarries ==
    ASSUME Inv, NEW c \in Clients, TimesOut(c)
    PROVE  Carried(c)
<1>1. /\ Running(c) /\ ~Returns(c) /\ Instr(c).op = "expect"
  BY Waiting DEF TimesOut, Awaits
<1>2. PICK s : s = [scn[c] EXCEPT !.notif = NoNotif]
  OBVIOUS
<1>3. /\ plan' = plan /\ server' = server /\ down' = down
      /\ Continue(c, s) /\ proc' = [proc EXCEPT ![c].waits = "nothing"]
  BY <1>2 DEF TimesOut, Shared, network, Answered
<1>4. /\ s \in ScenarioSet /\ s.pc = scn[c].pc /\ s.i = scn[c].i
      /\ s.channels = scn[c].channels /\ s.notif = NoNotif
  <2>1. scn[c] \in ScenarioSet
    BY Typed
  <2>. QED  BY <1>2, <2>1, Beginnings DEF ScenarioSet
<1>5. proc'[c].waits = "nothing" /\ proc'[c].inbox = proc[c].inbox
  BY <1>3, WaitingFor
<1>6. Afloat(c)' \subseteq Afloat(c) /\ Pending(c)' \subseteq Pending(c)
  BY <1>3, <1>5 DEF Afloat, Pending
<1>7. Ahead(c)' =< Ahead(c)
  BY <1>3, <1>5, AsMuchAhead
<1>8. GoesOn(Instr(c), plan.once)
  BY <1>1 DEF GoesOn
<1>. QED
  BY <1>1, <1>3, <1>4, <1>5, <1>6, <1>7, <1>8, GoingOnCarries DEF Requests

LEMMA ExpectedCarries ==
    ASSUME Inv, NEW c \in Clients, Arrives(c), Whereabouts(c),
           Head(down[c]).type = "notification",
           proc[c].waits = "expect", IsExpected(c, Head(down[c]).notif)
    PROVE  Carried(c)
<1>1. PICK n : n = Head(down[c]).notif
  OBVIOUS
<1>2. PICK s : s = [scn[c] EXCEPT !.notif = n]
  OBVIOUS
<1>3. /\ Running(c) /\ ~Returns(c) /\ Instr(c).op = "expect"
      /\ Continue(c, s) /\ proc' = [proc EXCEPT ![c].waits = "nothing"]
      /\ ~Replies(Head(down[c]))
  BY <1>1, <1>2, Waiting DEF Arrives, Answered, Replies
<1>4. /\ plan' = plan /\ server' = server /\ n \in Notifs
      /\ Told(down[c]) = Told(down'[c]) \cup {n}
  <2>1. /\ plan' = plan /\ server' = server /\ Head(down[c]) \in FrameSet
        /\ Told(down[c]) = Told(down'[c]) \cup
              (IF Replies(Head(down[c])) THEN {} ELSE {Head(down[c]).notif})
    BY TheFrames DEF Whereabouts
  <2>2. n \in Notifs
    BY <1>1, <2>1 DEF FrameSet
  <2>. QED  BY <1>1, <1>3, <2>1, <2>2
<1>5. /\ s \in ScenarioSet /\ s.pc = scn[c].pc /\ s.i = scn[c].i
      /\ s.channels = scn[c].channels
  <2>1. scn[c] \in ScenarioSet
    BY Typed
  <2>. QED  BY <1>2, <1>4, <2>1 DEF ScenarioSet
<1>6. proc'[c].waits = "nothing" /\ proc'[c].inbox = proc[c].inbox
  BY <1>3, WaitingFor
<1>7. Afloat(c)' \subseteq Afloat(c) /\ Pending(c)' \subseteq Pending(c)
  BY <1>4, <1>6 DEF Afloat, Pending
<1>8. Ahead(c)' = Ahead(c) - 1 /\ Ahead(c)' =< Ahead(c)
  <2>1. Len(proc[c].inbox) \in Nat /\ Len(down[c]) \in Nat
    BY Counting
  <2>2. Len(proc'[c].inbox) = Len(proc[c].inbox)
    BY <1>6
  <2>3. Len(down'[c]) = Len(down[c]) - 1
    BY OneFrameLess
  <2>. QED  BY <2>1, <2>2, <2>3, OneLessAhead
<1>9. GoesOn(Instr(c), plan.once) /\ server'[c].subs = server[c].subs
  BY <1>3, <1>4 DEF GoesOn
<1>10. Instr(c).op \notin Requests
  BY <1>3 DEF Requests
<1>. QED
  BY <1>3, <1>4, <1>5, <1>6, <1>7, <1>8, <1>9, <1>10, GoingOnCarries

LEMMA ReplyCarries ==
    ASSUME Inv, NEW c \in Clients, Arrives(c), Whereabouts(c),
           Head(down[c]).type # "notification"
    PROVE  Carried(c)
<1>1. PICK type : type = Head(down[c]).type
  OBVIOUS
<1>2. /\ Answered(c, [scn[c] EXCEPT
             !.same = type # "stranger",
             !.channels = IF type = "register"
                          THEN Append(@, Len(@) + 1) ELSE @])
      /\ Replies(Head(down[c])) /\ down[c] # <<>>
  BY <1>1 DEF Arrives, Shared, Replies
<1>3. /\ plan' = plan /\ server' = server /\ Running(c)
      /\ type \in Requests /\ proc[c].waits = type
      /\ Told(down[c]) = Told(down'[c])
  <2>1. /\ plan' = plan /\ server' = server /\ Running(c)
        /\ Head(down[c]) \in FrameSet /\ Head(down[c]).type # "stranger"
        /\ Told(down[c]) = Told(down'[c]) \cup
              (IF Replies(Head(down[c])) THEN {} ELSE {Head(down[c]).notif})
        /\ Replies(Head(down[c])) => proc[c].waits = Request(Head(down[c]).type)
    BY TheFrames DEF Whereabouts
  <2>2. type \in Requests
    BY <1>1, <1>2, <2>1 DEF FrameSet, Replies
  <2>3. proc[c].waits = type
    BY <1>1, <1>2, <2>1 DEF Request
  <2>. QED  BY <1>1, <1>2, <2>1, <2>2, <2>3
<1>4. ~Returns(c) /\ Instr(c).op = type
  BY <1>3, Waiting DEF Requests
<1>5. PICK chs : chs = IF type = "register"
                       THEN Append(scn[c].channels, Len(scn[c].channels) + 1)
                       ELSE scn[c].channels
  OBVIOUS
<1>6. /\ chs \in Seq(Nat)
      /\ type = "register" => Len(chs) = Len(scn[c].channels) + 1
      /\ type # "register" => chs = scn[c].channels
  <2>1. scn[c].channels \in Seq(Nat)
    BY Typed DEF ScenarioSet
  <2>. QED  BY <1>5, <2>1
<1>7. PICK known : known = (type # "stranger")
  OBVIOUS
<1>8. known = TRUE
  BY <1>3, <1>7 DEF Requests
<1>9. PICK s : s = [scn[c] EXCEPT !.same = known, !.channels = chs]
  OBVIOUS
<1>10. Continue(c, s) /\ proc' = [proc EXCEPT ![c].waits = "nothing"]
  BY <1>2, <1>5, <1>7, <1>9 DEF Answered
<1>11. /\ s \in ScenarioSet /\ s.pc = scn[c].pc /\ s.i = scn[c].i
       /\ s.channels = chs
  <2>1. scn[c] \in ScenarioSet
    BY Typed
  <2>. QED  BY <1>6, <1>8, <1>9, <2>1 DEF ScenarioSet
<1>12. proc'[c].waits = "nothing" /\ proc'[c].inbox = proc[c].inbox
  BY <1>10, WaitingFor
<1>13. Afloat(c)' \subseteq Afloat(c) /\ Pending(c)' \subseteq Pending(c)
  BY <1>3, <1>12 DEF Afloat, Pending
<1>14. Ahead(c)' = Ahead(c) - 1 /\ Ahead(c)' =< Ahead(c)
  <2>1. Len(proc[c].inbox) \in Nat /\ Len(down[c]) \in Nat
    BY Counting
  <2>2. Len(proc'[c].inbox) = Len(proc[c].inbox)
    BY <1>12
  <2>3. Len(down'[c]) = Len(down[c]) - 1
    BY OneFrameLess
  <2>. QED  BY <2>1, <2>2, <2>3, OneLessAhead
<1>15. Said(c, type)
  <2>1. 1 \in DOMAIN down[c] /\ Head(down[c]) = down[c][1]
    BY <1>2, NextFrame DEF Arrives
  <2>. QED  BY <1>1, <2>1 DEF Said
<1>16. /\ GoesOn(Instr(c), plan.once)
       /\ Instr(c).op \notin {"jump", "for", "if_once", "if_notif", "loop",
                              "ack_ids", "expect", "send"}
       /\ server'[c].subs = server[c].subs
  BY <1>3, <1>4 DEF GoesOn, Requests
<1>17. IF Instr(c).op = "register"
       THEN Len(s.channels) = Len(scn[c].channels) + 1
       ELSE s.channels = scn[c].channels
  BY <1>4, <1>6, <1>11
<1>. QED
  BY <1>3, <1>4, <1>10, <1>11, <1>12, <1>13, <1>14, <1>15, <1>16, <1>17,
     GoingOnCarries

LEMMA RunAckIdsCarries ==
    ASSUME Inv, NEW c \in Clients, AcksIds(c), Whereabouts(c)
    PROVE  Carried(c)
<1>1. /\ Running(c) /\ ~Returns(c) /\ Instr(c).op = "ack_ids"
      /\ proc[c].waits = "nothing" /\ plan' = plan /\ proc' = proc
      /\ down' = down
  BY DEF AcksIds, Runs, Turn, Shared, network
<1>2. GoesOn(Instr(c), plan.once) /\ Branches(Instr(c), plan.once)
  BY <1>1 DEF GoesOn, Branches
<1>3. PICK ids \in Seq(Nat), l \in {scn[c].pc + 1, Instr(c).arg}, s \in ScenarioSet :
          /\ s = [scn[c] EXCEPT !.ids = ids]
          /\ scn' = [scn EXCEPT ![c] = GoTo(s, l)]
  <2>1. scn[c] \in ScenarioSet
    BY Typed
  <2>2. CASE scn[c].ids = <<>>
    <3>1. scn[c] = [scn[c] EXCEPT !.ids = scn[c].ids] /\ scn[c].ids \in Seq(Nat)
      BY <2>1 DEF ScenarioSet
    <3>2. scn' = [scn EXCEPT ![c] = GoTo(scn[c], scn[c].pc + 1)]
      BY <1>1, <2>2 DEF AcksIds, Continue, GoOn
    <3>. QED  BY <2>1, <3>1, <3>2
  <2>3. CASE scn[c].ids # <<>>
    <3>1. PICK none : none = <<>>
      OBVIOUS
    <3>2. PICK s : s = [scn[c] EXCEPT !.ids = none]
      OBVIOUS
    <3>3. none \in Seq(Nat)
      BY <3>1, EmptySeq
    <3>4. s \in ScenarioSet
      BY <2>1, <3>2, <3>3 DEF ScenarioSet
    <3>5. scn' = [scn EXCEPT ![c] = GoTo(s, Instr(c).arg)]
      BY <2>3, <3>1, <3>2 DEF AcksIds
    <3>. QED  BY <3>2, <3>3, <3>4, <3>5
  <2>. QED  BY <2>2, <2>3
<1>4. /\ scn'[c].pc = l /\ scn'[c].channels = scn[c].channels
      /\ scn'[c].i = scn[c].i
  <2>1. scn[c] \in ScenarioSet
    BY Typed
  <2>2. s.channels = scn[c].channels /\ s.i = scn[c].i
    BY <1>3, <2>1 DEF ScenarioSet
  <2>3. PICK m : m = l
    OBVIOUS
  <2>4. scn' = [scn EXCEPT ![c] = GoTo(s, m)]
    BY <1>3, <2>3
  <2>5. scn'[c].pc = m /\ scn'[c].channels = s.channels
    BY <2>4, Continuing
  <2>6. scn'[c].i = s.i
    BY <2>4, Continuing
  <2>. QED  BY <2>2, <2>3, <2>5, <2>6
<1>5. LeadsTo(plan.kind, plan.once, scn[c].pc, scn'[c].pc)
  BY <1>1, <1>2, <1>3, <1>4, TheCarrying
<1>6. server'[c].subs = server[c].subs /\ Pending(c)' \subseteq Pending(c)
  <2>1. CASE scn[c].ids = <<>>
    BY <2>1 DEF AcksIds, Pending
  <2>2. CASE scn[c].ids # <<>>
    <3>1. PICK acked : Acknowledged(c, acked)
      BY <2>2 DEF AcksIds
    <3>. QED  BY <3>1, StillPending DEF Whereabouts, Numbered
  <2>. QED  BY <2>1, <2>2
<1>7. Afloat(c)' \subseteq Afloat(c)
  BY <1>1 DEF Afloat
<1>8. Ahead(c)' =< Ahead(c)
  BY <1>1, AsMuchAhead
<1>. QED
  BY <1>1, <1>4, <1>5, <1>6, <1>7, <1>8 DEF Carried, Requests

LEMMA RunBranchCarries ==
    ASSUME Inv, NEW c \in Clients, RunBranch(c)
    PROVE  Carried(c)
<1>1. /\ Running(c) /\ ~Returns(c) /\ proc[c].waits = "nothing"
      /\ Instr(c).op \in {"jump", "for", "if_once", "if_notif", "loop"}
      /\ plan' = plan /\ proc' = proc /\ server' = server /\ down' = down
      /\ LeadsTo(plan.kind, plan.once, scn[c].pc, scn'[c].pc)
      /\ scn'[c].channels = scn[c].channels
      /\ Instr(c).op = "jump" => scn'[c].pc = Instr(c).arg
      /\ Instr(c).op = "if_notif" =>
            scn'[c].pc = IF scn[c].notif = NoNotif THEN Instr(c).arg
                         ELSE scn[c].pc + 1
      /\ Instr(c).op = "for" =>
            IF scn[c].i < Qty
            THEN scn'[c].pc = scn[c].pc + 1 /\ scn'[c].i = scn[c].i + 1
            ELSE scn'[c].pc = Instr(c).arg /\ scn'[c].i = 0
      /\ Instr(c).op # "for" => scn'[c].i = scn[c].i
  BY Branching
<1>2. Afloat(c)' \subseteq Afloat(c) /\ Pending(c)' \subseteq Pending(c)
  BY <1>1 DEF Afloat, Pending
<1>3. Ahead(c)' =< Ahead(c)
  BY <1>1, AsMuchAhead
<1>4. Instr(c).op = "if_notif" => scn'[c].pc \in {scn[c].pc + 1, Instr(c).arg}
  BY <1>1
<1>5. /\ Instr(c).op \notin {"register", "expect", "send"} \cup Requests
      /\ Instr(c).op \notin {"jump", "for", "if_once", "if_notif", "loop",
                             "ack_ids"} => scn'[c].pc = scn[c].pc + 1
  BY <1>1 DEF Requests
<1>. QED  BY <1>1, <1>2, <1>3, <1>4, <1>5 DEF Carried

-----------------------------------------------------------------------------
(* What waits, arrives or is answered by the server.                       *)

\* Where it stands, there is no more afloat than before and no less room.
LEMMA StandingIsTidy ==
    ASSUME Inv, Inv', NEW c \in Clients, Running(c), Tidy(c), plan' = plan,
           scn'[c] = scn[c], server'[c].subs = server[c].subs,
           Said(c, "hello") <=> Said(c, "hello")',
           Said(c, "register") <=> Said(c, "register")',
           Said(c, "unregister") <=> Said(c, "unregister")',
           Unposted(c) <=> Unposted(c)',
           Ahead(c)' =< Ahead(c), Vacant(c) => Vacant(c)'
    PROVE  Tidy(c)'
<1>1. OneAtMost(c) => OneAtMost(c)'
  BY DEF OneAtMost
<1>2. ASSUME InRounds(c) PROVE InRounds(c)'
  <2>1. InFirstLoop(c) => InFirstLoop(c)'
    BY DEF InFirstLoop
  <2>2. InSecondLoop(c) => InSecondLoop(c)'
    BY DEF InSecondLoop
  <2>3. InThirdLoop(c) => InThirdLoop(c)'
    BY DEF InThirdLoop
  <2>4. ASSUME scn[c].pc < 12 PROVE Ahead(c)' =< Allowance(c)'
    <3>1. Allowance(c)' = Allowance(c)
      BY DEF Allowance, Most
    <3>2. PICK i, k, q : i = scn[c].i /\ k = scn[c].pc /\ q = Qty
      OBVIOUS
    <3>3. i \in 0..q /\ q \in Nat /\ k \in Nat
      BY <3>2, Counting, Zenon
    <3>4. PICK a, b, n : a = Ahead(c) /\ b = Ahead(c)' /\ n = Allowance(c)
      OBVIOUS
    <3>5. a \in Nat /\ b \in Nat /\ b =< a
      BY <3>4, Counting, CountingOn
    <3>6. n \in Int
      BY <3>2, <3>3, <3>4 DEF Allowance, Most
    <3>7. a =< n
      BY <1>2, <2>4, <3>4 DEF InRounds
    <3>8. b =< n
      BY <3>5, <3>6, <3>7
    <3>. QED  BY <3>1, <3>4, <3>8
  <2>. QED  BY <1>2, <2>1, <2>2, <2>3, <2>4 DEF InRounds
<1>. QED  BY <1>1, <1>2 DEF Tidy

\* Asking for something changes nothing.
LEMMA AskingIsTidy ==
    ASSUME Inv, Inv', NEW c \in Clients, Turn(c), ~Returns(c), Tidy(c),
           Asks(c), plan' = plan, scn' = scn, server' = server, down' = down,
           Instr(c).op = "send" => post'[c].code = "none"
    PROVE  Tidy(c)'
<1>1. /\ proc'[c].waits = Instr(c).op /\ proc'[c].inbox = proc[c].inbox
      /\ proc[c].waits = "nothing"
  BY WaitingFor DEF Asks, Turn
<1>2. /\ Instr(c)' = Instr(c) /\ Returns(c)' = Returns(c) /\ Running(c)
      /\ \A op : At(c, op)' = At(c, op)
  BY DEF Instr, Returns, Running, At, Turn
<1>3. Vacant(c) => Vacant(c)'
  BY <1>1 DEF Vacant, Pending, Afloat
<1>4. Unposted(c)' <=> Unposted(c)
  BY <1>1, <1>2 DEF Unposted, At
<1>5. \A type : Said(c, type) <=> Said(c, type)'
  BY DEF Said
<1>6. Ahead(c)' =< Ahead(c)
  BY <1>1, AsMuchAhead
<1>. QED  BY <1>2, <1>3, <1>4, <1>5, <1>6, StandingIsTidy

LEMMA AskedIsTidy ==
    ASSUME Inv, Inv', NEW c \in Clients, mishaps'[c] = {}, Tidy(c),
           RunConnect(c) \/ RunDisconnect(c) \/ RunRequest(c) \/ RunWait(c)
    PROVE  Tidy(c)'
<1>1. /\ Turn(c) /\ ~Returns(c) /\ Instr(c).op # "send" /\ plan' = plan
  BY DEF RunConnect, RunDisconnect, RunRequest, RunWait, Runs, Shared, Requests
<1>2. Asks(c) /\ scn' = scn /\ server' = server /\ down' = down
  BY Noted DEF RunConnect, RunDisconnect, RunRequest, RunWait, Outside, network
<1>. QED  BY <1>1, <1>2, AskingIsTidy

LEMMA RunSendNotificationIsTidy ==
    ASSUME Inv, Inv', NEW c \in Clients, RunSendNotification(c), Running(c)',
           Tidy(c), Whereabouts(c), Whereabouts(c)'
    PROVE  Tidy(c)'
<1>1. /\ Turn(c) /\ ~Returns(c) /\ Instr(c).op = "send"
      /\ plan' = plan /\ server' = server /\ down' = down
  BY DEF RunSendNotification, Runs
<1>2. CASE Instr(c).arg = "no_endpoint"
  BY <1>2, NoEndpointCarries, CarriedIsTidy
<1>3. CASE Instr(c).arg # "no_endpoint"
  <2>1. SignAndPost(c) /\ Asks(c) /\ scn' = scn
    BY <1>3 DEF RunSendNotification
  <2>2. PICK signed : Posts(c, signed)
    <3>1. CASE plan.claims = "none"
      BY <2>1, <3>1 DEF SignAndPost
    <3>2. CASE plan.claims = "text"
      BY <2>1, <3>2 DEF SignAndPost
    <3>3. CASE plan.claims = "dict"
      BY <2>1, <3>3 DEF SignAndPost
    <3>. QED  BY <3>1, <3>2, <3>3, ThePlan
  <2>3. post'[c].code = "none"
    <3>1. PICK p : p = Post(Target(c), Instr(c).arg, signed)
      OBVIOUS
    <3>2. p.code = "none"
      BY <3>1 DEF Post
    <3>3. post'[c] = p
      BY <2>2, <3>1, Types DEF Posts, Inv
    <3>. QED  BY <3>2, <3>3
  <2>. QED  BY <1>1, <2>1, <2>3, AskingIsTidy
<1>. QED  BY <1>2, <1>3

LEMMA RunExpectIsTidy ==
    ASSUME Inv, Inv', NEW c \in Clients, RunExpect(c), Running(c)',
           Tidy(c), Whereabouts(c), Whereabouts(c)'
    PROVE  Tidy(c)'
<1>1. /\ Turn(c) /\ ~Returns(c) /\ Instr(c).op = "expect"
      /\ plan' = plan /\ server' = server /\ down' = down
  BY DEF RunExpect, Runs, Shared, Outside, network
<1>2. CASE Stored(c) = {}
  <2>1. Asks(c) /\ scn' = scn
    BY <1>2 DEF RunExpect
  <2>. QED  BY <1>1, <2>1, AskingIsTidy
<1>3. CASE Stored(c) # {}
  BY <1>3, StoredCarries, CarriedIsTidy
<1>. QED  BY <1>2, <1>3

LEMMA OtherArrivesIsTidy ==
    ASSUME Inv, Inv', NEW c \in Clients, Arrives(c), Tidy(c), Whereabouts(c),
           Head(down[c]).type = "notification",
           ~(proc[c].waits = "expect" /\ IsExpected(c, Head(down[c]).notif))
    PROVE  Tidy(c)'
<1>1. PICK n : n = Head(down[c]).notif
  OBVIOUS
<1>2. /\ scn' = scn /\ post' = post /\ plan' = plan /\ server' = server
      /\ proc' = [proc EXCEPT ![c].inbox = Append(@, n)]
      /\ ~Replies(Head(down[c])) /\ Running(c)
      /\ down[c] # <<>> /\ down' = [down EXCEPT ![c] = Tail(@)]
  BY <1>1 DEF Arrives, Replies, Shared
<1>3. /\ down \in [Clients -> Seq(FrameSet)] /\ down[c] \in Seq(FrameSet)
      /\ proc \in [Clients -> ProcessorSet] /\ proc[c].inbox \in Seq(Notifs)
  BY Types DEF Inv, ProcessorSet
<1>4. /\ down'[c] = Tail(down[c]) /\ n \in Notifs
      /\ Told(down[c]) = Told(down'[c]) \cup {n}
      /\ Sorts(down[c]) = Sorts(down'[c]) \cup {"notification"}
  <2>1. PICK rest : rest = Tail(down[c])
    OBVIOUS
  <2>2. down'[c] = rest
    BY <1>2, <1>3, <2>1
  <2>3. /\ Told(down[c]) = Told(rest) \cup {n}
        /\ Sorts(down[c]) = Sorts(rest) \cup {"notification"}
    BY <1>1, <1>2, <1>3, <2>1, ToldTail
  <2>4. Head(down[c]) \in FrameSet
    BY <1>2, NextFrame
  <2>5. n \in Notifs
    BY <1>1, <2>4 DEF FrameSet
  <2>. QED  BY <2>1, <2>2, <2>3, <2>5
<1>5. PICK inbox : inbox = Append(proc[c].inbox, n)
  OBVIOUS
<1>6. proc'[c].waits = proc[c].waits /\ proc'[c].inbox = inbox
  <2>1. proc'[c] = [proc[c] EXCEPT !.inbox = inbox]
    BY <1>2, <1>3, <1>5
  <2>. QED  BY <1>3, <2>1 DEF ProcessorSet
<1>7. Elements(inbox) = Elements(proc[c].inbox) \cup {n}
  BY <1>3, <1>4, <1>5, ElementsAppended
<1>8. Vacant(c) => Vacant(c)'
  BY <1>2, <1>4, <1>6, <1>7 DEF Vacant, Afloat, Pending
<1>9. \A type \in Requests : Said(c, type) <=> Said(c, type)'
  <2>1. \A type : Said(c, type) <=> type \in Sorts(down[c])
    BY DEF Said, Sorts
  <2>2. \A type : Said(c, type)' <=> type \in Sorts(down'[c])
    BY DEF Said, Sorts
  <2>. QED  BY <1>4, <2>1, <2>2 DEF Requests
<1>10. Unposted(c) <=> Unposted(c)'
  BY <1>2, <1>6 DEF Unposted, At, Instr, Returns, Running
<1>11. Ahead(c)' =< Ahead(c)
  <2>1. PICK l \in Nat, m \in Nat : l = Len(proc[c].inbox) /\ m = Len(down[c])
    BY Counting
  <2>2. Len(proc'[c].inbox) = l + 1
    BY <1>3, <1>4, <1>5, <1>6, <2>1
  <2>3. Len(down'[c]) = m - 1
    BY <2>1, OneFrameLess
  <2>4. Ahead(c) = l + m /\ Ahead(c)' = (l + 1) + (m - 1)
    BY <2>1, <2>2, <2>3, Zenon DEF Ahead
  <2>. QED  BY <2>4
<1>12. /\ Said(c, "hello") <=> Said(c, "hello")'
       /\ Said(c, "register") <=> Said(c, "register")'
       /\ Said(c, "unregister") <=> Said(c, "unregister")'
  BY <1>9 DEF Requests
<1>. QED  BY <1>2, <1>8, <1>10, <1>11, <1>12, StandingIsTidy

-----------------------------------------------------------------------------
(* What the server does.                                                   *)

LEMMA GreetingIsTidy ==
    ASSUME Inv, Inv', NEW c \in Clients, ServerAnswers(c), mishaps'[c] = {},
           up[c] = "hello", ServerGreets(c), Tidy(c), Whereabouts(c)
    PROVE  Tidy(c)'
<1>1. /\ Running(c) /\ ~Returns(c) /\ plan' = plan /\ scn' = scn
      /\ proc' = proc /\ proc[c].waits = "hello" /\ Instr(c).op = "hello"
      /\ \A k \in DOMAIN down[c] : ~Replies(down[c][k])
  BY Requesting
<1>2. /\ proc[c].inbox = <<>> /\ server'[c].subs = server[c].subs
      /\ Told(down'[c]) = Pending(c)
      /\ \E k \in DOMAIN down'[c] : down'[c][k].type = "hello"
  BY GreetingTells
<1>3. /\ \A type \in {"register", "unregister"} : ~Said(c, type)
      /\ \A type \in {"register", "unregister"} : ~Said(c, type)'
      /\ Said(c, "hello")'
  <2>1. \A type \in {"register", "unregister"} : ~Said(c, type)
    BY <1>1, WhatIsSaid DEF Requests
  <2>2. \A type \in {"register", "unregister"} : ~Said(c, type)'
    BY <1>1, SaidInTheEnd DEF Requests
  <2>. QED  BY <1>2, <2>1, <2>2 DEF Said
<1>4. OneAtMost(c) => OneAtMost(c)'
  BY <1>1, <1>2, <1>3 DEF OneAtMost
<1>5. ASSUME plan.kind = "_expect_notifications", InRounds(c)
      PROVE  InRounds(c)'
  <2>1. scn[c].pc = 2
    BY <1>1, <1>5, InItsLoops DEF ExpectNotificationsAt
  <2>2. InFirstLoop(c)'
    BY <1>1, <1>2, <1>3, <1>5, <2>1 DEF InRounds, InFirstLoop
  <2>3. Pending(c) = {}
    <3>1. 2 \in Vacancies["_expect_notifications"]
      BY DEF Vacancies
    <3>. QED  BY <1>5, <2>1, <3>1 DEF Whereabouts, Clears, Vacant
  <2>4. Len(down'[c]) =< 1
    <3>1. down'[c] \in Seq(FrameSet)
      BY PrimedTypes DEF Inv
    <3>2. PICK frames \in Seq(FrameSet) : frames = down'[c]
      BY <3>1
    <3>3. \A k \in DOMAIN frames : Replies(frames[k])
      BY <1>2, <2>3, <3>2 DEF Told
    <3>4. \A k, j \in DOMAIN frames : j = k
      BY <3>2, <3>3 DEF Inv, ClientInv, InTouch
    <3>5. ASSUME Len(frames) > 1 PROVE FALSE
      <4>1. 1 \in DOMAIN frames /\ 2 \in DOMAIN frames
        BY <3>2, <3>5
      <4>. QED  BY <3>4, <4>1
    <3>6. Len(frames) =< 1
      BY <3>5
    <3>. QED  BY <3>2, <3>6
  <2>5. Ahead(c)' =< 1
    <3>1. Len(proc'[c].inbox) = 0
      BY <1>1, <1>2
    <3>2. PICK n \in Nat : n = Len(down'[c])
      BY CountingOn
    <3>3. Ahead(c)' = 0 + n
      BY <3>1, <3>2, Zenon DEF Ahead
    <3>. QED  BY <2>4, <3>2, <3>3
  <2>6. Allowance(c)' = 1
    <3>1. scn'[c].pc < 3
      BY <1>1, <2>1
    <3>. QED  BY <1>3, <3>1 DEF Allowance, Most
  <2>7. scn'[c].pc = 2
    BY <1>1, <2>1
  <2>. QED  BY <2>2, <2>5, <2>6, <2>7 DEF InRounds
<1>. QED  BY <1>1, <1>4, <1>5 DEF Tidy

\* The frame that the server adds.
LEMMA OneFrameMore ==
    ASSUME Inv, NEW c \in Clients, NEW x \in FrameSet,
           down'[c] = Append(down[c], x), proc' = proc
    PROVE  /\ Ahead(c)' = Ahead(c) + 1
           /\ \A type : Said(c, type)' <=> Said(c, type) \/ type = x.type
<1>1. down[c] \in Seq(FrameSet)
  BY Typed
<1>2. PICK frames : frames = Append(down[c], x)
  OBVIOUS
<1>3. Sorts(frames) = Sorts(down[c]) \cup {x.type}
  BY <1>1, <1>2, ToldAppend
<1>4. \A type : Said(c, type)' <=> type \in Sorts(frames)
  BY <1>2 DEF Said, Sorts
<1>5. \A type : Said(c, type) <=> type \in Sorts(down[c])
  BY DEF Said, Sorts
<1>6. PICK l \in Nat, m \in Nat : l = Len(proc[c].inbox) /\ m = Len(down[c])
  BY Counting
<1>7. Len(frames) = m + 1
  BY <1>1, <1>2, <1>6
<1>8. Ahead(c) = l + m /\ Ahead(c)' = l + (m + 1)
  BY <1>2, <1>6, <1>7, Zenon DEF Ahead
<1>9. Ahead(c)' = Ahead(c) + 1
  BY <1>8
<1>. QED  BY <1>3, <1>4, <1>5, <1>9

LEMMA RegisteringIsTidy ==
    ASSUME Inv, Inv', NEW c \in Clients, ServerAnswers(c),
           up[c] = "register", ServerRegisters(c), Tidy(c), Whereabouts(c)
    PROVE  Tidy(c)'
<1>1. /\ Running(c) /\ ~Returns(c) /\ plan' = plan /\ scn' = scn
      /\ proc' = proc /\ post' = post
      /\ proc[c].waits = "register" /\ Instr(c).op = "register"
      /\ \A k \in DOMAIN down[c] : ~Replies(down[c][k])
  BY Requesting
<1>2. PICK chs \in Seq(Nat) : chs = scn[c].channels
  BY Typed DEF ScenarioSet
<1>3. server'[c].subs = server[c].subs \cup {Len(chs) + 1}
  <2>1. server \in [Clients -> AgentSet] /\ server[c] \in AgentSet
    BY Types DEF Inv
  <2>2. PICK subs : subs = server[c].subs \cup {Len(chs) + 1}
    OBVIOUS
  <2>3. server'[c] = [server[c] EXCEPT !.subs = subs]
    BY <1>2, <2>1, <2>2 DEF ServerRegisters
  <2>. QED  BY <2>1, <2>2, <2>3 DEF AgentSet
<1>4. /\ Ahead(c)' = Ahead(c) + 1
      /\ \A type : Said(c, type)' <=> Said(c, type) \/ type = "register"
  <2>1. PICK x : x = Frame("register", NoNotif)
    OBVIOUS
  <2>2. x \in FrameSet /\ x.type = "register"
    BY <2>1, Beginnings DEF Frame, FrameSet, Requests
  <2>3. down \in [Clients -> Seq(FrameSet)]
    BY Types DEF Inv
  <2>4. down'[c] = Append(down[c], x)
    BY <2>1, <2>3 DEF ServerRegisters
  <2>. QED  BY <1>1, <2>2, <2>4, OneFrameMore
<1>5. /\ ~Said(c, "register") /\ ~Said(c, "unregister") /\ ~Said(c, "hello")
      /\ Said(c, "register")' /\ ~Said(c, "unregister")'
      /\ ~Said(c, "hello")'
  BY <1>1, <1>4 DEF Said, Replies
<1>6. ASSUME OneChannel(plan.kind, plan.once), OneAtMost(c)
      PROVE  OneAtMost(c)'
  <2>1. scn[c].pc \in Early[plan.kind]
    BY <1>1, <1>6, TheCarrying DEF Founded, OneChannel
  <2>2. chs = <<>> /\ Len(chs) + 1 = 1
    BY <1>2, <1>6, <2>1 DEF OneAtMost
  <2>3. server'[c].subs \subseteq {1}
    BY <1>3, <1>6, <2>2 DEF OneAtMost
  <2>. QED  BY <1>1, <1>5, <1>6, <2>3 DEF OneAtMost
<1>7. ASSUME plan.kind = "_expect_notifications", InRounds(c)
      PROVE  InRounds(c)'
  <2>1. scn[c].pc = 4
    BY <1>1, <1>7, InItsLoops DEF ExpectNotificationsAt
  <2>2. PICK i, q, a : i = scn[c].i /\ q = Qty /\ a = Ahead(c)
    OBVIOUS
  <2>3. i \in 0..q /\ q \in Nat /\ a \in Nat
    BY <2>2, Counting, Zenon
  <2>4. InFirstLoop(c) /\ Ahead(c) =< Allowance(c)
    BY <1>7, <2>1 DEF InRounds
  <2>5. i > 0 /\ Len(chs) = i - 1 /\ server[c].subs = 1..(i - 1)
    BY <1>2, <1>5, <2>1, <2>2, <2>4 DEF InFirstLoop
  <2>6. server'[c].subs = 1..i
    BY <1>3, <2>3, <2>5
  <2>7. InFirstLoop(c)'
    BY <1>1, <1>2, <1>5, <2>1, <2>2, <2>5, <2>6 DEF InFirstLoop
  <2>8. ~Unposted(c)'
    BY <1>1 DEF Unposted, At, Instr
  <2>9. Allowance(c) = i - 1 /\ Allowance(c)' = i
    BY <1>1, <1>5, <2>1, <2>2, <2>8 DEF Allowance, Most
  <2>10. a =< i - 1
    BY <2>2, <2>4, <2>9
  <2>11. Ahead(c)' = a + 1
    BY <1>4, <2>2
  <2>12. Ahead(c)' =< Allowance(c)'
    BY <2>3, <2>9, <2>10, <2>11
  <2>13. scn'[c].pc = 4
    BY <1>1, <2>1
  <2>. QED  BY <2>7, <2>12, <2>13 DEF InRounds
<1>. QED  BY <1>1, <1>6, <1>7 DEF Tidy

LEMMA UnregisteringIsTidy ==
    ASSUME Inv, Inv', NEW c \in Clients, ServerAnswers(c),
           up[c] = "unregister", ServerUnregisters(c), Tidy(c), Whereabouts(c)
    PROVE  Tidy(c)'
<1>1. /\ Running(c) /\ ~Returns(c) /\ plan' = plan /\ scn' = scn
      /\ proc' = proc
      /\ proc[c].waits = "unregister" /\ Instr(c).op = "unregister"
      /\ \A k \in DOMAIN down[c] : ~Replies(down[c][k])
  BY Requesting
<1>2. PICK chs \in Seq(Nat) : chs = scn[c].channels
  BY Typed DEF ScenarioSet
<1>3. PICK ch : ch = IF Instr(c).arg = "each" THEN chs[scn[c].i]
                     ELSE chs[Len(chs)]
  OBVIOUS
<1>4. /\ Pending(c)' \subseteq Pending(c)
      /\ server'[c].subs = server[c].subs \ {ch}
  BY <1>2, <1>3, Unregistering DEF Whereabouts, Numbered
<1>5. /\ Told(down'[c]) = Told(down[c])
      /\ ~Said(c, "unregister") /\ ~Said(c, "register")
      /\ Said(c, "unregister")' /\ ~Said(c, "register")'
  <2>1. PICK frames : frames = Append(down[c], Frame("unregister", NoNotif))
    OBVIOUS
  <2>2. /\ Told(frames) = Told(down[c])
        /\ Sorts(frames) = Sorts(down[c]) \cup {"unregister"}
    BY <2>1, ReplyingTraces
  <2>3. down \in [Clients -> Seq(FrameSet)]
    BY Types DEF Inv
  <2>4. down'[c] = frames
    BY <2>1, <2>3 DEF ServerUnregisters
  <2>5. \A type : Said(c, type)' <=> type \in Sorts(frames)
    BY <2>4 DEF Said, Sorts
  <2>6. "unregister" \notin Sorts(down[c]) /\ "register" \notin Sorts(down[c])
    BY <1>1 DEF Sorts, Replies
  <2>7. ~Said(c, "unregister") /\ ~Said(c, "register")
    BY <2>6 DEF Said, Sorts
  <2>. QED  BY <2>2, <2>4, <2>5, <2>6, <2>7
<1>6. ASSUME OneChannel(plan.kind, plan.once), OneAtMost(c)
      PROVE  OneAtMost(c)'
  <2>1. Instr(c).arg = "last" /\ scn[c].pc \in Registered[plan.kind]
    BY <1>1, <1>6, TheCarrying DEF Founded, OneChannel
  <2>2. chs # <<>>
    BY <1>1, <1>2, <2>1 DEF Inv, ClientInv, InPlace
  <2>3. Len(chs) = 1
    <3>1. Len(chs) =< 1
      BY <1>2, <1>6 DEF OneAtMost
    <3>2. PICK n \in Nat : n = Len(chs)
      OBVIOUS
    <3>3. n # 0
      BY <2>2, <3>2, EmptySeq
    <3>4. n = 1
      BY <3>1, <3>2, <3>3
    <3>. QED  BY <3>2, <3>4
  <2>4. ch = 1
    <3>1. 1 \in DOMAIN chs
      BY <2>3
    <3>2. chs[1] = 1
      BY <1>2, <3>1 DEF Whereabouts, Aimed
    <3>. QED  BY <1>3, <2>1, <2>3, <3>2
  <2>5. server'[c].subs = {}
    BY <1>4, <1>6, <2>4 DEF OneAtMost
  <2>. QED  BY <1>1, <1>6, <2>5 DEF OneAtMost
<1>7. ASSUME plan.kind = "_expect_notifications", InRounds(c)
      PROVE  InRounds(c)'
  <2>1. scn[c].pc = 13 /\ Instr(c).arg = "each"
    BY <1>1, <1>7, InItsLoops DEF ExpectNotificationsAt
  <2>2. PICK i, q : i = scn[c].i /\ q = Qty
    OBVIOUS
  <2>3. i \in 0..q /\ q \in Nat
    BY <2>2, Counting, Zenon
  <2>4. InThirdLoop(c)
    BY <1>7, <2>1 DEF InRounds
  <2>5. i > 0 /\ Len(chs) = q /\ server[c].subs = i..q
    BY <1>2, <1>5, <2>1, <2>2, <2>4 DEF InThirdLoop
  <2>6. ch = i
    <3>1. i \in DOMAIN chs
      BY <2>3, <2>5
    <3>2. chs[i] = i
      BY <1>2, <3>1 DEF Whereabouts, Aimed
    <3>. QED  BY <1>3, <2>1, <2>2, <3>2
  <2>7. server'[c].subs = (i + 1)..q
    BY <1>4, <2>3, <2>5, <2>6
  <2>8. Vacant(c)'
    BY <1>1, <1>4, <1>5, <2>4 DEF InThirdLoop, Vacant, Afloat
  <2>9. InThirdLoop(c)'
    BY <1>1, <1>2, <1>5, <2>1, <2>2, <2>5, <2>7, <2>8 DEF InThirdLoop
  <2>10. scn'[c].pc = 13
    BY <1>1, <2>1
  <2>. QED  BY <2>9, <2>10 DEF InRounds
<1>. QED  BY <1>1, <1>6, <1>7 DEF Tidy

LEMMA ServerAnswersIsTidy ==
    ASSUME Inv, Inv', NEW c \in Clients, ServerAnswers(c), mishaps'[c] = {},
           Tidy(c), Whereabouts(c)
    PROVE  Tidy(c)'
BY GreetingIsTidy, RegisteringIsTidy, UnregisteringIsTidy DEF ServerAnswers

LEMMA PostTakenIsTidy ==
    ASSUME Inv, Inv', NEW c \in Clients, PostTaken(c), Tidy(c), Whereabouts(c)
    PROVE  Tidy(c)'
<1>1. /\ Running(c) /\ proc[c].waits = "send" /\ post[c].code = "none"
      /\ ~Returns(c) /\ Instr(c).op = "send"
      /\ plan' = plan /\ scn' = scn /\ proc' = proc
  BY Waiting DEF PostTaken, Awaits, Shared
<1>2. post'[c].code # "none"
  <2>1. PICK code : code = Code(c)
    OBVIOUS
  <2>2. post \in [Clients -> PostSet] /\ post[c] \in PostSet
    BY Types DEF Inv
  <2>3. post'[c] = [post[c] EXCEPT !.code = code]
    BY <2>1, <2>2 DEF PostTaken
  <2>4. code # "none"
    BY <2>1 DEF Code
  <2>. QED  BY <2>2, <2>3, <2>4 DEF PostSet
<1>3. Unposted(c) /\ ~Unposted(c)'
  BY <1>1, <1>2 DEF Unposted, At, Instr
<1>4. \A type \in Requests : ~Said(c, type) /\ ~Said(c, type)'
  BY <1>1, WhatIsSaid, SaidInTheEnd DEF Requests
<1>5. /\ server'[c].subs = server[c].subs
      /\ \/ Ahead(c)' = Ahead(c)
         \/ Ahead(c)' = Ahead(c) + 1
  <2>1. CASE Code(c) # "201"
    <3>1. server' = server /\ down' = down
      BY <2>1 DEF PostTaken
    <3>. QED  BY <1>1, <3>1, Zenon DEF Ahead
  <2>2. CASE Code(c) = "201"
    <3>1. PICK n \in Notifs :
              /\ server'[c].subs = server[c].subs
              /\ server[c].online =>
                    down'[c] = Append(down[c], Frame("notification", n))
              /\ ~server[c].online => down'[c] = down[c]
      BY <2>2, Created201 DEF Whereabouts
    <3>2. CASE server[c].online
      <4>1. PICK x : x = Frame("notification", n)
        OBVIOUS
      <4>2. x \in FrameSet
        BY <4>1 DEF Frame, FrameSet
      <4>. QED  BY <1>1, <3>1, <3>2, <4>1, <4>2, OneFrameMore
    <3>3. CASE ~server[c].online
      BY <1>1, <3>1, <3>3, Zenon DEF Ahead
    <3>. QED  BY <3>2, <3>3
  <2>. QED  BY <2>1, <2>2
<1>6. OneAtMost(c) => OneAtMost(c)'
  BY <1>1, <1>4, <1>5 DEF OneAtMost, Requests
<1>7. ASSUME plan.kind = "_expect_notifications", InRounds(c)
      PROVE  InRounds(c)'
  <2>1. scn[c].pc = 5
    BY <1>1, <1>7, InItsLoops DEF ExpectNotificationsAt
  <2>2. PICK i, a, b : i = scn[c].i /\ a = Ahead(c) /\ b = Ahead(c)'
    OBVIOUS
  <2>3. i \in Nat /\ a \in Nat /\ b \in Nat
    <3>1. i \in 0..Qty /\ Qty \in Nat /\ a \in Nat
      BY <2>2, Counting, Zenon
    <3>2. b \in Nat
      BY <2>2, CountingOn, Zenon
    <3>. QED  BY <3>1, <3>2
  <2>4. InFirstLoop(c) /\ Ahead(c) =< Allowance(c)
    BY <1>7, <2>1 DEF InRounds
  <2>5. InFirstLoop(c)'
    BY <1>1, <1>5, <2>1, <2>4 DEF InFirstLoop
  <2>6. Allowance(c) = i - 1 /\ Allowance(c)' = i
    BY <1>1, <1>3, <2>1, <2>2 DEF Allowance, Most
  <2>7. a =< i - 1
    BY <2>2, <2>4, <2>6
  <2>8. b = a \/ b = a + 1
    BY <1>5, <2>2
  <2>9. b =< i
    BY <2>3, <2>7, <2>8
  <2>10. Ahead(c)' =< Allowance(c)'
    BY <2>2, <2>6, <2>9
  <2>11. scn'[c].pc = 5
    BY <1>1, <2>1
  <2>. QED  BY <2>5, <2>10, <2>11 DEF InRounds
<1>. QED  BY <1>1, <1>6, <1>7 DEF Tidy

-----------------------------------------------------------------------------
(* How a scenario that nothing went wrong for leaves the server.           *)

LEMMA VacantIsEmpty ==
    ASSUME Inv, NEW c \in Clients, Vacant(c)
    PROVE  server[c].pending = <<>>
<1>1. server[c].pending \in Seq(Notifs)
  BY Typed DEF AgentSet
<1>. QED  BY <1>1, NothingIn DEF Vacant, Pending

LEMMA ReturnIsTidy ==
    ASSUME Inv, NEW c \in Clients, Return(c), Tidy(c), Whereabouts(c),
           plan.kind # "notification_forever_bad_tokens"
    PROVE  server'[c].pending = <<>> /\ server'[c].subs = {}
<1>1. /\ Running(c) /\ Returns(c) /\ server' = server
      /\ proc[c].waits = "nothing"
  BY DEF Return, Turn, Outside
<1>2. scn[c].pc = Len(Script[plan.kind]) + 1
  <2>1. scn[c].pc \in Places(plan.kind)
    BY DEF Inv, ClientInv, InPlace
  <2>2. scn[c].pc > Len(Script[plan.kind])
    BY <1>1 DEF Returns
  <2>. QED  BY <2>1, <2>2, ThePlan, ScriptsAreSequences DEF Places
<1>3. Ends(plan.kind, plan.once)
  BY ThePlan, ScriptsCarryWhatIsOnItsWay DEF ScriptsCarry
<1>4. ~Said(c, "register")
  BY <1>1, WhatIsSaid DEF Requests
<1>5. CASE plan.kind = "_expect_notifications"
  <2>1. scn[c].pc = 16
    BY <1>2, <1>5 DEF Script, ExpectNotifications
  <2>2. InThirdLoop(c)
    BY <1>5, <2>1 DEF Tidy, InRounds
  <2>. QED  BY <1>1, <2>1, <2>2, VacantIsEmpty DEF InThirdLoop
<1>6. CASE OneChannel(plan.kind, plan.once)
  <2>1. plan.kind # "_expect_notifications"
    BY <1>6 DEF OneChannel
  <2>2. scn[c].pc \in Vacancies[plan.kind] /\ scn[c].pc \in Bare[plan.kind]
    BY <1>2, <1>3, <1>6, <2>1 DEF Ends
  <2>3. Vacant(c)
    BY <2>2 DEF Whereabouts, Clears
  <2>4. server[c].subs = {}
    BY <1>4, <1>6, <2>2 DEF Tidy, OneAtMost
  <2>. QED  BY <1>1, <2>3, <2>4, VacantIsEmpty
<1>7. CASE plan.kind = "register_forever" /\ ~plan.once
  <2>1. Len(Script["register_forever"]) = 7
    BY DEF Script, RegisterForever
  <2>2. scn[c].pc = 8
    BY <1>2, <1>7, <2>1
  <2>3. 8 \in Unreached("register_forever", plan.once)
    BY <1>7 DEF Unreached
  <2>. QED  BY <1>7, <2>2, <2>3 DEF Inv, ClientInv, InPlace
<1>. QED  BY <1>5, <1>6, <1>7 DEF OneChannel

\* What fails does not return.
LEMMA FailingDoesNotReturn ==
    ASSUME Inv, NEW c \in Clients, Fails(c), Present(c), Whereabouts(c)
    PROVE  scn'[c].status # "returned"
<1>1. /\ Running(c) /\ ~Returns(c)
      /\ Instr(c).op \in {"created", "same_uaid", "needed", "data", "ack"}
  BY DEF Fails, RunCheck, RunAck, Runs, Turn
<1>2. Instr(c).op # "same_uaid"
  BY FailingIsUnauthorised
<1>3. Instr(c).try => Instr(c).op \in {"connect", "hello", "same_uaid"}
  BY <1>1, TheCarrying DEF Founded
<1>. QED  BY <1>1, <1>2, <1>3, FailingKeeps

LEMMA StepsAreTidy ==
    ASSUME Inv, Inv', NEW c \in Clients, ClientTrace(c), ClientTrace(c)',
           ClientPresent(c), ClientTidy(c),
           Scenario(c) \/ Answer(c) \/ Server(c) \/ Drops(c)
    PROVE  ClientTidy(c)'
<1>1. Alone(c)
  BY ScenarioAlone, AnswerAlone, ServerAlone
<1>2. SUFFICES ASSUME mishaps'[c] = {}
               PROVE  /\ Running(c)' => Tidy(c)'
                      /\ scn'[c].status = "returned" =>
                            \/ plan'.kind = "notification_forever_bad_tokens"
                            \/ /\ server'[c].pending = <<>>
                               /\ server'[c].subs = {}
  BY DEF ClientTidy
<1>3. /\ Running(c) /\ mishaps[c] = {} /\ Present(c) /\ Whereabouts(c)
      /\ Tidy(c) /\ plan' = plan
  BY <1>1, <1>2 DEF Alone, ClientPresent, ClientTrace, Traced, ClientTidy
<1>4. ~Drops(c) /\ ~PostFails(c)
  BY <1>2, Noted
<1>5. ASSUME Running(c)' PROVE Tidy(c)'
  <2>1. Whereabouts(c)'
    BY <1>2, <1>5 DEF ClientTrace, Traced
  <2>2. Carried(c) => Tidy(c)'
    BY <1>3, <1>5, <2>1, CarriedIsTidy
  <2>3. CASE Scenario(c)
    <3>1. ~Return(c)
      <4>1. ASSUME Return(c) PROVE FALSE
        BY <1>5, <4>1, Domains DEF Return, Running
      <4>. QED  BY <4>1
    <3>2. CASE RunConnect(c) \/ RunDisconnect(c) \/ RunRequest(c) \/ RunWait(c)
      BY <1>2, <1>3, <3>2, AskedIsTidy
    <3>3. CASE RunSendNotification(c) \/ RunExpect(c)
      BY <1>3, <1>5, <2>1, <3>3, RunSendNotificationIsTidy, RunExpectIsTidy
    <3>4. CASE RunAck(c) \/ RunAckIds(c) \/ RunCollect(c) \/ RunBranch(c)
      BY <1>2, <1>3, <1>5, <2>2, <3>4, RunAckCarries, AckingIds,
         RunAckIdsCarries, RunCollectCarries, RunBranchCarries
    <3>5. CASE RunTimer(c) \/ RunCounter(c) \/ RunCheck(c)
      BY <1>2, <1>5, <2>2, <3>5, RestCarries
    <3>. QED  BY <2>3, <3>1, <3>2, <3>3, <3>4, <3>5 DEF Scenario
  <2>4. CASE Answer(c)
    <3>1. CASE Opens(c) \/ WaitEnds(c) \/ PostAnswered(c)
      BY <2>2, <3>1, WaitedCarries, PostAnsweredCarries
    <3>2. CASE Closes(c) \/ TimesOut(c)
      BY <1>3, <2>2, <3>2, ClosesCarries, TimesOutCarries
    <3>3. CASE Arrives(c)
      BY <1>3, <2>2, <3>3, ExpectedCarries, OtherArrivesIsTidy, ReplyCarries
    <3>. QED  BY <1>4, <2>4, <3>1, <3>2, <3>3 DEF Answer
  <2>5. CASE Server(c)
    BY <1>2, <1>3, <2>5, ServerAnswersIsTidy, PostTakenIsTidy DEF Server
  <2>. QED  BY <1>4, <2>3, <2>4, <2>5
<1>6. ASSUME scn'[c].status = "returned"
      PROVE  \/ plan.kind = "notification_forever_bad_tokens"
             \/ server'[c].pending = <<>> /\ server'[c].subs = {}
  <2>1. ~Running(c)'
    BY <1>6 DEF Running
  <2>2. ~Fails(c)
    BY <1>3, <1>6, FailingDoesNotReturn
  <2>3. Return(c)
    BY <1>2, <1>4, <2>1, <2>2, ScenariosGoOn, OthersGoOn
  <2>. QED  BY <1>3, <2>3, ReturnIsTidy
<1>. QED  BY <1>3, <1>5, <1>6

LEMMA StayingTidy ==
    ASSUME NEW d \in Clients, ClientTidy(d), Stays(d), plan' = plan
    PROVE  ClientTidy(d)'
<1>1. /\ Running(d)' = Running(d) /\ Instr(d)' = Instr(d)
      /\ Returns(d)' = Returns(d) /\ \A op : At(d, op)' = At(d, op)
      /\ Afloat(d)' = Afloat(d) /\ Pending(d)' = Pending(d)
      /\ \A type : Said(d, type)' <=> Said(d, type)
  BY DEF Stays, Running, Instr, Returns, At, Afloat, Pending, Said
<1>2. /\ Unposted(d)' <=> Unposted(d)
      /\ Vacant(d)' <=> Vacant(d)
      /\ Ahead(d)' = Ahead(d)
  BY <1>1 DEF Stays, Unposted, Vacant, Ahead
<1>3. OneAtMost(d) => OneAtMost(d)'
  BY <1>1 DEF Stays, OneAtMost
<1>4. InRounds(d) => InRounds(d)'
  <2>1. Allowance(d)' = Allowance(d)
    BY <1>1, <1>2 DEF Stays, Allowance, Most
  <2>2. InFirstLoop(d) => InFirstLoop(d)'
    BY <1>1 DEF Stays, InFirstLoop
  <2>3. InSecondLoop(d) => InSecondLoop(d)'
    BY <1>1 DEF Stays, InSecondLoop
  <2>4. InThirdLoop(d) => InThirdLoop(d)'
    BY <1>1, <1>2 DEF Stays, InThirdLoop
  <2>. QED  BY <1>2, <2>1, <2>2, <2>3, <2>4 DEF Stays, InRounds
<1>5. Tidy(d) => Tidy(d)'
  BY <1>3, <1>4 DEF Tidy
<1>. QED  BY <1>1, <1>5 DEF ClientTidy, Stays

LEMMA NextIsTidy ==
    ASSUME Inv, Inv', TraceInv, TraceInv', PresentInv, TidyInv, [Next]_vars
    PROVE  TidyInv'
<1>1. ASSUME NEW c \in Clients,
             Scenario(c) \/ Answer(c) \/ Server(c) \/ Drops(c)
      PROVE  TidyInv'
  <2>1. Alone(c)
    BY <1>1, ScenarioAlone, AnswerAlone, ServerAlone
  <2>2. ASSUME NEW d \in Clients PROVE ClientTidy(d)'
    <3>1. CASE d = c
      BY <1>1, <3>1, StepsAreTidy DEF TidyInv, PresentInv, TraceInv
    <3>2. CASE d # c  BY <2>1, <3>2, StayingTidy DEF TidyInv, Alone
    <3>. QED  BY <3>1, <3>2
  <2>. QED  BY <2>2 DEF TidyInv
<1>2. CASE DayPasses \/ Rest \/ UNCHANGED vars
  <2>1. /\ plan' = plan /\ scn' = scn /\ proc' = proc /\ server' = server
        /\ up' = up /\ down' = down /\ post' = post /\ mishaps' = mishaps
        /\ tally' = tally
    BY <1>2 DEF DayPasses, Rest, vars, Outside, network
  <2>2. ASSUME NEW d \in Clients PROVE ClientTidy(d)'
    BY <2>1, StayingTidy DEF TidyInv, Stays
  <2>. QED  BY <2>2 DEF TidyInv
<1>. QED  BY <1>1, <1>2 DEF Next

LEMMA InitIsTidy ==
    ASSUME Init
    PROVE  TidyInv
<1>1. Inv
  BY InitKeeps
<1>2. ASSUME NEW c \in Clients PROVE ClientTidy(c)
  <2>1. /\ scn[c].pc = 1 /\ scn[c].channels = <<>> /\ scn[c].i = 0
        /\ scn[c].status # "returned"
    BY <1>2 DEF Init, Fresh
  <2>2. proc[c].inbox = <<>> /\ down[c] = <<>> /\ server[c].subs = {}
    BY <1>2 DEF Init, Idle, UserAgent
  <2>3. \A type : ~Said(c, type)
    BY <2>2 DEF Said
  <2>4. Len(scn[c].channels) = 0 /\ Len(proc[c].inbox) = 0 /\ Len(down[c]) = 0
    BY <2>1, <2>2
  <2>5. OneAtMost(c)
    BY <2>1, <2>2, <2>3, <2>4 DEF OneAtMost
  <2>6. InFirstLoop(c)
    BY <2>1, <2>2, <2>3, <2>4 DEF InFirstLoop
  <2>7. Ahead(c) = 0
    <3>1. Ahead(c) = 0 + 0
      BY <2>4, Zenon DEF Ahead
    <3>. QED  BY <3>1
  <2>8. Allowance(c) = 0
    BY <2>1, <2>3 DEF Allowance, Most
  <2>9. InRounds(c)
    BY <2>1, <2>6, <2>7, <2>8 DEF InRounds
  <2>. QED  BY <2>1, <2>5, <2>9 DEF ClientTidy, Tidy
<1>. QED  BY <1>2 DEF TidyInv

\* As long as nothing goes wrong for a scenario, the server has its channel, or
\* those of _expect_notifications, between their registration and their
\* unregistration, and no frame is on its way that the scenario does not take.
THEOREM ScenariosTidyUp == Spec => []TidyInv
<1>1. Init => TidyInv
  BY InitIsTidy
<1>2. Inv /\ Inv' /\ TraceInv /\ TraceInv' /\ PresentInv /\ TidyInv
         /\ [Next]_vars => TidyInv'
  BY NextIsTidy
<1>. QED
  BY <1>1, <1>2, ScenariosKeepInStep, NotificationsAreTraced,
     WhatIsSentIsPresent, PTL DEF Spec

\* A scenario leaves the server as it found it, for any number of clients,
\* origins, rounds and days: unless something went wrong, nothing is pending
\* when it unregisters a channel, and when it ends it has no channel there (but
\* the one of notification_forever_bad_tokens) and nothing pending.
THEOREM NothingIsEverLeftBehind == Spec => []NothingIsLeftBehind
<1>1. Inv /\ TraceInv /\ TidyInv => NothingIsLeftBehind
  <2>1. SUFFICES ASSUME Inv, TraceInv, TidyInv, NEW c \in Clients,
                        mishaps[c] = {}
                 PROVE  /\ up[c] = "unregister" => server[c].pending = <<>>
                        /\ scn[c].status = "returned" =>
                              \/ plan.kind = "notification_forever_bad_tokens"
                              \/ /\ server[c].pending = <<>>
                                 /\ server[c].subs = {}
    BY DEF NothingIsLeftBehind
  <2>2. ASSUME up[c] = "unregister" PROVE server[c].pending = <<>>
    <3>1. proc[c].waits = "unregister" /\ Running(c)
      BY <2>1, <2>2 DEF Inv, ClientInv, InTouch, InPlace
    <3>2. ~Returns(c) /\ Instr(c).op = "unregister"
      BY <2>1, <3>1, Waiting
    <3>3. Whereabouts(c) /\ Tidy(c)
      BY <2>1, <3>1 DEF TraceInv, ClientTrace, Traced, TidyInv, ClientTidy
    <3>4. Vacant(c)
      <4>1. CASE plan.kind = "_expect_notifications"
        <5>1. scn[c].pc = 13
          BY <2>1, <3>1, <3>2, <4>1, InItsLoops DEF ExpectNotificationsAt
        <5>. QED  BY <3>3, <4>1, <5>1 DEF Tidy, InRounds, InThirdLoop
      <4>2. CASE plan.kind # "_expect_notifications"
        <5>1. scn[c].pc \in Vacancies[plan.kind]
          BY <2>1, <3>1, <3>2, <4>2, TheCarrying DEF Founded
        <5>. QED  BY <3>3, <5>1 DEF Whereabouts, Clears
      <4>. QED  BY <4>1, <4>2
    <3>. QED  BY <2>1, <3>4, VacantIsEmpty
  <2>. QED  BY <2>1, <2>2 DEF TidyInv, ClientTidy
<1>. QED
  BY <1>1, ScenariosKeepInStep, NotificationsAreTraced, ScenariosTidyUp, PTL
=============================================================================
