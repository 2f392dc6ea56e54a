-------------------------- MODULE ScenariosProofs --------------------------
(***************************************************************************)
(* The scenarios, their processors and the push server keep in step.  The  *)
(* invariant says, of each scenario, what ScriptsProofs.tla tabulates of   *)
(* its place, which request or reply is on its way, that what the server   *)
(* holds and sends are notifications, how far its counters are from the    *)
(* truth, and with which claims its POSTs are signed.  From it follow      *)
(* NothingIsRefused, MetricsAreTrue and OnlySharedClaimsExpire.            *)
(***************************************************************************)
EXTENDS ScriptsProofs, SubsequencesProofs

-----------------------------------------------------------------------------
(* The types, named part by part. *)

Payloads == {"none", "first", "first_topic", "second_topic", "any", "bad_token"}
Notifs == [id : Nat, channel : Nat, data : Payloads]
ClaimsSet == [aud : Origins \cup {None}, exp : Nat]
ScenarioSet ==
    [status : {"unborn", "running", "returned", "raised"}, pc : Nat,
     channels : Seq(Nat), notif : Notifs, ids : Seq(Nat),
     same : BOOLEAN, response : {"none", "201", "401", "404", "failed"},
     i : 0..Qty, cycle : Nat]
ProcessorSet ==
    [waits : {"nothing", "connect", "disconnect", "send", "expect",
              "wait"} \cup Requests,
     connected : BOOLEAN, inbox : Seq(Notifs), timing : BOOLEAN, tries : Nat]
AgentSet ==
    [origin : Origins, subs : SUBSET Nat, pending : Seq(Notifs),
     online : BOOLEAN, last : Nat]
FrameSet == [type : Requests \cup {"stranger", "notification"}, notif : Notifs]
PostSet == [channel : Nat, data : Payloads, signed : ClaimsSet,
            code : {"none", "201", "401", "404"}]
TallySet == [sent : Nat, received : Nat, posted : Nat, seen : Seq(Nat)]

LEMMA Types ==
    TypeOK <=>
        /\ plan \in Plans
        /\ claims \in ClaimsSet
        /\ day \in 1..Days
        /\ scn \in [Clients -> ScenarioSet]
        /\ proc \in [Clients -> ProcessorSet]
        /\ server \in [Clients -> AgentSet]
        /\ up \in [Clients -> Requests \cup {"none"}]
        /\ down \in [Clients -> Seq(FrameSet)]
        /\ post \in [Clients -> PostSet]
        /\ mishaps \in [Clients -> SUBSET (FaultKinds \cup {"refused"})]
        /\ tally \in [Clients -> TallySet]
BY DEF TypeOK, Payloads, Notifs, ClaimsSet, ScenarioSet, ProcessorSet, AgentSet,
       FrameSet, PostSet, TallySet

LEMMA PrimedTypes ==
    TypeOK' <=>
        /\ plan' \in Plans
        /\ claims' \in ClaimsSet
        /\ day' \in 1..Days
        /\ scn' \in [Clients -> ScenarioSet]
        /\ proc' \in [Clients -> ProcessorSet]
        /\ server' \in [Clients -> AgentSet]
        /\ up' \in [Clients -> Requests \cup {"none"}]
        /\ down' \in [Clients -> Seq(FrameSet)]
        /\ post' \in [Clients -> PostSet]
        /\ mishaps' \in [Clients -> SUBSET (FaultKinds \cup {"refused"})]
        /\ tally' \in [Clients -> TallySet]
BY DEF TypeOK, Payloads, Notifs, ClaimsSet, ScenarioSet, ProcessorSet,
       AgentSet, FrameSet, PostSet, TallySet

-----------------------------------------------------------------------------
(* The invariant, of each scenario, its processor and its server. *)

\* A scenario is where its script can get, and waits as its instruction says.
InPlace(c) ==
    /\ scn[c].pc \in Places(plan.kind) \ Unreached(plan.kind, plan.once)
    /\ Running(c) =>
          /\ c \in plan.clients
          /\ proc[c].waits # "nothing" =>
                ~Returns(c) /\ Instr(c).op = proc[c].waits
          /\ scn[c].pc \in Registered[plan.kind] => scn[c].channels # <<>>
    /\ ~Running(c) => proc[c].waits = "nothing"

\* A request or its reply is on its way as long as its scenario waits for it,
\* and one at a time.
Replies(frame) == frame.type # "notification"
Request(type) == IF type = "stranger" THEN "hello" ELSE type
InTouch(c) ==
    /\ up[c] # "none" =>
          /\ proc[c].waits = up[c]
          /\ \A k \in DOMAIN down[c] : ~Replies(down[c][k])
    /\ \A k \in DOMAIN down[c] :
          Replies(down[c][k]) =>
              /\ proc[c].waits = Request(down[c][k].type)
              /\ \A j \in DOMAIN down[c] : j # k => ~Replies(down[c][j])

\* It is connected, and times, where the tables say.
InStep(c) ==
    Running(c) =>
        /\ proc[c].connected <=> scn[c].pc \in Linked[plan.kind]
        /\ proc[c].timing <=> scn[c].pc \in Timed[plan.kind]

\* The server and the processor hold notifications, not None.
Real(n) == n.id # 0
HoldsReal(c) ==
    /\ \A n \in Elements(server[c].pending) : Real(n)
    /\ \A n \in Elements(proc[c].inbox) : Real(n)
    /\ \A k \in DOMAIN down[c] : ~Replies(down[c][k]) => Real(down[c][k].notif)

\* How many notifications a scenario was given and has yet to count, how many
\* it counted that were None, and how many POSTs it has yet to count.
Unread(c) ==
    IF scn[c].pc \in Given[plan.kind] /\ scn[c].notif # NoNotif THEN 1 ELSE 0
Phantom(c) ==
    IF scn[c].pc \in Overcounted[plan.kind] /\ scn[c].notif = NoNotif THEN 1 ELSE 0
Unsent(c) == IF scn[c].pc \in Uncounted[plan.kind] THEN 1 ELSE 0

\* But for these, its counters are right.
InBalance(c) ==
    /\ scn[c].status \in {"running", "returned"} =>
          /\ plan.kind \in CountSent =>
                tally[c].posted = tally[c].sent + Unsent(c)
          /\ plan.kind \notin CountSent => tally[c].sent = 0
          /\ plan.kind \in CountReceived =>
                tally[c].received + Unread(c) = Len(tally[c].seen) + Phantom(c)
          /\ plan.kind \notin CountReceived => tally[c].received = 0
    /\ scn[c].status = "returned" => Even(plan.kind, scn[c].pc)

\* The claims of the harness are filled in, once and for all.
Settled == plan.claims = "dict" /\ claims.aud # None /\ claims.exp # 0
Unfit(c) == claims.aud # server[c].origin \/ day > claims.exp

\* A POST is signed with claims that are good for it, or with the harness's.
Signs(c) ==
    LET signed == post[c].signed IN
    /\ plan.claims = "none" => signed = NoClaims
    /\ plan.claims = "text" =>
          signed.aud = server[c].origin /\ day =< signed.exp
    /\ plan.claims = "dict" => Settled /\ signed = claims
InForce(c) ==
    /\ proc[c].waits = "send" =>
          /\ post[c].code = "none" => Signs(c)
          /\ post[c].code = "401" => Settled /\ Unfit(c)
    /\ scn[c].response = "401" => Settled /\ Unfit(c)

Obeys(c) == "refused" \in mishaps[c] => plan.kind = "_explode"

ClientInv(c) ==
    /\ InPlace(c)
    /\ InTouch(c)
    /\ InStep(c)
    /\ HoldsReal(c)
    /\ InBalance(c)
    /\ InForce(c)
    /\ Obeys(c)

Inv ==
    /\ TypeOK
    /\ plan.claims # "dict" => claims = NoClaims
    /\ \A c \in Clients : ClientInv(c)

-----------------------------------------------------------------------------
(* What the invariant says of a scenario at an instruction. *)

LEMMA ThePlan ==
    ASSUME Inv
    PROVE  /\ plan.kind \in DOMAIN Script
           /\ plan.once \in BOOLEAN
           /\ plan.claims \in {"none", "dict", "text"}
           /\ plan.clients \subseteq Clients
           /\ ~(plan.kind = "connect_and_idle_forever" /\ plan.once)
<1>1. plan \in Plans
  BY Types DEF Inv
<1>2. plan \in Plan
  BY <1>1, ConstantsFit
<1>3. plan.kind = "connect_and_idle_forever" => ~plan.once
  BY <1>1, ConstantsFit
<1>. QED  BY <1>2, <1>3 DEF Plan

\* The instruction fits its place.
LEMMA TheInstruction ==
    ASSUME Inv, NEW c \in Clients, Running(c), ~Returns(c)
    PROVE  /\ Allowed(plan.kind, Instr(c), scn[c].pc)
           /\ Balanced(plan.kind, Instr(c), scn[c].pc)
           /\ GoesOn(Instr(c), plan.once) =>
                 /\ scn[c].pc + 1 \in Places(plan.kind)
                                      \ Unreached(plan.kind, plan.once)
                 /\ Joined(plan.kind, Instr(c), scn[c].pc, scn[c].pc + 1)
           /\ Branches(Instr(c), plan.once) =>
                 /\ Instr(c).arg \in Places(plan.kind)
                                     \ Unreached(plan.kind, plan.once)
                 /\ Joined(plan.kind, Instr(c), scn[c].pc, Instr(c).arg)
<1>1. scn[c].pc \in Places(plan.kind) \ Unreached(plan.kind, plan.once)
  BY DEF Inv, ClientInv, InPlace
<1>2. ~(scn[c].pc > Len(Script[plan.kind]))
  BY DEF Returns
<1>3. scn[c].pc \in 1..Len(Script[plan.kind])
  BY <1>1, <1>2, ThePlan, ScriptsAreSequences DEF Places
<1>4. Fits(plan.kind, plan.once, scn[c].pc)
  BY <1>1, <1>3, ThePlan, ScriptsFitTheTables DEF ScriptsFit
<1>. QED  BY <1>4 DEF Fits, Follows, Instr

\* A step of one scenario leaves the others as they are.
Stays(d) ==
    /\ scn'[d] = scn[d] /\ proc'[d] = proc[d] /\ server'[d] = server[d]
    /\ up'[d] = up[d] /\ down'[d] = down[d] /\ post'[d] = post[d]
    /\ mishaps'[d] = mishaps[d] /\ tally'[d] = tally[d]

LEMMA StayingKeeps ==
    ASSUME Inv, NEW d \in Clients, Stays(d), plan' = plan, day' = day,
           Settled => claims' = claims
    PROVE  ClientInv(d)'
<1>1. ClientInv(d)
  BY DEF Inv
<1>2. InPlace(d)'
  BY <1>1 DEF ClientInv, InPlace, Stays, Running, Returns, Instr
<1>3. InTouch(d)'
  BY <1>1 DEF ClientInv, InTouch, Stays
<1>4. InStep(d)'
  BY <1>1 DEF ClientInv, InStep, Stays, Running
<1>5. HoldsReal(d)'
  BY <1>1 DEF ClientInv, HoldsReal, Stays
<1>6. InBalance(d)'
  BY <1>1 DEF ClientInv, InBalance, Stays, Unread, Phantom, Unsent
<1>7. InForce(d)'
  BY <1>1 DEF ClientInv, InForce, Stays, Settled, Unfit, Signs
<1>8. Obeys(d)'
  BY <1>1 DEF ClientInv, Obeys, Stays
<1>. QED  BY <1>2, <1>3, <1>4, <1>5, <1>6, <1>7, <1>8 DEF ClientInv

LEMMA TheOthersStay ==
    ASSUME Inv, NEW c \in Clients, ClientInv(c)', TypeOK',
           \A d \in Clients \ {c} : Stays(d),
           plan' = plan, day' = day,
           Settled => claims' = claims,
           plan.claims # "dict" => claims' = claims
    PROVE  Inv'
<1>1. ASSUME NEW d \in Clients PROVE ClientInv(d)'
  <2>1. CASE d = c
    BY <2>1
  <2>2. CASE d # c
    BY <2>2, StayingKeeps
  <2>. QED  BY <2>1, <2>2
<1>2. (plan.claims # "dict" => claims = NoClaims)'
  BY DEF Inv
<1>. QED  BY <1>1, <1>2 DEF Inv

-----------------------------------------------------------------------------
(* How a scenario goes on. *)

LEMMA Typed ==
    ASSUME Inv, NEW c \in Clients
    PROVE  /\ scn[c] \in ScenarioSet /\ proc[c] \in ProcessorSet
           /\ server[c] \in AgentSet /\ up[c] \in Requests \cup {"none"}
           /\ down[c] \in Seq(FrameSet) /\ post[c] \in PostSet
           /\ tally[c] \in TallySet
           /\ mishaps[c] \in SUBSET (FaultKinds \cup {"refused"})
BY Types DEF Inv

LEMMA Beginnings == NoNotif \in Notifs /\ Fresh \in ScenarioSet /\ Idle \in ProcessorSet
<1>1. NoNotif \in Notifs
  BY DEF NoNotif, Notification, Notifs, Payloads
<1>2. Fresh \in ScenarioSet
  BY <1>1, ConstantsFit DEF Fresh, ScenarioSet
<1>3. Idle \in ProcessorSet
  BY DEF Idle, ProcessorSet
<1>. QED  BY <1>1, <1>2, <1>3

LEMMA Moving ==
    ASSUME Inv, NEW c \in Clients, Running(c), ~Returns(c),
           NEW s \in ScenarioSet, s.status = "running",
           NEW l \in Places(plan.kind) \ Unreached(plan.kind, plan.once),
           Joined(plan.kind, Instr(c), scn[c].pc, l),
           plan' = plan, scn' = [scn EXCEPT ![c] = GoTo(s, l)],
           proc'[c].waits = "nothing",
           \/ s.channels = scn[c].channels /\ Instr(c).op # "register"
           \/ s.channels # <<>>
    PROVE  /\ scn' \in [Clients -> ScenarioSet]
           /\ \A d \in Clients \ {c} : scn'[d] = scn[d]
           /\ scn'[c].status = "running" /\ scn'[c].pc = l
           /\ scn'[c].notif = s.notif /\ scn'[c].response = s.response
           /\ InPlace(c)'
<1>1. l \in Nat
  BY ThePlan, ScriptsAreSequences DEF Places
<1>2. scn \in [Clients -> ScenarioSet]
  BY Types DEF Inv
<1>3. PICK t : t = GoTo(s, l)
  OBVIOUS
<1>4. /\ t \in ScenarioSet /\ t.status = "running" /\ t.pc = l
      /\ t.channels = s.channels /\ t.notif = s.notif
      /\ t.response = s.response
  BY <1>1, <1>3 DEF ScenarioSet, GoTo
<1>5. scn'[c] = t /\ \A d \in Clients \ {c} : scn'[d] = scn[d]
  BY <1>2, <1>3
<1>6. scn' \in [Clients -> ScenarioSet]
  BY <1>2, <1>3, <1>4
<1>7. InPlace(c)'
  <2>1. c \in plan.clients /\
        (scn[c].pc \in Registered[plan.kind] => scn[c].channels # <<>>)
    BY DEF Inv, ClientInv, InPlace
  <2>2. l \in Registered[plan.kind] => t.channels # <<>>
    BY <2>1, <1>4 DEF Joined
  <2>. QED  BY <2>1, <2>2, <1>4, <1>5 DEF InPlace, Running
<1>. QED  BY <1>4, <1>5, <1>6, <1>7

LEMMA GoingOn ==
    ASSUME Inv, NEW c \in Clients, Running(c), ~Returns(c),
           NEW s \in ScenarioSet, s.status = "running", s.pc = scn[c].pc,
           GoesOn(Instr(c), plan.once), plan' = plan, Continue(c, s),
           proc'[c].waits = "nothing",
           \/ s.channels = scn[c].channels /\ Instr(c).op # "register"
           \/ s.channels # <<>>
    PROVE  /\ scn' \in [Clients -> ScenarioSet]
           /\ \A d \in Clients \ {c} : scn'[d] = scn[d]
           /\ Joined(plan.kind, Instr(c), scn[c].pc, scn'[c].pc)
           /\ scn'[c].status = "running"
           /\ scn'[c].notif = s.notif /\ scn'[c].response = s.response
           /\ InPlace(c)'
<1>1. PICK l : l = scn[c].pc + 1
  OBVIOUS
<1>2. /\ l \in Places(plan.kind) \ Unreached(plan.kind, plan.once)
      /\ Joined(plan.kind, Instr(c), scn[c].pc, l)
  BY <1>1, TheInstruction
<1>3. scn' = [scn EXCEPT ![c] = GoTo(s, l)]
  BY <1>1 DEF Continue, GoOn
<1>4. /\ scn' \in [Clients -> ScenarioSet]
      /\ \A d \in Clients \ {c} : scn'[d] = scn[d]
      /\ scn'[c].status = "running" /\ scn'[c].pc = l
      /\ scn'[c].notif = s.notif /\ scn'[c].response = s.response
      /\ InPlace(c)'
  BY <1>2, <1>3, Moving
<1>. QED  BY <1>2, <1>4

\* A scenario raises, or what was thrown into it is caught: it is over, or
\* begins again.
LEMMA Raising ==
    ASSUME Inv, NEW c \in Clients, Running(c), ~Returns(c),
           NEW p \in ProcessorSet, Raise(c, p),
           plan' = plan, tally' = tally
    PROVE  /\ scn' \in [Clients -> ScenarioSet]
           /\ proc' \in [Clients -> ProcessorSet]
           /\ \A d \in Clients \ {c} : scn'[d] = scn[d] /\ proc'[d] = proc[d]
           /\ proc'[c].waits = "nothing" /\ proc'[c].inbox \in {p.inbox, <<>>}
           /\ scn'[c].response \in {scn[c].response, "none"}
           /\ InPlace(c)' /\ InStep(c)' /\ InBalance(c)'
<1>1. scn \in [Clients -> ScenarioSet] /\ proc \in [Clients -> ProcessorSet]
  BY Types DEF Inv
<1>2. InPlace(c) /\ InBalance(c)
  BY DEF Inv, ClientInv
<1>3. ASSUME NEW q \in {"returned", "raised"},
             q = "returned" => Even(plan.kind, scn[c].pc),
             scn' = [scn EXCEPT ![c].status = q],
             proc' = [proc EXCEPT ![c] = [p EXCEPT !.waits = "nothing"]]
      PROVE  /\ scn' \in [Clients -> ScenarioSet]
             /\ proc' \in [Clients -> ProcessorSet]
             /\ \A d \in Clients \ {c} : scn'[d] = scn[d] /\ proc'[d] = proc[d]
             /\ proc'[c].waits = "nothing" /\ proc'[c].inbox = p.inbox
             /\ scn'[c].response = scn[c].response
             /\ InPlace(c)' /\ InStep(c)' /\ InBalance(c)'
  <2>1. /\ scn' \in [Clients -> ScenarioSet]
        /\ scn'[c].status = q /\ scn'[c].pc = scn[c].pc
        /\ scn'[c].notif = scn[c].notif /\ scn'[c].response = scn[c].response
        /\ \A d \in Clients \ {c} : scn'[d] = scn[d]
    BY <1>1, <1>3 DEF ScenarioSet
  <2>2. PICK r : r = [p EXCEPT !.waits = "nothing"]
    OBVIOUS
  <2>3. r \in ProcessorSet /\ r.waits = "nothing" /\ r.inbox = p.inbox
    BY <2>2 DEF ProcessorSet
  <2>4. /\ proc' \in [Clients -> ProcessorSet] /\ proc'[c] = r
        /\ \A d \in Clients \ {c} : proc'[d] = proc[d]
    BY <1>1, <1>3, <2>2, <2>3
  <2>5. InPlace(c)' /\ InStep(c)'
    BY <1>2, <1>3, <2>1, <2>3, <2>4 DEF InPlace, InStep, Running
  <2>6. InBalance(c)'
    BY <1>2, <1>3, <2>1 DEF InBalance, Unread, Phantom, Unsent, Running
  <2>. QED  BY <2>1, <2>3, <2>4, <2>5, <2>6
<1>4. CASE Instr(c).try
  <2>1. Even(plan.kind, scn[c].pc)
    BY <1>4, TheInstruction DEF Balanced
  <2>. QED  BY <1>3, <1>4, <2>1 DEF Raise
<1>5. CASE ~Instr(c).try /\ p.tries < Retries(plan.kind)
  <2>. p.tries \in Nat
    BY DEF ProcessorSet
  <2>1. plan.kind = "_explode"
    BY <1>5 DEF Retries
  <2>2. /\ scn' = [scn EXCEPT ![c] = Fresh]
        /\ proc' = [proc EXCEPT ![c] = [Idle EXCEPT !.tries = p.tries + 1]]
    BY <1>5 DEF Raise
  <2>3. /\ scn' \in [Clients -> ScenarioSet] /\ scn'[c] = Fresh
        /\ \A d \in Clients \ {c} : scn'[d] = scn[d]
    BY <1>1, <2>2, Beginnings
  <2>4. PICK r : r = [Idle EXCEPT !.tries = p.tries + 1]
    OBVIOUS
  <2>5. /\ r \in ProcessorSet /\ r.waits = "nothing" /\ r.inbox = <<>>
        /\ r.connected = FALSE /\ r.timing = FALSE
    <3>1. PICK n : n = p.tries + 1
      OBVIOUS
    <3>2. n \in Nat
      BY <3>1
    <3>3. r = [waits |-> "nothing", connected |-> FALSE, inbox |-> <<>>,
               timing |-> FALSE, tries |-> n]
      BY <2>4, <3>1 DEF Idle
    <3>. QED  BY <3>2, <3>3 DEF ProcessorSet
  <2>6. /\ proc' \in [Clients -> ProcessorSet] /\ proc'[c] = r
        /\ \A d \in Clients \ {c} : proc'[d] = proc[d]
    BY <1>1, <2>2, <2>4, <2>5
  <2>7. /\ scn'[c].pc = 1 /\ scn'[c].status = "running"
        /\ scn'[c].response = "none" /\ scn'[c].notif = NoNotif
    BY <2>3 DEF Fresh
  <2>8. InPlace(c)'
    <3>1. 1 \in Places("_explode") \ Unreached("_explode", plan.once)
      BY <2>1, ThePlan, ScriptsAreSequences DEF Places, Unreached
    <3>2. 1 \notin Registered["_explode"]
      BY DEF Registered
    <3>. QED
      BY <1>2, <2>1, <2>5, <2>6, <2>7, <3>1, <3>2 DEF InPlace, Running
  <2>9. InStep(c)'
    <3>1. 1 \notin Linked["_explode"] /\ 1 \notin Timed["_explode"]
      BY DEF Linked, Timed
    <3>. QED  BY <2>1, <2>5, <2>6, <2>7, <3>1 DEF InStep
  <2>10. InBalance(c)'
    <3>1. "_explode" \notin CountSent /\ "_explode" \notin CountReceived
      BY DEF CountSent, CountReceived
    <3>. QED  BY <1>2, <2>1, <2>7, <3>1 DEF InBalance, Running
  <2>. QED  BY <2>3, <2>5, <2>6, <2>7, <2>8, <2>9, <2>10
<1>6. CASE ~Instr(c).try /\ ~(p.tries < Retries(plan.kind))
  <2>1. /\ scn' = [scn EXCEPT ![c].status = "raised"]
        /\ proc' = [proc EXCEPT ![c] = [p EXCEPT !.waits = "nothing"]]
    BY <1>6 DEF Raise
  <2>. QED  BY <1>3, <2>1
<1>. QED  BY <1>4, <1>5, <1>6

-----------------------------------------------------------------------------
(* Steps that concern a scenario and its processor only. *)

\* Unless a scenario waits for a reply, no request or reply is on its way.
LEMMA NothingAsked ==
    ASSUME Inv, NEW c \in Clients, proc[c].waits \notin Requests
    PROVE  up[c] = "none" /\ \A k \in DOMAIN down[c] : ~Replies(down[c][k])
<1>1. InTouch(c)
  BY DEF Inv, ClientInv
<1>2. up[c] = "none"
  BY <1>1, Typed DEF InTouch
<1>3. ASSUME NEW k \in DOMAIN down[c], Replies(down[c][k]) PROVE FALSE
  <2>1. down[c][k] \in FrameSet
    BY Typed
  <2>2. Request(down[c][k].type) \in Requests
    BY <1>3, <2>1 DEF FrameSet, Request, Requests, Replies
  <2>. QED  BY <1>1, <1>3, <2>2 DEF InTouch
<1>. QED  BY <1>2, <1>3

LEMMA LocalStep ==
    ASSUME Inv, NEW c \in Clients, proc[c].waits \notin Requests,
           UNCHANGED <<Shared, server, network>>,
           mishaps' \in [Clients -> SUBSET (FaultKinds \cup {"refused"})],
           "refused" \in mishaps'[c] => "refused" \in mishaps[c],
           scn' \in [Clients -> ScenarioSet],
           proc' \in [Clients -> ProcessorSet],
           tally' \in [Clients -> TallySet],
           \A d \in Clients \ {c} :
               /\ scn'[d] = scn[d] /\ proc'[d] = proc[d]
               /\ tally'[d] = tally[d] /\ mishaps'[d] = mishaps[d],
           Elements(proc'[c].inbox) \subseteq Elements(proc[c].inbox),
           proc'[c].waits # "send",
           scn'[c].response \in {scn[c].response, "none", "failed"},
           InPlace(c)', InStep(c)', InBalance(c)'
    PROVE  Inv'
<1>. plan' = plan /\ claims' = claims /\ day' = day /\ server' = server
     /\ up' = up /\ down' = down /\ post' = post
  BY DEF Shared, network
<1>1. TypeOK'
  BY Types, PrimedTypes DEF Inv
<1>2. InTouch(c)'
  BY NothingAsked DEF InTouch
<1>3. HoldsReal(c)'
  BY DEF Inv, ClientInv, HoldsReal
<1>4. InForce(c)'
  BY DEF Inv, ClientInv, InForce, Settled, Unfit
<1>5. Obeys(c)'
  BY DEF Inv, ClientInv, Obeys
<1>6. \A d \in Clients \ {c} : Stays(d)
  BY DEF Stays
<1>. QED  BY <1>1, <1>2, <1>3, <1>4, <1>5, <1>6, TheOthersStay DEF ClientInv

\* A command is under way.
LEMMA Asking ==
    ASSUME Inv, NEW c \in Clients, Turn(c), ~Returns(c),
           Instr(c).op \in Commands, Asks(c), plan' = plan, scn' = scn
    PROVE  /\ proc' \in [Clients -> ProcessorSet]
           /\ \A d \in Clients \ {c} : proc'[d] = proc[d]
           /\ proc'[c].waits = Instr(c).op /\ proc'[c].inbox = proc[c].inbox
           /\ InPlace(c)' /\ InStep(c)'
<1>1. /\ proc' \in [Clients -> ProcessorSet]
      /\ \A d \in Clients \ {c} : proc'[d] = proc[d]
      /\ proc'[c].waits = Instr(c).op /\ proc'[c].inbox = proc[c].inbox
      /\ proc'[c].connected = proc[c].connected
      /\ proc'[c].timing = proc[c].timing
  <2>1. proc \in [Clients -> ProcessorSet]
    BY Types DEF Inv
  <2>2. Instr(c).op \in {"nothing", "connect", "disconnect", "send", "expect",
                         "wait"} \cup Requests
    BY DEF Commands
  <2>. QED  BY <2>1, <2>2 DEF Asks, ProcessorSet
<1>2. InPlace(c)'
  BY <1>1 DEF Inv, ClientInv, InPlace, Running, Returns, Instr, Turn
<1>3. InStep(c)'
  BY <1>1 DEF Inv, ClientInv, InStep, Running
<1>. QED  BY <1>1, <1>2, <1>3

\* The connection is closed, by whomever.
LEMMA Disconnecting ==
    ASSUME Inv, NEW c \in Clients, Unconnected(c),
           UNCHANGED <<Shared, post, tally>>,
           mishaps' \in [Clients -> SUBSET (FaultKinds \cup {"refused"})],
           "refused" \in mishaps'[c] =>
               "refused" \in mishaps[c] \/ plan.kind = "_explode",
           scn' \in [Clients -> ScenarioSet],
           proc' \in [Clients -> ProcessorSet],
           \A d \in Clients \ {c} :
               /\ scn'[d] = scn[d] /\ proc'[d] = proc[d]
               /\ mishaps'[d] = mishaps[d],
           proc'[c].waits = "nothing",
           proc'[c].inbox \in {proc[c].inbox, <<>>},
           scn'[c].response \in {scn[c].response, "none"},
           InPlace(c)', InStep(c)', InBalance(c)'
    PROVE  Inv'
<1>. plan' = plan /\ claims' = claims /\ day' = day /\ post' = post
     /\ tally' = tally
  BY DEF Shared
<1>1. /\ server' \in [Clients -> AgentSet]
      /\ server'[c].origin = server[c].origin
      /\ server'[c].pending = server[c].pending
      /\ \A d \in Clients \ {c} : server'[d] = server[d]
  <2>1. server \in [Clients -> AgentSet]
    BY Types DEF Inv
  <2>2. PICK a : a = [server[c] EXCEPT !.online = FALSE]
    OBVIOUS
  <2>3. /\ a \in AgentSet /\ a.origin = server[c].origin
        /\ a.pending = server[c].pending
    BY <2>1, <2>2 DEF AgentSet
  <2>4. server' = [server EXCEPT ![c] = a]
    BY <2>1, <2>2 DEF Unconnected
  <2>. QED  BY <2>1, <2>3, <2>4
<1>2. /\ up' \in [Clients -> Requests \cup {"none"}] /\ up'[c] = "none"
      /\ down' \in [Clients -> Seq(FrameSet)] /\ down'[c] = <<>>
      /\ \A d \in Clients \ {c} : up'[d] = up[d] /\ down'[d] = down[d]
  BY Types DEF Inv, Unconnected
<1>3. TypeOK'
  BY <1>1, <1>2, Types, PrimedTypes DEF Inv
<1>4. InTouch(c)'
  BY <1>2 DEF InTouch
<1>5. HoldsReal(c)'
  BY <1>1, <1>2 DEF Inv, ClientInv, HoldsReal, Elements
<1>6. InForce(c)'
  BY <1>1 DEF Inv, ClientInv, InForce, Settled, Unfit
<1>7. Obeys(c)'
  BY DEF Inv, ClientInv, Obeys
<1>8. \A d \in Clients \ {c} : Stays(d)
  BY <1>1, <1>2 DEF Stays
<1>. QED
  BY <1>3, <1>4, <1>5, <1>6, <1>7, <1>8, TheOthersStay DEF ClientInv

\* _explode has a command refused.
LEMMA Refusing ==
    ASSUME Inv, NEW c \in Clients, Turn(c), ~Returns(c), Refused(c),
           plan.kind = "_explode", UNCHANGED Shared
    PROVE  Inv'
<1>. plan' = plan /\ tally' = tally /\ UNCHANGED <<Shared, post, tally>>
  BY DEF Shared, Refused
<1>1. PICK p : p = [proc[c] EXCEPT !.connected = FALSE]
  OBVIOUS
<1>2. p \in ProcessorSet /\ p.inbox = proc[c].inbox
  BY <1>1, Typed DEF ProcessorSet
<1>3. /\ scn' \in [Clients -> ScenarioSet]
      /\ proc' \in [Clients -> ProcessorSet]
      /\ \A d \in Clients \ {c} : scn'[d] = scn[d] /\ proc'[d] = proc[d]
      /\ proc'[c].waits = "nothing" /\ proc'[c].inbox \in {p.inbox, <<>>}
      /\ scn'[c].response \in {scn[c].response, "none"}
      /\ InPlace(c)' /\ InStep(c)' /\ InBalance(c)'
  <2>1. Running(c) /\ Raise(c, p)
    BY <1>1 DEF Refused, Turn
  <2>. QED  BY <1>2, <2>1, Raising
<1>4. /\ mishaps' \in [Clients -> SUBSET (FaultKinds \cup {"refused"})]
      /\ \A d \in Clients \ {c} : mishaps'[d] = mishaps[d]
  BY Types DEF Inv, Refused
<1>. QED  BY <1>2, <1>3, <1>4, Disconnecting DEF Refused

-----------------------------------------------------------------------------
(* The steps of a scenario. *)

\* A command that waits for its answer, where none is on its way yet.
LEMMA AskingKeeps ==
    ASSUME Inv, NEW c \in Clients, Turn(c), ~Returns(c),
           Instr(c).op \in Commands \ {"send"}, Asks(c),
           UNCHANGED <<Shared, scn, server, network, mishaps, tally>>
    PROVE  Inv'
<1>. plan' = plan /\ scn' = scn /\ tally' = tally /\ mishaps' = mishaps
  BY DEF Shared
<1>1. /\ proc' \in [Clients -> ProcessorSet]
      /\ \A d \in Clients \ {c} : proc'[d] = proc[d]
      /\ proc'[c].waits = Instr(c).op /\ proc'[c].inbox = proc[c].inbox
      /\ InPlace(c)' /\ InStep(c)'
  BY Asking
<1>2. InBalance(c)'
  BY DEF Inv, ClientInv, InBalance, Unread, Phantom, Unsent
<1>3. proc[c].waits \notin Requests
  BY DEF Turn, Requests
<1>. QED  BY <1>1, <1>2, <1>3, Types, LocalStep DEF Inv

LEMMA RunConnectKeeps ==
    ASSUME Inv, NEW c \in Clients, RunConnect(c)
    PROVE  Inv'
<1>1. Turn(c) /\ Running(c) /\ ~Returns(c) /\ Instr(c).op = "connect"
  BY DEF RunConnect, Runs, Turn
<1>2. CASE proc[c].connected
  <2>1. plan.kind = "_explode"
    BY <1>1, <1>2, TheInstruction DEF Allowed, Inv, ClientInv, InStep
  <2>. QED  BY <1>1, <1>2, <2>1, Refusing DEF RunConnect
<1>3. CASE ~proc[c].connected
  BY <1>1, <1>3, AskingKeeps DEF RunConnect, Outside, Commands
<1>. QED  BY <1>2, <1>3

LEMMA RunDisconnectKeeps ==
    ASSUME Inv, NEW c \in Clients, RunDisconnect(c)
    PROVE  Inv'
<1>1. Turn(c) /\ Running(c) /\ ~Returns(c) /\ Instr(c).op = "disconnect"
  BY DEF RunDisconnect, Runs, Turn
<1>2. CASE ~proc[c].connected
  <2>1. plan.kind = "_explode"
    BY <1>1, <1>2, TheInstruction DEF Allowed, Inv, ClientInv, InStep
  <2>. QED  BY <1>1, <1>2, <2>1, Refusing DEF RunDisconnect
<1>3. CASE proc[c].connected
  BY <1>1, <1>3, AskingKeeps DEF RunDisconnect, Outside, Commands
<1>. QED  BY <1>2, <1>3

LEMMA RunRequestKeeps ==
    ASSUME Inv, NEW c \in Clients, RunRequest(c)
    PROVE  Inv'
<1>1. Turn(c) /\ Running(c) /\ ~Returns(c) /\ Instr(c).op \in Requests
  BY DEF RunRequest, Runs, Turn
<1>2. CASE ~proc[c].connected
  <2>1. plan.kind = "_explode"
    BY <1>1, <1>2, TheInstruction DEF Allowed, Inv, ClientInv, InStep
  <2>. QED  BY <1>1, <1>2, <2>1, Refusing DEF RunRequest
<1>3. CASE proc[c].connected
  <2>. /\ plan' = plan /\ claims' = claims /\ day' = day /\ scn' = scn
       /\ server' = server /\ down' = down /\ post' = post
       /\ mishaps' = mishaps /\ tally' = tally /\ Asks(c)
       /\ up' = [up EXCEPT ![c] = Instr(c).op]
    BY <1>3 DEF RunRequest, Shared
  <2>1. /\ proc' \in [Clients -> ProcessorSet]
        /\ \A d \in Clients \ {c} : proc'[d] = proc[d]
        /\ proc'[c].waits = Instr(c).op /\ proc'[c].inbox = proc[c].inbox
        /\ InPlace(c)' /\ InStep(c)'
    BY <1>1, Asking DEF Commands
  <2>2. /\ up' \in [Clients -> Requests \cup {"none"}]
        /\ up'[c] = Instr(c).op
        /\ \A d \in Clients \ {c} : up'[d] = up[d]
    BY <1>1, Types DEF Inv
  <2>3. TypeOK'
    BY <2>1, <2>2, Types, PrimedTypes DEF Inv
  <2>4. InTouch(c)'
    <3>1. \A k \in DOMAIN down[c] : ~Replies(down[c][k])
      BY <1>1, NothingAsked DEF Turn, Requests
    <3>. QED  BY <2>1, <2>2, <3>1 DEF InTouch
  <2>5. HoldsReal(c)'
    BY <2>1 DEF Inv, ClientInv, HoldsReal
  <2>6. InBalance(c)'
    BY DEF Inv, ClientInv, InBalance, Unread, Phantom, Unsent
  <2>7. InForce(c)'
    BY <1>1, <2>1 DEF Inv, ClientInv, InForce, Settled, Unfit, Requests
  <2>8. Obeys(c)'
    BY DEF Inv, ClientInv, Obeys
  <2>9. \A d \in Clients \ {c} : Stays(d)
    BY <2>1, <2>2 DEF Stays
  <2>. QED
    BY <2>1, <2>3, <2>4, <2>5, <2>6, <2>7, <2>8, <2>9, TheOthersStay
       DEF ClientInv
<1>. QED  BY <1>2, <1>3

LEMMA RunWaitKeeps ==
    ASSUME Inv, NEW c \in Clients, RunWait(c)
    PROVE  Inv'
<1>1. Turn(c) /\ ~Returns(c) /\ Instr(c).op = "wait"
  BY DEF RunWait, Runs
<1>. QED  BY <1>1, AskingKeeps DEF RunWait, Outside, Commands

\* A scenario that raises, having done nothing else.
LEMMA RaisingKeeps ==
    ASSUME Inv, NEW c \in Clients, Turn(c), ~Returns(c), Raise(c, proc[c]),
           UNCHANGED <<Shared, server, network, mishaps, tally>>
    PROVE  Inv'
<1>. plan' = plan /\ tally' = tally /\ mishaps' = mishaps
  BY DEF Shared
<1>1. /\ scn' \in [Clients -> ScenarioSet]
      /\ proc' \in [Clients -> ProcessorSet]
      /\ \A d \in Clients \ {c} : scn'[d] = scn[d] /\ proc'[d] = proc[d]
      /\ proc'[c].waits = "nothing" /\ proc'[c].inbox \in {proc[c].inbox, <<>>}
      /\ scn'[c].response \in {scn[c].response, "none"}
      /\ InPlace(c)' /\ InStep(c)' /\ InBalance(c)'
  BY Typed, Raising DEF Turn
<1>2. Elements(proc'[c].inbox) \subseteq Elements(proc[c].inbox)
  BY <1>1 DEF Elements
<1>3. proc[c].waits \notin Requests
  BY DEF Turn, Requests
<1>. QED  BY <1>1, <1>2, <1>3, Types, LocalStep DEF Inv

\* A scenario that goes on with state s, having done nothing else but count.
LEMMA GoingOnKeeps ==
    ASSUME Inv, NEW c \in Clients, Turn(c), ~Returns(c),
           NEW s \in ScenarioSet, s.status = "running", s.pc = scn[c].pc,
           s.notif = scn[c].notif, s.response = scn[c].response,
           s.channels = scn[c].channels,
           Instr(c).op \notin {"connect", "disconnect", "register", "send",
                               "expect", "timer_start", "timer_end", "ack",
                               "counter", "collect", "jump", "loop", "if_once"},
           Continue(c, s),
           UNCHANGED <<Shared, proc, server, network, mishaps, tally>>
    PROVE  Inv'
<1>. plan' = plan /\ tally' = tally /\ mishaps' = mishaps /\ proc' = proc
  BY DEF Shared
<1>. proc[c].waits = "nothing" /\ Running(c)
  BY DEF Turn
<1>1. /\ scn' \in [Clients -> ScenarioSet]
      /\ \A d \in Clients \ {c} : scn'[d] = scn[d]
      /\ Joined(plan.kind, Instr(c), scn[c].pc, scn'[c].pc)
      /\ scn'[c].status = "running"
      /\ scn'[c].notif = s.notif /\ scn'[c].response = s.response
      /\ InPlace(c)'
  <2>1. GoesOn(Instr(c), plan.once)
    BY DEF GoesOn
  <2>. QED  BY <2>1, GoingOn
<1>2. InStep(c)'
  BY <1>1 DEF Inv, ClientInv, InStep, Joined
<1>3. InBalance(c)'
  BY <1>1 DEF Inv, ClientInv, InBalance, Unread, Phantom, Unsent, Joined, Running
<1>4. proc[c].waits \notin Requests
  BY DEF Requests
<1>. QED  BY <1>1, <1>2, <1>3, <1>4, Types, LocalStep DEF Inv

LEMMA RunCheckKeeps ==
    ASSUME Inv, NEW c \in Clients, RunCheck(c)
    PROVE  Inv'
<1>1. /\ Turn(c) /\ ~Returns(c)
      /\ Instr(c).op \in {"created", "same_uaid", "needed", "data"}
  BY DEF RunCheck, Runs
<1>2. CASE Holds(c, Instr(c))
  BY <1>1, <1>2, GoingOnKeeps, Typed DEF RunCheck, Outside, Turn, Running
<1>3. CASE ~Holds(c, Instr(c))
  BY <1>1, <1>3, RaisingKeeps DEF RunCheck, Outside
<1>. QED  BY <1>2, <1>3

LEMMA RunTimerKeeps ==
    ASSUME Inv, NEW c \in Clients, RunTimer(c)
    PROVE  Inv'
<1>1. /\ Turn(c) /\ Running(c) /\ ~Returns(c)
      /\ Instr(c).op \in {"timer_start", "timer_end"}
      /\ proc[c].waits = "nothing"
  BY DEF RunTimer, Runs, Turn
<1>2. PICK starts \in BOOLEAN : starts = (Instr(c).op = "timer_start")
  OBVIOUS
<1>3. CASE proc[c].timing = starts
  <2>1. plan.kind = "_explode"
    BY <1>1, <1>2, <1>3, TheInstruction, Typed
       DEF Allowed, Inv, ClientInv, InStep, ProcessorSet
  <2>2. Refused(c) /\ UNCHANGED Shared
    BY <1>2, <1>3 DEF RunTimer
  <2>. QED  BY <1>1, <2>1, <2>2, Refusing
<1>4. CASE proc[c].timing # starts
  <2>. /\ proc' = [proc EXCEPT ![c].timing = starts] /\ Continue(c, scn[c])
       /\ plan' = plan /\ tally' = tally /\ mishaps' = mishaps
       /\ UNCHANGED <<Shared, server, network>>
    BY <1>2, <1>4 DEF RunTimer, Outside, Shared
  <2>1. /\ proc' \in [Clients -> ProcessorSet]
        /\ \A d \in Clients \ {c} : proc'[d] = proc[d]
        /\ proc'[c].waits = "nothing" /\ proc'[c].inbox = proc[c].inbox
        /\ proc'[c].connected = proc[c].connected /\ proc'[c].timing = starts
    <3>1. proc \in [Clients -> ProcessorSet]
      BY Types DEF Inv
    <3>2. PICK p : p = [proc[c] EXCEPT !.timing = starts]
      OBVIOUS
    <3>3. /\ p \in ProcessorSet /\ p.waits = "nothing"
          /\ p.inbox = proc[c].inbox /\ p.connected = proc[c].connected
          /\ p.timing = starts
      BY <1>1, <3>1, <3>2 DEF ProcessorSet
    <3>4. proc' = [proc EXCEPT ![c] = p]
      BY <3>1, <3>2
    <3>. QED  BY <3>1, <3>3, <3>4
  <2>2. /\ scn' \in [Clients -> ScenarioSet]
        /\ \A d \in Clients \ {c} : scn'[d] = scn[d]
        /\ Joined(plan.kind, Instr(c), scn[c].pc, scn'[c].pc)
        /\ scn'[c].status = "running"
        /\ scn'[c].notif = scn[c].notif /\ scn'[c].response = scn[c].response
        /\ InPlace(c)'
    <3>1. GoesOn(Instr(c), plan.once)
      BY <1>1 DEF GoesOn
    <3>. QED  BY <1>1, <2>1, <3>1, GoingOn, Typed DEF Running
  <2>3. InStep(c)'
    <3>1. starts <=> scn'[c].pc \in Timed[plan.kind]
      BY <1>1, <1>2, <2>2 DEF Joined
    <3>2. proc[c].connected <=> scn'[c].pc \in Linked[plan.kind]
      BY <1>1, <2>2 DEF Joined, Inv, ClientInv, InStep
    <3>. QED  BY <2>1, <3>1, <3>2 DEF InStep
  <2>4. InBalance(c)'
    BY <1>1, <2>2
       DEF Inv, ClientInv, InBalance, Unread, Phantom, Unsent, Joined, Running
  <2>5. proc[c].waits \notin Requests
    BY <1>1 DEF Requests
  <2>. QED  BY <2>1, <2>2, <2>3, <2>4, <2>5, Types, LocalStep DEF Inv
<1>. QED  BY <1>3, <1>4

LEMMA RunCounterKeeps ==
    ASSUME Inv, NEW c \in Clients, RunCounter(c)
    PROVE  Inv'
<1>1. /\ Turn(c) /\ Running(c) /\ ~Returns(c) /\ Instr(c).op = "counter"
      /\ proc[c].waits = "nothing"
  BY DEF RunCounter, Runs, Turn
<1>. /\ plan' = plan /\ mishaps' = mishaps /\ proc' = proc
     /\ UNCHANGED <<Shared, server, network>> /\ Continue(c, scn[c])
  BY DEF RunCounter, Outside, Shared
<1>2. /\ scn' \in [Clients -> ScenarioSet]
      /\ \A d \in Clients \ {c} : scn'[d] = scn[d]
      /\ Joined(plan.kind, Instr(c), scn[c].pc, scn'[c].pc)
      /\ scn'[c].status = "running"
      /\ scn'[c].notif = scn[c].notif /\ scn'[c].response = scn[c].response
      /\ InPlace(c)'
  <2>1. GoesOn(Instr(c), plan.once)
    BY <1>1 DEF GoesOn
  <2>. QED  BY <1>1, <2>1, GoingOn, Typed DEF Running
<1>3. tally \in [Clients -> TallySet]
  BY Types DEF Inv
<1>4. tally[c] \in TallySet
  BY Typed
<1>0. InBalance(c)
  BY DEF Inv, ClientInv
<1>5. InStep(c)'
  BY <1>1, <1>2 DEF Inv, ClientInv, InStep, Joined
<1>6. proc[c].waits \notin Requests
  BY <1>1 DEF Requests
<1>7. CASE Instr(c).arg = "sent"
  <2>1. PICK t : t = [tally[c] EXCEPT !.sent = tally[c].sent + 1]
    OBVIOUS
  <2>2. /\ t \in TallySet /\ t.sent = tally[c].sent + 1
        /\ t.received = tally[c].received /\ t.posted = tally[c].posted
        /\ t.seen = tally[c].seen
    BY <1>4, <2>1 DEF TallySet
  <2>3. tally' = [tally EXCEPT ![c] = t]
    BY <1>3, <1>7, <2>1 DEF RunCounter
  <2>4. /\ tally' \in [Clients -> TallySet] /\ tally'[c] = t
        /\ \A d \in Clients \ {c} : tally'[d] = tally[d]
    BY <1>3, <2>2, <2>3
  <2>5. scn[c].pc \in Uncounted[plan.kind] /\ plan.kind \in CountSent
    BY <1>1, <1>7, TheInstruction DEF Balanced
  <2>6. /\ scn'[c].pc \notin Uncounted[plan.kind]
        /\ scn'[c].pc \in Given[plan.kind] <=> scn[c].pc \in Given[plan.kind]
        /\ scn'[c].pc \in Overcounted[plan.kind]
              <=> scn[c].pc \in Overcounted[plan.kind]
    BY <1>1, <1>2, <1>7 DEF Joined
  <2>7. Unsent(c) = 1 /\ Unsent(c)' = 0 /\ Unread(c)' = Unread(c)
        /\ Phantom(c)' = Phantom(c)
    BY <1>2, <2>5, <2>6 DEF Unread, Phantom, Unsent
  <2>8. InBalance(c)'
    BY <1>0, <1>1, <1>2, <1>4, <2>2, <2>4, <2>5, <2>7
       DEF InBalance, Running, TallySet
  <2>. QED  BY <1>1, <1>2, <1>5, <1>6, <2>4, <2>8, Types, LocalStep DEF Inv
<1>8. CASE Instr(c).arg # "sent"
  <2>1. PICK t : t = [tally[c] EXCEPT !.received = tally[c].received + 1]
    OBVIOUS
  <2>2. /\ t \in TallySet /\ t.received = tally[c].received + 1
        /\ t.sent = tally[c].sent /\ t.posted = tally[c].posted
        /\ t.seen = tally[c].seen
    BY <1>4, <2>1 DEF TallySet
  <2>3. tally' = [tally EXCEPT ![c] = t]
    BY <1>3, <1>8, <2>1 DEF RunCounter
  <2>4. /\ tally' \in [Clients -> TallySet] /\ tally'[c] = t
        /\ \A d \in Clients \ {c} : tally'[d] = tally[d]
    BY <1>3, <2>2, <2>3
  <2>5. /\ Instr(c).arg = "received"
        /\ scn[c].pc \in Given[plan.kind] /\ plan.kind \in CountReceived
    BY <1>1, <1>8, TheInstruction DEF Balanced
  <2>6. /\ scn'[c].pc \in Uncounted[plan.kind]
              <=> scn[c].pc \in Uncounted[plan.kind]
        /\ scn'[c].pc \notin Given[plan.kind]
        /\ scn'[c].pc \in Overcounted[plan.kind]
        /\ scn[c].pc \notin Overcounted[plan.kind]
    BY <1>1, <1>2, <1>8, <2>5, TheInstruction DEF Joined, Balanced
  <2>7. /\ Unsent(c)' = Unsent(c) /\ Phantom(c) = 0 /\ Unread(c)' = 0
        /\ scn[c].notif = NoNotif => Unread(c) = 0 /\ Phantom(c)' = 1
        /\ scn[c].notif # NoNotif => Unread(c) = 1 /\ Phantom(c)' = 0
    BY <1>2, <2>5, <2>6 DEF Unread, Phantom, Unsent
  <2>8. InBalance(c)'
    BY <1>0, <1>1, <1>2, <1>4, <2>2, <2>4, <2>5, <2>7
       DEF InBalance, Running, TallySet
  <2>. QED  BY <1>1, <1>2, <1>5, <1>6, <2>4, <2>8, Types, LocalStep DEF Inv
<1>. QED  BY <1>7, <1>8

LEMMA RunCollectKeeps ==
    ASSUME Inv, NEW c \in Clients, RunCollect(c)
    PROVE  Inv'
<1>1. /\ Turn(c) /\ Running(c) /\ ~Returns(c) /\ Instr(c).op = "collect"
      /\ proc[c].waits = "nothing"
  BY DEF RunCollect, Runs, Turn
<1>. /\ plan' = plan /\ mishaps' = mishaps /\ proc' = proc
     /\ UNCHANGED <<Shared, server, network>>
  BY DEF RunCollect, Outside, Shared
<1>2. tally \in [Clients -> TallySet]
  BY Types DEF Inv
<1>3. InBalance(c) /\ tally[c] \in TallySet /\ scn[c] \in ScenarioSet
  BY Typed DEF Inv, ClientInv
<1>4. proc[c].waits \notin Requests
  BY <1>1 DEF Requests
<1>5. GoesOn(Instr(c), plan.once)
  BY <1>1 DEF GoesOn
<1>6. scn[c].pc \in Given[plan.kind] /\ plan.kind \in CountReceived
  BY <1>1, TheInstruction DEF Balanced
<1>7. ASSUME NEW s \in ScenarioSet, s.status = "running", s.pc = scn[c].pc,
             s.notif = scn[c].notif, s.response = scn[c].response,
             s.channels = scn[c].channels, Continue(c, s)
      PROVE  /\ scn' \in [Clients -> ScenarioSet]
             /\ \A d \in Clients \ {c} : scn'[d] = scn[d]
             /\ Joined(plan.kind, Instr(c), scn[c].pc, scn'[c].pc)
             /\ scn'[c].status = "running" /\ scn'[c].notif = scn[c].notif
             /\ scn'[c].response = scn[c].response
             /\ InPlace(c)' /\ InStep(c)'
  <2>1. /\ scn' \in [Clients -> ScenarioSet]
        /\ \A d \in Clients \ {c} : scn'[d] = scn[d]
        /\ Joined(plan.kind, Instr(c), scn[c].pc, scn'[c].pc)
        /\ scn'[c].status = "running" /\ scn'[c].notif = s.notif
        /\ scn'[c].response = s.response /\ InPlace(c)'
    BY <1>1, <1>5, <1>7, GoingOn
  <2>2. InStep(c)'
    BY <1>1, <2>1 DEF Inv, ClientInv, InStep, Joined
  <2>. QED  BY <1>7, <2>1, <2>2
<1>8. CASE scn[c].notif = NoNotif
  <2>1. Continue(c, scn[c]) /\ tally' = tally
    BY <1>8 DEF RunCollect
  <2>2. /\ scn' \in [Clients -> ScenarioSet]
        /\ \A d \in Clients \ {c} : scn'[d] = scn[d]
        /\ Joined(plan.kind, Instr(c), scn[c].pc, scn'[c].pc)
        /\ scn'[c].status = "running" /\ scn'[c].notif = scn[c].notif
        /\ scn'[c].response = scn[c].response
        /\ InPlace(c)' /\ InStep(c)'
    BY <1>1, <1>3, <1>7, <2>1 DEF Running
  <2>3. InBalance(c)'
    BY <1>1, <1>3, <1>6, <1>8, <2>1, <2>2
       DEF InBalance, Unread, Phantom, Unsent, Joined, Running, TallySet
  <2>. QED  BY <1>1, <1>2, <1>4, <2>1, <2>2, <2>3, Types, LocalStep DEF Inv
<1>9. CASE scn[c].notif # NoNotif
  <2>1. PICK s : s = [scn[c] EXCEPT !.ids = Append(scn[c].ids, scn[c].notif.id)]
    OBVIOUS
  <2>2. /\ s \in ScenarioSet /\ s.status = scn[c].status /\ s.pc = scn[c].pc
        /\ s.notif = scn[c].notif /\ s.response = scn[c].response
        /\ s.channels = scn[c].channels
    <3>1. Append(scn[c].ids, scn[c].notif.id) \in Seq(Nat)
      BY <1>3 DEF ScenarioSet, Notifs
    <3>. QED  BY <1>3, <2>1, <3>1 DEF ScenarioSet
  <2>3. Continue(c, s)
    BY <1>3, <1>9, <2>1 DEF RunCollect, ScenarioSet
  <2>4. /\ scn' \in [Clients -> ScenarioSet]
        /\ \A d \in Clients \ {c} : scn'[d] = scn[d]
        /\ Joined(plan.kind, Instr(c), scn[c].pc, scn'[c].pc)
        /\ scn'[c].status = "running" /\ scn'[c].notif = scn[c].notif
        /\ scn'[c].response = scn[c].response
        /\ InPlace(c)' /\ InStep(c)'
    BY <1>1, <1>7, <2>2, <2>3 DEF Running
  <2>5. PICK t : t = [tally[c] EXCEPT !.received = tally[c].received + 1]
    OBVIOUS
  <2>6. /\ t \in TallySet /\ t.received = tally[c].received + 1
        /\ t.sent = tally[c].sent /\ t.posted = tally[c].posted
        /\ t.seen = tally[c].seen
    BY <1>3, <2>5 DEF TallySet
  <2>7. tally' = [tally EXCEPT ![c] = t]
    BY <1>2, <1>9, <2>5 DEF RunCollect
  <2>8. /\ tally' \in [Clients -> TallySet] /\ tally'[c] = t
        /\ \A d \in Clients \ {c} : tally'[d] = tally[d]
    BY <1>2, <2>6, <2>7
  <2>9. InBalance(c)'
    BY <1>1, <1>3, <1>6, <1>9, <2>4, <2>6, <2>8
       DEF InBalance, Unread, Phantom, Unsent, Joined, Running, TallySet
  <2>. QED  BY <1>1, <1>4, <2>4, <2>8, <2>9, Types, LocalStep DEF Inv
<1>. QED  BY <1>8, <1>9

LEMMA ReturnKeeps ==
    ASSUME Inv, NEW c \in Clients, Return(c)
    PROVE  Inv'
<1>1. /\ Running(c) /\ Returns(c) /\ proc[c].waits = "nothing"
  BY DEF Return, Turn
<1>. /\ plan' = plan /\ mishaps' = mishaps /\ proc' = proc /\ tally' = tally
     /\ UNCHANGED <<Shared, server, network>>
     /\ scn' = [scn EXCEPT ![c].status = "returned"]
  BY DEF Return, Outside, Shared
<1>2. InPlace(c) /\ InBalance(c)
  BY DEF Inv, ClientInv
<1>3. Even(plan.kind, scn[c].pc)
  <2>1. scn[c].pc \in 1..(Len(Script[plan.kind]) + 1)
    BY <1>2 DEF InPlace, Places
  <2>2. scn[c].pc = Len(Script[plan.kind]) + 1
    BY <1>1, <2>1, ThePlan, ScriptsAreSequences DEF Returns
  <2>. QED  BY <2>2, ThePlan, EndsAreEven
<1>4. scn \in [Clients -> ScenarioSet]
  BY Types DEF Inv
<1>5. /\ scn' \in [Clients -> ScenarioSet]
      /\ scn'[c].status = "returned" /\ scn'[c].pc = scn[c].pc
      /\ scn'[c].notif = scn[c].notif /\ scn'[c].response = scn[c].response
      /\ \A d \in Clients \ {c} : scn'[d] = scn[d]
  BY <1>4 DEF ScenarioSet
<1>6. InPlace(c)' /\ InStep(c)'
  BY <1>1, <1>2, <1>5 DEF InPlace, InStep, Running
<1>7. InBalance(c)'
  BY <1>1, <1>2, <1>3, <1>5 DEF InBalance, Unread, Phantom, Unsent, Running
<1>8. proc[c].waits \notin Requests
  BY <1>1 DEF Requests
<1>. QED  BY <1>1, <1>5, <1>6, <1>7, <1>8, Types, LocalStep DEF Inv

LEMMA RunBranchKeeps ==
    ASSUME Inv, NEW c \in Clients, RunBranch(c)
    PROVE  Inv'
<1>1. /\ Turn(c) /\ Running(c) /\ ~Returns(c) /\ proc[c].waits = "nothing"
      /\ Instr(c).op \in {"jump", "for", "if_once", "if_notif", "loop"}
  BY DEF RunBranch, Runs, Turn
<1>. /\ plan' = plan /\ mishaps' = mishaps /\ proc' = proc /\ tally' = tally
     /\ UNCHANGED <<Shared, server, network>>
     /\ scn' = [scn EXCEPT ![c] = Branch(c, Instr(c))]
  BY DEF RunBranch, Outside, Shared
<1>2. scn[c] \in ScenarioSet /\ scn[c].status = "running"
  BY <1>1, Typed DEF Running
<1>3. PICK up1 : up1 = [scn[c] EXCEPT !.i = scn[c].i + 1]
  OBVIOUS
<1>4. PICK back : back = [scn[c] EXCEPT !.i = 0]
  OBVIOUS
<1>5. PICK round : round = [scn[c] EXCEPT !.cycle = scn[c].cycle + 1]
  OBVIOUS
<1>6. ASSUME NEW s \in ScenarioSet, s.status = "running",
             s.notif = scn[c].notif, s.response = scn[c].response,
             s.channels = scn[c].channels, NEW l,
             \/ l = scn[c].pc + 1 /\ GoesOn(Instr(c), plan.once)
             \/ l = Instr(c).arg /\ Branches(Instr(c), plan.once),
             Branch(c, Instr(c)) = GoTo(s, l)
      PROVE  Inv'
  <2>1. /\ l \in Places(plan.kind) \ Unreached(plan.kind, plan.once)
        /\ Joined(plan.kind, Instr(c), scn[c].pc, l)
    BY <1>1, <1>6, TheInstruction
  <2>2. scn' = [scn EXCEPT ![c] = GoTo(s, l)]
    BY <1>6
  <2>3. Instr(c).op # "register"
    BY <1>1
  <2>4. /\ scn' \in [Clients -> ScenarioSet]
        /\ \A d \in Clients \ {c} : scn'[d] = scn[d]
        /\ scn'[c].status = "running" /\ scn'[c].pc = l
        /\ scn'[c].notif = s.notif /\ scn'[c].response = s.response
        /\ InPlace(c)'
    BY <1>1, <1>6, <2>1, <2>2, <2>3, Moving
  <2>5. InStep(c)'
    BY <1>1, <2>1, <2>4 DEF Inv, ClientInv, InStep, Joined
  <2>6. InBalance(c)'
    BY <1>1, <1>6, <2>1, <2>4
       DEF Inv, ClientInv, InBalance, Unread, Phantom, Unsent, Joined, Running
  <2>7. proc[c].waits \notin Requests
    BY <1>1 DEF Requests
  <2>. QED
    BY <1>1, <1>6, <2>4, <2>5, <2>6, <2>7, Types, LocalStep DEF Inv
<1>7. CASE Instr(c).op = "jump"
  <2>1. Branch(c, Instr(c)) = GoTo(scn[c], Instr(c).arg)
    BY <1>7 DEF Branch
  <2>2. Branches(Instr(c), plan.once)
    BY <1>7 DEF Branches
  <2>. QED  BY <1>2, <1>6, <2>1, <2>2
<1>8. CASE Instr(c).op = "for"
  <2>1. Branches(Instr(c), plan.once) /\ GoesOn(Instr(c), plan.once)
    BY <1>8 DEF Branches, GoesOn
  <2>2. CASE scn[c].i < Qty
    <3>1. Branch(c, Instr(c)) = GoTo(up1, up1.pc + 1)
      BY <1>3, <1>8, <2>2 DEF Branch, GoOn
    <3>2. /\ up1 \in ScenarioSet /\ up1.status = "running"
          /\ up1.pc = scn[c].pc /\ up1.notif = scn[c].notif
          /\ up1.response = scn[c].response /\ up1.channels = scn[c].channels
      <4>1. scn[c].i + 1 \in 0..Qty
        BY <1>2, <2>2, ConstantsFit DEF ScenarioSet
      <4>. QED  BY <1>2, <1>3, <4>1 DEF ScenarioSet
    <3>. QED  BY <1>6, <2>1, <3>1, <3>2
  <2>3. CASE ~(scn[c].i < Qty)
    <3>1. Branch(c, Instr(c)) = GoTo(back, Instr(c).arg)
      BY <1>4, <1>8, <2>3 DEF Branch
    <3>2. /\ back \in ScenarioSet /\ back.status = "running"
          /\ back.notif = scn[c].notif
          /\ back.response = scn[c].response /\ back.channels = scn[c].channels
      <4>1. 0 \in 0..Qty
        BY ConstantsFit
      <4>. QED  BY <1>2, <1>4, <4>1 DEF ScenarioSet
    <3>. QED  BY <1>6, <2>1, <3>1, <3>2
  <2>. QED  BY <2>2, <2>3
<1>9. CASE Instr(c).op = "if_once"
  <2>1. CASE plan.once
    <3>1. Branch(c, Instr(c)) = GoTo(scn[c], Instr(c).arg)
      BY <1>9, <2>1 DEF Branch
    <3>2. Branches(Instr(c), plan.once)
      BY <1>9, <2>1 DEF Branches
    <3>. QED  BY <1>2, <1>6, <3>1, <3>2
  <2>2. CASE ~plan.once
    <3>1. Branch(c, Instr(c)) = GoTo(scn[c], scn[c].pc + 1)
      BY <1>9, <2>2 DEF Branch, GoOn
    <3>2. GoesOn(Instr(c), plan.once)
      BY <1>9, <2>2 DEF GoesOn
    <3>. QED  BY <1>2, <1>6, <3>1, <3>2
  <2>. QED  BY <2>1, <2>2
<1>10. CASE Instr(c).op = "if_notif"
  <2>1. Branches(Instr(c), plan.once) /\ GoesOn(Instr(c), plan.once)
    BY <1>10 DEF Branches, GoesOn
  <2>2. CASE scn[c].notif = NoNotif
    <3>1. Branch(c, Instr(c)) = GoTo(scn[c], Instr(c).arg)
      BY <1>10, <2>2 DEF Branch
    <3>. QED  BY <1>2, <1>6, <2>1, <3>1
  <2>3. CASE scn[c].notif # NoNotif
    <3>1. Branch(c, Instr(c)) = GoTo(scn[c], scn[c].pc + 1)
      BY <1>10, <2>3 DEF Branch, GoOn
    <3>. QED  BY <1>2, <1>6, <2>1, <3>1
  <2>. QED  BY <2>2, <2>3
<1>11. CASE Instr(c).op = "loop"
  <2>1. CASE plan.once
    <3>1. Branch(c, Instr(c)) = GoTo(scn[c], scn[c].pc + 1)
      BY <1>11, <2>1 DEF Branch, GoOn
    <3>2. GoesOn(Instr(c), plan.once)
      BY <1>11, <2>1 DEF GoesOn
    <3>. QED  BY <1>2, <1>6, <3>1, <3>2
  <2>2. CASE ~plan.once
    <3>1. Branch(c, Instr(c)) = GoTo(round, Instr(c).arg)
      BY <1>5, <1>11, <2>2 DEF Branch
    <3>2. Branches(Instr(c), plan.once)
      BY <1>11, <2>2 DEF Branches
    <3>3. /\ round \in ScenarioSet /\ round.status = "running"
          /\ round.notif = scn[c].notif
          /\ round.response = scn[c].response
          /\ round.channels = scn[c].channels
      <4>1. scn[c].cycle + 1 \in Nat
        BY <1>2 DEF ScenarioSet
      <4>. QED  BY <1>2, <1>5, <4>1 DEF ScenarioSet
    <3>. QED  BY <1>6, <3>1, <3>2, <3>3
  <2>. QED  BY <2>1, <2>2
<1>. QED  BY <1>1, <1>7, <1>8, <1>9, <1>10, <1>11

-----------------------------------------------------------------------------
(* Steps that take from what the server, or the processor, holds. *)

LEMMA ElementsOf ==
    ASSUME NEW S, NEW s \in Seq(S)
    PROVE  Elements(s) \subseteq S
BY DEF Elements

\* Some notifications are acknowledged: the server keeps the others.
LEMMA Acknowledging ==
    ASSUME Inv, NEW c \in Clients, NEW ids, Acknowledged(c, ids)
    PROVE  /\ server' \in [Clients -> AgentSet]
           /\ \A d \in Clients \ {c} : server'[d] = server[d]
           /\ server'[c].origin = server[c].origin
           /\ Elements(server'[c].pending) \subseteq Elements(server[c].pending)
<1>1. server \in [Clients -> AgentSet] /\ server[c] \in AgentSet
  BY Types DEF Inv
<1>2. PICK left : left = {n \in Elements(server[c].pending) : n.id \notin ids}
  OBVIOUS
<1>3. PICK kept : kept = Kept(server[c].pending, left)
  OBVIOUS
<1>4. server[c].pending \in Seq(Notifs)
  BY <1>1 DEF AgentSet
<1>5. kept \in Seq(Notifs) /\ Elements(kept) \subseteq Elements(server[c].pending)
  <2>1. kept \in Seq(Notifs \cap left)
    BY <1>3, <1>4, KeptIsASequence
  <2>2. Elements(kept) = Elements(server[c].pending) \cap left
    BY <1>3, <1>4, KeptElements
  <2>. QED  BY <2>1, <2>2
<1>6. PICK a : a = [server[c] EXCEPT !.pending = kept]
  OBVIOUS
<1>7. /\ a \in AgentSet /\ a.origin = server[c].origin /\ a.pending = kept
  BY <1>1, <1>5, <1>6 DEF AgentSet
<1>8. server' = [server EXCEPT ![c] = a]
  BY <1>1, <1>2, <1>3, <1>6 DEF Acknowledged
<1>. QED  BY <1>1, <1>5, <1>7, <1>8

LEMMA AcknowledgingKeeps ==
    ASSUME Inv, NEW c \in Clients, NEW ids, Acknowledged(c, ids),
           proc[c].waits = "nothing", Running(c),
           UNCHANGED <<Shared, proc, network, mishaps, tally>>,
           scn' \in [Clients -> ScenarioSet],
           \A d \in Clients \ {c} : scn'[d] = scn[d],
           scn'[c].response = scn[c].response,
           InPlace(c)', InStep(c)', InBalance(c)'
    PROVE  Inv'
<1>. plan' = plan /\ claims' = claims /\ day' = day /\ proc' = proc
     /\ up' = up /\ down' = down /\ post' = post /\ mishaps' = mishaps
     /\ tally' = tally
  BY DEF Shared, network
<1>1. /\ server' \in [Clients -> AgentSet]
      /\ \A d \in Clients \ {c} : server'[d] = server[d]
      /\ server'[c].origin = server[c].origin
      /\ Elements(server'[c].pending) \subseteq Elements(server[c].pending)
  BY Acknowledging
<1>2. TypeOK'
  BY <1>1, Types, PrimedTypes DEF Inv
<1>3. InTouch(c)'
  BY DEF Inv, ClientInv, InTouch
<1>4. HoldsReal(c)'
  BY <1>1 DEF Inv, ClientInv, HoldsReal
<1>5. InForce(c)'
  BY <1>1 DEF Inv, ClientInv, InForce, Settled, Unfit
<1>6. Obeys(c)'
  BY DEF Inv, ClientInv, Obeys
<1>7. \A d \in Clients \ {c} : Stays(d)
  BY <1>1 DEF Stays
<1>. QED
  BY <1>2, <1>3, <1>4, <1>5, <1>6, <1>7, TheOthersStay DEF ClientInv

LEMMA RunAckKeeps ==
    ASSUME Inv, NEW c \in Clients, RunAck(c)
    PROVE  Inv'
<1>1. /\ Turn(c) /\ Running(c) /\ ~Returns(c) /\ Instr(c).op = "ack"
      /\ proc[c].waits = "nothing"
  BY DEF RunAck, Runs, Turn
<1>2. CASE scn[c].notif = NoNotif
  <2>1. Raise(c, proc[c]) /\ UNCHANGED <<Shared, server, network, mishaps, tally>>
    BY <1>2 DEF RunAck, network
  <2>. QED  BY <1>1, <2>1, RaisingKeeps
<1>3. CASE scn[c].notif # NoNotif /\ ~proc[c].connected
  <2>1. plan.kind = "_explode"
    BY <1>1, <1>3, TheInstruction DEF Allowed, Inv, ClientInv, InStep
  <2>2. Refused(c) /\ UNCHANGED Shared
    BY <1>3 DEF RunAck
  <2>. QED  BY <1>1, <2>1, <2>2, Refusing
<1>4. CASE scn[c].notif # NoNotif /\ proc[c].connected
  <2>1. /\ Acknowledged(c, {scn[c].notif.id}) /\ Continue(c, scn[c])
        /\ UNCHANGED <<Shared, proc, network, mishaps, tally>>
        /\ plan' = plan /\ proc' = proc /\ tally' = tally
    BY <1>4 DEF RunAck, Shared
  <2>2. /\ scn' \in [Clients -> ScenarioSet]
        /\ \A d \in Clients \ {c} : scn'[d] = scn[d]
        /\ Joined(plan.kind, Instr(c), scn[c].pc, scn'[c].pc)
        /\ scn'[c].status = "running"
        /\ scn'[c].notif = scn[c].notif /\ scn'[c].response = scn[c].response
        /\ InPlace(c)'
    <3>1. GoesOn(Instr(c), plan.once)
      BY <1>1 DEF GoesOn
    <3>. QED  BY <1>1, <2>1, <3>1, GoingOn, Typed DEF Running
  <2>3. InStep(c)'
    BY <1>1, <2>1, <2>2 DEF Inv, ClientInv, InStep, Joined
  <2>4. InBalance(c)'
    BY <1>1, <1>4, <2>1, <2>2
       DEF Inv, ClientInv, InBalance, Unread, Phantom, Unsent, Joined, Running
  <2>. QED  BY <1>1, <2>1, <2>2, <2>3, <2>4, AcknowledgingKeeps
<1>. QED  BY <1>2, <1>3, <1>4

\* Where it acknowledges what was collected, a scenario is connected.
AcksIds(c) ==
    /\ Runs(c, "ack_ids")
    /\ IF scn[c].ids = <<>>
       THEN Continue(c, scn[c]) /\ UNCHANGED server
       ELSE /\ Acknowledged(c, Elements(scn[c].ids))
            /\ scn' = [scn EXCEPT ![c] =
                  GoTo([scn[c] EXCEPT !.ids = <<>>], Instr(c).arg)]
    /\ UNCHANGED <<Shared, proc, network, mishaps, tally>>

LEMMA AckingIds ==
    ASSUME Inv, NEW c \in Clients, RunAckIds(c)
    PROVE  AcksIds(c)
<1>1. Running(c) /\ ~Returns(c) /\ Instr(c).op = "ack_ids"
  BY DEF RunAckIds, Runs, Turn
<1>2. plan.kind # "_explode" /\ scn[c].pc \in Linked[plan.kind]
  BY <1>1, TheInstruction DEF Allowed
<1>3. proc[c].connected
  BY <1>1, <1>2 DEF Inv, ClientInv, InStep
<1>4. CASE scn[c].ids = <<>>
  BY <1>4, Zenon DEF RunAckIds, AcksIds, Outside, Shared, network
<1>5. CASE scn[c].ids # <<>>
  <2>1. AckEach(c, Elements(scn[c].ids)) /\ UNCHANGED Shared
    BY <1>5 DEF RunAckIds
  <2>. QED
    BY <1>3, <1>5, <2>1, Zenon DEF RunAckIds, AckEach, AcksIds, Shared, network
<1>. QED  BY <1>4, <1>5

LEMMA RunAckIdsKeeps ==
    ASSUME Inv, NEW c \in Clients, AcksIds(c)
    PROVE  Inv'
<1>1. /\ Turn(c) /\ Running(c) /\ ~Returns(c) /\ Instr(c).op = "ack_ids"
      /\ proc[c].waits = "nothing"
  BY DEF AcksIds, Runs, Turn
<1>2. GoesOn(Instr(c), plan.once) /\ Branches(Instr(c), plan.once)
  BY <1>1 DEF GoesOn, Branches
<1>. plan' = plan /\ proc' = proc /\ tally' = tally /\ mishaps' = mishaps
     /\ UNCHANGED <<Shared, network>>
  BY DEF AcksIds, Shared
<1>3. CASE scn[c].ids = <<>>
  <2>1. Continue(c, scn[c]) /\ server' = server
    BY <1>3 DEF AcksIds
  <2>. QED
    BY <1>1, <2>1, Typed, GoingOnKeeps DEF Running
<1>4. CASE scn[c].ids # <<>>
  <2>1. PICK s : s = [scn[c] EXCEPT !.ids = <<>>]
    OBVIOUS
  <2>2. /\ s \in ScenarioSet /\ s.status = "running"
        /\ s.notif = scn[c].notif /\ s.response = scn[c].response
        /\ s.channels = scn[c].channels
    <3>0. PICK none : none = <<>>
      OBVIOUS
    <3>1. none \in Seq(Nat)
      BY <3>0, EmptySeq
    <3>2. s = [scn[c] EXCEPT !.ids = none]
      BY <2>1, <3>0
    <3>3. scn[c] \in ScenarioSet /\ scn[c].status = "running"
      BY <1>1, Typed DEF Running
    <3>. QED  BY <3>1, <3>2, <3>3 DEF ScenarioSet
  <2>3. PICK ids : Acknowledged(c, ids)
    BY <1>4 DEF AcksIds
  <2>4. scn' = [scn EXCEPT ![c] = GoTo(s, Instr(c).arg)]
    BY <1>4, <2>1 DEF AcksIds
  <2>5. /\ Instr(c).arg \in Places(plan.kind) \ Unreached(plan.kind, plan.once)
        /\ Joined(plan.kind, Instr(c), scn[c].pc, Instr(c).arg)
    BY <1>1, <1>2, TheInstruction
  <2>6. Instr(c).op # "register"
    BY <1>1
  <2>7. /\ scn' \in [Clients -> ScenarioSet]
        /\ \A d \in Clients \ {c} : scn'[d] = scn[d]
        /\ scn'[c].status = "running" /\ scn'[c].pc = Instr(c).arg
        /\ scn'[c].notif = s.notif /\ scn'[c].response = s.response
        /\ InPlace(c)'
    BY <1>1, <2>2, <2>4, <2>5, <2>6, Moving
  <2>8. InStep(c)'
    BY <1>1, <2>5, <2>7 DEF Inv, ClientInv, InStep, Joined
  <2>9. InBalance(c)'
    BY <1>1, <2>2, <2>5, <2>7
       DEF Inv, ClientInv, InBalance, Unread, Phantom, Unsent, Joined, Running
  <2>. QED  BY <1>1, <2>2, <2>3, <2>7, <2>8, <2>9, AcknowledgingKeeps
<1>. QED  BY <1>3, <1>4

\* What an expectation ends with, a notification or None, is in balance.
LEMMA ExpectingBalances ==
    ASSUME Inv, NEW c \in Clients, Running(c), ~Returns(c),
           Instr(c).op = "expect", plan' = plan,
           Joined(plan.kind, Instr(c), scn[c].pc, scn'[c].pc),
           scn'[c].status = "running",
           \/ /\ scn'[c].notif = NoNotif
              /\ tally'[c] = tally[c]
           \/ /\ scn'[c].notif # NoNotif
              /\ tally'[c].sent = tally[c].sent
              /\ tally'[c].posted = tally[c].posted
              /\ tally'[c].received = tally[c].received
              /\ Len(tally'[c].seen) = Len(tally[c].seen) + 1
    PROVE  InBalance(c)'
<1>1. Even(plan.kind, scn[c].pc)
  BY TheInstruction DEF Balanced, Commands
<1>2. /\ scn'[c].pc \notin Uncounted[plan.kind] \cup Overcounted[plan.kind]
      /\ plan.kind \in CountReceived => scn'[c].pc \in Given[plan.kind]
  BY <1>1 DEF Joined, Even
<1>3. /\ Unsent(c) = 0 /\ Unread(c) = 0 /\ Phantom(c) = 0
      /\ Unsent(c)' = 0 /\ Phantom(c)' = 0
      /\ (plan.kind \in CountReceived /\ scn'[c].notif # NoNotif) =>
            Unread(c)' = 1
      /\ scn'[c].notif = NoNotif => Unread(c)' = 0
  BY <1>1, <1>2 DEF Unsent, Unread, Phantom, Even
<1>4. InBalance(c) /\ tally[c] \in TallySet
  BY Typed DEF Inv, ClientInv
<1>5. /\ tally[c].sent \in Nat /\ tally[c].posted \in Nat
      /\ tally[c].received \in Nat /\ Len(tally[c].seen) \in Nat
  BY <1>4 DEF TallySet
<1>6. CASE scn'[c].notif = NoNotif /\ tally'[c] = tally[c]
  BY <1>3, <1>4, <1>5, <1>6 DEF InBalance, Running
<1>7. CASE /\ scn'[c].notif # NoNotif
           /\ tally'[c].sent = tally[c].sent
           /\ tally'[c].posted = tally[c].posted
           /\ tally'[c].received = tally[c].received
           /\ Len(tally'[c].seen) = Len(tally[c].seen) + 1
  BY <1>3, <1>4, <1>5, <1>7 DEF InBalance, Running
<1>. QED  BY <1>6, <1>7

\* A scenario is given notification n.
LEMMA Seeing ==
    ASSUME Inv, NEW c \in Clients, NEW n \in Notifs, Saw(c, n)
    PROVE  /\ tally' \in [Clients -> TallySet]
           /\ \A d \in Clients \ {c} : tally'[d] = tally[d]
           /\ tally'[c].sent = tally[c].sent
           /\ tally'[c].posted = tally[c].posted
           /\ tally'[c].received = tally[c].received
           /\ Len(tally'[c].seen) = Len(tally[c].seen) + 1
<1>1. tally \in [Clients -> TallySet] /\ tally[c] \in TallySet
  BY Types DEF Inv
<1>2. PICK seen : seen = Append(tally[c].seen, n.id)
  OBVIOUS
<1>3. seen \in Seq(Nat) /\ Len(seen) = Len(tally[c].seen) + 1
  BY <1>1, <1>2 DEF TallySet, Notifs
<1>4. PICK t : t = [tally[c] EXCEPT !.seen = seen]
  OBVIOUS
<1>5. /\ t \in TallySet /\ t.sent = tally[c].sent
      /\ t.posted = tally[c].posted /\ t.received = tally[c].received
      /\ t.seen = seen
  BY <1>1, <1>3, <1>4 DEF TallySet
<1>6. tally' = [tally EXCEPT ![c] = t]
  BY <1>1, <1>2, <1>4 DEF Saw
<1>. QED  BY <1>1, <1>3, <1>5, <1>6

\* What is left of a sequence without its k-th element.
LEMMA WithoutOne ==
    ASSUME NEW S, NEW s \in Seq(S), NEW k \in 1..Len(s), NEW t,
           t = SubSeq(s, 1, k - 1) \o SubSeq(s, k + 1, Len(s))
    PROVE  t \in Seq(S) /\ Elements(t) \subseteq Elements(s)
<1>1. Elements(s) \subseteq S /\ \A j \in 1..Len(s) : s[j] \in Elements(s)
  BY DEF Elements
<1>2. /\ SubSeq(s, 1, k - 1) \in Seq(Elements(s))
      /\ SubSeq(s, k + 1, Len(s)) \in Seq(Elements(s))
  <2>1. /\ k - 1 \in Int /\ k + 1 \in Int /\ Len(s) \in Int
        /\ \A j \in 1..(k - 1) : j \in 1..Len(s)
        /\ \A j \in (k + 1)..Len(s) : j \in 1..Len(s)
    OBVIOUS
  <2>. QED  BY <1>1, <2>1, SubSeqProperties
<1>3. t \in Seq(Elements(s))
  BY <1>2, ConcatProperties
<1>4. t \in Seq(S)
  BY <1>1, <1>3, SeqMonotonic
<1>. QED  BY <1>3, <1>4, ElementsOf

LEMMA RunExpectKeeps ==
    ASSUME Inv, NEW c \in Clients, RunExpect(c)
    PROVE  Inv'
<1>1. /\ Turn(c) /\ Running(c) /\ ~Returns(c) /\ Instr(c).op = "expect"
      /\ proc[c].waits = "nothing"
  BY DEF RunExpect, Runs, Turn
<1>. plan' = plan /\ mishaps' = mishaps
     /\ UNCHANGED <<Shared, server, network>>
  BY DEF RunExpect, Outside, Shared
<1>2. CASE Stored(c) = {}
  BY <1>1, <1>2, AskingKeeps DEF RunExpect, Outside, Commands
<1>3. CASE Stored(c) # {}
  <2>1. proc \in [Clients -> ProcessorSet] /\ proc[c].inbox \in Seq(Notifs)
    BY Types DEF Inv, ProcessorSet
  <2>2. PICK k : k = CHOOSE m \in Stored(c) : \A j \in Stored(c) : m =< j
    OBVIOUS
  <2>3. k \in 1..Len(proc[c].inbox)
    <3>1. Stored(c) \subseteq 1..Len(proc[c].inbox)
      BY <2>1 DEF Stored
    <3>2. \E m \in Stored(c) : \A j \in Stored(c) : m =< j
      BY <1>3, <2>1, <3>1, LeastNumber
    <3>3. k \in Stored(c)
      BY <2>2, <3>2
    <3>. QED  BY <3>1, <3>3
  <2>4. PICK n : n = proc[c].inbox[k]
    OBVIOUS
  <2>5. n \in Notifs /\ n # NoNotif
    <3>1. n \in Notifs /\ n \in Elements(proc[c].inbox)
      BY <2>1, <2>3, <2>4 DEF Elements
    <3>2. Real(n)
      BY <3>1 DEF Inv, ClientInv, HoldsReal
    <3>. QED  BY <3>1, <3>2 DEF Real, NoNotif, Notification
  <2>6. PICK rest : rest = SubSeq(proc[c].inbox, 1, k - 1)
                           \o SubSeq(proc[c].inbox, k + 1, Len(proc[c].inbox))
    OBVIOUS
  <2>7. rest \in Seq(Notifs) /\ Elements(rest) \subseteq Elements(proc[c].inbox)
    BY <2>1, <2>3, <2>6, WithoutOne
  <2>8. PICK p : p = [proc[c] EXCEPT !.inbox = rest]
    OBVIOUS
  <2>9. GivenNotif(c, n) /\ Saw(c, n) /\ proc' = [proc EXCEPT ![c] = p]
    BY <1>3, <2>1, <2>2, <2>4, <2>6, <2>8 DEF RunExpect
  <2>10. /\ p \in ProcessorSet /\ p.waits = "nothing" /\ p.inbox = rest
         /\ p.connected = proc[c].connected /\ p.timing = proc[c].timing
    BY <1>1, <2>1, <2>7, <2>8 DEF ProcessorSet
  <2>11. /\ proc' \in [Clients -> ProcessorSet] /\ proc'[c] = p
         /\ \A d \in Clients \ {c} : proc'[d] = proc[d]
    BY <2>1, <2>9, <2>10
  <2>12. PICK s : s = [scn[c] EXCEPT !.notif = n]
    OBVIOUS
  <2>13. /\ s \in ScenarioSet /\ s.status = "running" /\ s.pc = scn[c].pc
         /\ s.notif = n /\ s.response = scn[c].response
         /\ s.channels = scn[c].channels
    <3>1. scn[c] \in ScenarioSet /\ scn[c].status = "running"
      BY <1>1, Typed DEF Running
    <3>. QED  BY <2>5, <2>12, <3>1 DEF ScenarioSet
  <2>14. /\ scn' \in [Clients -> ScenarioSet]
         /\ \A d \in Clients \ {c} : scn'[d] = scn[d]
         /\ Joined(plan.kind, Instr(c), scn[c].pc, scn'[c].pc)
         /\ scn'[c].status = "running"
         /\ scn'[c].notif = n /\ scn'[c].response = scn[c].response
         /\ InPlace(c)'
    <3>1. GoesOn(Instr(c), plan.once)
      BY <1>1 DEF GoesOn
    <3>2. Continue(c, s)
      BY <2>9, <2>12 DEF GivenNotif
    <3>3. Instr(c).op # "register"
      BY <1>1
    <3>. QED
      BY <1>1, <2>10, <2>11, <2>13, <3>1, <3>2, <3>3, GoingOn
  <2>15. InStep(c)'
    BY <1>1, <2>10, <2>11, <2>14 DEF Inv, ClientInv, InStep, Joined
  <2>16. /\ tally' \in [Clients -> TallySet]
         /\ \A d \in Clients \ {c} : tally'[d] = tally[d]
         /\ tally'[c].sent = tally[c].sent
         /\ tally'[c].posted = tally[c].posted
         /\ tally'[c].received = tally[c].received
         /\ Len(tally'[c].seen) = Len(tally[c].seen) + 1
    BY <2>5, <2>9, Seeing
  <2>17. InBalance(c)'
    BY <1>1, <2>5, <2>14, <2>16, ExpectingBalances
  <2>18. proc[c].waits \notin Requests
    BY <1>1 DEF Requests
  <2>. QED
    BY <2>7, <2>10, <2>11, <2>14, <2>15, <2>16, <2>17, <2>18, Types, LocalStep
       DEF Inv
<1>. QED  BY <1>2, <1>3

-----------------------------------------------------------------------------
(* Sending a notification. *)

\* Claims that are signed have an audience and an expiry: their own, or the
\* endpoint's and one a day ahead.
LEMMA Signing ==
    ASSUME Inv, NEW c \in Clients, NEW cl \in ClaimsSet
    PROVE  /\ Signed(cl, c) \in ClaimsSet
           /\ Signed(cl, c).aud = IF cl.aud = None THEN server[c].origin
                                  ELSE cl.aud
           /\ Signed(cl, c).exp = IF cl.exp = 0 THEN day + 1 ELSE cl.exp
           /\ Signed(cl, c).aud # None /\ Signed(cl, c).exp # 0
           /\ (cl.aud # None /\ cl.exp # 0) => Signed(cl, c) = cl
<1>1. server[c].origin \in Origins /\ day \in Nat /\ None \notin Origins
  BY Types, Typed, ConstantsFit DEF Inv, AgentSet, None
<1>2. PICK o : o = IF cl.aud = None THEN server[c].origin ELSE cl.aud
  OBVIOUS
<1>3. PICK e : e = IF cl.exp = 0 THEN day + 1 ELSE cl.exp
  OBVIOUS
<1>4. o \in Origins /\ o # None /\ e \in Nat /\ e # 0
  BY <1>1, <1>2, <1>3 DEF ClaimsSet
<1>5. PICK a : a = [cl EXCEPT !.aud = o]
  OBVIOUS
<1>6. a \in ClaimsSet /\ a.aud = o /\ a.exp = cl.exp
  BY <1>4, <1>5 DEF ClaimsSet
<1>7. a = Addressed(cl, c)
  BY <1>2, <1>5 DEF Addressed, ClaimsSet
<1>8. PICK b : b = [a EXCEPT !.exp = e]
  OBVIOUS
<1>9. b \in ClaimsSet /\ b.aud = o /\ b.exp = e
  BY <1>4, <1>6, <1>8 DEF ClaimsSet
<1>10. b = Signed(cl, c)
  BY <1>3, <1>6, <1>7, <1>8 DEF Signed, Dated, ClaimsSet
<1>11. (cl.aud # None /\ cl.exp # 0) => b = cl
  BY <1>2, <1>3, <1>9 DEF ClaimsSet
<1>. QED  BY <1>2, <1>3, <1>4, <1>9, <1>10, <1>11

\* A POST is over, well or not: it is one more.
Posting(c) ==
    /\ tally' \in [Clients -> TallySet]
    /\ \A d \in Clients \ {c} : tally'[d] = tally[d]
    /\ tally'[c].sent = tally[c].sent /\ tally'[c].posted = tally[c].posted + 1
    /\ tally'[c].received = tally[c].received /\ tally'[c].seen = tally[c].seen

LEMMA TallyPosted ==
    ASSUME Inv, NEW c \in Clients, tally' = [tally EXCEPT ![c].posted = @ + 1]
    PROVE  Posting(c)
<1>1. tally \in [Clients -> TallySet] /\ tally[c] \in TallySet
  BY Types DEF Inv
<1>2. PICK n : n = tally[c].posted + 1
  OBVIOUS
<1>3. n \in Nat
  BY <1>1, <1>2 DEF TallySet
<1>4. PICK t : t = [tally[c] EXCEPT !.posted = n]
  OBVIOUS
<1>5. /\ t \in TallySet /\ t.sent = tally[c].sent /\ t.posted = n
      /\ t.received = tally[c].received /\ t.seen = tally[c].seen
  BY <1>1, <1>3, <1>4 DEF TallySet
<1>6. tally' = [tally EXCEPT ![c] = t]
  BY <1>1, <1>2, <1>4
<1>. QED  BY <1>1, <1>2, <1>5, <1>6 DEF Posting

LEMMA SendingBalances ==
    ASSUME Inv, NEW c \in Clients, Running(c), ~Returns(c),
           Instr(c).op = "send", plan' = plan,
           Joined(plan.kind, Instr(c), scn[c].pc, scn'[c].pc),
           scn'[c].status = "running", scn'[c].notif = scn[c].notif,
           Posting(c)
    PROVE  InBalance(c)'
<1>1. Even(plan.kind, scn[c].pc)
  BY TheInstruction DEF Balanced, Commands
<1>2. /\ scn'[c].pc \notin Given[plan.kind] \cup Overcounted[plan.kind]
      /\ plan.kind \in CountSent => scn'[c].pc \in Uncounted[plan.kind]
  BY <1>1 DEF Joined, Even
<1>3. /\ Unsent(c) = 0 /\ Unread(c) = 0 /\ Phantom(c) = 0
      /\ Unread(c)' = 0 /\ Phantom(c)' = 0
      /\ plan.kind \in CountSent => Unsent(c)' = 1
  BY <1>1, <1>2 DEF Unsent, Unread, Phantom, Even
<1>4. InBalance(c) /\ tally[c] \in TallySet
  BY Typed DEF Inv, ClientInv
<1>5. /\ tally[c].sent \in Nat /\ tally[c].posted \in Nat
      /\ tally[c].received \in Nat /\ Len(tally[c].seen) \in Nat
  BY <1>4 DEF TallySet
<1>. QED  BY <1>3, <1>4, <1>5 DEF InBalance, Running, Posting

\* A POST without an endpoint fails at once.
LEMMA FailingToSendKeeps ==
    ASSUME Inv, NEW c \in Clients, RunSendNotification(c),
           Instr(c).arg = "no_endpoint"
    PROVE  Inv'
<1>1. /\ Turn(c) /\ Running(c) /\ ~Returns(c) /\ Instr(c).op = "send"
      /\ proc[c].waits = "nothing"
  BY DEF RunSendNotification, Runs, Turn
<1>2. PICK s : s = [scn[c] EXCEPT !.response = "failed"]
  OBVIOUS
<1>3. /\ plan' = plan /\ mishaps' = mishaps /\ proc' = proc
      /\ UNCHANGED <<Shared, server, network>> /\ Continue(c, s)
      /\ tally' = [tally EXCEPT ![c].posted = @ + 1]
  BY <1>2 DEF RunSendNotification, Shared, network
<1>4. /\ s \in ScenarioSet /\ s.status = "running" /\ s.pc = scn[c].pc
      /\ s.notif = scn[c].notif /\ s.response = "failed"
      /\ s.channels = scn[c].channels
  <2>1. scn[c] \in ScenarioSet /\ scn[c].status = "running"
    BY <1>1, Typed DEF Running
  <2>. QED  BY <1>2, <2>1 DEF ScenarioSet
<1>5. /\ scn' \in [Clients -> ScenarioSet]
      /\ \A d \in Clients \ {c} : scn'[d] = scn[d]
      /\ Joined(plan.kind, Instr(c), scn[c].pc, scn'[c].pc)
      /\ scn'[c].status = "running"
      /\ scn'[c].notif = scn[c].notif /\ scn'[c].response = "failed"
      /\ InPlace(c)'
  <2>1. GoesOn(Instr(c), plan.once) /\ Instr(c).op # "register"
    BY <1>1 DEF GoesOn
  <2>. QED  BY <1>1, <1>3, <1>4, <2>1, GoingOn
<1>6. InStep(c)'
  BY <1>1, <1>3, <1>5 DEF Inv, ClientInv, InStep, Joined
<1>7. Posting(c)
  BY <1>3, TallyPosted
<1>8. InBalance(c)'
  BY <1>1, <1>3, <1>5, <1>7, SendingBalances
<1>9. proc[c].waits \notin Requests
  BY <1>1 DEF Requests
<1>. QED
  BY <1>1, <1>3, <1>5, <1>6, <1>7, <1>8, <1>9, Types, LocalStep
     DEF Inv, Posting

\* The channel of a POST is one that the scenario registered.
LEMMA Targets ==
    ASSUME Inv, NEW c \in Clients, Running(c), ~Returns(c),
           Instr(c).op = "send", Instr(c).arg # "no_endpoint"
    PROVE  Target(c) \in Nat /\ Instr(c).arg \in Payloads
<1>1. /\ Instr(c).arg \in Texts
      /\ Instr(c).arg = "bad_token" \/ scn[c].pc \in Registered[plan.kind]
  BY TheInstruction DEF Allowed
<1>2. Instr(c).arg # "bad_token" => scn[c].channels # <<>>
  BY <1>1 DEF Inv, ClientInv, InPlace
<1>3. PICK chs : chs = scn[c].channels
  OBVIOUS
<1>4. chs \in Seq(Nat)
  BY <1>3, Typed DEF ScenarioSet
<1>5. chs # <<>> => chs[Len(chs)] \in Nat
  BY <1>4
<1>. QED  BY <1>1, <1>2, <1>3, <1>5 DEF Target, Texts, Payloads

\* A POST is signed.
LEMMA SendingKeeps ==
    ASSUME Inv, NEW c \in Clients, RunSendNotification(c),
           Instr(c).arg # "no_endpoint"
    PROVE  Inv'
<1>1. /\ Turn(c) /\ Running(c) /\ ~Returns(c) /\ Instr(c).op = "send"
      /\ proc[c].waits = "nothing"
  BY DEF RunSendNotification, Runs, Turn
<1>2. /\ plan' = plan /\ day' = day /\ mishaps' = mishaps /\ scn' = scn
      /\ server' = server /\ up' = up /\ down' = down /\ tally' = tally
      /\ SignAndPost(c) /\ Asks(c)
  BY DEF RunSendNotification
<1>3. /\ proc' \in [Clients -> ProcessorSet]
      /\ \A d \in Clients \ {c} : proc'[d] = proc[d]
      /\ proc'[c].waits = "send" /\ proc'[c].inbox = proc[c].inbox
      /\ InPlace(c)' /\ InStep(c)'
  BY <1>1, <1>2, Asking DEF Commands
<1>4. claims \in ClaimsSet /\ NoClaims \in ClaimsSet /\ day \in Nat
  BY Types DEF Inv, NoClaims, ClaimsSet
<1>5. PICK signed : signed = IF plan.claims = "none" THEN NoClaims
                             ELSE IF plan.claims = "text" THEN Signed(NoClaims, c)
                             ELSE Signed(claims, c)
  OBVIOUS
<1>6. signed \in ClaimsSet
  BY <1>4, <1>5, Signing
<1>7. /\ Posts(c, signed)
      /\ plan.claims # "dict" => claims' = claims
      /\ plan.claims = "dict" => claims' = signed
  <2>1. CASE plan.claims = "none"
    BY <1>2, <1>5, <2>1 DEF SignAndPost
  <2>2. CASE plan.claims = "text"
    BY <1>2, <1>5, <2>2 DEF SignAndPost
  <2>3. CASE plan.claims = "dict"
    BY <1>2, <1>5, <2>3 DEF SignAndPost
  <2>. QED  BY <2>1, <2>2, <2>3, ThePlan
<1>8. Settled => claims' = claims
  BY <1>4, <1>5, <1>7, Signing DEF Settled
<1>9. /\ post' \in [Clients -> PostSet]
      /\ post'[c].signed = signed /\ post'[c].code = "none"
      /\ \A d \in Clients \ {c} : post'[d] = post[d]
  <2>1. post \in [Clients -> PostSet]
    BY Types DEF Inv
  <2>2. PICK p : p = Post(Target(c), Instr(c).arg, signed)
    OBVIOUS
  <2>3. p \in PostSet /\ p.signed = signed /\ p.code = "none"
    BY <1>1, <1>6, <2>2, Targets DEF Post, PostSet
  <2>4. post' = [post EXCEPT ![c] = p]
    BY <1>7, <2>2 DEF Posts
  <2>. QED  BY <2>1, <2>3, <2>4
<1>10. claims' \in ClaimsSet
  BY <1>4, <1>6, <1>7
<1>11. TypeOK'
  BY <1>2, <1>3, <1>9, <1>10, Types, PrimedTypes DEF Inv
<1>12. InTouch(c)'
  <2>1. up[c] = "none" /\ \A k \in DOMAIN down[c] : ~Replies(down[c][k])
    BY <1>1, NothingAsked DEF Requests
  <2>. QED  BY <1>2, <2>1 DEF InTouch
<1>13. HoldsReal(c)'
  BY <1>2, <1>3 DEF Inv, ClientInv, HoldsReal
<1>14. InBalance(c)'
  BY <1>2 DEF Inv, ClientInv, InBalance, Unread, Phantom, Unsent
<1>15. InForce(c)'
  <2>1. Signs(c)'
    <3>1. CASE plan.claims = "none"
      BY <1>2, <1>5, <1>9, <3>1 DEF Signs
    <3>2. CASE plan.claims = "text"
      <4>1. signed.aud = server[c].origin /\ signed.exp = day + 1
        BY <1>4, <1>5, <3>2, Signing DEF NoClaims, None
      <4>. QED  BY <1>2, <1>4, <1>9, <3>2, <4>1 DEF Signs
    <3>3. CASE plan.claims = "dict"
      <4>1. signed.aud # None /\ signed.exp # 0
        BY <1>4, <1>5, <3>3, Signing
      <4>. QED  BY <1>2, <1>7, <1>9, <3>3, <4>1 DEF Signs, Settled
    <3>. QED  BY <3>1, <3>2, <3>3, ThePlan
  <2>2. scn[c].response = "401" => (Settled /\ Unfit(c))'
    BY <1>2, <1>8 DEF Inv, ClientInv, InForce, Settled, Unfit
  <2>. QED  BY <1>2, <1>9, <2>1, <2>2 DEF InForce
<1>16. Obeys(c)'
  BY <1>2 DEF Inv, ClientInv, Obeys
<1>17. \A d \in Clients \ {c} : Stays(d)
  BY <1>2, <1>3, <1>9 DEF Stays
<1>. QED
  BY <1>2, <1>3, <1>7, <1>8, <1>11, <1>12, <1>13, <1>14, <1>15, <1>16, <1>17,
     TheOthersStay DEF ClientInv

LEMMA RunSendNotificationKeeps ==
    ASSUME Inv, NEW c \in Clients, RunSendNotification(c)
    PROVE  Inv'
BY FailingToSendKeeps, SendingKeeps

-----------------------------------------------------------------------------
(* What the processor tells a scenario. *)

LEMMA Waiting ==
    ASSUME Inv, NEW c \in Clients, Running(c), proc[c].waits # "nothing"
    PROVE  ~Returns(c) /\ Instr(c).op = proc[c].waits
BY DEF Inv, ClientInv, InPlace

\* A command other than connect and disconnect is answered.
LEMMA Answering ==
    ASSUME Inv, NEW c \in Clients, Running(c), ~Returns(c),
           Instr(c).op \in Commands \ {"connect", "disconnect"},
           NEW s \in ScenarioSet, s.status = "running", s.pc = scn[c].pc,
           \/ s.channels = scn[c].channels /\ Instr(c).op # "register"
           \/ s.channels # <<>>,
           Answered(c, s), plan' = plan
    PROVE  /\ proc' \in [Clients -> ProcessorSet]
           /\ scn' \in [Clients -> ScenarioSet]
           /\ \A d \in Clients \ {c} : scn'[d] = scn[d] /\ proc'[d] = proc[d]
           /\ proc'[c].waits = "nothing" /\ proc'[c].inbox = proc[c].inbox
           /\ Joined(plan.kind, Instr(c), scn[c].pc, scn'[c].pc)
           /\ scn'[c].status = "running"
           /\ scn'[c].notif = s.notif /\ scn'[c].response = s.response
           /\ InPlace(c)' /\ InStep(c)'
<1>1. /\ proc' \in [Clients -> ProcessorSet]
      /\ \A d \in Clients \ {c} : proc'[d] = proc[d]
      /\ proc'[c].waits = "nothing" /\ proc'[c].inbox = proc[c].inbox
      /\ proc'[c].connected = proc[c].connected
      /\ proc'[c].timing = proc[c].timing
  <2>1. proc \in [Clients -> ProcessorSet]
    BY Types DEF Inv
  <2>. QED  BY <2>1 DEF Answered, ProcessorSet
<1>2. GoesOn(Instr(c), plan.once)
  BY DEF GoesOn, Commands, Requests
<1>3. Continue(c, s)
  BY DEF Answered
<1>4. /\ scn' \in [Clients -> ScenarioSet]
      /\ \A d \in Clients \ {c} : scn'[d] = scn[d]
      /\ Joined(plan.kind, Instr(c), scn[c].pc, scn'[c].pc)
      /\ scn'[c].status = "running"
      /\ scn'[c].notif = s.notif /\ scn'[c].response = s.response
      /\ InPlace(c)'
  BY <1>1, <1>2, <1>3, GoingOn
<1>5. InStep(c)'
  BY <1>1, <1>4 DEF Inv, ClientInv, InStep, Joined, Commands, Requests
<1>. QED  BY <1>1, <1>4, <1>5

LEMMA OpensKeeps ==
    ASSUME Inv, NEW c \in Clients, Opens(c)
    PROVE  Inv'
<1>1. /\ Running(c) /\ proc[c].waits = "connect" /\ ~Returns(c)
      /\ Instr(c).op = "connect"
  BY Waiting DEF Opens, Awaits
<1>2. /\ plan' = plan /\ mishaps' = mishaps /\ tally' = tally
      /\ UNCHANGED <<Shared, server, network>> /\ Continue(c, scn[c])
      /\ proc' = [proc EXCEPT ![c].waits = "nothing", ![c].connected = TRUE]
  BY DEF Opens, Outside, Shared
<1>3. /\ proc' \in [Clients -> ProcessorSet]
      /\ \A d \in Clients \ {c} : proc'[d] = proc[d]
      /\ proc'[c].waits = "nothing" /\ proc'[c].inbox = proc[c].inbox
      /\ proc'[c].connected /\ proc'[c].timing = proc[c].timing
  <2>1. proc \in [Clients -> ProcessorSet]
    BY Types DEF Inv
  <2>2. PICK p : p = [proc[c] EXCEPT !.waits = "nothing", !.connected = TRUE]
    OBVIOUS
  <2>3. /\ p \in ProcessorSet /\ p.waits = "nothing"
        /\ p.inbox = proc[c].inbox /\ p.connected
        /\ p.timing = proc[c].timing
    BY <2>1, <2>2 DEF ProcessorSet
  <2>4. proc' = [proc EXCEPT ![c] = p]
    BY <1>2, <2>1, <2>2
  <2>. QED  BY <2>1, <2>3, <2>4
<1>4. /\ scn' \in [Clients -> ScenarioSet]
      /\ \A d \in Clients \ {c} : scn'[d] = scn[d]
      /\ Joined(plan.kind, Instr(c), scn[c].pc, scn'[c].pc)
      /\ scn'[c].status = "running"
      /\ scn'[c].notif = scn[c].notif /\ scn'[c].response = scn[c].response
      /\ InPlace(c)'
  <2>1. GoesOn(Instr(c), plan.once) /\ Instr(c).op # "register"
    BY <1>1 DEF GoesOn
  <2>. QED  BY <1>1, <1>2, <1>3, <2>1, GoingOn, Typed DEF Running
<1>5. InStep(c)'
  BY <1>1, <1>2, <1>3, <1>4 DEF Inv, ClientInv, InStep, Joined
<1>6. InBalance(c)'
  BY <1>1, <1>2, <1>4
     DEF Inv, ClientInv, InBalance, Unread, Phantom, Unsent, Joined, Running
<1>7. proc[c].waits \notin Requests
  BY <1>1 DEF Requests
<1>. QED
  BY <1>1, <1>2, <1>3, <1>4, <1>5, <1>6, <1>7, Types, LocalStep DEF Inv

LEMMA ClosesKeeps ==
    ASSUME Inv, NEW c \in Clients, Closes(c)
    PROVE  Inv'
<1>1. /\ Running(c) /\ proc[c].waits = "disconnect" /\ ~Returns(c)
      /\ Instr(c).op = "disconnect"
  BY Waiting DEF Closes, Awaits
<1>2. /\ plan' = plan /\ mishaps' = mishaps /\ tally' = tally
      /\ UNCHANGED <<Shared, post, tally>> /\ Continue(c, scn[c])
      /\ Unconnected(c)
      /\ proc' = [proc EXCEPT ![c].waits = "nothing", ![c].connected = FALSE]
  BY DEF Closes, Shared
<1>3. /\ proc' \in [Clients -> ProcessorSet]
      /\ \A d \in Clients \ {c} : proc'[d] = proc[d]
      /\ proc'[c].waits = "nothing" /\ proc'[c].inbox = proc[c].inbox
      /\ ~proc'[c].connected /\ proc'[c].timing = proc[c].timing
  <2>1. proc \in [Clients -> ProcessorSet]
    BY Types DEF Inv
  <2>2. PICK p : p = [proc[c] EXCEPT !.waits = "nothing", !.connected = FALSE]
    OBVIOUS
  <2>3. /\ p \in ProcessorSet /\ p.waits = "nothing"
        /\ p.inbox = proc[c].inbox /\ ~p.connected
        /\ p.timing = proc[c].timing
    BY <2>1, <2>2 DEF ProcessorSet
  <2>4. proc' = [proc EXCEPT ![c] = p]
    BY <1>2, <2>1, <2>2
  <2>. QED  BY <2>1, <2>3, <2>4
<1>4. /\ scn' \in [Clients -> ScenarioSet]
      /\ \A d \in Clients \ {c} : scn'[d] = scn[d]
      /\ Joined(plan.kind, Instr(c), scn[c].pc, scn'[c].pc)
      /\ scn'[c].status = "running"
      /\ scn'[c].notif = scn[c].notif /\ scn'[c].response = scn[c].response
      /\ InPlace(c)'
  <2>1. GoesOn(Instr(c), plan.once) /\ Instr(c).op # "register"
    BY <1>1 DEF GoesOn
  <2>. QED  BY <1>1, <1>2, <1>3, <2>1, GoingOn, Typed DEF Running
<1>5. InStep(c)'
  BY <1>1, <1>2, <1>3, <1>4 DEF Inv, ClientInv, InStep, Joined
<1>6. InBalance(c)'
  BY <1>1, <1>2, <1>4
     DEF Inv, ClientInv, InBalance, Unread, Phantom, Unsent, Joined, Running
<1>. QED
  BY <1>1, <1>2, <1>3, <1>4, <1>5, <1>6, Types, Disconnecting DEF Inv

LEMMA DropsKeeps ==
    ASSUME Inv, NEW c \in Clients, Drops(c)
    PROVE  Inv'
<1>1. Running(c) /\ proc[c].waits # "nothing" /\ ~Returns(c)
  BY Waiting DEF Drops
<1>2. /\ plan' = plan /\ tally' = tally /\ Unconnected(c)
      /\ UNCHANGED <<Shared, post, tally>>
      /\ mishaps' = [mishaps EXCEPT ![c] = @ \cup {"drop"}]
  BY DEF Drops, Shared
<1>3. PICK p : p = [proc[c] EXCEPT !.connected = FALSE]
  OBVIOUS
<1>4. p \in ProcessorSet /\ p.inbox = proc[c].inbox
  BY <1>3, Typed DEF ProcessorSet
<1>5. Raise(c, p)
  BY <1>3 DEF Drops
<1>6. /\ scn' \in [Clients -> ScenarioSet]
      /\ proc' \in [Clients -> ProcessorSet]
      /\ \A d \in Clients \ {c} : scn'[d] = scn[d] /\ proc'[d] = proc[d]
      /\ proc'[c].waits = "nothing" /\ proc'[c].inbox \in {p.inbox, <<>>}
      /\ scn'[c].response \in {scn[c].response, "none"}
      /\ InPlace(c)' /\ InStep(c)' /\ InBalance(c)'
  BY <1>1, <1>2, <1>4, <1>5, Raising
<1>7. /\ mishaps' \in [Clients -> SUBSET (FaultKinds \cup {"refused"})]
      /\ "refused" \in mishaps'[c] => "refused" \in mishaps[c]
      /\ \A d \in Clients \ {c} : mishaps'[d] = mishaps[d]
  BY <1>2, Types DEF Inv, FaultKinds
<1>. QED  BY <1>2, <1>4, <1>6, <1>7, Disconnecting

LEMMA TimesOutKeeps ==
    ASSUME Inv, NEW c \in Clients, TimesOut(c)
    PROVE  Inv'
<1>1. /\ Running(c) /\ proc[c].waits = "expect" /\ ~Returns(c)
      /\ Instr(c).op = "expect"
  BY Waiting DEF TimesOut, Awaits
<1>2. PICK s : s = [scn[c] EXCEPT !.notif = NoNotif]
  OBVIOUS
<1>3. /\ plan' = plan /\ tally' = tally /\ Answered(c, s)
      /\ UNCHANGED <<Shared, server, network>>
  BY <1>2 DEF TimesOut, Shared
<1>4. /\ s \in ScenarioSet /\ s.status = "running" /\ s.pc = scn[c].pc
      /\ s.notif = NoNotif /\ s.response = scn[c].response
      /\ s.channels = scn[c].channels
  <2>1. scn[c] \in ScenarioSet /\ scn[c].status = "running"
    BY <1>1, Typed DEF Running
  <2>. QED  BY <1>2, <2>1, Beginnings DEF ScenarioSet
<1>5. /\ proc' \in [Clients -> ProcessorSet]
      /\ scn' \in [Clients -> ScenarioSet]
      /\ \A d \in Clients \ {c} : scn'[d] = scn[d] /\ proc'[d] = proc[d]
      /\ proc'[c].waits = "nothing" /\ proc'[c].inbox = proc[c].inbox
      /\ Joined(plan.kind, Instr(c), scn[c].pc, scn'[c].pc)
      /\ scn'[c].status = "running"
      /\ scn'[c].notif = s.notif /\ scn'[c].response = s.response
      /\ InPlace(c)' /\ InStep(c)'
  BY <1>1, <1>3, <1>4, Answering DEF Commands, Requests
<1>6. InBalance(c)'
  BY <1>1, <1>3, <1>4, <1>5, ExpectingBalances
<1>7. /\ mishaps' \in [Clients -> SUBSET (FaultKinds \cup {"refused"})]
      /\ "refused" \in mishaps'[c] => "refused" \in mishaps[c]
      /\ \A d \in Clients \ {c} : mishaps'[d] = mishaps[d]
  <2>1. CASE mishaps' = mishaps
    BY <2>1, Types DEF Inv
  <2>2. CASE mishaps' = [mishaps EXCEPT ![c] = @ \cup {"late"}]
    BY <2>2, Types DEF Inv, FaultKinds
  <2>. QED  BY <2>1, <2>2 DEF TimesOut
<1>8. proc[c].waits \notin Requests
  BY <1>1 DEF Requests
<1>. QED  BY <1>3, <1>4, <1>5, <1>6, <1>7, <1>8, Types, LocalStep DEF Inv

LEMMA WaitEndsKeeps ==
    ASSUME Inv, NEW c \in Clients, WaitEnds(c)
    PROVE  Inv'
<1>1. /\ Running(c) /\ proc[c].waits = "wait" /\ ~Returns(c)
      /\ Instr(c).op = "wait"
  BY Waiting DEF WaitEnds, Awaits
<1>2. /\ plan' = plan /\ tally' = tally /\ mishaps' = mishaps
      /\ Answered(c, scn[c]) /\ UNCHANGED <<Shared, server, network>>
  BY DEF WaitEnds, Outside, Shared
<1>3. scn[c] \in ScenarioSet /\ scn[c].status = "running"
  BY <1>1, Typed DEF Running
<1>4. /\ proc' \in [Clients -> ProcessorSet]
      /\ scn' \in [Clients -> ScenarioSet]
      /\ \A d \in Clients \ {c} : scn'[d] = scn[d] /\ proc'[d] = proc[d]
      /\ proc'[c].waits = "nothing" /\ proc'[c].inbox = proc[c].inbox
      /\ Joined(plan.kind, Instr(c), scn[c].pc, scn'[c].pc)
      /\ scn'[c].status = "running"
      /\ scn'[c].notif = scn[c].notif /\ scn'[c].response = scn[c].response
      /\ InPlace(c)' /\ InStep(c)'
  BY <1>1, <1>2, <1>3, Answering DEF Commands, Requests
<1>5. InBalance(c)'
  BY <1>1, <1>2, <1>4
     DEF Inv, ClientInv, InBalance, Unread, Phantom, Unsent, Joined, Running
<1>6. proc[c].waits \notin Requests
  BY <1>1 DEF Requests
<1>. QED  BY <1>2, <1>4, <1>5, <1>6, Types, LocalStep DEF Inv

\* A POST is over, whatever came of it.
LEMMA Responding ==
    ASSUME Inv, NEW c \in Clients, Running(c), proc[c].waits = "send",
           NEW r \in {"201", "401", "404", "failed"}, Responds(c, r),
           r = "401" => Settled /\ Unfit(c),
           UNCHANGED <<Shared, server, up, down>>,
           mishaps' \in [Clients -> SUBSET (FaultKinds \cup {"refused"})],
           "refused" \in mishaps'[c] => "refused" \in mishaps[c],
           \A d \in Clients \ {c} : mishaps'[d] = mishaps[d]
    PROVE  Inv'
<1>. plan' = plan /\ claims' = claims /\ day' = day /\ server' = server
     /\ up' = up /\ down' = down
  BY DEF Shared
<1>1. ~Returns(c) /\ Instr(c).op = "send"
  BY Waiting
<1>2. PICK s : s = [scn[c] EXCEPT !.response = r]
  OBVIOUS
<1>3. /\ Answered(c, s) /\ post' = [post EXCEPT ![c] = NoPost]
      /\ tally' = [tally EXCEPT ![c].posted = @ + 1]
  BY <1>2 DEF Responds
<1>4. /\ s \in ScenarioSet /\ s.status = "running" /\ s.pc = scn[c].pc
      /\ s.notif = scn[c].notif /\ s.response = r
      /\ s.channels = scn[c].channels
  <2>1. scn[c] \in ScenarioSet /\ scn[c].status = "running"
    BY Typed DEF Running
  <2>. QED  BY <1>2, <2>1 DEF ScenarioSet
<1>5. /\ proc' \in [Clients -> ProcessorSet]
      /\ scn' \in [Clients -> ScenarioSet]
      /\ \A d \in Clients \ {c} : scn'[d] = scn[d] /\ proc'[d] = proc[d]
      /\ proc'[c].waits = "nothing" /\ proc'[c].inbox = proc[c].inbox
      /\ Joined(plan.kind, Instr(c), scn[c].pc, scn'[c].pc)
      /\ scn'[c].status = "running"
      /\ scn'[c].notif = s.notif /\ scn'[c].response = s.response
      /\ InPlace(c)' /\ InStep(c)'
  BY <1>1, <1>3, <1>4, Answering DEF Commands, Requests
<1>6. Posting(c)
  BY <1>3, TallyPosted
<1>7. InBalance(c)'
  BY <1>1, <1>4, <1>5, <1>6, SendingBalances
<1>8. /\ post' \in [Clients -> PostSet]
      /\ \A d \in Clients \ {c} : post'[d] = post[d]
  <2>1. NoPost \in PostSet
    BY DEF NoPost, PostSet, ClaimsSet, NoClaims, Payloads
  <2>. QED  BY <1>3, <2>1, Types DEF Inv
<1>9. TypeOK'
  BY <1>5, <1>6, <1>8, Types, PrimedTypes DEF Inv, Posting
<1>10. InTouch(c)'
  <2>1. up[c] = "none" /\ \A k \in DOMAIN down[c] : ~Replies(down[c][k])
    BY NothingAsked DEF Requests
  <2>. QED  BY <2>1 DEF InTouch
<1>11. HoldsReal(c)'
  BY <1>5 DEF Inv, ClientInv, HoldsReal
<1>12. InForce(c)'
  BY <1>4, <1>5 DEF InForce, Settled, Unfit
<1>13. Obeys(c)'
  BY DEF Inv, ClientInv, Obeys
<1>14. \A d \in Clients \ {c} : Stays(d)
  BY <1>5, <1>6, <1>8 DEF Stays, Posting
<1>. QED
  BY <1>5, <1>7, <1>9, <1>10, <1>11, <1>12, <1>13, <1>14, TheOthersStay
     DEF ClientInv

LEMMA PostAnsweredKeeps ==
    ASSUME Inv, NEW c \in Clients, PostAnswered(c)
    PROVE  Inv'
<1>1. Running(c) /\ proc[c].waits = "send" /\ post[c].code # "none"
  BY DEF PostAnswered, Awaits
<1>2. post[c].code \in {"201", "401", "404", "failed"}
  BY <1>1, Typed DEF PostSet
<1>3. post[c].code = "401" => Settled /\ Unfit(c)
  BY <1>1 DEF Inv, ClientInv, InForce
<1>4. /\ Responds(c, post[c].code)
      /\ UNCHANGED <<Shared, server, up, down>> /\ mishaps' = mishaps
  BY DEF PostAnswered
<1>. QED  BY <1>1, <1>2, <1>3, <1>4, Types, Responding DEF Inv

LEMMA PostFailsKeeps ==
    ASSUME Inv, NEW c \in Clients, PostFails(c)
    PROVE  Inv'
<1>1. Running(c) /\ proc[c].waits = "send"
  BY DEF PostFails, Awaits
<1>2. Responds(c, "failed") /\ UNCHANGED <<Shared, server, up, down>>
  BY DEF PostFails
<1>3. /\ mishaps' \in [Clients -> SUBSET (FaultKinds \cup {"refused"})]
      /\ "refused" \in mishaps'[c] => "refused" \in mishaps[c]
      /\ \A d \in Clients \ {c} : mishaps'[d] = mishaps[d]
  BY Types DEF Inv, PostFails, FaultKinds
<1>. QED  BY <1>1, <1>2, <1>3, Responding


-----------------------------------------------------------------------------
(* Frames arrive. *)

\* The first of the frames on their way is taken, the others stay in order.
LEMMA NextFrame ==
    ASSUME Inv, NEW c \in Clients, down[c] # <<>>,
           down' = [down EXCEPT ![c] = Tail(@)]
    PROVE  /\ 1 \in DOMAIN down[c] /\ Head(down[c]) = down[c][1]
           /\ Head(down[c]) \in FrameSet
           /\ down' \in [Clients -> Seq(FrameSet)]
           /\ \A d \in Clients \ {c} : down'[d] = down[d]
           /\ \A k \in DOMAIN down'[c] :
                 k + 1 \in DOMAIN down[c] /\ down'[c][k] = down[c][k + 1]
<1>1. down \in [Clients -> Seq(FrameSet)] /\ down[c] \in Seq(FrameSet)
  BY Types DEF Inv
<1>2. PICK t : t = Tail(down[c])
  OBVIOUS
<1>3. /\ Head(down[c]) \in FrameSet /\ t \in Seq(FrameSet)
      /\ Len(t) = Len(down[c]) - 1
      /\ \A k \in 1..Len(t) : t[k] = down[c][k + 1]
  BY <1>1, <1>2, HeadTailProperties
<1>4. 1 \in DOMAIN down[c] /\ Head(down[c]) = down[c][1]
  BY <1>1
<1>5. /\ down' \in [Clients -> Seq(FrameSet)] /\ down'[c] = t
      /\ \A d \in Clients \ {c} : down'[d] = down[d]
  BY <1>1, <1>2, <1>3
<1>6. ASSUME NEW k \in DOMAIN t
      PROVE  k + 1 \in DOMAIN down[c] /\ t[k] = down[c][k + 1]
  BY <1>1, <1>3
<1>. QED  BY <1>3, <1>4, <1>5, <1>6

\* What holds of the frames on their way holds of those that are left.
LEMMA ArrivalKeeps ==
    ASSUME Inv, NEW c \in Clients, down[c] # <<>>,
           down' = [down EXCEPT ![c] = Tail(@)],
           UNCHANGED <<Shared, server, up, post, mishaps>>,
           scn' \in [Clients -> ScenarioSet],
           proc' \in [Clients -> ProcessorSet],
           tally' \in [Clients -> TallySet],
           \A d \in Clients \ {c} :
               scn'[d] = scn[d] /\ proc'[d] = proc[d] /\ tally'[d] = tally[d],
           \A n \in Elements(proc'[c].inbox) : Real(n),
           \/ proc'[c].waits = proc[c].waits
           \/ proc'[c].waits = "nothing" /\ Replies(Head(down[c]))
           \/ proc'[c].waits = "nothing" /\ proc[c].waits = "expect",
           scn'[c].response = scn[c].response,
           InPlace(c)', InStep(c)', InBalance(c)'
    PROVE  Inv'
<1>. plan' = plan /\ claims' = claims /\ day' = day /\ server' = server
     /\ up' = up /\ post' = post /\ mishaps' = mishaps
  BY DEF Shared
<1>1. /\ 1 \in DOMAIN down[c] /\ Head(down[c]) = down[c][1]
      /\ down' \in [Clients -> Seq(FrameSet)]
      /\ \A d \in Clients \ {c} : down'[d] = down[d]
      /\ \A k \in DOMAIN down'[c] :
            k + 1 \in DOMAIN down[c] /\ down'[c][k] = down[c][k + 1]
  BY NextFrame
<1>2. DOMAIN down[c] \subseteq Nat /\ DOMAIN down'[c] \subseteq Nat \ {0}
  <2>1. down[c] \in Seq(FrameSet) /\ down'[c] \in Seq(FrameSet)
    BY <1>1, Typed
  <2>. QED  BY <2>1
<1>3. TypeOK'
  BY <1>1, Types, PrimedTypes DEF Inv
<1>4. InTouch(c)'
  <2>1. InTouch(c)
    BY DEF Inv, ClientInv
  <2>2. CASE proc'[c].waits = proc[c].waits
    <3>1. up[c] # "none" =>
             /\ proc'[c].waits = up[c]
             /\ \A k \in DOMAIN down'[c] : ~Replies(down'[c][k])
      BY <1>1, <2>1, <2>2 DEF InTouch
    <3>2. ASSUME NEW k \in DOMAIN down'[c], Replies(down'[c][k])
          PROVE  /\ proc'[c].waits = Request(down'[c][k].type)
                 /\ \A j \in DOMAIN down'[c] : j # k => ~Replies(down'[c][j])
      <4>1. k + 1 \in DOMAIN down[c] /\ down'[c][k] = down[c][k + 1]
        BY <1>1
      <4>2. ASSUME NEW j \in DOMAIN down'[c], j # k
            PROVE  ~Replies(down'[c][j])
        <5>1. j + 1 \in DOMAIN down[c] /\ down'[c][j] = down[c][j + 1]
              /\ j + 1 # k + 1
          BY <1>1, <1>2, <4>2
        <5>. QED  BY <2>1, <3>2, <4>1, <5>1 DEF InTouch
      <4>. QED  BY <2>1, <2>2, <3>2, <4>1, <4>2 DEF InTouch
    <3>. QED  BY <3>1, <3>2 DEF InTouch
  <2>3. CASE proc'[c].waits = "nothing" /\ Replies(Head(down[c]))
    <3>1. up[c] = "none"
      BY <1>1, <2>1, <2>3 DEF InTouch
    <3>2. ASSUME NEW k \in DOMAIN down'[c] PROVE ~Replies(down'[c][k])
      <4>1. k + 1 \in DOMAIN down[c] /\ k + 1 # 1
            /\ down'[c][k] = down[c][k + 1]
        BY <1>1, <1>2
      <4>. QED  BY <1>1, <2>1, <2>3, <4>1 DEF InTouch
    <3>. QED  BY <3>1, <3>2 DEF InTouch
  <2>4. CASE proc'[c].waits = "nothing" /\ proc[c].waits = "expect"
    <3>1. up[c] = "none" /\ \A k \in DOMAIN down[c] : ~Replies(down[c][k])
      BY <2>4, NothingAsked DEF Requests
    <3>. QED  BY <1>1, <3>1 DEF InTouch
  <2>. QED  BY <2>2, <2>3, <2>4
<1>5. HoldsReal(c)'
  BY <1>1 DEF Inv, ClientInv, HoldsReal
<1>6. InForce(c)'
  BY DEF Inv, ClientInv, InForce, Settled, Unfit, Signs
<1>7. Obeys(c)'
  BY DEF Inv, ClientInv, Obeys
<1>8. \A d \in Clients \ {c} : Stays(d)
  BY <1>1 DEF Stays
<1>. QED
  BY <1>3, <1>4, <1>5, <1>6, <1>7, <1>8, TheOthersStay DEF ClientInv

\* The notification that the scenario expects.
LEMMA ExpectedArrives ==
    ASSUME Inv, NEW c \in Clients, Arrives(c),
           Head(down[c]).type = "notification",
           proc[c].waits = "expect", IsExpected(c, Head(down[c]).notif)
    PROVE  Inv'
<1>1. PICK n : n = Head(down[c]).notif
  OBVIOUS
<1>2. PICK s : s = [scn[c] EXCEPT !.notif = n]
  OBVIOUS
<1>3. /\ Running(c) /\ ~Returns(c) /\ Instr(c).op = "expect"
      /\ down[c] # <<>> /\ down' = [down EXCEPT ![c] = Tail(@)]
      /\ UNCHANGED <<Shared, server, up, post, mishaps>> /\ plan' = plan
  BY Waiting DEF Arrives, Shared
<1>4. Answered(c, s) /\ Saw(c, n)
  BY <1>1, <1>2 DEF Arrives
<1>5. n \in Notifs /\ n # NoNotif
  <2>1. /\ 1 \in DOMAIN down[c] /\ Head(down[c]) = down[c][1]
        /\ Head(down[c]) \in FrameSet
    BY <1>3, NextFrame
  <2>2. n \in Notifs
    BY <1>1, <2>1 DEF FrameSet
  <2>3. Real(n)
    BY <1>1, <2>1 DEF Inv, ClientInv, HoldsReal, Replies
  <2>. QED  BY <2>2, <2>3 DEF Real, NoNotif, Notification
<1>6. /\ s \in ScenarioSet /\ s.status = "running" /\ s.pc = scn[c].pc
      /\ s.notif = n /\ s.response = scn[c].response
      /\ s.channels = scn[c].channels
  <2>1. scn[c] \in ScenarioSet /\ scn[c].status = "running"
    BY <1>3, Typed DEF Running
  <2>. QED  BY <1>2, <1>5, <2>1 DEF ScenarioSet
<1>7. /\ proc' \in [Clients -> ProcessorSet]
      /\ scn' \in [Clients -> ScenarioSet]
      /\ \A d \in Clients \ {c} : scn'[d] = scn[d] /\ proc'[d] = proc[d]
      /\ proc'[c].waits = "nothing" /\ proc'[c].inbox = proc[c].inbox
      /\ Joined(plan.kind, Instr(c), scn[c].pc, scn'[c].pc)
      /\ scn'[c].status = "running"
      /\ scn'[c].notif = s.notif /\ scn'[c].response = s.response
      /\ InPlace(c)' /\ InStep(c)'
  BY <1>3, <1>4, <1>6, Answering DEF Commands, Requests
<1>8. /\ tally' \in [Clients -> TallySet]
      /\ \A d \in Clients \ {c} : tally'[d] = tally[d]
      /\ tally'[c].sent = tally[c].sent
      /\ tally'[c].posted = tally[c].posted
      /\ tally'[c].received = tally[c].received
      /\ Len(tally'[c].seen) = Len(tally[c].seen) + 1
  BY <1>4, <1>5, Seeing
<1>9. InBalance(c)'
  BY <1>3, <1>5, <1>6, <1>7, <1>8, ExpectingBalances
<1>10. \A m \in Elements(proc'[c].inbox) : Real(m)
  BY <1>7 DEF Inv, ClientInv, HoldsReal
<1>. QED  BY <1>3, <1>6, <1>7, <1>8, <1>9, <1>10, ArrivalKeeps

\* The elements of a sequence to which one is appended.
LEMMA ElementsOfAppend ==
    ASSUME NEW S, NEW s \in Seq(S), NEW x \in S
    PROVE  /\ Append(s, x) \in Seq(S)
           /\ \A y \in Elements(Append(s, x)) : y \in Elements(s) \/ y = x
BY DEF Elements

\* A notification that is not expected is stored.
LEMMA OtherArrives ==
    ASSUME Inv, NEW c \in Clients, Arrives(c),
           Head(down[c]).type = "notification",
           ~(proc[c].waits = "expect" /\ IsExpected(c, Head(down[c]).notif))
    PROVE  Inv'
<1>1. PICK n : n = Head(down[c]).notif
  OBVIOUS
<1>2. /\ down[c] # <<>> /\ down' = [down EXCEPT ![c] = Tail(@)]
      /\ UNCHANGED <<Shared, server, up, post, mishaps>> /\ plan' = plan
      /\ scn' = scn /\ tally' = tally
      /\ proc' = [proc EXCEPT ![c].inbox = Append(@, n)]
  BY <1>1 DEF Arrives, Shared
<1>3. n \in Notifs /\ Real(n)
  <2>1. /\ 1 \in DOMAIN down[c] /\ Head(down[c]) = down[c][1]
        /\ Head(down[c]) \in FrameSet
    BY <1>2, NextFrame
  <2>2. n \in Notifs
    BY <1>1, <2>1 DEF FrameSet
  <2>3. Real(n)
    BY <1>1, <2>1 DEF Inv, ClientInv, HoldsReal, Replies
  <2>. QED  BY <2>2, <2>3
<1>4. proc \in [Clients -> ProcessorSet] /\ proc[c].inbox \in Seq(Notifs)
  BY Types DEF Inv, ProcessorSet
<1>5. PICK inbox : inbox = Append(proc[c].inbox, n)
  OBVIOUS
<1>6. /\ inbox \in Seq(Notifs)
      /\ \A m \in Elements(inbox) : m \in Elements(proc[c].inbox) \/ m = n
  BY <1>3, <1>4, <1>5, ElementsOfAppend
<1>7. PICK p : p = [proc[c] EXCEPT !.inbox = inbox]
  OBVIOUS
<1>8. /\ p \in ProcessorSet /\ p.waits = proc[c].waits /\ p.inbox = inbox
      /\ p.connected = proc[c].connected /\ p.timing = proc[c].timing
  BY <1>4, <1>6, <1>7 DEF ProcessorSet
<1>9. /\ proc' \in [Clients -> ProcessorSet] /\ proc'[c] = p
      /\ \A d \in Clients \ {c} : proc'[d] = proc[d]
  BY <1>2, <1>4, <1>5, <1>7, <1>8
<1>10. InPlace(c)' /\ InStep(c)'
  BY <1>2, <1>8, <1>9
     DEF Inv, ClientInv, InPlace, InStep, Running, Returns, Instr
<1>11. InBalance(c)'
  BY <1>2 DEF Inv, ClientInv, InBalance, Unread, Phantom, Unsent
<1>12. \A m \in Elements(proc'[c].inbox) : Real(m)
  BY <1>3, <1>6, <1>8, <1>9 DEF Inv, ClientInv, HoldsReal
<1>. QED
  BY <1>2, <1>8, <1>9, <1>10, <1>11, <1>12, Types, ArrivalKeeps DEF Inv

\* The reply to what the scenario asked for.
LEMMA ReplyArrives ==
    ASSUME Inv, NEW c \in Clients, Arrives(c),
           Head(down[c]).type # "notification"
    PROVE  Inv'
<1>1. PICK type : type = Head(down[c]).type
  OBVIOUS
<1>2. /\ down[c] # <<>> /\ down' = [down EXCEPT ![c] = Tail(@)]
      /\ UNCHANGED <<Shared, server, up, post, mishaps>> /\ plan' = plan
      /\ tally' = tally /\ Running(c)
      /\ Answered(c, [scn[c] EXCEPT
             !.same = type # "stranger",
             !.channels = IF type = "register"
                          THEN Append(@, Len(@) + 1) ELSE @])
  BY <1>1 DEF Arrives, Shared
<1>3. /\ 1 \in DOMAIN down[c] /\ Head(down[c]) = down[c][1]
      /\ Head(down[c]) \in FrameSet
  BY <1>2, NextFrame
<1>4. Replies(Head(down[c])) /\ type \in Requests \cup {"stranger"}
  BY <1>1, <1>3 DEF Replies, FrameSet
<1>5. proc[c].waits = Request(type)
  BY <1>1, <1>3, <1>4 DEF Inv, ClientInv, InTouch
<1>6. proc[c].waits \in Requests /\ (type = "register" <=> proc[c].waits = "register")
  BY <1>4, <1>5 DEF Request, Requests
<1>7. ~Returns(c) /\ Instr(c).op = proc[c].waits
  BY <1>2, <1>6, Waiting DEF Requests
<1>8. scn[c] \in ScenarioSet /\ scn[c].status = "running"
  BY <1>2, Typed DEF Running
<1>9. PICK chs : chs = IF type = "register"
                       THEN Append(scn[c].channels, Len(scn[c].channels) + 1)
                       ELSE scn[c].channels
  OBVIOUS
<1>10. /\ chs \in Seq(Nat)
       /\ type = "register" => chs # <<>>
       /\ type # "register" => chs = scn[c].channels
  <2>1. scn[c].channels \in Seq(Nat)
    BY <1>8 DEF ScenarioSet
  <2>2. Len(scn[c].channels) + 1 \in Nat
    BY <2>1
  <2>. QED  BY <1>9, <2>1, <2>2, AppendProperties
<1>11. PICK known \in BOOLEAN : known = (type # "stranger")
  OBVIOUS
<1>12. PICK s : s = [scn[c] EXCEPT !.same = known, !.channels = chs]
  OBVIOUS
<1>13. Answered(c, s)
  BY <1>2, <1>9, <1>11, <1>12
<1>14. /\ s \in ScenarioSet /\ s.status = "running" /\ s.pc = scn[c].pc
       /\ s.notif = scn[c].notif /\ s.response = scn[c].response
       /\ s.channels = chs
  BY <1>8, <1>10, <1>12 DEF ScenarioSet
<1>15. \/ s.channels = scn[c].channels /\ Instr(c).op # "register"
       \/ s.channels # <<>>
  BY <1>6, <1>7, <1>10, <1>14
<1>16. /\ proc' \in [Clients -> ProcessorSet]
       /\ scn' \in [Clients -> ScenarioSet]
       /\ \A d \in Clients \ {c} : scn'[d] = scn[d] /\ proc'[d] = proc[d]
       /\ proc'[c].waits = "nothing" /\ proc'[c].inbox = proc[c].inbox
       /\ Joined(plan.kind, Instr(c), scn[c].pc, scn'[c].pc)
       /\ scn'[c].status = "running"
       /\ scn'[c].notif = s.notif /\ scn'[c].response = s.response
       /\ InPlace(c)' /\ InStep(c)'
  <2>1. Instr(c).op \in Commands \ {"connect", "disconnect"}
    BY <1>6, <1>7 DEF Commands, Requests
  <2>. QED  BY <1>2, <1>7, <1>13, <1>14, <1>15, <2>1, Answering
<1>17. InBalance(c)'
  <2>1. Instr(c).op \notin {"send", "counter", "expect", "collect", "ack"}
    BY <1>6, <1>7 DEF Requests
  <2>. QED
    BY <1>2, <1>14, <1>16, <2>1
       DEF Inv, ClientInv, InBalance, Unread, Phantom, Unsent, Joined, Running
<1>18. \A m \in Elements(proc'[c].inbox) : Real(m)
  BY <1>16 DEF Inv, ClientInv, HoldsReal
<1>. QED
  BY <1>2, <1>4, <1>14, <1>16, <1>17, <1>18, Types, ArrivalKeeps DEF Inv

LEMMA ArrivesKeeps ==
    ASSUME Inv, NEW c \in Clients, Arrives(c)
    PROVE  Inv'
BY ExpectedArrives, OtherArrives, ReplyArrives

-----------------------------------------------------------------------------
(* The push server. *)

\* Frames of which one is a reply; the others tell of notifications.
OneReply(frames, type) ==
    /\ frames \in Seq(FrameSet)
    /\ \E at \in DOMAIN frames :
          /\ frames[at].type = type
          /\ \A k \in DOMAIN frames :
                k # at => ~Replies(frames[k]) /\ Real(frames[k].notif)

\* The server answers the request of c, with one reply and perhaps notifications.
LEMMA ReplyingKeeps ==
    ASSUME Inv, NEW c \in Clients, NEW type \in Requests \cup {"stranger"},
           up[c] = Request(type),
           NEW a \in AgentSet, a.origin = server[c].origin,
           Elements(a.pending) \subseteq Elements(server[c].pending),
           server' = [server EXCEPT ![c] = a],
           NEW frames, OneReply(frames, type),
           down' = [down EXCEPT ![c] = frames],
           up' = [up EXCEPT ![c] = "none"],
           UNCHANGED <<Shared, scn, proc, post, tally>>,
           mishaps' \in [Clients -> SUBSET (FaultKinds \cup {"refused"})],
           "refused" \in mishaps'[c] => "refused" \in mishaps[c],
           \A d \in Clients \ {c} : mishaps'[d] = mishaps[d]
    PROVE  Inv'
<1>. plan' = plan /\ claims' = claims /\ day' = day /\ scn' = scn
     /\ proc' = proc /\ post' = post /\ tally' = tally
  BY DEF Shared
<1>. PICK at \in DOMAIN frames :
           /\ frames[at].type = type
           /\ \A k \in DOMAIN frames :
                 k # at => ~Replies(frames[k]) /\ Real(frames[k].notif)
  BY DEF OneReply
<1>. frames \in Seq(FrameSet)
  BY DEF OneReply
<1>1. /\ server' \in [Clients -> AgentSet] /\ server'[c] = a
      /\ \A d \in Clients \ {c} : server'[d] = server[d]
      /\ down' \in [Clients -> Seq(FrameSet)] /\ down'[c] = frames
      /\ \A d \in Clients \ {c} : down'[d] = down[d]
      /\ up' \in [Clients -> Requests \cup {"none"}] /\ up'[c] = "none"
      /\ \A d \in Clients \ {c} : up'[d] = up[d]
  BY Types DEF Inv
<1>2. TypeOK'
  BY <1>1, Types, PrimedTypes DEF Inv
<1>3. InPlace(c)' /\ InStep(c)' /\ InBalance(c)'
  <2>1. InPlace(c)'
    BY DEF Inv, ClientInv, InPlace, Running, Returns, Instr
  <2>2. InStep(c)'
    BY DEF Inv, ClientInv, InStep, Running
  <2>3. InBalance(c)'
    BY DEF Inv, ClientInv, InBalance, Unread, Phantom, Unsent
  <2>. QED  BY <2>1, <2>2, <2>3
<1>4. proc[c].waits = Request(type)
  <2>1. up[c] # "none"
    BY DEF Request, Requests
  <2>. QED  BY <2>1 DEF Inv, ClientInv, InTouch
<1>5. Replies(frames[at])
  BY DEF Replies, Requests
<1>6. InTouch(c)'
  <2>1. ASSUME NEW k \in DOMAIN frames, Replies(frames[k])
        PROVE  /\ proc[c].waits = Request(frames[k].type)
               /\ \A j \in DOMAIN frames : j # k => ~Replies(frames[j])
    BY <1>4, <2>1
  <2>. QED  BY <1>1, <2>1 DEF InTouch
<1>7. HoldsReal(c)'
  <2>1. \A n \in Elements(a.pending) : Real(n)
    BY DEF Inv, ClientInv, HoldsReal
  <2>2. \A k \in DOMAIN frames : ~Replies(frames[k]) => Real(frames[k].notif)
    BY <1>5
  <2>3. \A n \in Elements(proc[c].inbox) : Real(n)
    BY DEF Inv, ClientInv, HoldsReal
  <2>. QED  BY <1>1, <2>1, <2>2, <2>3 DEF HoldsReal
<1>8. InForce(c)'
  BY <1>1 DEF Inv, ClientInv, InForce, Settled, Unfit, Signs
<1>9. Obeys(c)'
  BY DEF Inv, ClientInv, Obeys
<1>10. \A d \in Clients \ {c} : Stays(d)
  BY <1>1 DEF Stays
<1>. QED
  BY <1>2, <1>3, <1>6, <1>7, <1>8, <1>9, <1>10, TheOthersStay DEF ClientInv

\* While a request is on its way, only notifications come the other way.
LEMMA BeforeTheReply ==
    ASSUME Inv, NEW c \in Clients, up[c] # "none"
    PROVE  \A k \in DOMAIN down[c] :
               ~Replies(down[c][k]) /\ Real(down[c][k].notif)
BY DEF Inv, ClientInv, InTouch, HoldsReal

\* The frames after one more reply.
LEMMA OneMoreFrame ==
    ASSUME Inv, NEW c \in Clients, up[c] # "none",
           NEW type \in Requests \cup {"stranger"}
    PROVE  OneReply(Append(down[c], Frame(type, NoNotif)), type)
<1>. PICK frames : frames = Append(down[c], Frame(type, NoNotif))
  OBVIOUS
<1>1. down[c] \in Seq(FrameSet)
  BY Typed
<1>2. PICK f : f = Frame(type, NoNotif)
  OBVIOUS
<1>3. f \in FrameSet /\ f.type = type
  BY <1>2, Beginnings DEF Frame, FrameSet
<1>4. /\ frames \in Seq(FrameSet) /\ Len(frames) = Len(down[c]) + 1
      /\ \A k \in 1..Len(down[c]) : frames[k] = down[c][k]
      /\ frames[Len(down[c]) + 1] = f
  BY <1>1, <1>2, <1>3, AppendProperties
<1>5. PICK at : at = Len(down[c]) + 1
  OBVIOUS
<1>6. at \in DOMAIN frames /\ frames[at].type = type
  BY <1>1, <1>3, <1>4, <1>5
<1>7. ASSUME NEW k \in DOMAIN frames, k # at
      PROVE  ~Replies(frames[k]) /\ Real(frames[k].notif)
  <2>1. k \in DOMAIN down[c] /\ frames[k] = down[c][k]
    BY <1>1, <1>4, <1>5, <1>7
  <2>. QED  BY <2>1, BeforeTheReply
<1>. QED  BY <1>4, <1>6, <1>7 DEF OneReply

\* A sequence of notifications as frames.
LEMMA NotifyingFrames ==
    ASSUME NEW ns \in Seq(Notifs), \A n \in Elements(ns) : Real(n)
    PROVE  /\ Notifying(ns) \in Seq(FrameSet)
           /\ Len(Notifying(ns)) = Len(ns)
           /\ \A k \in 1..Len(ns) :
                 /\ ~Replies(Notifying(ns)[k])
                 /\ Real(Notifying(ns)[k].notif)
<1>1. PICK fs : fs = [k \in 1..Len(ns) |-> Frame("notification", ns[k])]
  OBVIOUS
<1>2. fs = Notifying(ns)
  BY <1>1 DEF Notifying
<1>3. ASSUME NEW k \in 1..Len(ns)
      PROVE  /\ fs[k] \in FrameSet /\ ~Replies(fs[k]) /\ Real(fs[k].notif)
  <2>1. ns[k] \in Notifs /\ ns[k] \in Elements(ns)
    BY DEF Elements
  <2>2. /\ fs[k] \in FrameSet /\ fs[k].type = "notification"
        /\ fs[k].notif = ns[k]
    BY <1>1, <2>1 DEF Frame, FrameSet
  <2>. QED  BY <2>1, <2>2 DEF Replies
<1>4. fs \in Seq(FrameSet) /\ Len(fs) = Len(ns)
  BY <1>1, <1>3
<1>. QED  BY <1>2, <1>3, <1>4

\* hello: a user agent that is known is sent what is pending.
LEMMA GreetingKeeps ==
    ASSUME Inv, NEW c \in Clients, up[c] = "hello",
           server' = [server EXCEPT ![c].online = TRUE],
           down' = [down EXCEPT ![c] = @ \o <<Frame("hello", NoNotif)>>
                                         \o Notifying(server[c].pending)],
           mishaps' = mishaps, up' = [up EXCEPT ![c] = "none"],
           UNCHANGED <<Shared, scn, proc, post, tally>>
    PROVE  Inv'
<1>1. server \in [Clients -> AgentSet] /\ server[c] \in AgentSet
      /\ down \in [Clients -> Seq(FrameSet)] /\ down[c] \in Seq(FrameSet)
  BY Types DEF Inv
<1>2. PICK ns : ns = server[c].pending
  OBVIOUS
<1>3. ns \in Seq(Notifs) /\ \A n \in Elements(ns) : Real(n)
  BY <1>1, <1>2 DEF AgentSet, Inv, ClientInv, HoldsReal
<1>4. PICK first : first = Append(down[c], Frame("hello", NoNotif))
  OBVIOUS
<1>5. first = down[c] \o <<Frame("hello", NoNotif)>>
  BY <1>1, <1>4, Beginnings, AppendIsConcat DEF Frame, FrameSet, Requests
<1>6. OneReply(first, "hello")
  BY <1>4, OneMoreFrame DEF Requests
<1>7. PICK later : later = Notifying(ns)
  OBVIOUS
<1>8. /\ later \in Seq(FrameSet)
      /\ \A k \in 1..Len(later) : ~Replies(later[k]) /\ Real(later[k].notif)
  BY <1>3, <1>7, NotifyingFrames
<1>9. PICK frames : frames = first \o later
  OBVIOUS
<1>10. /\ frames \in Seq(FrameSet) /\ Len(frames) = Len(first) + Len(later)
       /\ \A k \in 1..(Len(first) + Len(later)) :
             frames[k] = IF k =< Len(first) THEN first[k]
                         ELSE later[k - Len(first)]
  <2>1. later \in Seq(FrameSet)
    BY <1>8
  <2>2. first \in Seq(FrameSet)
    BY <1>6 DEF OneReply
  <2>. QED  BY <2>1, <2>2, <1>9, ConcatProperties
<1>11. PICK at \in DOMAIN first :
            /\ first[at].type = "hello"
            /\ \A k \in DOMAIN first :
                  k # at => ~Replies(first[k]) /\ Real(first[k].notif)
  BY <1>6 DEF OneReply
<1>. first \in Seq(FrameSet)
  BY <1>6 DEF OneReply
<1>12. at \in DOMAIN frames /\ frames[at].type = "hello"
  BY <1>6, <1>8, <1>10, <1>11
<1>13. ASSUME NEW k \in DOMAIN frames, k # at
       PROVE  ~Replies(frames[k]) /\ Real(frames[k].notif)
  <2>1. Len(first) \in Nat /\ Len(later) \in Nat
        /\ k \in 1..(Len(first) + Len(later))
    BY <1>6, <1>8, <1>10
  <2>2. CASE k =< Len(first)
    <3>1. k \in DOMAIN first /\ frames[k] = first[k]
      BY <1>6, <1>10, <2>1, <2>2
    <3>. QED  BY <1>11, <1>13, <3>1
  <2>3. CASE ~(k =< Len(first))
    <3>1. k - Len(first) \in 1..Len(later)
          /\ frames[k] = later[k - Len(first)]
      BY <1>10, <2>1, <2>3
    <3>. QED  BY <1>8, <3>1
  <2>. QED  BY <2>2, <2>3
<1>14. OneReply(frames, "hello")
  BY <1>10, <1>12, <1>13 DEF OneReply
<1>15. PICK a : a = [server[c] EXCEPT !.online = TRUE]
  OBVIOUS
<1>16. /\ a \in AgentSet /\ a.origin = server[c].origin
       /\ a.pending = server[c].pending
  BY <1>1, <1>15 DEF AgentSet
<1>17. server' = [server EXCEPT ![c] = a]
  BY <1>15
<1>18. down' = [down EXCEPT ![c] = frames]
  BY <1>1, <1>2, <1>5, <1>7, <1>9
<1>19. up[c] = Request("hello") /\ "hello" \in Requests
  BY DEF Request, Requests
<1>. QED
  BY <1>14, <1>16, <1>17, <1>18, <1>19, Types, ReplyingKeeps
     DEF Inv

\* hello: the server takes a user agent for a new one.
LEMMA ForgettingKeeps ==
    ASSUME Inv, NEW c \in Clients, up[c] = "hello",
           server' = [server EXCEPT ![c] =
                         [UserAgent(@.origin) EXCEPT !.online = TRUE]],
           down' = [down EXCEPT ![c] = Append(@, Frame("stranger", NoNotif))],
           mishaps' = [mishaps EXCEPT ![c] = @ \cup {"uaid"}],
           up' = [up EXCEPT ![c] = "none"],
           UNCHANGED <<Shared, scn, proc, post, tally>>
    PROVE  Inv'
<1>1. server \in [Clients -> AgentSet] /\ server[c] \in AgentSet
      /\ down \in [Clients -> Seq(FrameSet)]
  BY Types DEF Inv
<1>2. PICK a : a = [UserAgent(server[c].origin) EXCEPT !.online = TRUE]
  OBVIOUS
<1>3. a = [origin |-> server[c].origin, subs |-> {}, pending |-> <<>>,
           online |-> TRUE, last |-> 0]
  BY <1>2 DEF UserAgent
<1>4. <<>> \in Seq(Notifs)
  BY EmptySeq
<1>5. a \in AgentSet /\ a.origin = server[c].origin /\ a.pending = <<>>
  BY <1>1, <1>3, <1>4 DEF AgentSet
<1>6. Elements(a.pending) \subseteq Elements(server[c].pending)
  BY <1>5 DEF Elements
<1>7. server' = [server EXCEPT ![c] = a]
  BY <1>1, <1>2
<1>8. PICK frames : frames = Append(down[c], Frame("stranger", NoNotif))
  OBVIOUS
<1>9. OneReply(frames, "stranger")
  BY <1>8, OneMoreFrame
<1>10. down' = [down EXCEPT ![c] = frames]
  BY <1>1, <1>8
<1>11. up[c] = Request("stranger")
  BY DEF Request
<1>12. /\ mishaps' \in [Clients -> SUBSET (FaultKinds \cup {"refused"})]
       /\ "refused" \in mishaps'[c] => "refused" \in mishaps[c]
       /\ \A d \in Clients \ {c} : mishaps'[d] = mishaps[d]
  BY Types DEF Inv, FaultKinds
<1>. QED  BY <1>5, <1>6, <1>7, <1>9, <1>10, <1>11, <1>12, ReplyingKeeps

LEMMA RegisteringKeeps ==
    ASSUME Inv, NEW c \in Clients, up[c] = "register", ServerRegisters(c),
           mishaps' = mishaps, up' = [up EXCEPT ![c] = "none"],
           UNCHANGED <<Shared, scn, proc, post, tally>>
    PROVE  Inv'
<1>1. server \in [Clients -> AgentSet] /\ server[c] \in AgentSet
      /\ down \in [Clients -> Seq(FrameSet)] /\ scn[c].channels \in Seq(Nat)
  BY Types DEF Inv, ScenarioSet
<1>2. PICK subs : subs = server[c].subs \cup {Len(scn[c].channels) + 1}
  OBVIOUS
<1>3. subs \in SUBSET Nat
  <2>1. Len(scn[c].channels) + 1 \in Nat
    BY <1>1
  <2>. QED  BY <1>1, <1>2, <2>1 DEF AgentSet
<1>4. PICK a : a = [server[c] EXCEPT !.subs = subs]
  OBVIOUS
<1>5. /\ a \in AgentSet /\ a.origin = server[c].origin
      /\ a.pending = server[c].pending
  BY <1>1, <1>3, <1>4 DEF AgentSet
<1>6. server' = [server EXCEPT ![c] = a]
  BY <1>1, <1>2, <1>4 DEF ServerRegisters
<1>7. PICK frames : frames = Append(down[c], Frame("register", NoNotif))
  OBVIOUS
<1>8. OneReply(frames, "register")
  BY <1>7, OneMoreFrame DEF Requests
<1>9. down' = [down EXCEPT ![c] = frames]
  BY <1>1, <1>7 DEF ServerRegisters
<1>10. up[c] = Request("register") /\ "register" \in Requests
  BY DEF Request, Requests
<1>. QED  BY <1>5, <1>6, <1>8, <1>9, <1>10, Types, ReplyingKeeps DEF Inv

LEMMA UnregisteringKeeps ==
    ASSUME Inv, NEW c \in Clients, up[c] = "unregister", ServerUnregisters(c),
           mishaps' = mishaps, up' = [up EXCEPT ![c] = "none"],
           UNCHANGED <<Shared, scn, proc, post, tally>>
    PROVE  Inv'
<1>1. server \in [Clients -> AgentSet] /\ server[c] \in AgentSet
      /\ down \in [Clients -> Seq(FrameSet)]
  BY Types DEF Inv
<1>2. PICK ch : ch = IF Instr(c).arg = "each"
                     THEN scn[c].channels[scn[c].i]
                     ELSE scn[c].channels[Len(scn[c].channels)]
  OBVIOUS
<1>3. PICK left : left = {n \in Elements(server[c].pending) : n.channel # ch}
  OBVIOUS
<1>4. PICK kept : kept = Kept(server[c].pending, left)
  OBVIOUS
<1>5. kept \in Seq(Notifs) /\ Elements(kept) \subseteq Elements(server[c].pending)
  <2>1. server[c].pending \in Seq(Notifs)
    BY <1>1 DEF AgentSet
  <2>2. kept \in Seq(Notifs \cap left)
    BY <1>4, <2>1, KeptIsASequence
  <2>3. Elements(kept) = Elements(server[c].pending) \cap left
    BY <1>4, <2>1, KeptElements
  <2>. QED  BY <2>2, <2>3
<1>6. PICK subs : subs = server[c].subs \ {ch}
  OBVIOUS
<1>7. PICK a : a = [server[c] EXCEPT !.subs = subs, !.pending = kept]
  OBVIOUS
<1>8. /\ a \in AgentSet /\ a.origin = server[c].origin /\ a.pending = kept
  BY <1>1, <1>5, <1>6, <1>7 DEF AgentSet
<1>9. server' = [server EXCEPT ![c] = a]
  BY <1>1, <1>2, <1>3, <1>4, <1>6, <1>7 DEF ServerUnregisters
<1>10. PICK frames : frames = Append(down[c], Frame("unregister", NoNotif))
  OBVIOUS
<1>11. OneReply(frames, "unregister")
  BY <1>10, OneMoreFrame DEF Requests
<1>12. down' = [down EXCEPT ![c] = frames]
  BY <1>1, <1>10 DEF ServerUnregisters
<1>13. up[c] = Request("unregister") /\ "unregister" \in Requests
  BY DEF Request, Requests
<1>. QED  BY <1>5, <1>8, <1>9, <1>11, <1>12, <1>13, Types, ReplyingKeeps DEF Inv

LEMMA ServerAnswersKeeps ==
    ASSUME Inv, NEW c \in Clients, ServerAnswers(c)
    PROVE  Inv'
<1>1. CASE up[c] = "hello" /\ ServerGreets(c)
  BY <1>1, GreetingKeeps, ForgettingKeeps DEF ServerAnswers, ServerGreets
<1>2. CASE up[c] = "register" /\ ServerRegisters(c) /\ UNCHANGED mishaps
  BY <1>2, RegisteringKeeps DEF ServerAnswers
<1>3. CASE up[c] = "unregister" /\ ServerUnregisters(c) /\ UNCHANGED mishaps
  BY <1>3, UnregisteringKeeps DEF ServerAnswers
<1>. QED  BY <1>1, <1>2, <1>3 DEF ServerAnswers

\* What the server holds when it keeps notification n.
LEMMA Keeping ==
    ASSUME Inv, NEW c \in Clients, NEW n \in Notifs
    PROVE  /\ Keeps(c, n) \in Seq(Notifs)
           /\ \A m \in Elements(Keeps(c, n)) :
                 m \in Elements(server[c].pending) \/ m = n
<1>1. PICK ns : ns = server[c].pending
  OBVIOUS
<1>2. ns \in Seq(Notifs)
  BY <1>1, Typed DEF AgentSet
<1>3. PICK others : others = {m \in Elements(ns) : m.data \notin Topics}
  OBVIOUS
<1>4. PICK kept : kept = Kept(ns, others)
  OBVIOUS
<1>5. kept \in Seq(Notifs) /\ Elements(kept) \subseteq Elements(ns)
  <2>1. kept \in Seq(Notifs \cap others)
    BY <1>2, <1>4, KeptIsASequence
  <2>2. Elements(kept) = Elements(ns) \cap others
    BY <1>2, <1>4, KeptElements
  <2>. QED  BY <2>1, <2>2
<1>6. Keeps(c, n) = Append(kept, n) \/ Keeps(c, n) = Append(ns, n)
  BY <1>1, <1>3, <1>4, Zenon DEF Keeps
<1>7. /\ Append(kept, n) \in Seq(Notifs)
      /\ \A y \in Elements(Append(kept, n)) : y \in Elements(kept) \/ y = n
  BY <1>5, ElementsOfAppend
<1>8. /\ Append(ns, n) \in Seq(Notifs)
      /\ \A y \in Elements(Append(ns, n)) : y \in Elements(ns) \/ y = n
  BY <1>2, ElementsOfAppend
<1>. QED  BY <1>1, <1>5, <1>6, <1>7, <1>8

\* The code of a response, and why it says "unauthorised".
LEMMA Coding ==
    ASSUME Inv, NEW c \in Clients, proc[c].waits = "send",
           post[c].code = "none"
    PROVE  /\ Code(c) \in {"201", "401", "404"}
           /\ Code(c) = "401" => Settled /\ Unfit(c)
<1>1. Signs(c)
  BY DEF Inv, ClientInv, InForce
<1>2. ASSUME ~Authorised(c)
      PROVE  Settled /\ Unfit(c)
  <2>1. plan.claims = "dict"
    BY <1>1, <1>2, ThePlan DEF Signs, Authorised
  <2>2. Settled /\ post[c].signed = claims
    BY <1>1, <2>1 DEF Signs
  <2>3. claims.aud # server[c].origin \/ ~(day =< claims.exp)
    BY <1>2, <2>2 DEF Authorised
  <2>4. day \in Nat /\ claims.exp \in Nat
    BY Types DEF Inv, ClaimsSet
  <2>. QED  BY <2>2, <2>3, <2>4 DEF Unfit
<1>3. Code(c) \in {"201", "401", "404"} /\ (Code(c) = "401" => ~Authorised(c))
  BY Zenon DEF Code
<1>. QED  BY <1>2, <1>3

LEMMA PostTakenKeeps ==
    ASSUME Inv, NEW c \in Clients, PostTaken(c)
    PROVE  Inv'
<1>1. /\ Running(c) /\ proc[c].waits = "send" /\ post[c].code = "none"
      /\ post' = [post EXCEPT ![c].code = Code(c)]
      /\ plan' = plan /\ claims' = claims /\ day' = day /\ scn' = scn
      /\ proc' = proc /\ up' = up /\ mishaps' = mishaps /\ tally' = tally
  BY DEF PostTaken, Awaits, Shared
<1>2. PICK code : code = Code(c)
  OBVIOUS
<1>3. code \in {"201", "401", "404"} /\ (code = "401" => Settled /\ Unfit(c))
  BY <1>1, <1>2, Coding
<1>4. /\ post' \in [Clients -> PostSet] /\ post'[c].code = code
      /\ \A d \in Clients \ {c} : post'[d] = post[d]
  BY <1>1, <1>2, <1>3, Types DEF Inv, PostSet
<1>5. up[c] = "none" /\ \A k \in DOMAIN down[c] : ~Replies(down[c][k])
  BY <1>1, NothingAsked DEF Requests
<1>6. /\ server \in [Clients -> AgentSet] /\ server[c] \in AgentSet
      /\ down \in [Clients -> Seq(FrameSet)] /\ down[c] \in Seq(FrameSet)
      /\ post[c] \in PostSet
  BY Types DEF Inv
<1>7. /\ server' \in [Clients -> AgentSet]
      /\ server'[c].origin = server[c].origin
      /\ \A n \in Elements(server'[c].pending) : Real(n)
      /\ \A d \in Clients \ {c} : server'[d] = server[d]
      /\ down' \in [Clients -> Seq(FrameSet)]
      /\ \A k \in DOMAIN down'[c] :
            ~Replies(down'[c][k]) /\ Real(down'[c][k].notif)
      /\ \A d \in Clients \ {c} : down'[d] = down[d]
  <2>1. CASE code = "201"
    <3>1. PICK id : id = server[c].last + 1
      OBVIOUS
    <3>2. id \in Nat /\ id # 0
      BY <1>6, <3>1 DEF AgentSet
    <3>3. PICK n : n = Notification(id, post[c].channel, post[c].data)
      OBVIOUS
    <3>4. n \in Notifs /\ Real(n) /\ n.id = id
      BY <1>6, <3>2, <3>3 DEF Notification, Notifs, Real, PostSet
    <3>5. PICK pending : pending = Keeps(c, n)
      OBVIOUS
    <3>6. /\ pending \in Seq(Notifs)
          /\ \A m \in Elements(pending) :
                m \in Elements(server[c].pending) \/ m = n
      BY <3>4, <3>5, Keeping
    <3>7. PICK a : a = [server[c] EXCEPT !.last = id, !.pending = pending]
      OBVIOUS
    <3>8. /\ a \in AgentSet /\ a.origin = server[c].origin
          /\ a.pending = pending
      BY <1>6, <3>2, <3>6, <3>7 DEF AgentSet
    <3>9. server' = [server EXCEPT ![c] = a]
      BY <1>2, <1>6, <2>1, <3>1, <3>3, <3>4, <3>5, <3>7 DEF PostTaken
    <3>10. PICK frame : frame = Frame("notification", n)
      OBVIOUS
    <3>11. frame \in FrameSet /\ ~Replies(frame) /\ frame.notif = n
      BY <3>4, <3>10 DEF Frame, FrameSet, Replies
    <3>12. \/ down' = down
           \/ down' = [down EXCEPT ![c] = Append(@, frame)]
      BY <1>2, <2>1, <3>1, <3>3, <3>10 DEF PostTaken
    <3>13. PICK more : more = Append(down[c], frame)
      OBVIOUS
    <3>14. /\ more \in Seq(FrameSet) /\ Len(more) = Len(down[c]) + 1
           /\ \A k \in 1..Len(down[c]) : more[k] = down[c][k]
           /\ more[Len(down[c]) + 1] = frame
      BY <1>6, <3>11, <3>13, AppendProperties
    <3>15. ASSUME NEW k \in DOMAIN more
           PROVE  ~Replies(more[k]) /\ Real(more[k].notif)
      <4>1. CASE k = Len(down[c]) + 1
        BY <3>4, <3>11, <3>14, <4>1
      <4>2. CASE k # Len(down[c]) + 1
        <5>1. k \in DOMAIN down[c] /\ more[k] = down[c][k]
          BY <1>6, <3>14, <4>2
        <5>. QED  BY <1>5, <5>1 DEF Inv, ClientInv, HoldsReal
      <4>. QED  BY <4>1, <4>2
    <3>16. ASSUME NEW k \in DOMAIN down[c]
           PROVE  ~Replies(down[c][k]) /\ Real(down[c][k].notif)
      BY <1>5 DEF Inv, ClientInv, HoldsReal
    <3>17. /\ down' \in [Clients -> Seq(FrameSet)]
           /\ down'[c] \in {down[c], more}
           /\ \A d \in Clients \ {c} : down'[d] = down[d]
      BY <1>6, <3>12, <3>13, <3>14
    <3>18. /\ server' \in [Clients -> AgentSet] /\ server'[c] = a
           /\ \A d \in Clients \ {c} : server'[d] = server[d]
      BY <1>6, <3>8, <3>9
    <3>19. \A m \in Elements(pending) : Real(m)
      BY <3>4, <3>6 DEF Inv, ClientInv, HoldsReal
    <3>. QED  BY <3>8, <3>15, <3>16, <3>17, <3>18, <3>19
  <2>2. CASE code # "201"
    <3>1. server' = server /\ down' = down
      BY <1>2, <2>2 DEF PostTaken
    <3>. QED  BY <1>5, <1>6, <3>1 DEF Inv, ClientInv, HoldsReal
  <2>. QED  BY <2>1, <2>2
<1>8. TypeOK'
  BY <1>1, <1>4, <1>7, Types, PrimedTypes DEF Inv
<1>9. InPlace(c)' /\ InStep(c)' /\ InBalance(c)'
  <2>1. InPlace(c)'
    BY <1>1 DEF Inv, ClientInv, InPlace, Running, Returns, Instr
  <2>2. InStep(c)'
    BY <1>1 DEF Inv, ClientInv, InStep, Running
  <2>3. InBalance(c)'
    BY <1>1 DEF Inv, ClientInv, InBalance, Unread, Phantom, Unsent
  <2>. QED  BY <2>1, <2>2, <2>3
<1>10. InTouch(c)'
  BY <1>1, <1>5, <1>7 DEF InTouch
<1>11. HoldsReal(c)'
  BY <1>1, <1>7 DEF Inv, ClientInv, HoldsReal
<1>12. InForce(c)'
  BY <1>1, <1>3, <1>4, <1>7 DEF Inv, ClientInv, InForce, Settled, Unfit
<1>13. Obeys(c)'
  BY <1>1 DEF Inv, ClientInv, Obeys
<1>14. \A d \in Clients \ {c} : Stays(d)
  BY <1>1, <1>4, <1>7 DEF Stays
<1>. QED
  BY <1>1, <1>8, <1>9, <1>10, <1>11, <1>12, <1>13, <1>14, TheOthersStay
     DEF ClientInv

-----------------------------------------------------------------------------
(* Days, and the beginning. *)

\* No POST is under way while a day passes; what is too old stays so.
LEMMA DayPassesKeeps ==
    ASSUME Inv, DayPasses
    PROVE  Inv'
<1>1. /\ plan' = plan /\ claims' = claims /\ scn' = scn /\ proc' = proc
      /\ server' = server /\ up' = up /\ down' = down /\ post' = post
      /\ mishaps' = mishaps /\ tally' = tally
      /\ day' = day + 1 /\ day < Days
  BY DEF DayPasses, Outside, network
<1>2. day \in 1..Days /\ Days \in Nat /\ claims \in ClaimsSet
  BY Types, ConstantsFit DEF Inv
<1>3. day' \in 1..Days
  BY <1>1, <1>2
<1>4. TypeOK'
  BY <1>1, <1>3, Types, PrimedTypes DEF Inv
<1>5. ASSUME NEW c \in Clients PROVE ClientInv(c)'
  <2>1. ClientInv(c)
    BY DEF Inv
  <2>2. proc[c].waits # "send"
    BY <2>1 DEF DayPasses, ClientInv, InPlace
  <2>3. Unfit(c) => Unfit(c)'
    <3>1. claims.exp \in Nat /\ day \in Nat
      BY <1>2 DEF ClaimsSet
    <3>2. day > claims.exp => day + 1 > claims.exp
      BY <3>1
    <3>. QED  BY <1>1, <3>2 DEF Unfit
  <2>4. InForce(c)'
    BY <1>1, <2>1, <2>2, <2>3 DEF ClientInv, InForce, Settled
  <2>5. InPlace(c)'
    BY <1>1, <2>1 DEF ClientInv, InPlace, Running, Returns, Instr
  <2>6. InTouch(c)'
    BY <1>1, <2>1 DEF ClientInv, InTouch
  <2>7. InStep(c)' /\ HoldsReal(c)' /\ Obeys(c)'
    BY <1>1, <2>1 DEF ClientInv, InStep, HoldsReal, Obeys, Running
  <2>8. InBalance(c)'
    BY <1>1, <2>1 DEF ClientInv, InBalance, Unread, Phantom, Unsent
  <2>. QED  BY <2>4, <2>5, <2>6, <2>7, <2>8 DEF ClientInv
<1>. QED  BY <1>1, <1>4, <1>5 DEF Inv

LEMMA NothingHappensKeeps ==
    ASSUME Inv, UNCHANGED vars
    PROVE  Inv'
<1>1. /\ plan' = plan /\ claims' = claims /\ day' = day /\ scn' = scn
      /\ proc' = proc /\ server' = server /\ up' = up /\ down' = down
      /\ post' = post /\ mishaps' = mishaps /\ tally' = tally
  BY DEF vars, network
<1>2. TypeOK'
  BY <1>1, Types, PrimedTypes DEF Inv
<1>3. ASSUME NEW c \in Clients PROVE ClientInv(c)'
  BY <1>1, StayingKeeps DEF Stays
<1>. QED  BY <1>1, <1>2, <1>3 DEF Inv

\* At its beginning a scenario is not connected, times nothing, has registered
\* nothing and has nothing to count.
LEMMA AtTheBeginning ==
    ASSUME NEW kind \in DOMAIN Script
    PROVE  /\ 1 \notin Linked[kind] /\ 1 \notin Timed[kind]
           /\ 1 \notin Registered[kind] /\ Even(kind, 1)
<1>1. 1 \notin Linked[kind]
  BY Kinds DEF Linked
<1>2. 1 \notin Timed[kind]
  BY Kinds DEF Timed
<1>3. 1 \notin Registered[kind]
  BY Kinds DEF Registered
<1>4. 1 \notin Uncounted[kind]
  BY Kinds DEF Uncounted
<1>5. 1 \notin Given[kind]
  BY Kinds DEF Given
<1>6. 1 \notin Overcounted[kind]
  BY Kinds DEF Overcounted
<1>. QED  BY <1>1, <1>2, <1>3, <1>4, <1>5, <1>6 DEF Even

LEMMA InitKeeps ==
    ASSUME Init
    PROVE  Inv
<1>1. /\ plan \in Plans /\ plan.kind \in DOMAIN Script
      /\ plan.clients \subseteq Clients
  <2>1. plan \in Plans /\ plan \in Plan
    BY ConstantsFit DEF Init
  <2>. QED  BY <2>1 DEF Plan
<1>2. claims = NoClaims /\ NoClaims \in ClaimsSet
  BY DEF Init, NoClaims, ClaimsSet
<1>3. day \in 1..Days
  BY ConstantsFit DEF Init
<1>4. PICK unborn : unborn = [Fresh EXCEPT !.status = "unborn"]
  OBVIOUS
<1>5. PICK born : born = [Fresh EXCEPT !.status = "running"]
  OBVIOUS
<1>6. /\ unborn \in ScenarioSet /\ unborn.status = "unborn"
      /\ born \in ScenarioSet /\ born.status = "running"
      /\ unborn.pc = 1 /\ unborn.notif = NoNotif /\ unborn.response = "none"
      /\ born.pc = 1 /\ born.notif = NoNotif /\ born.response = "none"
  BY <1>4, <1>5, Beginnings DEF Fresh, ScenarioSet
<1>7. scn = [c \in Clients |-> IF c \in plan.clients THEN born ELSE unborn]
  BY <1>4, <1>5 DEF Init
<1>8. PICK origins \in [plan.clients -> Origins] :
          server = [c \in Clients |->
                       UserAgent(IF c \in plan.clients THEN origins[c]
                                 ELSE CHOOSE o \in Origins : TRUE)]
  BY DEF Init
<1>9. ASSUME NEW c \in Clients
      PROVE  server[c] \in AgentSet /\ server[c].pending = <<>>
  <2>1. PICK o : o = IF c \in plan.clients THEN origins[c]
                     ELSE CHOOSE p \in Origins : TRUE
    OBVIOUS
  <2>2. o \in Origins
    <3>1. (CHOOSE p \in Origins : TRUE) \in Origins
      BY ConstantsFit
    <3>. QED  BY <1>8, <2>1, <3>1
  <2>3. server[c] = UserAgent(o)
    BY <1>8, <2>1
  <2>4. <<>> \in Seq(Notifs)
    BY EmptySeq
  <2>. QED  BY <2>2, <2>3, <2>4 DEF UserAgent, AgentSet
<1>10. server \in [Clients -> AgentSet]
  <2>1. server = [c \in Clients |-> server[c]]
    BY <1>8
  <2>. QED  BY <1>9, <2>1
<1>11. <<>> \in Seq(Nat) /\ <<>> \in Seq(FrameSet)
  BY EmptySeq
<1>12. PICK none : none = [sent |-> 0, received |-> 0, posted |-> 0, seen |-> <<>>]
  OBVIOUS
<1>13. none \in TallySet /\ NoPost \in PostSet
  BY <1>2, <1>11, <1>12 DEF TallySet, NoPost, PostSet, Payloads
<1>14. /\ proc = [c \in Clients |-> Idle] /\ up = [c \in Clients |-> "none"]
       /\ down = [c \in Clients |-> <<>>] /\ post = [c \in Clients |-> NoPost]
       /\ mishaps = [c \in Clients |-> {}] /\ tally = [c \in Clients |-> none]
  BY <1>12 DEF Init
<1>15. TypeOK
  <2>1. scn \in [Clients -> ScenarioSet]
    BY <1>6, <1>7
  <2>2. proc \in [Clients -> ProcessorSet]
    BY <1>14, Beginnings
  <2>3. /\ up \in [Clients -> Requests \cup {"none"}]
        /\ down \in [Clients -> Seq(FrameSet)]
        /\ post \in [Clients -> PostSet]
        /\ mishaps \in [Clients -> SUBSET (FaultKinds \cup {"refused"})]
        /\ tally \in [Clients -> TallySet]
    BY <1>11, <1>13, <1>14
  <2>. QED  BY <1>1, <1>2, <1>3, <1>10, <2>1, <2>2, <2>3, Types
<1>16. ASSUME NEW c \in Clients PROVE ClientInv(c)
  <2>1. /\ scn[c].status \in {"running", "unborn"}
        /\ scn[c].status = "running" => c \in plan.clients
        /\ scn[c].pc = 1 /\ scn[c].notif = NoNotif
        /\ scn[c].response = "none"
    BY <1>6, <1>7
  <2>2. /\ proc[c].waits = "nothing" /\ proc[c].connected = FALSE
        /\ proc[c].inbox = <<>> /\ proc[c].timing = FALSE
    BY <1>14 DEF Idle
  <2>3. up[c] = "none" /\ down[c] = <<>> /\ mishaps[c] = {}
    BY <1>14
  <2>4. 1 \in Places(plan.kind) \ Unreached(plan.kind, plan.once)
    BY <1>1, ScriptsAreSequences DEF Places, Unreached
  <2>5. InPlace(c)
    BY <1>1, <2>1, <2>2, <2>4, AtTheBeginning DEF InPlace, Running
  <2>6. InTouch(c)
    BY <2>3 DEF InTouch
  <2>7. InStep(c)
    BY <1>1, <2>1, <2>2, AtTheBeginning DEF InStep
  <2>8. HoldsReal(c)
    BY <1>9, <2>2, <2>3 DEF HoldsReal, Elements
  <2>9. InBalance(c)
    <3>1. /\ tally[c].sent = 0 /\ tally[c].received = 0
          /\ tally[c].posted = 0 /\ Len(tally[c].seen) = 0
      BY <1>12, <1>14
    <3>2. Unread(c) = 0 /\ Phantom(c) = 0 /\ Unsent(c) = 0
      BY <1>1, <2>1, AtTheBeginning DEF Unread, Phantom, Unsent, Even
    <3>. QED  BY <2>1, <3>1, <3>2 DEF InBalance
  <2>10. InForce(c)
    BY <2>1, <2>2 DEF InForce
  <2>11. Obeys(c)
    BY <2>3 DEF Obeys
  <2>. QED  BY <2>5, <2>6, <2>7, <2>8, <2>9, <2>10, <2>11 DEF ClientInv
<1>. QED  BY <1>2, <1>15, <1>16 DEF Inv

-----------------------------------------------------------------------------
(* The invariant, and what follows from it. *)

LEMMA NextKeeps ==
    ASSUME Inv, [Next]_vars
    PROVE  Inv'
<1>1. ASSUME NEW c \in Clients, Scenario(c) PROVE Inv'
  <2>1. CASE RunConnect(c)  BY <2>1, RunConnectKeeps
  <2>2. CASE RunDisconnect(c)  BY <2>2, RunDisconnectKeeps
  <2>3. CASE RunRequest(c)  BY <2>3, RunRequestKeeps
  <2>4. CASE RunSendNotification(c)  BY <2>4, RunSendNotificationKeeps
  <2>5. CASE RunExpect(c)  BY <2>5, RunExpectKeeps
  <2>6. CASE RunWait(c)  BY <2>6, RunWaitKeeps
  <2>7. CASE RunAck(c)  BY <2>7, RunAckKeeps
  <2>8. CASE RunTimer(c)  BY <2>8, RunTimerKeeps
  <2>9. CASE RunCounter(c)  BY <2>9, RunCounterKeeps
  <2>10. CASE RunCollect(c)  BY <2>10, RunCollectKeeps
  <2>11. CASE RunAckIds(c)  BY <2>11, AckingIds, RunAckIdsKeeps
  <2>12. CASE RunCheck(c)  BY <2>12, RunCheckKeeps
  <2>13. CASE RunBranch(c)  BY <2>13, RunBranchKeeps
  <2>14. CASE Return(c)  BY <2>14, ReturnKeeps
  <2>. QED
    BY <1>1, <2>1, <2>2, <2>3, <2>4, <2>5, <2>6, <2>7, <2>8, <2>9, <2>10,
       <2>11, <2>12, <2>13, <2>14 DEF Scenario
<1>2. ASSUME NEW c \in Clients, Answer(c) PROVE Inv'
  BY <1>2, OpensKeeps, ClosesKeeps, ArrivesKeeps, TimesOutKeeps, WaitEndsKeeps,
     PostAnsweredKeeps, PostFailsKeeps DEF Answer
<1>3. ASSUME NEW c \in Clients, Server(c) PROVE Inv'
  BY <1>3, ServerAnswersKeeps, PostTakenKeeps DEF Server
<1>4. ASSUME NEW c \in Clients, Drops(c) PROVE Inv'
  BY <1>4, DropsKeeps
<1>5. CASE DayPasses
  BY <1>5, DayPassesKeeps
<1>6. CASE Rest
  BY <1>6, NothingHappensKeeps DEF Rest
<1>7. CASE UNCHANGED vars
  BY <1>7, NothingHappensKeeps
<1>. QED  BY <1>1, <1>2, <1>3, <1>4, <1>5, <1>6, <1>7 DEF Next

\* Scenarios, their processors and the server keep in step: a scenario is at a
\* place of its script it can get to, connected and timing as its place says,
\* waits for the one request or reply that is on its way, and its counters are
\* right but for what its place has yet to count.
THEOREM ScenariosKeepInStep == Spec => []Inv
<1>1. Init => Inv
  BY InitKeeps
<1>2. Inv /\ [Next]_vars => Inv'
  BY NextKeeps
<1>. QED  BY <1>1, <1>2, PTL DEF Spec

\* The variables of the scenarios, processors, server and network keep to
\* their types.
THEOREM ScenariosAreTyped == Spec => []TypeOK
<1>1. Inv => TypeOK
  BY DEF Inv
<1>. QED  BY <1>1, ScenariosKeepInStep, PTL

\* No command of a scenario but _explode is refused, in any plan, however many
\* instances run, whatever fails and however often it loops: it connects when
\* it is not connected, talks when it is, and starts and ends its timer in turn.
THEOREM NothingIsEverRefused == Spec => []NothingIsRefused
<1>1. Inv => NothingIsRefused
  BY DEF Inv, ClientInv, Obeys, NothingIsRefused
<1>. QED  BY <1>1, ScenariosKeepInStep, PTL

\* A POST is unauthorised only if its claims are the dictionary that all
\* instances share, filled in for another endpoint or too long ago.
THEOREM OnlyTheSharedClaimsExpire == Spec => []OnlySharedClaimsExpire
<1>1. Inv => OnlySharedClaimsExpire
  BY DEF Inv, ClientInv, InForce, Settled, Unfit, OnlySharedClaimsExpire
<1>. QED  BY <1>1, ScenariosKeepInStep, PTL

\* Whenever no scenario is running, those that wait, or ended well, have
\* counted each POST and each notification once.
THEOREM TheMetricsAreTrue == Spec => []MetricsAreTrue
<1>1. ASSUME Inv, Quiet, NEW c \in Clients,
             scn[c].status \in {"running", "returned"}
      PROVE  /\ tally[c].sent = IF CountsSent THEN tally[c].posted ELSE 0
             /\ tally[c].received =
                   IF CountsReceived THEN Len(tally[c].seen) ELSE 0
  <2>1. Even(plan.kind, scn[c].pc)
    <3>1. CASE scn[c].status = "returned"
      BY <1>1, <3>1 DEF Inv, ClientInv, InBalance
    <3>2. CASE Running(c) /\ proc[c].waits = "nothing"
      <4>1. Held(c)
        BY <1>1, <3>2 DEF Quiet, Turn
      <4>2. ~Returns(c) /\ Instr(c).op = "loop"
        BY <4>1 DEF Held
      <4>. QED  BY <1>1, <3>2, <4>2, TheInstruction DEF Balanced
    <3>3. CASE Running(c) /\ proc[c].waits # "nothing"
      <4>1. ~Returns(c) /\ Instr(c).op = proc[c].waits
        BY <1>1, <3>3, Waiting
      <4>2. Instr(c).op \in Commands
        BY <1>1, <3>3, <4>1, Typed DEF ProcessorSet, Commands
      <4>. QED  BY <1>1, <3>3, <4>1, <4>2, TheInstruction DEF Balanced
    <3>. QED  BY <1>1, <3>1, <3>2, <3>3 DEF Running
  <2>2. Unread(c) = 0 /\ Phantom(c) = 0 /\ Unsent(c) = 0
    BY <2>1 DEF Even, Unread, Phantom, Unsent
  <2>3. tally[c] \in TallySet
    BY <1>1, Typed
  <2>4. /\ tally[c].sent \in Nat /\ tally[c].posted \in Nat
        /\ tally[c].received \in Nat /\ Len(tally[c].seen) \in Nat
    BY <2>3 DEF TallySet
  <2>5. /\ CountsSent <=> plan.kind \in CountSent
        /\ CountsReceived <=> plan.kind \in CountReceived
    BY <1>1, ThePlan, CountersAreKnown DEF CountsSent, CountsReceived, Counts
  <2>6. InBalance(c)
    BY <1>1 DEF Inv, ClientInv
  <2>. QED  BY <1>1, <2>2, <2>4, <2>5, <2>6 DEF InBalance
<1>2. Inv => MetricsAreTrue
  BY <1>1 DEF MetricsAreTrue
<1>. QED  BY <1>2, ScenariosKeepInStep, PTL
=============================================================================
