--------------------------- MODULE DeliveryProofs ---------------------------
(***************************************************************************)
(* Where the notifications of a scenario are: on the server's list, on     *)
(* their way, stored by the processor, given to the scenario, or           *)
(* acknowledged.  An invariant says so place by place, on top of what      *)
(* ScenariosProofs.tla proves.  GivenOnce follows from it.                 *)
(***************************************************************************)
EXTENDS ScenariosProofs

-----------------------------------------------------------------------------
(* Where the notifications of a scenario are: those that its processor     *)
(* stores or that are on their way are afloat, the server's are pending,   *)
(* and the scenario has seen those that it was given.                      *)

Told(frames) ==
    {frames[k].notif : k \in {j \in DOMAIN frames : ~Replies(frames[j])}}
Afloat(c) == Elements(proc[c].inbox) \cup Told(down[c])
Pending(c) == Elements(server[c].pending)
Seen(c) == Elements(tally[c].seen)
Vacant(c) == Afloat(c) = {} /\ Pending(c) = {}

\* No two have the same id.
Unlike(s) == \A k, l \in DOMAIN s : s[k].id = s[l].id => k = l
Distinct(frames) ==
    \A k, l \in DOMAIN frames :
        (/\ ~Replies(frames[k]) /\ ~Replies(frames[l])
         /\ frames[k].notif.id = frames[l].notif.id) => k = l
Apart(inbox, frames) ==
    /\ Unlike(inbox) /\ Distinct(frames)
    /\ \A n \in Elements(inbox), m \in Told(frames) : n.id # m.id

Numbered(c) ==
    /\ Unlike(server[c].pending)
    /\ Apart(proc[c].inbox, down[c])
    /\ \A n \in Pending(c) \cup Afloat(c) :
          /\ n.id =< server[c].last
          /\ plan.kind \notin Several => n.id = server[c].last
    /\ \A id \in Seen(c) : id =< server[c].last

\* They are for the channels of the scenario, of which all but
\* _expect_notifications uses the last, and so is the POST under way.
Aimed(c) ==
    /\ \A k \in DOMAIN scn[c].channels : scn[c].channels[k] = k
    /\ 0 \notin server[c].subs
    /\ \A n \in Pending(c) \cup Afloat(c) :
          /\ n.channel \in DOMAIN scn[c].channels
          /\ plan.kind # "_expect_notifications" =>
                n.channel = Len(scn[c].channels)
          /\ n.data \in Subjects(plan.kind)
    /\ proc[c].waits = "send" =>
          post[c].channel = Target(c) /\ post[c].data = Instr(c).arg

\* The server sends to a scenario that it has greeted, and knows it.
At(c, op) == ~Returns(c) /\ Instr(c).op = op
Greeted(c) == \E k \in DOMAIN down[c] : down[c][k].type = "hello"
Online(c) ==
    /\ server[c].online <=>
          /\ plan.kind # "_explode" /\ proc[c].connected
          /\ At(c, "hello") => Greeted(c)
    /\ \A k \in DOMAIN down[c] : down[c][k].type # "stranger"

\* The ids of what the scenario was given and has to acknowledge.
Owed(c) ==
    (IF scn[c].pc \in Due[plan.kind] THEN {scn[c].notif.id} ELSE {})
        \cup Elements(scn[c].ids)

\* What is pending and not owed is afloat, once the scenario is greeted, and
\* what is afloat was not seen before.
Reaches(c) ==
    /\ (~server[c].online /\ plan.kind # "_expect_notifications") =>
          Afloat(c) = {}
    /\ server[c].online =>
          \A n \in Pending(c) : n \in Afloat(c) \/ n.id \in Owed(c)
    /\ plan.kind # "notification_forever_direct_store" =>
          /\ \A n \in Pending(c) : n.id \in Seen(c) => n.id \in Owed(c)
          /\ \A n \in Afloat(c) : n.id \notin Seen(c)

\* It is at a POST that the server has not taken yet.
Unposted(c) ==
    At(c, "send") /\ (proc[c].waits = "send" => post[c].code = "none")

\* Nothing is pending and nothing afloat where the tables say, where None was
\* given, and before a POST.
Clears(c) ==
    /\ scn[c].pc \in Vacancies[plan.kind] => Vacant(c)
    /\ scn[c].pc \in Due[plan.kind] =>
          /\ scn[c].notif = NoNotif => Vacant(c)
          /\ plan.kind \notin Several => Afloat(c) = {}
    /\ (Unposted(c) /\ plan.kind \notin Several \cup {"basic_topic"}) =>
          Vacant(c)
    /\ scn[c].ids # <<>> => At(c, "ack_ids")
    /\ (At(c, "ack_ids") /\ scn[c].ids = <<>>) => Vacant(c)
    /\ proc[c].waits = "expect" => proc[c].inbox = <<>>

Whereabouts(c) ==
    Numbered(c) /\ Aimed(c) /\ Online(c) /\ Reaches(c) /\ Clears(c)
Traced(c) ==
    (Running(c) /\ "late" \notin mishaps[c] /\ "uaid" \notin mishaps[c]) =>
        Whereabouts(c)

\* A scenario that the server does not know any more learns it at once, and
\* then fails.
Strange(c) ==
    (Running(c) /\ "uaid" \in mishaps[c]) =>
        \/ /\ proc[c].waits = "hello" /\ Instr(c).arg = "again"
           /\ \E k \in DOMAIN down[c] : down[c][k].type = "stranger"
        \/ /\ At(c, "same_uaid") /\ ~scn[c].same
           /\ proc[c].waits = "nothing"

SeenOnce(c) ==
    ("late" \notin mishaps[c]
        /\ plan.kind # "notification_forever_direct_store") =>
            \A k, l \in DOMAIN tally[c].seen :
                tally[c].seen[k] = tally[c].seen[l] => k = l

ClientTrace(c) == Traced(c) /\ Strange(c) /\ SeenOnce(c)
TraceInv == \A c \in Clients : ClientTrace(c)

-----------------------------------------------------------------------------
(* Notifications in sequences. *)

\* What the frames are.
Sorts(frames) == {frames[k].type : k \in DOMAIN frames}

LEMMA ToldOf ==
    ASSUME NEW frames, NEW m
    PROVE  m \in Told(frames) <=>
              \E k \in DOMAIN frames :
                  ~Replies(frames[k]) /\ frames[k].notif = m
BY DEF Told

\* A frame more, and the first frame less.
LEMMA ToldAppend ==
    ASSUME NEW frames \in Seq(FrameSet), NEW x \in FrameSet, NEW longer,
           longer = Append(frames, x)
    PROVE  /\ Told(longer) = Told(frames)
                                \cup (IF Replies(x) THEN {} ELSE {x.notif})
           /\ (/\ Distinct(frames)
               /\ ~Replies(x) =>
                     \A m \in Told(frames) : m.id # x.notif.id)
                  => Distinct(longer)
           /\ Sorts(longer) = Sorts(frames) \cup {x.type}
<1>1. /\ longer \in Seq(FrameSet) /\ Len(longer) = Len(frames) + 1
      /\ Len(frames) \in Nat
      /\ \A k \in 1..Len(frames) : longer[k] = frames[k]
      /\ longer[Len(frames) + 1] = x
  BY AppendProperties
<1>2. /\ DOMAIN longer = 1..(Len(frames) + 1) /\ DOMAIN frames = 1..Len(frames)
  BY <1>1
<1>3. ASSUME NEW m
      PROVE  m \in Told(longer) <=>
                m \in Told(frames) \cup (IF Replies(x) THEN {} ELSE {x.notif})
  <2>1. m \in Told(longer) <=>
           \E k \in 1..(Len(frames) + 1) :
               ~Replies(longer[k]) /\ longer[k].notif = m
    BY <1>2, ToldOf
  <2>2. m \in Told(frames) <=>
           \E k \in 1..Len(frames) :
               ~Replies(frames[k]) /\ frames[k].notif = m
    BY <1>2, ToldOf
  <2>3. \A k \in 1..(Len(frames) + 1) :
           k \in 1..Len(frames) \/ k = Len(frames) + 1
    BY <1>1
  <2>4. Len(frames) + 1 \in 1..(Len(frames) + 1) /\
        \A k \in 1..Len(frames) : k \in 1..(Len(frames) + 1)
    BY <1>1
  <2>. QED  BY <1>1, <2>1, <2>2, <2>3, <2>4
<1>4. Told(longer) = Told(frames)
                        \cup (IF Replies(x) THEN {} ELSE {x.notif})
  BY <1>3
<1>5. ASSUME Distinct(frames),
             ~Replies(x) => \A m \in Told(frames) : m.id # x.notif.id
      PROVE  Distinct(longer)
  <2>1. ASSUME NEW k \in 1..Len(frames), ~Replies(x), ~Replies(frames[k])
        PROVE  frames[k].notif.id # x.notif.id
    BY <1>2, <1>5, <2>1, ToldOf
  <2>. QED  BY <1>1, <1>2, <1>5, <2>1 DEF Distinct
<1>6. ASSUME NEW type
      PROVE  (\E k \in DOMAIN longer : longer[k].type = type) <=>
                 \/ x.type = type
                 \/ \E k \in DOMAIN frames : frames[k].type = type
  BY <1>1, <1>2
<1>7. Sorts(longer) = Sorts(frames) \cup {x.type}
  BY <1>6 DEF Sorts
<1>. QED  BY <1>4, <1>5, <1>7

LEMMA ToldTail ==
    ASSUME NEW frames \in Seq(FrameSet), frames # <<>>, NEW rest,
           rest = Tail(frames)
    PROVE  /\ Told(frames) = Told(rest) \cup
                 (IF Replies(Head(frames)) THEN {} ELSE {Head(frames).notif})
           /\ Distinct(frames) =>
                 /\ Distinct(rest)
                 /\ ~Replies(Head(frames)) =>
                       \A m \in Told(rest) : m.id # Head(frames).notif.id
           /\ Sorts(frames) = Sorts(rest) \cup {Head(frames).type}
<1>1. /\ rest \in Seq(FrameSet) /\ Len(rest) = Len(frames) - 1
      /\ Len(frames) \in Nat \ {0}
      /\ \A k \in 1..Len(rest) : rest[k] = frames[k + 1]
      /\ Head(frames) = frames[1]
  BY HeadTailProperties, EmptySeq
<1>2. /\ DOMAIN rest = 1..(Len(frames) - 1) /\ DOMAIN frames = 1..Len(frames)
  BY <1>1
<1>3. \A k \in 1..Len(frames) : k = 1 \/ k - 1 \in 1..(Len(frames) - 1)
  BY <1>1
<1>4. /\ 1 \in 1..Len(frames)
      /\ \A k \in 1..(Len(frames) - 1) :
            k + 1 \in 1..Len(frames) /\ rest[k] = frames[k + 1] /\ k + 1 # 1
      /\ \A k \in 1..Len(frames) :
            k = 1 \/ \E j \in 1..(Len(frames) - 1) : k = j + 1
  <2>1. \A k \in 1..Len(frames) : k = (k - 1) + 1
    BY <1>1
  <2>. QED  BY <1>1, <1>3, <2>1
<1>5. ASSUME NEW m
      PROVE  m \in Told(frames) <=> m \in Told(rest) \cup
                 (IF Replies(Head(frames)) THEN {} ELSE {Head(frames).notif})
  <2>1. m \in Told(frames) <=>
           \E k \in 1..Len(frames) :
               ~Replies(frames[k]) /\ frames[k].notif = m
    BY <1>2, ToldOf
  <2>2. m \in Told(rest) <=>
           \E k \in 1..(Len(frames) - 1) :
               ~Replies(rest[k]) /\ rest[k].notif = m
    BY <1>2, ToldOf
  <2>. QED  BY <1>1, <1>4, <2>1, <2>2
<1>6. ASSUME Distinct(frames)
      PROVE  /\ Distinct(rest)
             /\ ~Replies(Head(frames)) =>
                   \A m \in Told(rest) : m.id # Head(frames).notif.id
  <2>1. Distinct(rest)
    <3>1. ASSUME NEW k \in 1..(Len(frames) - 1), NEW l \in 1..(Len(frames) - 1),
                 ~Replies(rest[k]), ~Replies(rest[l]),
                 rest[k].notif.id = rest[l].notif.id
          PROVE  k = l
      <4>1. k + 1 = l + 1
        BY <1>2, <1>4, <1>6, <3>1 DEF Distinct
      <4>. QED  BY <4>1
    <3>. QED  BY <1>2, <3>1 DEF Distinct
  <2>2. ASSUME ~Replies(Head(frames)), NEW m \in Told(rest),
               m.id = Head(frames).notif.id
        PROVE  FALSE
    <3>0. m \in Told(rest) <=>
             \E k \in 1..(Len(frames) - 1) :
                 ~Replies(rest[k]) /\ rest[k].notif = m
      BY <1>2, ToldOf
    <3>1. PICK k \in 1..(Len(frames) - 1) :
              ~Replies(rest[k]) /\ rest[k].notif = m
      BY <2>2, <3>0
    <3>. QED  BY <1>1, <1>2, <1>4, <1>6, <2>2, <3>1 DEF Distinct
  <2>. QED  BY <2>1, <2>2
<1>7. ASSUME NEW type
      PROVE  type \in Sorts(frames) <=>
                 Head(frames).type = type \/ type \in Sorts(rest)
  <2>1. ASSUME NEW k \in 1..Len(frames), frames[k].type = type, k # 1
        PROVE  \E j \in 1..(Len(frames) - 1) : rest[j].type = type
    BY <1>4, <2>1
  <2>2. ASSUME NEW k \in 1..(Len(frames) - 1), rest[k].type = type
        PROVE  \E j \in 1..Len(frames) : frames[j].type = type
    BY <1>4, <2>2
  <2>3. Head(frames).type = type => \E j \in 1..Len(frames) : frames[j].type = type
    BY <1>1, <1>4
  <2>4. (\E k \in DOMAIN frames : frames[k].type = type) <=>
            \/ Head(frames).type = type
            \/ \E k \in DOMAIN rest : rest[k].type = type
    BY <1>1, <1>2, <2>1, <2>2, <2>3
  <2>5. type \in Sorts(frames) <=> \E k \in DOMAIN frames : frames[k].type = type
    BY DEF Sorts
  <2>6. type \in Sorts(rest) <=> \E k \in DOMAIN rest : rest[k].type = type
    BY DEF Sorts
  <2>. QED  BY <2>4, <2>5, <2>6, Zenon
<1>8. Sorts(frames) = Sorts(rest) \cup {Head(frames).type}
  BY <1>7
<1>. QED  BY <1>5, <1>6, <1>8

LEMMA NothingTold ==
    ASSUME NEW frames \in Seq(FrameSet), Told(frames) = {},
           \A k \in DOMAIN frames : ~Replies(frames[k])
    PROVE  frames = <<>>
<1>1. DOMAIN frames = 1..Len(frames) /\ Len(frames) \in Nat
  OBVIOUS
<1>2. ASSUME NEW k \in DOMAIN frames PROVE FALSE
  BY ToldOf
<1>3. Len(frames) = 0
  BY <1>1, <1>2
<1>. QED  BY <1>3, EmptySeq

LEMMA NothingIn ==
    ASSUME NEW S, NEW s \in Seq(S)
    PROVE  Elements(s) = {} <=> s = <<>>
<1>1. DOMAIN s = 1..Len(s) /\ Len(s) \in Nat
  OBVIOUS
<1>2. ASSUME Elements(s) = {} PROVE s = <<>>
  <2>1. ASSUME NEW k \in DOMAIN s PROVE FALSE
    BY <1>2 DEF Elements
  <2>2. Len(s) = 0
    BY <1>1, <2>1
  <2>. QED  BY <2>2, EmptySeq
<1>3. ASSUME s = <<>> PROVE Elements(s) = {}
  BY <1>3 DEF Elements
<1>. QED  BY <1>2, <1>3

LEMMA UnlikeAppend ==
    ASSUME NEW S, NEW s \in Seq(S), NEW x \in S, Unlike(s),
           \A n \in Elements(s) : n.id # x.id
    PROVE  Unlike(Append(s, x))
<1>1. PICK t : t = Append(s, x)
  OBVIOUS
<1>2. /\ t \in Seq(S) /\ Len(t) = Len(s) + 1 /\ Len(s) \in Nat
      /\ \A k \in 1..Len(s) : t[k] = s[k]
      /\ t[Len(s) + 1] = x
  BY <1>1, AppendProperties
<1>3. DOMAIN t = 1..(Len(s) + 1) /\ DOMAIN s = 1..Len(s)
  BY <1>2
<1>4. \A k \in 1..Len(s) : s[k].id # x.id
  BY <1>3 DEF Elements
<1>5. Unlike(t)
  BY <1>2, <1>3, <1>4 DEF Unlike
<1>. QED  BY <1>1, <1>5

LEMMA UnlikeKept ==
    ASSUME NEW S, NEW K
    PROVE  \A s \in Seq(S) : Unlike(s) => Unlike(Kept(s, K))
<1>1. PICK T : T = {s \in Seq(S) : Unlike(s) => Unlike(Kept(s, K))}
  OBVIOUS
<1>2. <<>> \in T
  <2>1. <<>> \in Seq(S)
    BY EmptySeq
  <2>2. Unlike(Kept(<<>>, K))
    BY KeptEmpty DEF Unlike
  <2>. QED  BY <1>1, <2>1, <2>2
<1>3. ASSUME NEW s \in Seq(S), s \in T, NEW x \in S
      PROVE  Append(s, x) \in T
  <2>1. PICK t : t = Append(s, x)
    OBVIOUS
  <2>2. /\ t \in Seq(S) /\ Len(t) = Len(s) + 1 /\ Len(s) \in Nat
        /\ \A k \in 1..Len(s) : t[k] = s[k]
        /\ t[Len(s) + 1] = x
    BY <2>1, AppendProperties
  <2>3. DOMAIN t = 1..(Len(s) + 1) /\ DOMAIN s = 1..Len(s)
    BY <2>2
  <2>4. ASSUME Unlike(t) PROVE Unlike(Kept(t, K))
    <3>1. Unlike(s)
      <4>1. ASSUME NEW k \in 1..Len(s), NEW l \in 1..Len(s), s[k].id = s[l].id
            PROVE  k = l
        BY <2>2, <2>3, <2>4, <4>1 DEF Unlike
      <4>. QED  BY <2>3, <4>1 DEF Unlike
    <3>2. PICK u : u = Kept(s, K)
      OBVIOUS
    <3>3. Unlike(u)
      BY <1>1, <1>3, <3>1, <3>2
    <3>4. u \in Seq(S \cap K) /\ Elements(u) = Elements(s) \cap K
      BY <3>2, KeptIsASequence, KeptElements
    <3>5. \A n \in Elements(s) : n.id # x.id
      BY <2>2, <2>3, <2>4 DEF Unlike, Elements
    <3>6. CASE x \in K
      <4>1. Kept(t, K) = Append(u, x)
        BY <2>1, <3>2, <3>6, KeptAppend
      <4>2. x \in S \cap K
        BY <3>6
      <4>3. Unlike(Append(u, x))
        BY <3>3, <3>4, <3>5, <4>2, UnlikeAppend
      <4>. QED  BY <4>1, <4>3
    <3>7. CASE x \notin K
      <4>1. Kept(t, K) = u
        BY <2>1, <3>2, <3>7, KeptAppend
      <4>. QED  BY <3>3, <4>1
    <3>. QED  BY <3>6, <3>7
  <2>. QED  BY <1>1, <2>1, <2>2, <2>4
<1>4. Seq(S) \subseteq T
  BY <1>2, <1>3, BySequences
<1>. QED  BY <1>1, <1>4

\* What a user agent is sent that comes back: all that is pending.
LEMMA Greeting ==
    ASSUME NEW ns \in Seq(Notifs), NEW frames,
           frames = <<Frame("hello", NoNotif)>> \o Notifying(ns)
    PROVE  /\ Told(frames) = Elements(ns)
           /\ Unlike(ns) => Distinct(frames)
           /\ \E k \in DOMAIN frames : frames[k].type = "hello"
           /\ \A k \in DOMAIN frames : frames[k].type # "stranger"
<1>1. PICK h : h = Frame("hello", NoNotif)
  OBVIOUS
<1>2. h \in FrameSet /\ h.type = "hello" /\ Replies(h)
  BY <1>1, Beginnings DEF Frame, FrameSet, Requests, Replies
<1>3. PICK gs : gs = Notifying(ns)
  OBVIOUS
<1>4. /\ gs \in Seq(FrameSet) /\ Len(gs) = Len(ns) /\ Len(ns) \in Nat
      /\ \A k \in 1..Len(ns) : /\ ~Replies(gs[k]) /\ gs[k].notif = ns[k]
                               /\ gs[k].type = "notification"
  <2>1. gs = [k \in 1..Len(ns) |-> Frame("notification", ns[k])]
    BY <1>3 DEF Notifying
  <2>2. ASSUME NEW k \in 1..Len(ns)
        PROVE  /\ gs[k] \in FrameSet /\ ~Replies(gs[k]) /\ gs[k].notif = ns[k]
               /\ gs[k].type = "notification"
    <3>1. ns[k] \in Notifs
      OBVIOUS
    <3>2. gs[k] = [type |-> "notification", notif |-> ns[k]]
      BY <2>1 DEF Frame
    <3>. QED  BY <3>1, <3>2 DEF FrameSet, Replies
  <2>. QED  BY <2>1, <2>2
<1>5. /\ Len(frames) = 1 + Len(ns) /\ frames[1] = h
      /\ \A k \in 1..Len(ns) : frames[k + 1] = gs[k]
      /\ DOMAIN frames = 1..(1 + Len(ns))
  <2>1. PICK hs : hs = <<h>>
    OBVIOUS
  <2>2. hs \in Seq(FrameSet) /\ Len(hs) = 1 /\ hs[1] = h
    BY <1>2, <2>1
  <2>3. frames = hs \o gs
    BY <1>1, <1>3, <2>1
  <2>4. /\ frames \in Seq(FrameSet) /\ Len(frames) = Len(hs) + Len(gs)
        /\ \A k \in 1..Len(frames) :
              frames[k] = IF k =< Len(hs) THEN hs[k] ELSE gs[k - Len(hs)]
    <3>1. gs \in Seq(FrameSet) /\ hs \in Seq(FrameSet)
      BY <1>4, <2>2
    <3>2. frames \in Seq(FrameSet) /\ Len(frames) = Len(hs) + Len(gs)
      BY <2>3, <3>1, ConcatProperties
    <3>3. \A k \in 1..(Len(hs) + Len(gs)) :
              frames[k] = IF k <= Len(hs) THEN hs[k] ELSE gs[k - Len(hs)]
      BY <2>3, <3>1, ConcatProperties
    <3>. QED  BY <3>2, <3>3
  <2>5. Len(frames) = 1 + Len(ns) /\ frames[1] = h
    BY <1>4, <2>2, <2>4
  <2>6. ASSUME NEW k \in 1..Len(ns) PROVE frames[k + 1] = gs[k]
    <3>1. k + 1 \in 1..Len(frames) /\ ~(k + 1 =< 1) /\ (k + 1) - 1 = k
      BY <1>4, <2>5
    <3>. QED  BY <2>2, <2>4, <3>1
  <2>. QED  BY <2>4, <2>5, <2>6
<1>6. /\ \A k \in 1..(1 + Len(ns)) :
            k = 1 \/ \E j \in 1..Len(ns) : k = j + 1
      /\ 1 \in 1..(1 + Len(ns))
      /\ \A k \in 1..Len(ns) : k + 1 \in 1..(1 + Len(ns))
  <2>1. \A k \in 1..(1 + Len(ns)) :
            k = 1 \/ (k - 1 \in 1..Len(ns) /\ k = (k - 1) + 1)
    BY <1>4
  <2>2. /\ 1 \in 1..(1 + Len(ns))
        /\ \A k \in 1..Len(ns) : k + 1 \in 1..(1 + Len(ns))
    BY <1>4
  <2>. QED  BY <2>1, <2>2
<1>7. ASSUME NEW m PROVE m \in Told(frames) <=> m \in Elements(ns)
  <2>1. ASSUME NEW k \in 1..Len(ns), ns[k] = m PROVE m \in Told(frames)
    <3>1. k + 1 \in DOMAIN frames /\ ~Replies(frames[k + 1])
          /\ frames[k + 1].notif = m
      BY <1>4, <1>5, <1>6, <2>1
    <3>. QED  BY <3>1, ToldOf
  <2>2. ASSUME m \in Told(frames) PROVE \E k \in 1..Len(ns) : ns[k] = m
    <3>1. PICK k \in DOMAIN frames : ~Replies(frames[k]) /\ frames[k].notif = m
      BY <2>2 DEF Told
    <3>2. PICK j \in 1..Len(ns) : k = j + 1
      BY <1>2, <1>5, <1>6, <3>1
    <3>. QED  BY <1>4, <1>5, <3>1, <3>2
  <2>. QED  BY <2>1, <2>2 DEF Elements
<1>8. ASSUME Unlike(ns) PROVE Distinct(frames)
  <2>1. ASSUME NEW k \in 1..(1 + Len(ns)), NEW l \in 1..(1 + Len(ns)),
               ~Replies(frames[k]), ~Replies(frames[l]),
               frames[k].notif.id = frames[l].notif.id
        PROVE  k = l
    <3>1. PICK i \in 1..Len(ns) : k = i + 1
      BY <1>2, <1>5, <1>6, <2>1
    <3>2. PICK j \in 1..Len(ns) : l = j + 1
      BY <1>2, <1>5, <1>6, <2>1
    <3>3. ns[i].id = ns[j].id
      BY <1>4, <1>5, <2>1, <3>1, <3>2
    <3>4. i = j
      BY <1>8, <3>3 DEF Unlike
    <3>. QED  BY <3>1, <3>2, <3>4
  <2>. QED  BY <1>5, <2>1 DEF Distinct
<1>9. \A k \in 1..(1 + Len(ns)) : frames[k].type # "stranger"
  BY <1>2, <1>4, <1>5, <1>6
<1>. QED  BY <1>2, <1>5, <1>6, <1>7, <1>8, <1>9

\* A sequence without its k-th element: that is the one it lacks.
Without(s, k) == SubSeq(s, 1, k - 1) \o SubSeq(s, k + 1, Len(s))

LEMMA WithoutIt ==
    ASSUME NEW S, NEW s \in Seq(S), NEW k \in 1..Len(s), NEW t,
           t = Without(s, k), Unlike(s)
    PROVE  /\ Unlike(t)
           /\ Elements(s) = Elements(t) \cup {s[k]}
           /\ \A m \in Elements(t) : m.id # s[k].id
<1>1. PICK a, b : a = SubSeq(s, 1, k - 1) /\ b = SubSeq(s, k + 1, Len(s))
  OBVIOUS
<1>2. /\ DOMAIN s = 1..Len(s) /\ Len(s) \in Nat /\ Len(s) \in Int
      /\ k \in Nat /\ k \in Int /\ 1 =< k /\ k =< Len(s)
  OBVIOUS
<1>3. /\ a \in Seq(S) /\ Len(a) = k - 1
      /\ \A i \in 1..(k - 1) : a[i] = s[i]
  <2>1. /\ k - 1 \in Int /\ 1 \in Int /\ \A j \in 1..(k - 1) : s[j] \in S
        /\ (k - 1) - 1 + 1 = k - 1 /\ \A i \in 1..(k - 1) : 1 + i - 1 = i
    BY <1>2
  <2>2. a \in Seq(S)
    BY <1>1, <2>1, SubSeqProperties
  <2>3. Len(a) = k - 1
    BY <1>1, <1>2, <2>1, SubSeqProperties
  <2>4. \A i \in 1..(k - 1) : a[i] = s[i]
    BY <1>1, <1>2, <2>1, SubSeqProperties
  <2>. QED  BY <2>2, <2>3, <2>4
<1>4. /\ b \in Seq(S) /\ Len(b) = Len(s) - k
      /\ \A i \in 1..(Len(s) - k) : b[i] = s[k + i]
  <2>1. /\ k + 1 \in Int /\ Len(s) \in Int /\ \A j \in (k + 1)..Len(s) : s[j] \in S
        /\ Len(s) - (k + 1) + 1 = Len(s) - k
        /\ \A i \in 1..(Len(s) - k) : (k + 1) + i - 1 = k + i
    BY <1>2
  <2>2. b \in Seq(S)
    BY <1>1, <2>1, SubSeqProperties
  <2>3. Len(b) = Len(s) - k
    <3>1. Len(b) = IF k + 1 =< Len(s) THEN Len(s) - (k + 1) + 1 ELSE 0
      BY <1>1, <2>1, SubSeqProperties
    <3>2. CASE k = Len(s)
      <4>1. ~(k + 1 =< Len(s)) /\ Len(s) - k = 0
        BY <1>2, <3>2
      <4>. QED  BY <3>1, <4>1
    <3>3. CASE k < Len(s)
      <4>1. k + 1 =< Len(s) /\ Len(s) - (k + 1) + 1 = Len(s) - k
        BY <1>2, <3>3
      <4>. QED  BY <3>1, <4>1
    <3>4. k = Len(s) \/ k < Len(s)
      <4>0. Len(s) \in Int
        BY <2>1
      <4>1. PICK n \in Int : n = Len(s)
        BY <4>0
      <4>2. k \in Int /\ k =< n
        BY <1>2, <4>1
      <4>3. k = n \/ k < n
        BY <4>2
      <4>. QED  BY <4>1, <4>3
    <3>. QED  BY <3>2, <3>3, <3>4
  <2>4. \A i \in 1..(Len(s) - k) : b[i] = s[k + i]
    BY <1>1, <1>2, <2>1, SubSeqProperties
  <2>. QED  BY <2>2, <2>3, <2>4
<1>5. /\ Len(t) = Len(s) - 1 /\ DOMAIN t = 1..(Len(s) - 1)
      /\ \A i \in 1..(Len(s) - 1) : t[i] = IF i < k THEN s[i] ELSE s[i + 1]
  <2>1. /\ t \in Seq(S) /\ Len(t) = Len(a) + Len(b)
        /\ \A i \in 1..Len(t) :
              t[i] = IF i =< Len(a) THEN a[i] ELSE b[i - Len(a)]
    <3>1. a \in Seq(S) /\ b \in Seq(S) /\ t = a \o b
      BY <1>1, <1>3, <1>4 DEF Without
    <3>2. t \in Seq(S) /\ Len(t) = Len(a) + Len(b)
      BY <3>1, ConcatProperties
    <3>3. \A i \in 1..(Len(a) + Len(b)) :
              t[i] = IF i <= Len(a) THEN a[i] ELSE b[i - Len(a)]
      BY <3>1, ConcatProperties
    <3>. QED  BY <3>2, <3>3
  <2>2. Len(t) = Len(s) - 1
    <3>1. Len(t) = (k - 1) + (Len(s) - k)
      BY <1>3, <1>4, <2>1
    <3>2. (k - 1) + (Len(s) - k) = Len(s) - 1
      BY <1>2
    <3>. QED  BY <3>1, <3>2
  <2>3. ASSUME NEW i \in 1..(Len(s) - 1)
        PROVE  t[i] = IF i < k THEN s[i] ELSE s[i + 1]
    <3>1. CASE i < k
      <4>1. i \in 1..Len(t) /\ i =< Len(a) /\ i \in 1..(k - 1)
        BY <1>2, <1>3, <2>2, <3>1
      <4>. QED  BY <1>3, <2>1, <3>1, <4>1
    <3>2. CASE ~(i < k)
      <4>0. PICK n : n = i - k + 1
        OBVIOUS
      <4>1. /\ i \in 1..Len(t) /\ ~(i =< Len(a)) /\ i - Len(a) = n
            /\ n \in 1..(Len(s) - k) /\ k + n = i + 1
        <5>1. i \in Int /\ 1 =< i /\ i =< Len(s) - 1 /\ k =< i
          BY <1>2, <3>2
        <5>2. 1 =< n /\ n =< Len(s) - k /\ n \in Int /\ k + n = i + 1
              /\ i - (k - 1) = n /\ ~(i =< k - 1)
          BY <1>2, <4>0, <5>1
        <5>. QED  BY <1>3, <2>2, <5>1, <5>2
      <4>2. t[i] = b[n] /\ b[n] = s[k + n]
        BY <1>4, <2>1, <4>1
      <4>. QED  BY <3>2, <4>1, <4>2
    <3>. QED  BY <3>1, <3>2
  <2>4. DOMAIN t = 1..Len(t)
    BY <2>1
  <2>. QED  BY <2>2, <2>3, <2>4
<1>6. \A i, j \in 1..Len(s) : s[i].id = s[j].id => i = j
  BY <1>2 DEF Unlike
<1>7. PICK from : from = [i \in 1..(Len(s) - 1) |-> IF i < k THEN i ELSE i + 1]
  OBVIOUS
<1>8. ASSUME NEW i \in 1..(Len(s) - 1)
      PROVE  from[i] \in 1..Len(s) /\ from[i] # k /\ t[i] = s[from[i]]
  <2>1. CASE i < k
    <3>1. from[i] = i /\ i \in 1..Len(s) /\ i # k
      BY <1>2, <1>7, <2>1
    <3>. QED  BY <1>5, <2>1, <3>1
  <2>2. CASE ~(i < k)
    <3>1. from[i] = i + 1 /\ i + 1 \in 1..Len(s) /\ i + 1 # k
      BY <1>2, <1>7, <2>2
    <3>. QED  BY <1>5, <2>2, <3>1
  <2>. QED  BY <2>1, <2>2
<1>9. \A i, j \in 1..(Len(s) - 1) : from[i] = from[j] => i = j
  BY <1>2, <1>7
<1>10. \A j \in 1..Len(s) : j = k \/ \E i \in 1..(Len(s) - 1) : from[i] = j
  <2>1. ASSUME NEW j \in 1..Len(s), j < k
        PROVE  \E i \in 1..(Len(s) - 1) : from[i] = j
    <3>1. j \in 1..(Len(s) - 1) /\ from[j] = j
      BY <1>2, <1>7, <2>1
    <3>. QED  BY <3>1
  <2>2. ASSUME NEW j \in 1..Len(s), k < j
        PROVE  \E i \in 1..(Len(s) - 1) : from[i] = j
    <3>1. j - 1 \in 1..(Len(s) - 1) /\ ~(j - 1 < k) /\ (j - 1) + 1 = j
      BY <1>2, <2>2
    <3>2. from[j - 1] = j
      BY <1>7, <3>1
    <3>. QED  BY <3>1, <3>2
  <2>3. \A j \in 1..Len(s) : j < k \/ j = k \/ k < j
    BY <1>2
  <2>. QED  BY <2>1, <2>2, <2>3
<1>11. Unlike(t)
  <2>1. ASSUME NEW i \in DOMAIN t, NEW j \in DOMAIN t, t[i].id = t[j].id
        PROVE  i = j
    <3>1. i \in 1..(Len(s) - 1) /\ j \in 1..(Len(s) - 1)
      BY <1>5
    <3>2. s[from[i]].id = s[from[j]].id
      BY <1>8, <2>1, <3>1
    <3>3. from[i] = from[j]
      BY <1>6, <1>8, <3>1, <3>2
    <3>. QED  BY <1>9, <3>1, <3>3
  <2>. QED  BY <2>1 DEF Unlike
<1>12. ASSUME NEW m \in Elements(t) PROVE m.id # s[k].id
  <2>1. PICK i \in 1..(Len(s) - 1) : m = t[i]
    BY <1>5 DEF Elements
  <2>. QED  BY <1>6, <1>8, <2>1
<1>13. Elements(s) = Elements(t) \cup {s[k]}
  <2>1. ASSUME NEW j \in 1..Len(s), j # k PROVE s[j] \in Elements(t)
    <3>1. PICK i \in 1..(Len(s) - 1) : from[i] = j
      BY <1>10, <2>1
    <3>. QED  BY <1>5, <1>8, <3>1 DEF Elements
  <2>2. ASSUME NEW i \in 1..(Len(s) - 1) PROVE t[i] \in Elements(s)
    BY <1>2, <1>8 DEF Elements
  <2>3. s[k] \in Elements(s)
    BY <1>2 DEF Elements
  <2>. QED  BY <1>2, <1>5, <2>1, <2>2, <2>3 DEF Elements
<1>. QED  BY <1>11, <1>12, <1>13

-----------------------------------------------------------------------------
(* What the scripts carry, of a scenario at an instruction. *)

LEMMA TheCarrying ==
    ASSUME Inv, NEW c \in Clients, Running(c), ~Returns(c)
    PROVE  /\ scn[c].pc \in 1..Len(Script[plan.kind])
           /\ Timely(plan.kind, Instr(c), scn[c].pc)
           /\ Founded(plan.kind, Instr(c), scn[c].pc)
           /\ GoesOn(Instr(c), plan.once) =>
                 LeadsTo(plan.kind, plan.once, scn[c].pc, scn[c].pc + 1)
           /\ Branches(Instr(c), plan.once) =>
                 LeadsTo(plan.kind, plan.once, scn[c].pc, Instr(c).arg)
<1>1. scn[c].pc \in Places(plan.kind)
  BY DEF Inv, ClientInv, InPlace
<1>2. ~(scn[c].pc > Len(Script[plan.kind]))
  BY DEF Returns
<1>3. scn[c].pc \in 1..Len(Script[plan.kind])
  BY <1>1, <1>2, ThePlan, ScriptsAreSequences DEF Places
<1>4. Carries(plan.kind, plan.once, scn[c].pc)
  BY <1>3, ThePlan, ScriptsCarryWhatIsOnItsWay DEF ScriptsCarry
<1>. QED  BY <1>3, <1>4 DEF Carries, Instr

\* The place that it comes to, and the instruction there.
LEMMA TheNext ==
    ASSUME Inv, Inv', NEW c \in Clients, Running(c), ~Returns(c), Running(c)',
           plan' = plan,
           LeadsTo(plan.kind, plan.once, scn[c].pc, scn'[c].pc)
    PROVE  /\ Leads(plan.kind, plan.once, Instr(c), scn[c].pc, scn'[c].pc)
           /\ Settles(plan.kind, plan.once, Instr(c), scn[c].pc, scn'[c].pc)
           /\ scn'[c].pc \in 1..Len(Script[plan.kind]) <=> ~Returns(c)'
           /\ ~Returns(c)' =>
                 /\ Before(plan.kind, Instr(c), scn[c].pc, Instr(c)', scn'[c].pc)
                 /\ Precedes(plan.kind, Instr(c), scn[c].pc, Instr(c)',
                             scn'[c].pc)
                 /\ Timely(plan.kind, Instr(c)', scn'[c].pc)
<1>1. scn'[c].pc \in Places(plan.kind)
  BY DEF Inv, ClientInv, InPlace
<1>2. scn'[c].pc \in 1..Len(Script[plan.kind])
         <=> ~(scn'[c].pc > Len(Script[plan.kind]))
  BY <1>1, ThePlan, ScriptsAreSequences DEF Places
<1>3. Returns(c)' <=> scn'[c].pc > Len(Script[plan.kind])
  BY DEF Returns
<1>4. Instr(c)' = Script[plan.kind][scn'[c].pc]
  BY DEF Instr
<1>5. Instr(c) = Script[plan.kind][scn[c].pc]
  BY DEF Instr
<1>6. ~Returns(c)' => Timely(plan.kind, Instr(c)', scn'[c].pc)
  <2>1. ASSUME ~Returns(c)' PROVE Carries(plan.kind, plan.once, scn'[c].pc)
    BY <1>2, <1>3, <2>1, ThePlan, ScriptsCarryWhatIsOnItsWay DEF ScriptsCarry
  <2>. QED  BY <1>4, <2>1 DEF Carries
<1>. QED  BY <1>2, <1>3, <1>4, <1>5, <1>6 DEF LeadsTo

\* It is connected and greeted.
LEMMA AtWork ==
    ASSUME Inv, NEW c \in Clients, Running(c), ~Returns(c), Online(c),
           scn[c].pc \in Linked[plan.kind],
           Instr(c).op \notin {"connect", "hello"}
    PROVE  server[c].online
<1>1. proc[c].connected
  BY DEF Inv, ClientInv, InStep
<1>2. plan.kind # "_explode"
  BY TheCarrying DEF Timely
<1>. QED  BY <1>1, <1>2 DEF Online, At

LEMMA RealOnes ==
    ASSUME Inv, NEW c \in Clients
    PROVE  /\ \A n \in Pending(c) : n \in Notifs /\ n.id \in Nat \ {0}
           /\ \A n \in Afloat(c) : n \in Notifs /\ n.id \in Nat \ {0}
<1>1. /\ server[c].pending \in Seq(Notifs) /\ proc[c].inbox \in Seq(Notifs)
      /\ down[c] \in Seq(FrameSet) /\ HoldsReal(c)
  BY Typed DEF AgentSet, ProcessorSet, Inv, ClientInv
<1>2. ASSUME NEW n \in Pending(c) PROVE n \in Notifs /\ n.id \in Nat \ {0}
  <2>1. n \in Notifs /\ Real(n)
    BY <1>1, ElementsOf DEF Pending, HoldsReal
  <2>. QED  BY <2>1 DEF Real, Notifs
<1>3. ASSUME NEW n \in Afloat(c) PROVE n \in Notifs /\ n.id \in Nat \ {0}
  <2>1. CASE n \in Elements(proc[c].inbox)
    <3>1. n \in Notifs /\ Real(n)
      BY <1>1, <2>1, ElementsOf DEF HoldsReal
    <3>. QED  BY <3>1 DEF Real, Notifs
  <2>2. CASE n \in Told(down[c])
    <3>1. PICK k \in DOMAIN down[c] : ~Replies(down[c][k]) /\ down[c][k].notif = n
      BY <2>2 DEF Told
    <3>2. down[c][k] \in FrameSet
      BY <1>1, <3>1
    <3>3. n \in Notifs
      BY <3>1, <3>2 DEF FrameSet
    <3>4. Real(n)
      BY <1>1, <3>1 DEF HoldsReal
    <3>. QED  BY <3>3, <3>4 DEF Real, Notifs
  <2>. QED  BY <2>1, <2>2 DEF Afloat
<1>. QED  BY <1>2, <1>3

-----------------------------------------------------------------------------
(* Of the whereabouts, what keeps each part. *)

LEMMA StillNumbered ==
    ASSUME NEW c \in Clients, Numbered(c), plan' = plan,
           Unlike(server'[c].pending), Apart(proc'[c].inbox, down'[c]),
           server'[c].last = server[c].last,
           Pending(c)' \subseteq Pending(c), Afloat(c)' \subseteq Afloat(c) \cup Pending(c),
           \A id \in Seen(c)' : id \in Seen(c) \/ \E n \in Afloat(c) : n.id = id
    PROVE  Numbered(c)'
BY DEF Numbered

LEMMA StillAimed ==
    ASSUME NEW c \in Clients, Aimed(c), plan' = plan,
           scn'[c].channels = scn[c].channels, 0 \notin server'[c].subs,
           Pending(c)' \subseteq Pending(c), Afloat(c)' \subseteq Afloat(c) \cup Pending(c),
           proc'[c].waits # "send"
    PROVE  Aimed(c)'
BY DEF Aimed

\* Nothing is pending and nothing afloat.
LEMMA Emptied ==
    ASSUME NEW c \in Clients, Vacant(c)', scn'[c].ids = <<>>, Inv'
    PROVE  Reaches(c)' /\ Clears(c)'
<1>1. Afloat(c)' = {} /\ Pending(c)' = {}
  BY DEF Vacant
<1>2. proc'[c].inbox = <<>>
  <2>1. proc'[c].inbox \in Seq(Notifs)
    BY PrimedTypes DEF Inv, ProcessorSet
  <2>2. Elements(proc'[c].inbox) = {}
    BY <1>1 DEF Afloat
  <2>. QED  BY <2>1, <2>2, NothingIn
<1>. QED  BY <1>1, <1>2 DEF Reaches, Clears

\* It goes on, and what it had to acknowledge it still has.
LEMMA Passing ==
    ASSUME Inv, Inv', NEW c \in Clients, Running(c), ~Returns(c), Running(c)',
           Reaches(c), Clears(c), plan' = plan,
           Instr(c).op \notin {"expect", "ack", "collect", "ack_ids",
                               "disconnect"},
           LeadsTo(plan.kind, plan.once, scn[c].pc, scn'[c].pc),
           (Instr(c).op = "if_notif" /\ scn'[c].pc = Instr(c).arg) =>
               scn[c].notif = NoNotif,
           scn'[c].notif = scn[c].notif, scn'[c].ids = scn[c].ids,
           proc'[c].waits = "nothing",
           server'[c].online = server[c].online,
           Afloat(c)' = Afloat(c), Pending(c)' \subseteq Pending(c),
           Seen(c)' = Seen(c)
    PROVE  Reaches(c)' /\ Clears(c)'
<1>1. /\ Leads(plan.kind, plan.once, Instr(c), scn[c].pc, scn'[c].pc)
      /\ ~Returns(c)' =>
            Before(plan.kind, Instr(c), scn[c].pc, Instr(c)', scn'[c].pc)
  BY TheNext
<1>2. scn[c].ids = <<>>
  BY DEF Clears, At
<1>3. Elements(scn[c].ids) = {} /\ Elements(scn'[c].ids) = {}
  BY <1>2 DEF Elements
<1>4. /\ scn'[c].pc \in Due[plan.kind] => scn[c].pc \in Due[plan.kind]
      /\ (scn[c].pc \in Due[plan.kind] /\ scn'[c].pc \notin Due[plan.kind]) =>
            scn[c].notif = NoNotif
      /\ scn'[c].pc \in Vacancies[plan.kind] =>
            scn[c].pc \in Vacancies[plan.kind]
  BY <1>1 DEF Leads
<1>5. /\ At(c, "send")' =>
            \/ plan.kind \in Several \cup {"basic_topic"}
            \/ scn[c].pc \in Vacancies[plan.kind]
      /\ ~At(c, "ack_ids")'
  BY <1>1 DEF Before, At
<1>6. ASSUME NEW n \in Pending(c), n.id \in Owed(c) PROVE n.id \in Owed(c)'
  <2>1. n.id # 0
    BY RealOnes
  <2>2. NoNotif.id = 0
    BY DEF NoNotif, Notification
  <2>. QED  BY <1>3, <1>4, <1>6, <2>1, <2>2 DEF Owed
<1>7. Reaches(c)'
  BY <1>6 DEF Reaches
<1>8. Vacant(c) => Vacant(c)'
  BY DEF Vacant
<1>9. Clears(c)'
  BY <1>2, <1>4, <1>5, <1>8 DEF Clears, Unposted
<1>. QED  BY <1>7, <1>9

\* It waits, or stores what came.
LEMMA Pausing ==
    ASSUME NEW c \in Clients, Reaches(c), Clears(c), plan' = plan,
           scn'[c] = scn[c],
           server'[c].online = server[c].online,
           Afloat(c)' = Afloat(c), Pending(c)' = Pending(c),
           Seen(c)' = Seen(c),
           Unposted(c)' => Unposted(c),
           proc'[c].waits = "expect" => proc'[c].inbox = <<>>
    PROVE  Reaches(c)' /\ Clears(c)'
<1>1. /\ Instr(c)' = Instr(c) /\ Returns(c)' = Returns(c)
  BY DEF Instr, Returns, Running
<1>2. /\ \A op : At(c, op)' = At(c, op)
  BY <1>1 DEF At
<1>3. Owed(c)' = Owed(c)
  BY DEF Owed
<1>4. Vacant(c)' = Vacant(c)
  BY DEF Vacant
<1>5. Reaches(c)'
  BY <1>3 DEF Reaches
<1>6. Clears(c)'
  BY <1>2, <1>4 DEF Clears
<1>. QED  BY <1>5, <1>6

-----------------------------------------------------------------------------
(* Each step of a scenario keeps its whereabouts: what its processor does. *)

LEMMA Continuing ==
    ASSUME Inv, NEW c \in Clients, NEW s \in ScenarioSet, NEW l,
           scn' = [scn EXCEPT ![c] = GoTo(s, l)]
    PROVE  /\ scn'[c].pc = l /\ scn'[c].status = s.status
           /\ scn'[c].channels = s.channels /\ scn'[c].notif = s.notif
           /\ scn'[c].ids = s.ids /\ scn'[c].same = s.same
           /\ scn'[c].response = s.response /\ scn'[c].i = s.i
           /\ scn'[c].cycle = s.cycle
<1>1. scn \in [Clients -> ScenarioSet]
  BY Types DEF Inv
<1>2. scn'[c] = [s EXCEPT !.pc = l]
  BY <1>1 DEF GoTo
<1>. QED  BY <1>2 DEF ScenarioSet

LEMMA WaitingFor ==
    ASSUME Inv, NEW c \in Clients, NEW op,
           proc' = [proc EXCEPT ![c].waits = op]
    PROVE  /\ proc'[c].waits = op /\ proc'[c].connected = proc[c].connected
           /\ proc'[c].inbox = proc[c].inbox
           /\ proc'[c].timing = proc[c].timing /\ proc'[c].tries = proc[c].tries
<1>1. proc \in [Clients -> ProcessorSet] /\ proc[c] \in ProcessorSet
  BY Types DEF Inv
<1>2. proc'[c] = [proc[c] EXCEPT !.waits = op]
  BY <1>1
<1>. QED  BY <1>1, <1>2 DEF ProcessorSet

\* Nothing changes but its own state.
LEMMA SameNetwork ==
    ASSUME NEW c \in Clients, plan' = plan, server'[c] = server[c],
           down'[c] = down[c], proc'[c].inbox = proc[c].inbox,
           tally'[c].seen = tally[c].seen
    PROVE  /\ Afloat(c)' = Afloat(c) /\ Pending(c)' = Pending(c)
           /\ Seen(c)' = Seen(c) /\ (Vacant(c) <=> Vacant(c)')
           /\ Numbered(c) => Numbered(c)'
<1>1. Afloat(c)' = Afloat(c) /\ Pending(c)' = Pending(c) /\ Seen(c)' = Seen(c)
  BY DEF Afloat, Pending, Seen
<1>. QED  BY <1>1 DEF Numbered, Vacant

LEMMA Offstage ==
    ASSUME Inv, Inv', NEW c \in Clients, Running(c), ~Returns(c), Running(c)',
           plan' = plan, Online(c), Instr(c).op \notin {"connect", "hello"},
           LeadsTo(plan.kind, plan.once, scn[c].pc, scn'[c].pc),
           server'[c].online = server[c].online,
           proc'[c].connected = proc[c].connected,
           \A k \in DOMAIN down'[c] : down'[c][k].type # "stranger"
    PROVE  Online(c)'
<1>1. ~At(c, "hello")
  BY DEF At
<1>2. ~At(c, "hello")'
  BY TheNext DEF At, Before
<1>. QED  BY <1>1, <1>2 DEF Online

LEMMA MovingTraces ==
    ASSUME Inv, Inv', NEW c \in Clients, Running(c), ~Returns(c), Running(c)',
           Whereabouts(c), plan' = plan,
           Instr(c).op \notin {"connect", "hello", "expect", "ack", "collect",
                               "ack_ids", "disconnect"},
           LeadsTo(plan.kind, plan.once, scn[c].pc, scn'[c].pc),
           (Instr(c).op = "if_notif" /\ scn'[c].pc = Instr(c).arg) =>
               scn[c].notif = NoNotif,
           scn'[c].channels = scn[c].channels,
           scn'[c].notif = scn[c].notif, scn'[c].ids = scn[c].ids,
           proc'[c].waits = "nothing", proc'[c].inbox = proc[c].inbox,
           proc'[c].connected = proc[c].connected,
           server'[c] = server[c], down'[c] = down[c],
           tally'[c].seen = tally[c].seen
    PROVE  Whereabouts(c)'
<1>. Numbered(c) /\ Aimed(c) /\ Online(c) /\ Reaches(c) /\ Clears(c)
  BY DEF Whereabouts
<1>1. /\ Afloat(c)' = Afloat(c) /\ Pending(c)' = Pending(c)
      /\ Seen(c)' = Seen(c) /\ Numbered(c)'
  BY SameNetwork
<1>2. Aimed(c)'
  BY <1>1, StillAimed DEF Aimed
<1>3. Online(c)'
  <2>1. \A k \in DOMAIN down'[c] : down'[c][k].type # "stranger"
    BY DEF Online
  <2>. QED  BY <2>1, Offstage
<1>4. Reaches(c)' /\ Clears(c)'
  <2>1. /\ server'[c].online = server[c].online
        /\ Pending(c)' \subseteq Pending(c)
        /\ Instr(c).op \notin {"expect", "ack", "collect", "ack_ids",
                               "disconnect"}
    BY <1>1
  <2>. QED  BY <1>1, <2>1, Passing
<1>. QED  BY <1>1, <1>2, <1>3, <1>4 DEF Whereabouts

\* A command is under way.
LEMMA AskingTraces ==
    ASSUME Inv, Inv', NEW c \in Clients, Turn(c), ~Returns(c), Whereabouts(c),
           Asks(c), plan' = plan, scn' = scn, server' = server, down' = down,
           tally' = tally,
           Instr(c).op = "send" =>
               post'[c].channel = Target(c) /\ post'[c].data = Instr(c).arg,
           Instr(c).op = "expect" => proc[c].inbox = <<>>
    PROVE  Whereabouts(c)'
<1>. Numbered(c) /\ Aimed(c) /\ Online(c) /\ Reaches(c) /\ Clears(c)
  BY DEF Whereabouts
<1>0. /\ proc'[c].waits = Instr(c).op /\ proc'[c].inbox = proc[c].inbox
      /\ proc'[c].connected = proc[c].connected
  BY WaitingFor DEF Asks
<1>1. /\ Afloat(c)' = Afloat(c) /\ Pending(c)' = Pending(c)
      /\ Seen(c)' = Seen(c) /\ Numbered(c)'
  BY <1>0, SameNetwork
<1>2. /\ Instr(c)' = Instr(c) /\ Returns(c)' = Returns(c)
      /\ Target(c)' = Target(c)
  BY DEF Instr, Returns, Running, Target
<1>3. Aimed(c)'
  BY <1>0, <1>1, <1>2 DEF Aimed
<1>4. Online(c)'
  BY <1>0, <1>2 DEF Online, At, Greeted
<1>5. Unposted(c)' => Unposted(c)
  BY <1>2 DEF Unposted, At, Turn
<1>6. Reaches(c)' /\ Clears(c)'
  <2>1. proc'[c].waits = "expect" => proc'[c].inbox = <<>>
    BY <1>0
  <2>. QED  BY <1>0, <1>1, <1>5, <2>1, Pausing
<1>. QED  BY <1>1, <1>3, <1>4, <1>6 DEF Whereabouts

\* Only _explode is started again.
LEMMA StartedAgain ==
    ASSUME Inv, NEW c \in Clients, Running(c), NEW p \in ProcessorSet,
           Raise(c, p), Running(c)'
    PROVE  /\ plan.kind = "_explode" /\ scn'[c] = Fresh
           /\ proc'[c].waits = "nothing" /\ ~proc'[c].connected
           /\ proc'[c].inbox = <<>>
<1>1. /\ scn \in [Clients -> ScenarioSet] /\ proc \in [Clients -> ProcessorSet]
      /\ scn[c] \in ScenarioSet
  BY Types DEF Inv
<1>2. ASSUME NEW q \in {"returned", "raised"},
             scn' = [scn EXCEPT ![c].status = q]
      PROVE  FALSE
  <2>1. scn'[c].status = q
    BY <1>1, <1>2 DEF ScenarioSet
  <2>. QED  BY <2>1 DEF Running
<1>3. p.tries < Retries(plan.kind) /\ ~Instr(c).try
  BY <1>2 DEF Raise
<1>4. p.tries \in Nat
  BY DEF ProcessorSet
<1>5. plan.kind = "_explode"
  BY <1>3, <1>4 DEF Retries
<1>6. /\ scn' = [scn EXCEPT ![c] = Fresh]
      /\ proc' = [proc EXCEPT ![c] = [Idle EXCEPT !.tries = p.tries + 1]]
  BY <1>3 DEF Raise
<1>7. scn'[c] = Fresh
  BY <1>1, <1>6
<1>8. proc'[c] = [Idle EXCEPT !.tries = p.tries + 1]
  BY <1>1, <1>6
<1>9. /\ proc'[c].waits = "nothing" /\ ~proc'[c].connected
      /\ proc'[c].inbox = <<>>
  BY <1>8 DEF Idle
<1>. QED  BY <1>5, <1>7, <1>9

\* _explode only connects, and has nothing on its way.
LEMMA Exploding ==
    ASSUME Inv, NEW c \in Clients, Running(c), plan.kind = "_explode"
    PROVE  /\ scn[c].pc \in Vacancies[plan.kind]
           /\ ~Returns(c) => Instr(c).op = "connect"
<1>1. scn[c].pc \in 1..3
  <2>1. scn[c].pc \in Places("_explode")
    BY DEF Inv, ClientInv, InPlace
  <2>2. Len(Script["_explode"]) = 2
    BY DEF Script, Explode
  <2>. QED  BY <2>1, <2>2 DEF Places
<1>2. ~Returns(c) => Instr(c).op = "connect"
  BY TheCarrying DEF Timely
<1>. QED  BY <1>1, <1>2 DEF Vacancies

LEMMA StartingAgainTraces ==
    ASSUME Inv, Inv', NEW c \in Clients, Running(c), Whereabouts(c),
           NEW p \in ProcessorSet, Raise(c, p), Running(c)', Unconnected(c),
           plan' = plan, tally' = tally
    PROVE  Whereabouts(c)'
<1>. Numbered(c) /\ Aimed(c) /\ Clears(c)
  BY DEF Whereabouts
<1>1. /\ plan.kind = "_explode" /\ scn'[c] = Fresh
      /\ proc'[c].waits = "nothing" /\ ~proc'[c].connected
      /\ proc'[c].inbox = <<>>
  BY StartedAgain
<1>2. Vacant(c)
  BY <1>1, Exploding DEF Clears
<1>3. /\ server'[c].online = FALSE
      /\ server'[c].pending = server[c].pending
      /\ server'[c].last = server[c].last /\ server'[c].subs = server[c].subs
      /\ down'[c] = <<>>
  <2>1. /\ server \in [Clients -> AgentSet] /\ server[c] \in AgentSet
        /\ down \in [Clients -> Seq(FrameSet)]
    BY Types DEF Inv
  <2>2. server'[c] = [server[c] EXCEPT !.online = FALSE]
    BY <2>1 DEF Unconnected
  <2>3. down'[c] = <<>>
    BY <2>1 DEF Unconnected
  <2>. QED  BY <2>1, <2>2, <2>3 DEF AgentSet
<1>4. /\ Afloat(c)' = {} /\ Pending(c)' = Pending(c) /\ Seen(c)' = Seen(c)
      /\ Vacant(c)'
  <2>1. Elements(proc'[c].inbox) = {} /\ Told(down'[c]) = {}
    BY <1>1, <1>3 DEF Elements, Told
  <2>2. Afloat(c)' = {}
    BY <2>1 DEF Afloat
  <2>3. Pending(c)' = Pending(c) /\ Seen(c)' = Seen(c)
    BY <1>3 DEF Pending, Seen
  <2>. QED  BY <1>2, <2>2, <2>3 DEF Vacant
<1>5. Numbered(c)'
  <2>1. Apart(proc'[c].inbox, down'[c])
    BY <1>1, <1>3 DEF Apart, Unlike, Distinct, Elements
  <2>2. Unlike(server'[c].pending)
    BY <1>3 DEF Numbered
  <2>. QED  BY <1>3, <1>4, <2>1, <2>2, StillNumbered
<1>6. Aimed(c)'
  <2>1. scn'[c].channels = <<>>
    BY <1>1 DEF Fresh
  <2>2. Pending(c)' = {} /\ Afloat(c)' = {}
    BY <1>4 DEF Vacant
  <2>. QED  BY <1>1, <1>3, <2>1, <2>2 DEF Aimed
<1>7. Online(c)'
  BY <1>1, <1>3 DEF Online
<1>8. Reaches(c)' /\ Clears(c)'
  <2>1. scn'[c].ids = <<>>
    BY <1>1 DEF Fresh
  <2>. QED  BY <1>4, <2>1, Emptied
<1>. QED  BY <1>5, <1>6, <1>7, <1>8 DEF Whereabouts

LEMMA RefusedTraces ==
    ASSUME Inv, Inv', NEW c \in Clients, Running(c), Whereabouts(c),
           Refused(c), Running(c)', plan' = plan
    PROVE  Whereabouts(c)'
<1>1. PICK p : p = [proc[c] EXCEPT !.connected = FALSE]
  OBVIOUS
<1>2. p \in ProcessorSet
  BY <1>1, Typed DEF ProcessorSet
<1>. QED  BY <1>1, <1>2, StartingAgainTraces DEF Refused

LEMMA DropsTraces ==
    ASSUME Inv, Inv', NEW c \in Clients, Drops(c), Whereabouts(c), Running(c)'
    PROVE  Whereabouts(c)'
<1>1. PICK p : p = [proc[c] EXCEPT !.connected = FALSE]
  OBVIOUS
<1>2. p \in ProcessorSet
  BY <1>1, Typed DEF ProcessorSet
<1>3. /\ Running(c) /\ Raise(c, p) /\ Unconnected(c) /\ plan' = plan
      /\ tally' = tally
  BY <1>1 DEF Drops, Shared
<1>. QED  BY <1>2, <1>3, StartingAgainTraces

-----------------------------------------------------------------------------
(* The commands a scenario gives, and the steps it takes by itself. *)

\* A scenario goes on with state s, as its script leads.
LEMMA Proceeding ==
    ASSUME Inv, NEW c \in Clients, Running(c), ~Returns(c),
           NEW s \in ScenarioSet, s.pc = scn[c].pc, Continue(c, s),
           GoesOn(Instr(c), plan.once)
    PROVE  /\ LeadsTo(plan.kind, plan.once, scn[c].pc, scn'[c].pc)
           /\ scn'[c].status = s.status
           /\ scn'[c].channels = s.channels /\ scn'[c].notif = s.notif
           /\ scn'[c].ids = s.ids /\ scn'[c].same = s.same
           /\ scn'[c].response = s.response /\ scn'[c].i = s.i
           /\ scn'[c].pc = scn[c].pc + 1
<1>1. PICK l : l = scn[c].pc + 1
  OBVIOUS
<1>2. scn' = [scn EXCEPT ![c] = GoTo(s, l)]
  BY <1>1 DEF Continue, GoOn
<1>3. LeadsTo(plan.kind, plan.once, scn[c].pc, l)
  BY <1>1, TheCarrying
<1>4. /\ scn'[c].pc = l /\ scn'[c].status = s.status
      /\ scn'[c].channels = s.channels /\ scn'[c].notif = s.notif
      /\ scn'[c].ids = s.ids /\ scn'[c].same = s.same
      /\ scn'[c].response = s.response /\ scn'[c].i = s.i
  BY <1>2, Continuing
<1>. QED  BY <1>1, <1>3, <1>4

LEMMA RunConnectTraces ==
    ASSUME Inv, Inv', NEW c \in Clients, RunConnect(c), Whereabouts(c),
           Running(c)'
    PROVE  Whereabouts(c)'
<1>1. /\ Turn(c) /\ Running(c) /\ ~Returns(c) /\ Instr(c).op = "connect"
      /\ plan' = plan
  BY DEF RunConnect, Runs, Turn, Shared
<1>2. CASE proc[c].connected
  BY <1>1, <1>2, RefusedTraces DEF RunConnect
<1>3. CASE ~proc[c].connected
  <2>1. Asks(c) /\ scn' = scn /\ server' = server /\ down' = down /\ tally' = tally
    BY <1>3 DEF RunConnect, Outside, network
  <2>. QED  BY <1>1, <2>1, AskingTraces
<1>. QED  BY <1>2, <1>3

LEMMA RunDisconnectTraces ==
    ASSUME Inv, Inv', NEW c \in Clients, RunDisconnect(c), Whereabouts(c),
           Running(c)'
    PROVE  Whereabouts(c)'
<1>1. /\ Turn(c) /\ Running(c) /\ ~Returns(c) /\ Instr(c).op = "disconnect"
      /\ plan' = plan
  BY DEF RunDisconnect, Runs, Turn, Shared
<1>2. CASE ~proc[c].connected
  BY <1>1, <1>2, RefusedTraces DEF RunDisconnect
<1>3. CASE proc[c].connected
  <2>1. Asks(c) /\ scn' = scn /\ server' = server /\ down' = down /\ tally' = tally
    BY <1>3 DEF RunDisconnect, Outside, network
  <2>. QED  BY <1>1, <2>1, AskingTraces
<1>. QED  BY <1>2, <1>3

LEMMA RunRequestTraces ==
    ASSUME Inv, Inv', NEW c \in Clients, RunRequest(c), Whereabouts(c),
           Running(c)'
    PROVE  Whereabouts(c)'
<1>1. /\ Turn(c) /\ Running(c) /\ ~Returns(c) /\ Instr(c).op \in Requests
      /\ plan' = plan
  BY DEF RunRequest, Runs, Turn, Shared
<1>2. CASE ~proc[c].connected
  BY <1>1, <1>2, RefusedTraces DEF RunRequest
<1>3. CASE proc[c].connected
  <2>1. Asks(c) /\ scn' = scn /\ server' = server /\ down' = down /\ tally' = tally
    BY <1>3 DEF RunRequest
  <2>2. Instr(c).op # "send" /\ Instr(c).op # "expect"
    BY <1>1 DEF Requests
  <2>. QED  BY <1>1, <2>1, <2>2, AskingTraces
<1>. QED  BY <1>2, <1>3

LEMMA RunWaitTraces ==
    ASSUME Inv, Inv', NEW c \in Clients, RunWait(c), Whereabouts(c),
           Running(c)'
    PROVE  Whereabouts(c)'
<1>1. /\ Turn(c) /\ ~Returns(c) /\ Instr(c).op = "wait"
      /\ plan' = plan
  BY DEF RunWait, Runs, Turn, Shared
<1>2. Asks(c) /\ scn' = scn /\ server' = server /\ down' = down /\ tally' = tally
  BY DEF RunWait, Outside, network
<1>. QED  BY <1>1, <1>2, AskingTraces

LEMMA RunSendNotificationTraces ==
    ASSUME Inv, Inv', NEW c \in Clients, RunSendNotification(c), Whereabouts(c),
           Running(c)'
    PROVE  Whereabouts(c)'
<1>1. /\ Turn(c) /\ Running(c) /\ ~Returns(c) /\ Instr(c).op = "send"
      /\ plan' = plan /\ server' = server /\ down' = down
      /\ proc[c].waits = "nothing"
  BY DEF RunSendNotification, Runs, Turn
<1>2. CASE Instr(c).arg = "no_endpoint"
  <2>1. /\ Continue(c, [scn[c] EXCEPT !.response = "failed"])
        /\ tally' = [tally EXCEPT ![c].posted = @ + 1]
        /\ proc' = proc
    BY <1>2 DEF RunSendNotification
  <2>2. PICK s : s = [scn[c] EXCEPT !.response = "failed"]
    OBVIOUS
  <2>3. /\ s \in ScenarioSet /\ s.pc = scn[c].pc
        /\ s.channels = scn[c].channels /\ s.notif = scn[c].notif
        /\ s.ids = scn[c].ids
    <3>1. scn[c] \in ScenarioSet
      BY Typed
    <3>. QED  BY <2>2, <3>1 DEF ScenarioSet
  <2>4. /\ LeadsTo(plan.kind, plan.once, scn[c].pc, scn'[c].pc)
        /\ scn'[c].channels = s.channels /\ scn'[c].notif = s.notif
        /\ scn'[c].ids = s.ids
    <3>1. GoesOn(Instr(c), plan.once)
      BY <1>1 DEF GoesOn
    <3>. QED  BY <1>1, <2>1, <2>2, <2>3, <3>1, Proceeding
  <2>5. tally'[c].seen = tally[c].seen
    BY <2>1, TallyPosted DEF Posting
  <2>. QED  BY <1>1, <2>1, <2>3, <2>4, <2>5, MovingTraces
<1>3. CASE Instr(c).arg # "no_endpoint"
  <2>1. SignAndPost(c) /\ Asks(c) /\ scn' = scn /\ tally' = tally
    BY <1>3 DEF RunSendNotification
  <2>2. PICK signed : Posts(c, signed)
    <3>1. CASE plan.claims = "none"
      BY <2>1, <3>1 DEF SignAndPost
    <3>2. CASE plan.claims = "text"
      BY <2>1, <3>2 DEF SignAndPost
    <3>3. CASE plan.claims = "dict"
      BY <2>1, <3>3 DEF SignAndPost
    <3>. QED  BY <3>1, <3>2, <3>3, ThePlan
  <2>3. post'[c].channel = Target(c) /\ post'[c].data = Instr(c).arg
    <3>1. PICK p : p = Post(Target(c), Instr(c).arg, signed)
      OBVIOUS
    <3>2. p.channel = Target(c) /\ p.data = Instr(c).arg
      BY <3>1 DEF Post
    <3>3. post'[c] = p
      BY <2>2, <3>1, Types DEF Posts, Inv
    <3>. QED  BY <3>2, <3>3
  <2>. QED  BY <1>1, <2>1, <2>3, AskingTraces
<1>. QED  BY <1>2, <1>3

\* A scenario goes on by itself, or after an answer.
LEMMA GoingOnTraces ==
    ASSUME Inv, Inv', NEW c \in Clients, Running(c), ~Returns(c), Running(c)',
           Whereabouts(c), plan' = plan,
           Instr(c).op \in {"timer_start", "timer_end", "counter", "created",
                            "same_uaid", "needed", "data", "wait", "send"},
           NEW s \in ScenarioSet, s.pc = scn[c].pc, Continue(c, s),
           s.channels = scn[c].channels, s.notif = scn[c].notif,
           s.ids = scn[c].ids,
           proc'[c].waits = "nothing", proc'[c].inbox = proc[c].inbox,
           proc'[c].connected = proc[c].connected,
           server'[c] = server[c], down'[c] = down[c],
           tally'[c].seen = tally[c].seen
    PROVE  Whereabouts(c)'
<1>1. GoesOn(Instr(c), plan.once)
  BY DEF GoesOn
<1>2. /\ LeadsTo(plan.kind, plan.once, scn[c].pc, scn'[c].pc)
      /\ scn'[c].channels = s.channels /\ scn'[c].notif = s.notif
      /\ scn'[c].ids = s.ids
  BY <1>1, Proceeding
<1>. QED  BY <1>2, MovingTraces

LEMMA RunTimerTraces ==
    ASSUME Inv, Inv', NEW c \in Clients, RunTimer(c), Whereabouts(c),
           Running(c)'
    PROVE  Whereabouts(c)'
<1>1. /\ Turn(c) /\ Running(c) /\ ~Returns(c)
      /\ Instr(c).op \in {"timer_start", "timer_end"}
      /\ proc[c].waits = "nothing" /\ plan' = plan
  BY DEF RunTimer, Runs, Turn, Shared
<1>2. CASE Refused(c)
  BY <1>1, <1>2, RefusedTraces
<1>3. CASE ~Refused(c)
  <2>1. PICK starts : proc' = [proc EXCEPT ![c].timing = starts]
    BY <1>3 DEF RunTimer
  <2>2. /\ Continue(c, scn[c]) /\ server' = server /\ down' = down
        /\ tally' = tally
    BY <1>3 DEF RunTimer, Outside, network
  <2>3. /\ proc'[c].waits = "nothing" /\ proc'[c].inbox = proc[c].inbox
        /\ proc'[c].connected = proc[c].connected
    <3>1. proc \in [Clients -> ProcessorSet] /\ proc[c] \in ProcessorSet
      BY Types DEF Inv
    <3>2. proc'[c] = [proc[c] EXCEPT !.timing = starts]
      BY <2>1, <3>1
    <3>. QED  BY <1>1, <3>1, <3>2 DEF ProcessorSet
  <2>. QED  BY <1>1, <2>2, <2>3, Typed, GoingOnTraces
<1>. QED  BY <1>2, <1>3

LEMMA RunCounterTraces ==
    ASSUME Inv, Inv', NEW c \in Clients, RunCounter(c), Whereabouts(c),
           Running(c)'
    PROVE  Whereabouts(c)'
<1>1. /\ Turn(c) /\ Running(c) /\ ~Returns(c) /\ Instr(c).op = "counter"
      /\ proc[c].waits = "nothing" /\ plan' = plan
      /\ Continue(c, scn[c]) /\ proc' = proc /\ server' = server
      /\ down' = down
  BY DEF RunCounter, Runs, Turn, Shared, Outside, network
<1>2. tally'[c].seen = tally[c].seen
  <2>1. tally \in [Clients -> TallySet] /\ tally[c] \in TallySet
    BY Types DEF Inv
  <2>2. \/ tally'[c] = [tally[c] EXCEPT !.sent = @ + 1]
        \/ tally'[c] = [tally[c] EXCEPT !.received = @ + 1]
    BY <2>1 DEF RunCounter
  <2>. QED  BY <2>1, <2>2 DEF TallySet
<1>. QED  BY <1>1, <1>2, Typed, GoingOnTraces

LEMMA RunCheckTraces ==
    ASSUME Inv, Inv', NEW c \in Clients, RunCheck(c), Whereabouts(c),
           Running(c)'
    PROVE  Whereabouts(c)'
<1>1. /\ Turn(c) /\ Running(c) /\ ~Returns(c)
      /\ Instr(c).op \in {"created", "same_uaid", "needed", "data"}
      /\ proc[c].waits = "nothing" /\ plan' = plan
      /\ server' = server /\ down' = down /\ tally' = tally
  BY DEF RunCheck, Runs, Turn, Shared, Outside, network
<1>2. Holds(c, Instr(c))
  <2>1. ASSUME ~Holds(c, Instr(c)) PROVE FALSE
    <3>1. Raise(c, proc[c])
      BY <2>1 DEF RunCheck
    <3>2. plan.kind = "_explode"
      BY <1>1, <3>1, Typed, StartedAgain
    <3>. QED  BY <1>1, <3>2, Exploding
  <2>. QED  BY <2>1
<1>3. Continue(c, scn[c]) /\ proc' = proc
  BY <1>2 DEF RunCheck
<1>. QED  BY <1>1, <1>3, Typed, GoingOnTraces

LEMMA WaitEndsTraces ==
    ASSUME Inv, Inv', NEW c \in Clients, WaitEnds(c), Whereabouts(c),
           Running(c)'
    PROVE  Whereabouts(c)'
<1>1. /\ Running(c) /\ proc[c].waits = "wait" /\ ~Returns(c)
      /\ Instr(c).op = "wait"
  BY Waiting DEF WaitEnds, Awaits
<1>2. /\ plan' = plan /\ tally' = tally /\ server' = server /\ down' = down
      /\ Continue(c, scn[c]) /\ proc' = [proc EXCEPT ![c].waits = "nothing"]
  BY DEF WaitEnds, Outside, Shared, network, Answered
<1>3. /\ proc'[c].waits = "nothing" /\ proc'[c].inbox = proc[c].inbox
      /\ proc'[c].connected = proc[c].connected
  BY <1>2, WaitingFor
<1>. QED  BY <1>1, <1>2, <1>3, Typed, GoingOnTraces

LEMMA RespondsTraces ==
    ASSUME Inv, Inv', NEW c \in Clients, Awaits(c, "send"), NEW r,
           r \in {"201", "401", "404", "failed"}, Responds(c, r),
           server' = server, down' = down, plan' = plan, Whereabouts(c),
           Running(c)'
    PROVE  Whereabouts(c)'
<1>1. /\ Running(c) /\ proc[c].waits = "send" /\ ~Returns(c)
      /\ Instr(c).op = "send"
  BY Waiting DEF Awaits
<1>2. PICK s : s = [scn[c] EXCEPT !.response = r]
  OBVIOUS
<1>3. /\ Continue(c, s) /\ proc' = [proc EXCEPT ![c].waits = "nothing"]
      /\ tally' = [tally EXCEPT ![c].posted = @ + 1]
  BY <1>2 DEF Responds, Answered
<1>4. /\ s \in ScenarioSet /\ s.pc = scn[c].pc
      /\ s.channels = scn[c].channels /\ s.notif = scn[c].notif
      /\ s.ids = scn[c].ids
  <2>1. scn[c] \in ScenarioSet
    BY Typed
  <2>. QED  BY <1>2, <2>1 DEF ScenarioSet
<1>5. tally'[c].seen = tally[c].seen
  BY <1>3, TallyPosted DEF Posting
<1>. QED  BY <1>1, <1>3, <1>4, <1>5, WaitingFor, GoingOnTraces

LEMMA PostAnsweredTraces ==
    ASSUME Inv, Inv', NEW c \in Clients, PostAnswered(c), Whereabouts(c),
           Running(c)'
    PROVE  Whereabouts(c)'
<1>1. post[c].code \in {"201", "401", "404", "failed"}
  BY Typed DEF PostAnswered, PostSet
<1>2. /\ Awaits(c, "send") /\ Responds(c, post[c].code) /\ server' = server
      /\ down' = down /\ plan' = plan
  BY DEF PostAnswered, Shared
<1>. QED  BY <1>1, <1>2, RespondsTraces

LEMMA PostFailsTraces ==
    ASSUME Inv, Inv', NEW c \in Clients, PostFails(c), Whereabouts(c),
           Running(c)'
    PROVE  Whereabouts(c)'
<1>1. /\ Awaits(c, "send") /\ Responds(c, "failed") /\ server' = server
      /\ down' = down /\ plan' = plan
  BY DEF PostFails, Shared
<1>. QED  BY <1>1, RespondsTraces

LEMMA Branching ==
    ASSUME Inv, NEW c \in Clients, RunBranch(c)
    PROVE  /\ Running(c) /\ ~Returns(c) /\ proc[c].waits = "nothing"
           /\ Instr(c).op \in {"jump", "for", "if_once", "if_notif", "loop"}
           /\ plan' = plan /\ proc' = proc /\ server' = server
           /\ down' = down /\ tally' = tally
           /\ LeadsTo(plan.kind, plan.once, scn[c].pc, scn'[c].pc)
           /\ scn'[c].channels = scn[c].channels
           /\ scn'[c].notif = scn[c].notif /\ scn'[c].ids = scn[c].ids
           /\ scn'[c].same = scn[c].same
           /\ scn'[c].response = scn[c].response
           /\ scn'[c].status = scn[c].status
           /\ Instr(c).op = "jump" => scn'[c].pc = Instr(c).arg
           /\ Instr(c).op = "if_notif" =>
                 scn'[c].pc = IF scn[c].notif = NoNotif THEN Instr(c).arg
                              ELSE scn[c].pc + 1
           /\ Instr(c).op = "for" =>
                 IF scn[c].i < Qty
                 THEN scn'[c].pc = scn[c].pc + 1 /\ scn'[c].i = scn[c].i + 1
                 ELSE scn'[c].pc = Instr(c).arg /\ scn'[c].i = 0
           /\ Instr(c).op # "for" => scn'[c].i = scn[c].i
<1>1. /\ Turn(c) /\ Running(c) /\ ~Returns(c) /\ proc[c].waits = "nothing"
      /\ Instr(c).op \in {"jump", "for", "if_once", "if_notif", "loop"}
      /\ plan' = plan /\ proc' = proc /\ server' = server /\ down' = down
      /\ tally' = tally /\ scn' = [scn EXCEPT ![c] = Branch(c, Instr(c))]
  BY DEF RunBranch, Runs, Turn, Shared, Outside, network
<1>2. scn[c] \in ScenarioSet
  BY Typed
<1>3. PICK l, s :
          /\ Branch(c, Instr(c)) = GoTo(s, l)
          /\ \/ s = scn[c] /\ Instr(c).op # "for"
             \/ s = [scn[c] EXCEPT !.i = @ + 1] /\ Instr(c).op = "for"
                /\ scn[c].i < Qty /\ l = scn[c].pc + 1
             \/ s = [scn[c] EXCEPT !.i = 0] /\ Instr(c).op = "for"
                /\ ~(scn[c].i < Qty) /\ l = Instr(c).arg
             \/ s = [scn[c] EXCEPT !.cycle = @ + 1] /\ Instr(c).op # "for"
          /\ \/ l = scn[c].pc + 1 /\ GoesOn(Instr(c), plan.once)
             \/ l = Instr(c).arg /\ Branches(Instr(c), plan.once)
          /\ Instr(c).op = "jump" => l = Instr(c).arg
          /\ Instr(c).op = "if_notif" =>
                l = IF scn[c].notif = NoNotif THEN Instr(c).arg
                    ELSE scn[c].pc + 1
  <2>2. CASE Instr(c).op = "jump"
    BY <2>2, Zenon DEF Branch, Branches
  <2>3. CASE Instr(c).op = "for"
    <3>1. CASE scn[c].i < Qty
      <4>1. PICK u : u = [scn[c] EXCEPT !.i = @ + 1]
        OBVIOUS
      <4>2. u.pc = scn[c].pc
        BY <1>2, <4>1 DEF ScenarioSet
      <4>3. Branch(c, Instr(c)) = GoTo(u, u.pc + 1)
        BY <2>3, <3>1, <4>1 DEF Branch, GoOn
      <4>4. GoesOn(Instr(c), plan.once)
        BY <2>3 DEF GoesOn
      <4>. QED  BY <2>3, <3>1, <4>1, <4>2, <4>3, <4>4
    <3>2. CASE ~(scn[c].i < Qty)
      <4>1. Branch(c, Instr(c)) = GoTo([scn[c] EXCEPT !.i = 0], Instr(c).arg)
        BY <2>3, <3>2 DEF Branch
      <4>2. Branches(Instr(c), plan.once)
        BY <2>3 DEF Branches
      <4>. QED  BY <2>3, <3>2, <4>1, <4>2
    <3>. QED  BY <3>1, <3>2
  <2>4. CASE Instr(c).op = "if_once"
    <3>1. CASE plan.once
      <4>1. Branch(c, Instr(c)) = GoTo(scn[c], Instr(c).arg)
        BY <2>4, <3>1 DEF Branch
      <4>2. Branches(Instr(c), plan.once)
        BY <2>4, <3>1 DEF Branches
      <4>. QED  BY <2>4, <4>1, <4>2
    <3>2. CASE ~plan.once
      <4>1. Branch(c, Instr(c)) = GoTo(scn[c], scn[c].pc + 1)
        BY <2>4, <3>2 DEF Branch, GoOn
      <4>2. GoesOn(Instr(c), plan.once)
        BY <2>4, <3>2 DEF GoesOn
      <4>. QED  BY <2>4, <4>1, <4>2
    <3>. QED  BY <3>1, <3>2
  <2>5. CASE Instr(c).op = "if_notif"
    <3>0. Branches(Instr(c), plan.once) /\ GoesOn(Instr(c), plan.once)
      BY <2>5 DEF Branches, GoesOn
    <3>1. CASE scn[c].notif = NoNotif
      <4>1. Branch(c, Instr(c)) = GoTo(scn[c], Instr(c).arg)
        BY <2>5, <3>1 DEF Branch
      <4>. QED  BY <2>5, <3>0, <3>1, <4>1
    <3>2. CASE scn[c].notif # NoNotif
      <4>1. Branch(c, Instr(c)) = GoTo(scn[c], scn[c].pc + 1)
        BY <2>5, <3>2 DEF Branch, GoOn
      <4>. QED  BY <2>5, <3>0, <3>2, <4>1
    <3>. QED  BY <3>1, <3>2
  <2>6. CASE Instr(c).op = "loop"
    <3>1. CASE plan.once
      <4>1. Branch(c, Instr(c)) = GoTo(scn[c], scn[c].pc + 1)
        BY <2>6, <3>1 DEF Branch, GoOn
      <4>2. GoesOn(Instr(c), plan.once)
        BY <2>6, <3>1 DEF GoesOn
      <4>. QED  BY <2>6, <4>1, <4>2
    <3>2. CASE ~plan.once
      <4>1. Branch(c, Instr(c))
               = GoTo([scn[c] EXCEPT !.cycle = @ + 1], Instr(c).arg)
        BY <2>6, <3>2 DEF Branch
      <4>2. Branches(Instr(c), plan.once)
        BY <2>6, <3>2 DEF Branches
      <4>. QED  BY <2>6, <4>1, <4>2
    <3>. QED  BY <3>1, <3>2
  <2>. QED  BY <1>1, <2>2, <2>3, <2>4, <2>5, <2>6
<1>4. LeadsTo(plan.kind, plan.once, scn[c].pc, l)
  BY <1>1, <1>3, TheCarrying
<1>5. PICK t : t = GoTo(s, l)
  OBVIOUS
<1>6. /\ t.pc = l /\ t.channels = scn[c].channels
      /\ t.notif = scn[c].notif /\ t.ids = scn[c].ids
      /\ t.same = scn[c].same /\ t.response = scn[c].response
      /\ t.status = scn[c].status
      /\ t.i = IF Instr(c).op # "for" THEN scn[c].i
               ELSE IF scn[c].i < Qty THEN scn[c].i + 1 ELSE 0
      /\ Instr(c).op = "for" =>
            l = IF scn[c].i < Qty THEN scn[c].pc + 1 ELSE Instr(c).arg
  BY <1>2, <1>3, <1>5 DEF GoTo, ScenarioSet
<1>7. scn'[c] = t
  BY <1>1, <1>3, <1>5, Types DEF Inv
<1>. QED  BY <1>1, <1>3, <1>4, <1>6, <1>7

LEMMA RunBranchTraces ==
    ASSUME Inv, Inv', NEW c \in Clients, RunBranch(c), Whereabouts(c),
           Running(c)'
    PROVE  Whereabouts(c)'
<1>1. (Instr(c).op = "if_notif" /\ scn'[c].pc = Instr(c).arg) =>
         scn[c].notif = NoNotif
  <2>1. Instr(c).op = "if_notif" => Instr(c).arg # scn[c].pc + 1
    BY Branching, TheCarrying DEF Founded
  <2>. QED  BY <2>1, Branching
<1>. QED  BY <1>1, Branching, MovingTraces
-----------------------------------------------------------------------------
(* A scenario is given what it expects. *)

LEMMA ElementsAppended ==
    ASSUME NEW S, NEW s \in Seq(S), NEW x \in S
    PROVE  Elements(Append(s, x)) = Elements(s) \cup {x}
<1>1. PICK t : t = Append(s, x)
  OBVIOUS
<1>2. /\ t \in Seq(S) /\ Len(t) = Len(s) + 1 /\ Len(s) \in Nat
      /\ \A k \in 1..Len(s) : t[k] = s[k]
      /\ t[Len(s) + 1] = x
  BY <1>1, AppendProperties
<1>3. DOMAIN t = 1..(Len(s) + 1) /\ DOMAIN s = 1..Len(s)
  BY <1>2
<1>4. Len(s) + 1 \in 1..(Len(s) + 1) /\
      (\A k \in 1..Len(s) : k \in 1..(Len(s) + 1)) /\
      (\A k \in 1..(Len(s) + 1) : k \in 1..Len(s) \/ k = Len(s) + 1)
  BY <1>2
<1>5. Elements(t) = Elements(s) \cup {x}
  BY <1>2, <1>3, <1>4 DEF Elements
<1>. QED  BY <1>1, <1>5

\* All that a scenario may be given is expected.
LEMMA Expecting ==
    ASSUME Inv, NEW c \in Clients, Running(c), ~Returns(c),
           Instr(c).op = "expect", Aimed(c)
    PROVE  \A n \in Pending(c) \cup Afloat(c) : IsExpected(c, n)
<1>1. Instr(c).arg = "any" \/ plan.kind # "_expect_notifications"
  BY TheCarrying DEF Timely
<1>2. PICK chs : chs = scn[c].channels
  OBVIOUS
<1>3. chs \in Seq(Nat)
  BY <1>2, Typed DEF ScenarioSet
<1>4. ASSUME NEW n \in Pending(c) \cup Afloat(c) PROVE n.channel \in Expected(c)
  <2>1. /\ n.channel \in DOMAIN chs /\ chs[n.channel] = n.channel
        /\ plan.kind # "_expect_notifications" => n.channel = Len(chs)
    BY <1>2 DEF Aimed
  <2>2. CASE Instr(c).arg = "any"
    <3>1. Expected(c) = {chs[k] : k \in DOMAIN chs}
      BY <1>2, <2>2 DEF Expected
    <3>. QED  BY <2>1, <3>1
  <2>3. CASE Instr(c).arg # "any"
    <3>1. Expected(c) = {chs[Len(chs)]}
      BY <1>2, <2>3 DEF Expected
    <3>. QED  BY <1>1, <2>1, <2>3, <3>1
  <2>. QED  BY <2>2, <2>3
<1>. QED  BY <1>4 DEF IsExpected

LEMMA SeeingMore ==
    ASSUME Inv, NEW c \in Clients, NEW n \in Notifs, Saw(c, n)
    PROVE  /\ tally'[c].seen = Append(tally[c].seen, n.id)
           /\ Seen(c)' = Seen(c) \cup {n.id}
<1>1. tally \in [Clients -> TallySet] /\ tally[c] \in TallySet
  BY Types DEF Inv
<1>2. tally'[c] = [tally[c] EXCEPT !.seen = Append(tally[c].seen, n.id)]
  BY <1>1 DEF Saw
<1>3. tally'[c].seen = Append(tally[c].seen, n.id)
  BY <1>1, <1>2 DEF TallySet
<1>4. tally[c].seen \in Seq(Nat) /\ n.id \in Nat
  BY <1>1 DEF TallySet, Notifs
<1>5. Elements(Append(tally[c].seen, n.id)) = Elements(tally[c].seen) \cup {n.id}
  BY <1>4, ElementsAppended
<1>. QED  BY <1>3, <1>5 DEF Seen

LEMMA ReceivingTraces ==
    ASSUME Inv, Inv', NEW c \in Clients, Running(c), ~Returns(c), Running(c)',
           Whereabouts(c), plan' = plan, Instr(c).op = "expect",
           LeadsTo(plan.kind, plan.once, scn[c].pc, scn'[c].pc),
           NEW n \in Afloat(c), scn'[c].notif = n,
           scn'[c].channels = scn[c].channels, scn'[c].ids = scn[c].ids,
           proc'[c].waits = "nothing", proc'[c].connected = proc[c].connected,
           server'[c] = server[c],
           \A k \in DOMAIN down'[c] : down'[c][k].type # "stranger",
           Apart(proc'[c].inbox, down'[c]),
           Afloat(c)' \subseteq Afloat(c),
           \A m \in Afloat(c) : m \in Afloat(c)' \/ m = n,
           \A m \in Afloat(c)' : m.id # n.id,
           Seen(c)' = Seen(c) \cup {n.id}
    PROVE  Whereabouts(c)'
<1>. Numbered(c) /\ Aimed(c) /\ Online(c) /\ Reaches(c) /\ Clears(c)
  BY DEF Whereabouts
<1>1. Pending(c)' = Pending(c)
  BY DEF Pending
<1>2. Numbered(c)'
  <2>1. Unlike(server'[c].pending) /\ server'[c].last = server[c].last
    BY DEF Numbered
  <2>2. \A id \in Seen(c)' : id \in Seen(c) \/ \E m \in Afloat(c) : m.id = id
    OBVIOUS
  <2>. QED  BY <1>1, <2>1, <2>2, StillNumbered
<1>3. Aimed(c)'
  <2>1. 0 \notin server'[c].subs
    BY DEF Aimed
  <2>. QED  BY <1>1, <2>1, StillAimed
<1>4. Online(c)'
  BY Offstage
<1>5. /\ scn[c].pc \notin Due[plan.kind] /\ scn[c].pc \notin Vacancies[plan.kind]
  BY TheCarrying DEF Timely
<1>6. /\ scn'[c].pc \in Due[plan.kind] /\ scn'[c].pc \notin Vacancies[plan.kind]
      /\ ~At(c, "send")' /\ ~At(c, "ack_ids")'
  <2>1. Leads(plan.kind, plan.once, Instr(c), scn[c].pc, scn'[c].pc)
    BY TheNext
  <2>2. scn'[c].pc \in Due[plan.kind] /\ scn'[c].pc \notin Vacancies[plan.kind]
    BY <1>5, <2>1 DEF Leads
  <2>3. ~Returns(c)' =>
            /\ Before(plan.kind, Instr(c), scn[c].pc, Instr(c)', scn'[c].pc)
            /\ Timely(plan.kind, Instr(c)', scn'[c].pc)
    BY TheNext
  <2>4. ~At(c, "send")' /\ ~At(c, "ack_ids")'
    BY <2>2, <2>3 DEF At, Before, Timely
  <2>. QED  BY <2>2, <2>4
<1>7. Owed(c) = Elements(scn[c].ids) /\ Owed(c)' = {n.id} \cup Elements(scn[c].ids)
  BY <1>5, <1>6 DEF Owed
<1>8. Reaches(c)'
  BY <1>1, <1>7 DEF Reaches
<1>9. scn[c].ids = <<>>
  BY DEF Clears, At
<1>10. n.id # 0 /\ NoNotif.id = 0
  BY RealOnes DEF NoNotif, Notification
<1>11. plan.kind \notin Several => Afloat(c)' = {}
  BY DEF Numbered
<1>12. Clears(c)'
  BY <1>6, <1>9, <1>10, <1>11 DEF Clears, Unposted
<1>. QED  BY <1>2, <1>3, <1>4, <1>8, <1>12 DEF Whereabouts

LEMMA RunExpectTraces ==
    ASSUME Inv, Inv', NEW c \in Clients, RunExpect(c), Whereabouts(c),
           Running(c)'
    PROVE  Whereabouts(c)'
<1>. Numbered(c) /\ Aimed(c) /\ Online(c)
  BY DEF Whereabouts
<1>1. /\ Turn(c) /\ Running(c) /\ ~Returns(c) /\ Instr(c).op = "expect"
      /\ proc[c].waits = "nothing" /\ plan' = plan /\ server' = server
      /\ down' = down
  BY DEF RunExpect, Runs, Turn, Shared, Outside, network
<1>2. proc \in [Clients -> ProcessorSet] /\ proc[c].inbox \in Seq(Notifs)
  BY Types DEF Inv, ProcessorSet
<1>3. \A n \in Elements(proc[c].inbox) : IsExpected(c, n)
  BY <1>1, Expecting DEF Afloat
<1>4. CASE Stored(c) = {}
  <2>1. Asks(c) /\ scn' = scn /\ tally' = tally
    BY <1>4 DEF RunExpect
  <2>2. Elements(proc[c].inbox) = {}
    BY <1>3, <1>4 DEF Stored, Elements
  <2>3. proc[c].inbox = <<>>
    BY <1>2, <2>2, NothingIn
  <2>. QED  BY <1>1, <2>1, <2>3, AskingTraces
<1>5. CASE Stored(c) # {}
  <2>2. PICK k : k = CHOOSE m \in Stored(c) : \A j \in Stored(c) : m =< j
    OBVIOUS
  <2>3. k \in 1..Len(proc[c].inbox)
    <3>1. Stored(c) \subseteq 1..Len(proc[c].inbox)
      BY <1>2 DEF Stored
    <3>2. \E m \in Stored(c) : \A j \in Stored(c) : m =< j
      BY <1>2, <1>5, <3>1, LeastNumber
    <3>3. k \in Stored(c)
      BY <2>2, <3>2
    <3>. QED  BY <3>1, <3>3
  <2>4. PICK n : n = proc[c].inbox[k]
    OBVIOUS
  <2>5. n \in Notifs /\ n \in Elements(proc[c].inbox)
    BY <1>2, <2>3, <2>4 DEF Elements
  <2>6. PICK rest : rest = Without(proc[c].inbox, k)
    OBVIOUS
  <2>7. PICK s : s = [scn[c] EXCEPT !.notif = n]
    OBVIOUS
  <2>8. /\ Continue(c, s) /\ Saw(c, n)
        /\ proc' = [proc EXCEPT ![c].inbox = rest]
    BY <1>2, <1>5, <2>2, <2>4, <2>6, <2>7 DEF RunExpect, GivenNotif, Without
  <2>9. /\ proc'[c].inbox = rest /\ proc'[c].waits = "nothing"
        /\ proc'[c].connected = proc[c].connected
    <3>1. proc'[c] = [proc[c] EXCEPT !.inbox = rest]
      BY <1>2, <2>8
    <3>2. proc[c] \in ProcessorSet
      BY Typed
    <3>. QED  BY <1>1, <3>1, <3>2 DEF ProcessorSet
  <2>10. /\ Unlike(rest)
         /\ Elements(proc[c].inbox) = Elements(rest) \cup {n}
         /\ \A m \in Elements(rest) : m.id # n.id
    BY <1>2, <2>3, <2>4, <2>6, WithoutIt DEF Numbered, Apart
  <2>11. /\ s \in ScenarioSet /\ s.pc = scn[c].pc /\ s.notif = n
         /\ s.channels = scn[c].channels /\ s.ids = scn[c].ids
    <3>1. scn[c] \in ScenarioSet
      BY Typed
    <3>. QED  BY <2>5, <2>7, <3>1 DEF ScenarioSet
  <2>12. /\ LeadsTo(plan.kind, plan.once, scn[c].pc, scn'[c].pc)
         /\ scn'[c].notif = n /\ scn'[c].channels = scn[c].channels
         /\ scn'[c].ids = scn[c].ids
    <3>1. GoesOn(Instr(c), plan.once)
      BY <1>1 DEF GoesOn
    <3>2. /\ LeadsTo(plan.kind, plan.once, scn[c].pc, scn'[c].pc)
          /\ scn'[c].notif = s.notif /\ scn'[c].channels = s.channels
          /\ scn'[c].ids = s.ids
      BY <1>1, <2>8, <2>11, <3>1, Proceeding
    <3>. QED  BY <2>11, <3>2
  <2>13. /\ Apart(proc'[c].inbox, down'[c])
         /\ \A m \in Told(down[c]) : m.id # n.id
    BY <1>1, <2>5, <2>9, <2>10 DEF Numbered, Apart
  <2>14. Afloat(c)' = Elements(rest) \cup Told(down[c])
    BY <1>1, <2>9 DEF Afloat
  <2>15. /\ n \in Afloat(c) /\ Afloat(c)' \subseteq Afloat(c)
         /\ \A m \in Afloat(c) : m \in Afloat(c)' \/ m = n
         /\ \A m \in Afloat(c)' : m.id # n.id
    BY <2>5, <2>10, <2>13, <2>14 DEF Afloat
  <2>16. Seen(c)' = Seen(c) \cup {n.id}
    BY <2>5, <2>8, SeeingMore
  <2>17. \A j \in DOMAIN down'[c] : down'[c][j].type # "stranger"
    BY <1>1 DEF Online
  <2>. QED
    BY <1>1, <2>9, <2>12, <2>13, <2>15, <2>16, <2>17, ReceivingTraces
<1>. QED  BY <1>4, <1>5

-----------------------------------------------------------------------------
(* A scenario acknowledges what it was given. *)

\* What the server still has is without what was acknowledged.
LEMMA StillPending ==
    ASSUME Inv, NEW c \in Clients, NEW ids, Acknowledged(c, ids),
           Unlike(server[c].pending)
    PROVE  /\ Pending(c)' = {n \in Pending(c) : n.id \notin ids}
           /\ Unlike(server'[c].pending)
           /\ server'[c].last = server[c].last
           /\ server'[c].subs = server[c].subs
           /\ server'[c].online = server[c].online
<1>1. server \in [Clients -> AgentSet] /\ server[c] \in AgentSet
  BY Types DEF Inv
<1>2. PICK left : left = {n \in Elements(server[c].pending) : n.id \notin ids}
  OBVIOUS
<1>3. PICK kept : kept = Kept(server[c].pending, left)
  OBVIOUS
<1>4. server[c].pending \in Seq(Notifs)
  BY <1>1 DEF AgentSet
<1>5. kept \in Seq(Notifs) /\ Elements(kept) = left /\ Unlike(kept)
  <2>1. kept \in Seq(Notifs \cap left)
    BY <1>3, <1>4, KeptIsASequence
  <2>2. Elements(kept) = Elements(server[c].pending) \cap left
    BY <1>3, <1>4, KeptElements
  <2>3. Unlike(kept)
    BY <1>3, <1>4, UnlikeKept
  <2>. QED  BY <1>2, <2>1, <2>2, <2>3
<1>6. PICK a : a = [server[c] EXCEPT !.pending = kept]
  OBVIOUS
<1>7. /\ a.pending = kept /\ a.last = server[c].last /\ a.subs = server[c].subs
      /\ a.online = server[c].online
  BY <1>1, <1>6 DEF AgentSet
<1>8. server'[c] = a
  BY <1>1, <1>2, <1>3, <1>6 DEF Acknowledged
<1>. QED  BY <1>2, <1>5, <1>7, <1>8 DEF Pending

LEMMA AcknowledgingTraces ==
    ASSUME Inv, Inv', NEW c \in Clients, Running(c), ~Returns(c), Running(c)',
           Whereabouts(c), plan' = plan, Instr(c).op \in {"ack", "ack_ids"},
           LeadsTo(plan.kind, plan.once, scn[c].pc, scn'[c].pc),
           NEW ids, Acknowledged(c, ids), Owed(c) \subseteq ids,
           scn'[c].channels = scn[c].channels, scn'[c].ids = <<>>,
           proc' = proc, down' = down, tally' = tally,
           proc[c].waits = "nothing",
           scn'[c].pc \in Vacancies[plan.kind] =>
               \/ scn[c].pc \in Vacancies[plan.kind]
               \/ plan.kind \notin Several /\ scn[c].pc \in Due[plan.kind]
                  /\ server[c].online
    PROVE  Whereabouts(c)'
<1>. Numbered(c) /\ Aimed(c) /\ Online(c) /\ Reaches(c) /\ Clears(c)
  BY DEF Whereabouts
<1>1. /\ Pending(c)' = {n \in Pending(c) : n.id \notin ids}
      /\ Unlike(server'[c].pending)
      /\ server'[c].last = server[c].last
      /\ server'[c].subs = server[c].subs
      /\ server'[c].online = server[c].online
  BY StillPending DEF Numbered
<1>2. Afloat(c)' = Afloat(c) /\ Seen(c)' = Seen(c)
  BY DEF Afloat, Seen
<1>3. Numbered(c)'
  <2>1. Apart(proc'[c].inbox, down'[c])
    BY DEF Numbered
  <2>. QED  BY <1>1, <1>2, <2>1, StillNumbered
<1>4. Aimed(c)'
  <2>1. 0 \notin server'[c].subs
    BY <1>1 DEF Aimed
  <2>. QED  BY <1>1, <1>2, <2>1, StillAimed
<1>5. Online(c)'
  <2>1. \A k \in DOMAIN down'[c] : down'[c][k].type # "stranger"
    BY DEF Online
  <2>. QED  BY <1>1, <2>1, Offstage
<1>6. /\ scn'[c].pc \notin Due[plan.kind] /\ ~At(c, "ack_ids")'
      /\ (At(c, "send")' /\ plan.kind \notin Several \cup {"basic_topic"}) =>
            scn[c].pc \in Vacancies[plan.kind]
  <2>1. Leads(plan.kind, plan.once, Instr(c), scn[c].pc, scn'[c].pc)
    BY TheNext
  <2>2. Instr(c).op = "ack_ids" => scn[c].pc \notin Due[plan.kind]
    BY TheCarrying DEF Timely
  <2>3. scn'[c].pc \notin Due[plan.kind]
    BY <2>1, <2>2 DEF Leads
  <2>4. ~Returns(c)' =>
            Before(plan.kind, Instr(c), scn[c].pc, Instr(c)', scn'[c].pc)
    BY TheNext
  <2>. QED  BY <2>3, <2>4 DEF At, Before
<1>7. \A n \in Pending(c)' : n.id \notin Owed(c)
  BY <1>1
<1>8. Reaches(c)'
  BY <1>1, <1>2, <1>7 DEF Reaches
<1>9. Vacant(c) => Vacant(c)'
  BY <1>1, <1>2 DEF Vacant
<1>10. scn'[c].pc \in Vacancies[plan.kind] => Vacant(c)'
  <2>1. CASE scn[c].pc \in Vacancies[plan.kind]
    BY <1>9, <2>1 DEF Clears
  <2>2. CASE /\ plan.kind \notin Several /\ scn[c].pc \in Due[plan.kind]
             /\ server[c].online
    <3>1. Afloat(c) = {}
      BY <2>2 DEF Clears
    <3>2. Pending(c)' = {}
      BY <1>1, <1>7, <2>2, <3>1 DEF Reaches
    <3>. QED  BY <1>2, <3>1, <3>2 DEF Vacant
  <2>. QED  BY <2>1, <2>2
<1>11. Clears(c)'
  BY <1>6, <1>9, <1>10 DEF Clears, Unposted
<1>. QED  BY <1>3, <1>4, <1>5, <1>8, <1>11 DEF Whereabouts

LEMMA RunAckTraces ==
    ASSUME Inv, Inv', NEW c \in Clients, RunAck(c), Whereabouts(c),
           Running(c)'
    PROVE  Whereabouts(c)'
<1>1. /\ Turn(c) /\ Running(c) /\ ~Returns(c) /\ Instr(c).op = "ack"
      /\ proc[c].waits = "nothing" /\ plan' = plan
  BY DEF RunAck, Runs, Turn, Shared
<1>2. CASE scn[c].notif = NoNotif
  <2>1. Raise(c, proc[c])
    BY <1>2 DEF RunAck
  <2>2. plan.kind = "_explode"
    BY <1>1, <2>1, Typed, StartedAgain
  <2>. QED  BY <1>1, <2>2, Exploding
<1>3. CASE scn[c].notif # NoNotif /\ ~proc[c].connected
  BY <1>1, <1>3, RefusedTraces DEF RunAck
<1>4. CASE scn[c].notif # NoNotif /\ proc[c].connected
  <2>1. /\ Acknowledged(c, {scn[c].notif.id}) /\ Continue(c, scn[c])
        /\ proc' = proc /\ down' = down /\ tally' = tally
    BY <1>4 DEF RunAck, network
  <2>2. /\ scn[c].pc \in Due[plan.kind] /\ scn[c].ids = <<>>
        /\ scn[c].pc \notin Vacancies[plan.kind]
    BY <1>1, TheCarrying DEF Timely, Founded, Whereabouts, Clears, At
  <2>3. Owed(c) = {scn[c].notif.id}
    BY <2>2 DEF Owed, Elements
  <2>4. /\ LeadsTo(plan.kind, plan.once, scn[c].pc, scn'[c].pc)
        /\ scn'[c].channels = scn[c].channels /\ scn'[c].ids = <<>>
    <3>1. GoesOn(Instr(c), plan.once)
      BY <1>1 DEF GoesOn
    <3>2. scn[c] \in ScenarioSet
      BY Typed
    <3>. QED  BY <1>1, <2>1, <2>2, <3>1, <3>2, Proceeding
  <2>5. scn'[c].pc \in Vacancies[plan.kind] => plan.kind \notin Several
    <3>1. Leads(plan.kind, plan.once, Instr(c), scn[c].pc, scn'[c].pc)
      BY <1>1, <2>4, TheNext
    <3>. QED  BY <1>1, <2>2, <3>1 DEF Leads
  <2>6. server[c].online
    <3>1. scn[c].pc \in Linked[plan.kind]
      BY <1>1, <1>4 DEF Inv, ClientInv, InStep
    <3>. QED  BY <1>1, <3>1, AtWork DEF Whereabouts
  <2>7. Instr(c).op \in {"ack", "ack_ids"} /\ Owed(c) \subseteq {scn[c].notif.id}
    BY <1>1, <2>3
  <2>. QED
    BY <1>1, <2>1, <2>2, <2>4, <2>5, <2>6, <2>7, AcknowledgingTraces
<1>. QED  BY <1>2, <1>3, <1>4

LEMMA RunAckIdsTraces ==
    ASSUME Inv, Inv', NEW c \in Clients, AcksIds(c), Whereabouts(c),
           Running(c)'
    PROVE  Whereabouts(c)'
<1>1. /\ Turn(c) /\ Running(c) /\ ~Returns(c) /\ Instr(c).op = "ack_ids"
      /\ proc[c].waits = "nothing" /\ plan' = plan /\ proc' = proc
      /\ down' = down /\ tally' = tally
  BY DEF AcksIds, Runs, Turn, Shared, network
<1>2. /\ scn[c].pc \notin Due[plan.kind]
      /\ GoesOn(Instr(c), plan.once) /\ Branches(Instr(c), plan.once)
  BY <1>1, TheCarrying DEF Timely, GoesOn, Branches
<1>3. CASE scn[c].ids = <<>>
  <2>1. Continue(c, scn[c]) /\ server' = server
    BY <1>3 DEF AcksIds
  <2>2. scn[c] \in ScenarioSet
    BY Typed
  <2>3. /\ LeadsTo(plan.kind, plan.once, scn[c].pc, scn'[c].pc)
        /\ scn'[c].channels = scn[c].channels /\ scn'[c].ids = <<>>
    BY <1>1, <1>2, <1>3, <2>1, <2>2, Proceeding
  <2>4. Vacant(c)
    BY <1>1, <1>3 DEF Whereabouts, Clears, At
  <2>5. /\ Afloat(c)' = Afloat(c) /\ Pending(c)' = Pending(c)
        /\ Seen(c)' = Seen(c) /\ Vacant(c)' /\ Numbered(c)'
    BY <1>1, <2>1, <2>4, SameNetwork DEF Whereabouts
  <2>6. Aimed(c)'
    BY <1>1, <2>1, <2>3, <2>5, StillAimed DEF Whereabouts, Aimed
  <2>7. Online(c)'
    <3>1. \A k \in DOMAIN down'[c] : down'[c][k].type # "stranger"
      BY <1>1 DEF Whereabouts, Online
    <3>2. Online(c)
      BY DEF Whereabouts
    <3>. QED  BY <1>1, <2>1, <2>3, <3>1, <3>2, Offstage
  <2>8. Reaches(c)' /\ Clears(c)'
    BY <2>3, <2>5, Emptied
  <2>. QED  BY <2>5, <2>6, <2>7, <2>8 DEF Whereabouts
<1>4. CASE scn[c].ids # <<>>
  <2>1. Acknowledged(c, Elements(scn[c].ids))
    BY <1>4 DEF AcksIds
  <2>2. PICK s : s = [scn[c] EXCEPT !.ids = <<>>]
    OBVIOUS
  <2>3. s \in ScenarioSet /\ s.channels = scn[c].channels /\ s.ids = <<>>
    <3>0. PICK none : none = <<>>
      OBVIOUS
    <3>1. none \in Seq(Nat)
      BY <3>0, EmptySeq
    <3>2. s = [scn[c] EXCEPT !.ids = none]
      BY <2>2, <3>0
    <3>3. scn[c] \in ScenarioSet
      BY Typed
    <3>4. s \in ScenarioSet /\ s.channels = scn[c].channels /\ s.ids = none
      BY <3>1, <3>2, <3>3 DEF ScenarioSet
    <3>. QED  BY <3>0, <3>4
  <2>4. scn' = [scn EXCEPT ![c] = GoTo(s, Instr(c).arg)]
    BY <1>4, <2>2 DEF AcksIds
  <2>5. /\ scn'[c].pc = Instr(c).arg /\ scn'[c].channels = scn[c].channels
        /\ scn'[c].ids = <<>>
    BY <2>3, <2>4, Continuing
  <2>6. LeadsTo(plan.kind, plan.once, scn[c].pc, scn'[c].pc)
    BY <1>1, <1>2, <2>5, TheCarrying
  <2>7. Owed(c) = Elements(scn[c].ids)
    BY <1>2 DEF Owed, Elements
  <2>8. scn'[c].pc \in Vacancies[plan.kind] => scn[c].pc \in Vacancies[plan.kind]
    <3>1. Leads(plan.kind, plan.once, Instr(c), scn[c].pc, scn'[c].pc)
      BY <1>1, <2>6, TheNext
    <3>. QED  BY <1>1, <2>5, <3>1 DEF Leads
  <2>9. PICK ids : ids = Elements(scn[c].ids)
    OBVIOUS
  <2>10. Acknowledged(c, ids) /\ Owed(c) \subseteq ids
         /\ Instr(c).op \in {"ack", "ack_ids"}
    BY <1>1, <2>1, <2>7, <2>9
  <2>. QED
    BY <1>1, <2>5, <2>6, <2>8, <2>10, AcknowledgingTraces
<1>. QED  BY <1>3, <1>4

LEMMA RunCollectTraces ==
    ASSUME Inv, Inv', NEW c \in Clients, RunCollect(c), Whereabouts(c),
           Running(c)'
    PROVE  Whereabouts(c)'
<1>. Numbered(c) /\ Aimed(c) /\ Online(c) /\ Reaches(c) /\ Clears(c)
  BY DEF Whereabouts
<1>1. /\ Turn(c) /\ Running(c) /\ ~Returns(c) /\ Instr(c).op = "collect"
      /\ proc[c].waits = "nothing" /\ plan' = plan /\ proc' = proc
      /\ server' = server /\ down' = down
  BY DEF RunCollect, Runs, Turn, Shared, Outside, network
<1>2. /\ scn[c].pc \in Due[plan.kind] /\ scn[c].pc \notin Vacancies[plan.kind]
      /\ GoesOn(Instr(c), plan.once) /\ scn[c].ids = <<>>
  BY <1>1, TheCarrying DEF Timely, Founded, GoesOn, Clears, At
<1>3. PICK s \in ScenarioSet :
          /\ Continue(c, s)
          /\ s = IF scn[c].notif = NoNotif THEN scn[c]
                 ELSE [scn[c] EXCEPT !.ids = Append(scn[c].ids, scn[c].notif.id)]
  <2>1. scn[c] \in ScenarioSet
    BY Typed
  <2>2. Append(scn[c].ids, scn[c].notif.id) \in Seq(Nat)
    BY <2>1 DEF ScenarioSet, Notifs
  <2>3. PICK t : t = [scn[c] EXCEPT !.ids = Append(scn[c].ids, scn[c].notif.id)]
    OBVIOUS
  <2>4. t \in ScenarioSet
    BY <2>1, <2>2, <2>3 DEF ScenarioSet
  <2>5. CASE scn[c].notif = NoNotif
    BY <2>1, <2>5 DEF RunCollect
  <2>6. CASE scn[c].notif # NoNotif
    <3>1. Continue(c, t)
      BY <2>1, <2>3, <2>6 DEF RunCollect, ScenarioSet
    <3>. QED  BY <2>3, <2>4, <2>6, <3>1
  <2>. QED  BY <2>5, <2>6
<1>4. /\ s.pc = scn[c].pc /\ s.channels = scn[c].channels
      /\ scn[c].notif = NoNotif => s.ids = <<>>
      /\ scn[c].notif # NoNotif => Elements(s.ids) = {scn[c].notif.id}
  <2>1. scn[c] \in ScenarioSet
    BY Typed
  <2>2. s.pc = scn[c].pc /\ s.channels = scn[c].channels
    BY <1>3, <2>1 DEF ScenarioSet
  <2>3. scn[c].notif = NoNotif => s.ids = <<>>
    BY <1>2, <1>3
  <2>4. ASSUME scn[c].notif # NoNotif PROVE Elements(s.ids) = {scn[c].notif.id}
    <3>1. s.ids = Append(scn[c].ids, scn[c].notif.id)
      BY <1>3, <2>1, <2>4 DEF ScenarioSet
    <3>2. scn[c].ids \in Seq(Nat) /\ scn[c].notif.id \in Nat
      BY <2>1 DEF ScenarioSet, Notifs
    <3>3. Elements(s.ids) = Elements(scn[c].ids) \cup {scn[c].notif.id}
      BY <3>1, <3>2, ElementsAppended
    <3>. QED  BY <1>2, <3>3 DEF Elements
  <2>. QED  BY <2>2, <2>3, <2>4
<1>5. /\ LeadsTo(plan.kind, plan.once, scn[c].pc, scn'[c].pc)
      /\ scn'[c].channels = s.channels /\ scn'[c].ids = s.ids
  BY <1>1, <1>2, <1>3, <1>4, Proceeding
<1>6. tally'[c].seen = tally[c].seen
  <2>1. tally \in [Clients -> TallySet] /\ tally[c] \in TallySet
    BY Types DEF Inv
  <2>2. \/ tally' = tally
        \/ tally'[c] = [tally[c] EXCEPT !.received = @ + 1]
    BY <2>1 DEF RunCollect
  <2>. QED  BY <2>1, <2>2 DEF TallySet
<1>7. /\ Afloat(c)' = Afloat(c) /\ Pending(c)' = Pending(c)
      /\ Seen(c)' = Seen(c) /\ (Vacant(c) <=> Vacant(c)') /\ Numbered(c)'
  BY <1>1, <1>6, SameNetwork
<1>8. Aimed(c)'
  BY <1>1, <1>4, <1>5, <1>7, StillAimed DEF Aimed
<1>9. Online(c)'
  <2>1. \A k \in DOMAIN down'[c] : down'[c][k].type # "stranger"
    BY <1>1 DEF Online
  <2>. QED  BY <1>1, <1>5, <2>1, Offstage
<1>10. Reaches(c)' /\ Clears(c)'
  <2>1. CASE scn[c].notif = NoNotif
    <3>1. Vacant(c)
      BY <1>2, <2>1 DEF Clears
    <3>. QED  BY <1>4, <1>5, <1>7, <2>1, <3>1, Emptied
  <2>2. CASE scn[c].notif # NoNotif
    <3>1. Elements(s.ids) = {scn[c].notif.id} /\ s.ids # <<>>
      <4>1. Elements(s.ids) = {scn[c].notif.id}
        BY <1>4, <2>2
      <4>2. PICK none : none = <<>>
        OBVIOUS
      <4>3. Elements(none) = {}
        BY <4>2 DEF Elements
      <4>. QED  BY <4>1, <4>2, <4>3
    <3>2. /\ scn'[c].pc \notin Due[plan.kind]
          /\ scn'[c].pc \notin Vacancies[plan.kind] /\ At(c, "ack_ids")'
      <4>1. /\ Leads(plan.kind, plan.once, Instr(c), scn[c].pc, scn'[c].pc)
            /\ scn'[c].pc \in 1..Len(Script[plan.kind]) <=> ~Returns(c)'
            /\ ~Returns(c)' =>
                  Before(plan.kind, Instr(c), scn[c].pc, Instr(c)', scn'[c].pc)
        BY <1>1, <1>5, TheNext
      <4>2. ~Returns(c)'
        BY <1>1, <4>1 DEF Leads
      <4>. QED  BY <1>1, <1>2, <4>1, <4>2 DEF Leads, Before, At
    <3>3. Owed(c) = {scn[c].notif.id} /\ Owed(c)' = {scn[c].notif.id}
      <4>1. Elements(scn[c].ids) = {}
        BY <1>2 DEF Elements
      <4>2. Elements(scn'[c].ids) = {scn[c].notif.id}
        BY <1>5, <3>1
      <4>3. Owed(c) = {scn[c].notif.id}
        BY <1>2, <4>1 DEF Owed
      <4>4. Owed(c)' = {scn[c].notif.id}
        BY <1>1, <3>2, <4>2 DEF Owed
      <4>. QED  BY <4>3, <4>4
    <3>4. Reaches(c)'
      BY <1>1, <1>7, <3>3 DEF Reaches
    <3>5. ~At(c, "send")'
      BY <3>2 DEF At
    <3>6. Clears(c)'
      BY <1>1, <1>5, <3>1, <3>2, <3>5 DEF Clears, Unposted
    <3>. QED  BY <3>4, <3>6
  <2>. QED  BY <2>1, <2>2
<1>. QED  BY <1>7, <1>8, <1>9, <1>10 DEF Whereabouts


-----------------------------------------------------------------------------
(* What a scenario's processor tells it. *)

LEMMA OpensTraces ==
    ASSUME Inv, Inv', NEW c \in Clients, Opens(c), Whereabouts(c),
           Running(c)'
    PROVE  Whereabouts(c)'
<1>. Numbered(c) /\ Aimed(c) /\ Online(c) /\ Reaches(c) /\ Clears(c)
  BY DEF Whereabouts
<1>1. /\ Running(c) /\ proc[c].waits = "connect" /\ ~Returns(c)
      /\ Instr(c).op = "connect"
  BY Waiting DEF Opens, Awaits
<1>2. /\ plan' = plan /\ tally' = tally /\ server' = server /\ down' = down
      /\ Continue(c, scn[c])
      /\ proc' = [proc EXCEPT ![c].waits = "nothing", ![c].connected = TRUE]
  BY DEF Opens, Outside, Shared, network
<1>3. /\ proc'[c].waits = "nothing" /\ proc'[c].inbox = proc[c].inbox
      /\ proc'[c].connected
  <2>1. proc \in [Clients -> ProcessorSet] /\ proc[c] \in ProcessorSet
    BY Types DEF Inv
  <2>2. proc'[c] = [proc[c] EXCEPT !.waits = "nothing", !.connected = TRUE]
    BY <1>2, <2>1
  <2>. QED  BY <2>1, <2>2 DEF ProcessorSet
<1>4. /\ LeadsTo(plan.kind, plan.once, scn[c].pc, scn'[c].pc)
      /\ scn'[c].channels = scn[c].channels /\ scn'[c].notif = scn[c].notif
      /\ scn'[c].ids = scn[c].ids
  <2>1. GoesOn(Instr(c), plan.once)
    BY <1>1 DEF GoesOn
  <2>2. scn[c] \in ScenarioSet
    BY Typed
  <2>. QED  BY <1>1, <1>2, <2>1, <2>2, Proceeding
<1>5. /\ Afloat(c)' = Afloat(c) /\ Pending(c)' = Pending(c)
      /\ Seen(c)' = Seen(c) /\ Numbered(c)'
  BY <1>2, <1>3, SameNetwork
<1>6. Aimed(c)'
  <2>1. 0 \notin server'[c].subs
    BY <1>2 DEF Aimed
  <2>. QED  BY <1>2, <1>3, <1>4, <1>5, <2>1, StillAimed
<1>7. Online(c)'
  <2>1. plan.kind # "_explode" => ~proc[c].connected
    <3>1. plan.kind # "_explode" => scn[c].pc \notin Linked[plan.kind]
      BY <1>1, TheInstruction DEF Allowed
    <3>. QED  BY <1>1, <3>1 DEF Inv, ClientInv, InStep
  <2>2. ~server[c].online
    BY <2>1 DEF Online
  <2>3. plan.kind # "_explode" => At(c, "hello")'
    <3>1. /\ Leads(plan.kind, plan.once, Instr(c), scn[c].pc, scn'[c].pc)
          /\ scn'[c].pc \in 1..Len(Script[plan.kind]) <=> ~Returns(c)'
          /\ ~Returns(c)' =>
                Before(plan.kind, Instr(c), scn[c].pc, Instr(c)', scn'[c].pc)
      BY <1>1, <1>2, <1>4, TheNext
    <3>. QED  BY <1>1, <3>1 DEF Leads, Before, At
  <2>4. ~Greeted(c)'
    <3>1. \A k \in DOMAIN down[c] : ~Replies(down[c][k])
      BY <1>1, NothingAsked DEF Requests
    <3>. QED  BY <1>2, <3>1 DEF Greeted, Replies
  <2>. QED  BY <1>2, <2>2, <2>3, <2>4 DEF Online
<1>8. Reaches(c)' /\ Clears(c)'
  <2>1. server'[c].online = server[c].online /\ Pending(c)' \subseteq Pending(c)
    BY <1>2, <1>5
  <2>. QED  BY <1>1, <1>2, <1>3, <1>4, <1>5, <2>1, Passing
<1>. QED  BY <1>5, <1>6, <1>7, <1>8 DEF Whereabouts

LEMMA ClosesTraces ==
    ASSUME Inv, Inv', NEW c \in Clients, Closes(c), Whereabouts(c),
           Running(c)'
    PROVE  Whereabouts(c)'
<1>. Numbered(c) /\ Aimed(c) /\ Online(c) /\ Reaches(c) /\ Clears(c)
  BY DEF Whereabouts
<1>1. /\ Running(c) /\ proc[c].waits = "disconnect" /\ ~Returns(c)
      /\ Instr(c).op = "disconnect"
  BY Waiting DEF Closes, Awaits
<1>2. /\ plan' = plan /\ tally' = tally /\ Continue(c, scn[c])
      /\ Unconnected(c)
      /\ proc' = [proc EXCEPT ![c].waits = "nothing", ![c].connected = FALSE]
  BY DEF Closes, Shared
<1>3. /\ proc'[c].waits = "nothing" /\ proc'[c].inbox = proc[c].inbox
      /\ ~proc'[c].connected
  <2>1. proc \in [Clients -> ProcessorSet] /\ proc[c] \in ProcessorSet
    BY Types DEF Inv
  <2>2. proc'[c] = [proc[c] EXCEPT !.waits = "nothing", !.connected = FALSE]
    BY <1>2, <2>1
  <2>. QED  BY <2>1, <2>2 DEF ProcessorSet
<1>4. /\ LeadsTo(plan.kind, plan.once, scn[c].pc, scn'[c].pc)
      /\ scn'[c].channels = scn[c].channels /\ scn'[c].notif = scn[c].notif
      /\ scn'[c].ids = scn[c].ids
  <2>1. GoesOn(Instr(c), plan.once)
    BY <1>1 DEF GoesOn
  <2>2. scn[c] \in ScenarioSet
    BY Typed
  <2>. QED  BY <1>1, <1>2, <2>1, <2>2, Proceeding
<1>5. /\ server'[c].online = FALSE
      /\ server'[c].pending = server[c].pending
      /\ server'[c].last = server[c].last /\ server'[c].subs = server[c].subs
      /\ down'[c] = <<>>
  <2>1. /\ server \in [Clients -> AgentSet] /\ server[c] \in AgentSet
        /\ down \in [Clients -> Seq(FrameSet)]
    BY Types DEF Inv
  <2>2. server'[c] = [server[c] EXCEPT !.online = FALSE]
    BY <1>2, <2>1 DEF Unconnected
  <2>3. down'[c] = <<>>
    BY <1>2, <2>1 DEF Unconnected
  <2>. QED  BY <2>1, <2>2, <2>3 DEF AgentSet
<1>6. /\ Afloat(c)' = Elements(proc[c].inbox) /\ Afloat(c)' \subseteq Afloat(c)
      /\ Pending(c)' = Pending(c) /\ Seen(c)' = Seen(c)
      /\ Vacant(c) => Vacant(c)'
  <2>1. Told(down'[c]) = {}
    BY <1>5 DEF Told
  <2>2. Afloat(c)' = Elements(proc[c].inbox)
    BY <1>3, <2>1 DEF Afloat
  <2>3. Afloat(c)' \subseteq Afloat(c)
    BY <2>2 DEF Afloat
  <2>4. Pending(c)' = Pending(c) /\ Seen(c)' = Seen(c)
    BY <1>2, <1>5 DEF Pending, Seen
  <2>. QED  BY <2>2, <2>3, <2>4 DEF Vacant
<1>7. Numbered(c)'
  <2>1. Apart(proc'[c].inbox, down'[c])
    <3>1. Unlike(proc'[c].inbox)
      BY <1>3 DEF Numbered, Apart
    <3>2. Distinct(down'[c]) /\ Told(down'[c]) = {}
      BY <1>5 DEF Distinct, Told
    <3>. QED  BY <3>1, <3>2 DEF Apart
  <2>2. Unlike(server'[c].pending)
    BY <1>5 DEF Numbered
  <2>. QED  BY <1>2, <1>5, <1>6, <2>1, <2>2, StillNumbered
<1>8. Aimed(c)'
  <2>1. 0 \notin server'[c].subs
    BY <1>5 DEF Aimed
  <2>. QED  BY <1>2, <1>3, <1>4, <1>6, <2>1, StillAimed
<1>9. Online(c)'
  <2>1. \A k \in DOMAIN down'[c] : down'[c][k].type # "stranger"
    BY <1>5
  <2>. QED  BY <1>3, <1>5, <2>1 DEF Online
<1>10. /\ \/ plan.kind = "_expect_notifications"
          \/ scn[c].pc \in Vacancies[plan.kind]
          \/ scn[c].pc \in Due[plan.kind] /\ plan.kind \notin Several
       /\ scn[c].pc \in Due[plan.kind] =>
             plan.kind = "notification_forever_direct_store"
  BY <1>1, TheCarrying DEF Timely
<1>11. scn[c].ids = <<>>
  BY <1>1 DEF Clears, At
<1>12. Reaches(c)'
  <2>1. plan.kind # "_expect_notifications" => Afloat(c) = {}
    BY <1>10 DEF Clears, Vacant
  <2>2. plan.kind # "notification_forever_direct_store" => Owed(c) = {}
    BY <1>10, <1>11 DEF Owed, Elements
  <2>3. plan.kind # "notification_forever_direct_store" =>
          /\ \A n \in Pending(c) : n.id \notin Seen(c)
          /\ \A n \in Afloat(c) : n.id \notin Seen(c)
    BY <2>2 DEF Reaches
  <2>. QED  BY <1>2, <1>5, <1>6, <2>1, <2>3 DEF Reaches
<1>13. /\ scn'[c].pc \notin Due[plan.kind] /\ ~At(c, "ack_ids")'
       /\ scn'[c].pc \in Vacancies[plan.kind] =>
             scn[c].pc \in Vacancies[plan.kind]
       /\ (At(c, "send")' /\ plan.kind \notin Several \cup {"basic_topic"}) =>
             scn[c].pc \in Vacancies[plan.kind]
  <2>1. /\ Leads(plan.kind, plan.once, Instr(c), scn[c].pc, scn'[c].pc)
        /\ ~Returns(c)' =>
              Before(plan.kind, Instr(c), scn[c].pc, Instr(c)', scn'[c].pc)
    BY <1>1, <1>2, <1>4, TheNext
  <2>. QED  BY <1>1, <2>1 DEF Leads, Before, At
<1>14. Clears(c)'
  BY <1>2, <1>3, <1>4, <1>6, <1>11, <1>13 DEF Clears, Unposted
<1>. QED  BY <1>7, <1>8, <1>9, <1>12, <1>14 DEF Whereabouts

\* In time, there is nothing to be given.
LEMMA TimesOutTraces ==
    ASSUME Inv, Inv', NEW c \in Clients, TimesOut(c), Whereabouts(c),
           Running(c)', "late" \notin mishaps'[c]
    PROVE  Vacant(c) /\ Whereabouts(c)'
<1>. Numbered(c) /\ Aimed(c) /\ Online(c) /\ Reaches(c) /\ Clears(c)
  BY DEF Whereabouts
<1>1. /\ Running(c) /\ proc[c].waits = "expect" /\ ~Returns(c)
      /\ Instr(c).op = "expect"
  BY Waiting DEF TimesOut, Awaits
<1>2. PICK s : s = [scn[c] EXCEPT !.notif = NoNotif]
  OBVIOUS
<1>3. /\ plan' = plan /\ tally' = tally /\ server' = server /\ down' = down
      /\ Continue(c, s) /\ proc' = [proc EXCEPT ![c].waits = "nothing"]
  BY <1>2 DEF TimesOut, Shared, network, Answered
<1>4. /\ s \in ScenarioSet /\ s.pc = scn[c].pc /\ s.ids = scn[c].ids
      /\ s.channels = scn[c].channels
  <2>1. scn[c] \in ScenarioSet
    BY Typed
  <2>. QED  BY <1>2, <2>1, Beginnings DEF ScenarioSet
<1>5. /\ LeadsTo(plan.kind, plan.once, scn[c].pc, scn'[c].pc)
      /\ scn'[c].channels = scn[c].channels /\ scn'[c].ids = scn[c].ids
  <2>1. GoesOn(Instr(c), plan.once)
    BY <1>1 DEF GoesOn
  <2>2. /\ LeadsTo(plan.kind, plan.once, scn[c].pc, scn'[c].pc)
        /\ scn'[c].channels = s.channels /\ scn'[c].ids = s.ids
    BY <1>1, <1>3, <1>4, <2>1, Proceeding
  <2>. QED  BY <1>4, <2>2
<1>6. InTime(c)
  <2>1. ASSUME ~InTime(c) PROVE FALSE
    <3>1. mishaps' = [mishaps EXCEPT ![c] = @ \cup {"late"}]
      BY <2>1 DEF TimesOut
    <3>2. "late" \in mishaps'[c]
      BY <3>1, Types DEF Inv
    <3>. QED  BY <3>2
  <2>. QED  BY <2>1
<1>7. Afloat(c) = {}
  <2>1. proc[c].inbox = <<>>
    BY <1>1 DEF Clears
  <2>2. ASSUME NEW n \in Told(down[c]) PROVE FALSE
    <3>1. PICK k \in DOMAIN down[c] :
              ~Replies(down[c][k]) /\ down[c][k].notif = n
      BY <2>2 DEF Told
    <3>2. IsExpected(c, n)
      BY <1>1, Expecting DEF Afloat
    <3>. QED  BY <1>6, <3>1, <3>2 DEF InTime, Replies
  <2>3. Elements(proc[c].inbox) = {}
    BY <2>1 DEF Elements
  <2>. QED  BY <2>2, <2>3 DEF Afloat
<1>8. scn[c].ids = <<>>
  BY <1>1 DEF Clears, At
<1>9. Vacant(c)
  <2>1. scn[c].pc \in Linked[plan.kind] /\ scn[c].pc \notin Due[plan.kind]
    BY <1>1, TheCarrying DEF Timely
  <2>2. server[c].online
    BY <1>1, <2>1, AtWork
  <2>3. Owed(c) = {}
    BY <1>8, <2>1 DEF Owed, Elements
  <2>. QED  BY <1>7, <2>2, <2>3 DEF Reaches, Vacant
<1>10. /\ proc'[c].waits = "nothing" /\ proc'[c].inbox = proc[c].inbox
       /\ proc'[c].connected = proc[c].connected
  BY <1>3, WaitingFor
<1>11. /\ Afloat(c)' = Afloat(c) /\ Pending(c)' = Pending(c)
       /\ Vacant(c)' /\ Numbered(c)'
  BY <1>3, <1>9, <1>10, SameNetwork
<1>12. Aimed(c)'
  <2>1. 0 \notin server'[c].subs
    BY <1>3 DEF Aimed
  <2>. QED  BY <1>3, <1>5, <1>10, <1>11, <2>1, StillAimed
<1>13. Online(c)'
  <2>1. \A k \in DOMAIN down'[c] : down'[c][k].type # "stranger"
    BY <1>3 DEF Online
  <2>. QED  BY <1>1, <1>3, <1>5, <1>10, <2>1, Offstage
<1>14. Reaches(c)' /\ Clears(c)'
  BY <1>5, <1>8, <1>11, Emptied
<1>. QED  BY <1>9, <1>11, <1>12, <1>13, <1>14 DEF Whereabouts

\* The frame that arrives, and the frames that are left.
LEMMA TheFrames ==
    ASSUME Inv, NEW c \in Clients, Arrives(c), Numbered(c), Online(c)
    PROVE  /\ Running(c) /\ plan' = plan /\ server' = server
           /\ Head(down[c]) \in FrameSet /\ Head(down[c]).type # "stranger"
           /\ Told(down[c]) = Told(down'[c]) \cup
                 (IF Replies(Head(down[c])) THEN {} ELSE {Head(down[c]).notif})
           /\ Distinct(down'[c])
           /\ ~Replies(Head(down[c])) =>
                 \A m \in Told(down'[c]) : m.id # Head(down[c]).notif.id
           /\ Greeted(c) <=> Head(down[c]).type = "hello" \/ Greeted(c)'
           /\ \A k \in DOMAIN down'[c] : down'[c][k].type # "stranger"
           /\ Replies(Head(down[c])) =>
                 /\ proc[c].waits = Request(Head(down[c]).type)
                 /\ ~Greeted(c)'
<1>1. /\ Running(c) /\ plan' = plan /\ server' = server /\ down[c] # <<>>
      /\ down' = [down EXCEPT ![c] = Tail(@)]
  BY DEF Arrives, Shared
<1>2. down \in [Clients -> Seq(FrameSet)] /\ down[c] \in Seq(FrameSet)
  BY Types DEF Inv
<1>3. PICK rest : rest = Tail(down[c])
  OBVIOUS
<1>4. down'[c] = rest
  BY <1>1, <1>2, <1>3
<1>5. /\ Told(down[c]) = Told(rest) \cup
            (IF Replies(Head(down[c])) THEN {} ELSE {Head(down[c]).notif})
      /\ Distinct(down[c]) =>
            /\ Distinct(rest)
            /\ ~Replies(Head(down[c])) =>
                  \A m \in Told(rest) : m.id # Head(down[c]).notif.id
      /\ Sorts(down[c]) = Sorts(rest) \cup {Head(down[c]).type}
  BY <1>1, <1>2, <1>3, ToldTail
<1>6. Distinct(down[c])
  BY DEF Numbered, Apart
<1>7. "stranger" \notin Sorts(down[c])
  BY DEF Online, Sorts
<1>8. /\ \A k \in DOMAIN rest : rest[k].type # "stranger"
      /\ Head(down[c]).type # "stranger"
  BY <1>5, <1>7 DEF Sorts
<1>9. Greeted(c) <=> Head(down[c]).type = "hello" \/ Greeted(c)'
  <2>1. Greeted(c) <=> "hello" \in Sorts(down[c])
    BY DEF Greeted, Sorts
  <2>2. Greeted(c)' <=> "hello" \in Sorts(rest)
    BY <1>4 DEF Greeted, Sorts
  <2>. QED  BY <1>5, <2>1, <2>2
<1>10. /\ 1 \in DOMAIN down[c] /\ Head(down[c]) = down[c][1]
       /\ Head(down[c]) \in FrameSet
       /\ \A k \in DOMAIN down'[c] :
             k + 1 \in DOMAIN down[c] /\ down'[c][k] = down[c][k + 1]
  BY <1>1, NextFrame
<1>11. ASSUME Replies(Head(down[c]))
       PROVE  proc[c].waits = Request(Head(down[c]).type) /\ ~Greeted(c)'
  <2>1. /\ proc[c].waits = Request(down[c][1].type)
        /\ \A j \in DOMAIN down[c] : j # 1 => ~Replies(down[c][j])
    BY <1>10, <1>11 DEF Inv, ClientInv, InTouch
  <2>2. ASSUME NEW k \in DOMAIN down'[c] PROVE ~Replies(down'[c][k])
    <3>1. k \in Nat /\ k >= 1
      BY <1>2, <1>4, <1>3, <1>1, HeadTailProperties
    <3>2. k + 1 # 1
      BY <3>1
    <3>. QED  BY <1>10, <2>1, <3>2
  <2>. QED  BY <1>10, <2>1, <2>2 DEF Greeted, Replies
<1>. QED  BY <1>1, <1>4, <1>5, <1>6, <1>8, <1>9, <1>10, <1>11

LEMMA ExpectedArrivesTraces ==
    ASSUME Inv, Inv', NEW c \in Clients, Arrives(c), Whereabouts(c),
           Running(c)',
           Head(down[c]).type = "notification",
           proc[c].waits = "expect", IsExpected(c, Head(down[c]).notif)
    PROVE  Whereabouts(c)'
<1>. Numbered(c) /\ Aimed(c) /\ Online(c) /\ Reaches(c) /\ Clears(c)
  BY DEF Whereabouts
<1>1. PICK n : n = Head(down[c]).notif
  OBVIOUS
<1>2. PICK s : s = [scn[c] EXCEPT !.notif = n]
  OBVIOUS
<1>3. /\ Running(c) /\ ~Returns(c) /\ Instr(c).op = "expect"
      /\ Continue(c, s) /\ proc' = [proc EXCEPT ![c].waits = "nothing"]
      /\ Saw(c, n) /\ ~Replies(Head(down[c]))
  BY <1>1, <1>2, Waiting DEF Arrives, Answered, Replies
<1>4. /\ plan' = plan /\ server' = server
      /\ n \in Notifs
      /\ Told(down[c]) = Told(down'[c]) \cup {n}
      /\ Distinct(down'[c])
      /\ \A m \in Told(down'[c]) : m.id # n.id
      /\ \A k \in DOMAIN down'[c] : down'[c][k].type # "stranger"
  <2>1. /\ plan' = plan /\ server' = server /\ Head(down[c]) \in FrameSet
        /\ Told(down[c]) = Told(down'[c]) \cup
              (IF Replies(Head(down[c])) THEN {} ELSE {Head(down[c]).notif})
        /\ Distinct(down'[c])
        /\ ~Replies(Head(down[c])) =>
              \A m \in Told(down'[c]) : m.id # Head(down[c]).notif.id
        /\ \A k \in DOMAIN down'[c] : down'[c][k].type # "stranger"
    BY TheFrames
  <2>2. n \in Notifs
    BY <1>1, <2>1 DEF FrameSet
  <2>. QED  BY <1>1, <1>3, <2>1, <2>2
<1>5. /\ s \in ScenarioSet /\ s.pc = scn[c].pc /\ s.ids = scn[c].ids
      /\ s.channels = scn[c].channels /\ s.notif = n
  <2>1. scn[c] \in ScenarioSet
    BY Typed
  <2>. QED  BY <1>2, <1>4, <2>1 DEF ScenarioSet
<1>6. /\ LeadsTo(plan.kind, plan.once, scn[c].pc, scn'[c].pc)
      /\ scn'[c].channels = scn[c].channels /\ scn'[c].ids = scn[c].ids
      /\ scn'[c].notif = n
  <2>1. GoesOn(Instr(c), plan.once)
    BY <1>3 DEF GoesOn
  <2>2. /\ LeadsTo(plan.kind, plan.once, scn[c].pc, scn'[c].pc)
        /\ scn'[c].channels = s.channels /\ scn'[c].ids = s.ids
        /\ scn'[c].notif = s.notif
    BY <1>3, <1>5, <2>1, Proceeding
  <2>. QED  BY <1>5, <2>2
<1>7. /\ proc'[c].waits = "nothing" /\ proc'[c].inbox = proc[c].inbox
      /\ proc'[c].connected = proc[c].connected
  BY <1>3, WaitingFor
<1>8. proc[c].inbox = <<>>
  BY DEF Clears
<1>9. Elements(proc[c].inbox) = {} /\ Elements(proc'[c].inbox) = {}
  BY <1>7, <1>8 DEF Elements
<1>10. Afloat(c) = Told(down'[c]) \cup {n} /\ Afloat(c)' = Told(down'[c])
  BY <1>4, <1>9 DEF Afloat
<1>11. Apart(proc'[c].inbox, down'[c])
  <2>1. Unlike(proc'[c].inbox)
    BY <1>7 DEF Numbered, Apart
  <2>. QED  BY <1>4, <1>9, <2>1 DEF Apart
<1>12. Seen(c)' = Seen(c) \cup {n.id}
  BY <1>3, <1>4, SeeingMore
<1>13. /\ n \in Afloat(c) /\ Afloat(c)' \subseteq Afloat(c)
       /\ \A m \in Afloat(c) : m \in Afloat(c)' \/ m = n
       /\ \A m \in Afloat(c)' : m.id # n.id
  BY <1>4, <1>10
<1>. QED
  BY <1>3, <1>4, <1>6, <1>7, <1>11, <1>12, <1>13, ReceivingTraces

LEMMA OtherArrivesTraces ==
    ASSUME Inv, Inv', NEW c \in Clients, Arrives(c), Whereabouts(c),
           Running(c)',
           Head(down[c]).type = "notification",
           ~(proc[c].waits = "expect" /\ IsExpected(c, Head(down[c]).notif))
    PROVE  Whereabouts(c)'
<1>. Numbered(c) /\ Aimed(c) /\ Online(c) /\ Reaches(c) /\ Clears(c)
  BY DEF Whereabouts
<1>1. PICK n : n = Head(down[c]).notif
  OBVIOUS
<1>2. /\ scn' = scn /\ tally' = tally /\ post' = post
      /\ proc' = [proc EXCEPT ![c].inbox = Append(@, n)]
      /\ ~Replies(Head(down[c]))
  BY <1>1 DEF Arrives, Replies
<1>3. /\ plan' = plan /\ server' = server /\ Running(c)
      /\ n \in Notifs
      /\ Told(down[c]) = Told(down'[c]) \cup {n}
      /\ Distinct(down'[c])
      /\ \A m \in Told(down'[c]) : m.id # n.id
      /\ Greeted(c) <=> Greeted(c)'
      /\ \A k \in DOMAIN down'[c] : down'[c][k].type # "stranger"
  <2>1. /\ plan' = plan /\ server' = server /\ Head(down[c]) \in FrameSet
        /\ Told(down[c]) = Told(down'[c]) \cup
              (IF Replies(Head(down[c])) THEN {} ELSE {Head(down[c]).notif})
        /\ Distinct(down'[c])
        /\ ~Replies(Head(down[c])) =>
              \A m \in Told(down'[c]) : m.id # Head(down[c]).notif.id
        /\ \A k \in DOMAIN down'[c] : down'[c][k].type # "stranger"
        /\ Greeted(c) <=> Head(down[c]).type = "hello" \/ Greeted(c)'
        /\ Running(c)
    BY TheFrames
  <2>2. n \in Notifs
    BY <1>1, <2>1 DEF FrameSet
  <2>. QED  BY <1>1, <1>2, <2>1, <2>2
<1>4. proc \in [Clients -> ProcessorSet] /\ proc[c].inbox \in Seq(Notifs)
  BY Types DEF Inv, ProcessorSet
<1>5. PICK inbox : inbox = Append(proc[c].inbox, n)
  OBVIOUS
<1>6. /\ proc'[c].waits = proc[c].waits /\ proc'[c].inbox = inbox
      /\ proc'[c].connected = proc[c].connected
  <2>1. proc'[c] = [proc[c] EXCEPT !.inbox = inbox]
    BY <1>2, <1>4, <1>5
  <2>. QED  BY <1>4, <2>1 DEF ProcessorSet
<1>7. Elements(inbox) = Elements(proc[c].inbox) \cup {n}
  BY <1>3, <1>4, <1>5, ElementsAppended
<1>8. Afloat(c)' = Afloat(c)
  BY <1>3, <1>6, <1>7 DEF Afloat
<1>9. Pending(c)' = Pending(c) /\ Seen(c)' = Seen(c)
  BY <1>2, <1>3 DEF Pending, Seen
<1>10. Apart(inbox, down'[c])
  <2>1. \A m \in Elements(proc[c].inbox) : m.id # n.id
    BY <1>3 DEF Numbered, Apart
  <2>2. Unlike(inbox)
    BY <1>3, <1>4, <1>5, <2>1, UnlikeAppend DEF Numbered, Apart
  <2>3. \A l \in Elements(proc[c].inbox), m \in Told(down'[c]) : l.id # m.id
    BY <1>3 DEF Numbered, Apart
  <2>. QED  BY <1>3, <1>7, <2>2, <2>3 DEF Apart
<1>11. Numbered(c)'
  BY <1>3, <1>6, <1>8, <1>9, <1>10 DEF Numbered
<1>12. /\ Instr(c)' = Instr(c) /\ Returns(c)' = Returns(c)
       /\ Target(c)' = Target(c) /\ \A op : At(c, op)' = At(c, op)
  BY <1>2, <1>3 DEF Instr, Returns, Running, Target, At
<1>13. Aimed(c)'
  BY <1>2, <1>3, <1>6, <1>8, <1>9, <1>12 DEF Aimed
<1>14. Online(c)'
  BY <1>3, <1>6, <1>12 DEF Online
<1>15. proc[c].waits # "expect"
  <2>1. ASSUME proc[c].waits = "expect" PROVE FALSE
    <3>1. ~Returns(c) /\ Instr(c).op = "expect"
      BY <1>3, <2>1, Waiting
    <3>2. n \in Afloat(c)
      BY <1>3 DEF Afloat
    <3>. QED  BY <1>1, <1>3, <2>1, <3>1, <3>2, Expecting
  <2>. QED  BY <2>1
<1>16. Unposted(c)' => Unposted(c)
  BY <1>2, <1>6, <1>12 DEF Unposted
<1>17. Reaches(c)' /\ Clears(c)'
  <2>1. scn'[c] = scn[c] /\ server'[c].online = server[c].online
        /\ proc'[c].waits # "expect"
    BY <1>2, <1>3, <1>6, <1>15
  <2>. QED  BY <1>3, <1>8, <1>9, <1>16, <2>1, Pausing
<1>. QED  BY <1>11, <1>13, <1>14, <1>17 DEF Whereabouts

LEMMA ReplyArrivesTraces ==
    ASSUME Inv, Inv', NEW c \in Clients, Arrives(c), Whereabouts(c),
           Running(c)', Head(down[c]).type # "notification"
    PROVE  Whereabouts(c)'
<1>. Numbered(c) /\ Aimed(c) /\ Online(c) /\ Reaches(c) /\ Clears(c)
  BY DEF Whereabouts
<1>1. PICK type : type = Head(down[c]).type
  OBVIOUS
<1>2. /\ tally' = tally
      /\ Answered(c, [scn[c] EXCEPT
             !.same = type # "stranger",
             !.channels = IF type = "register"
                          THEN Append(@, Len(@) + 1) ELSE @])
      /\ Replies(Head(down[c]))
  BY <1>1 DEF Arrives, Shared, Replies
<1>3. /\ plan' = plan /\ server' = server /\ Running(c)
      /\ type \in Requests /\ proc[c].waits = type
      /\ Told(down[c]) = Told(down'[c])
      /\ Distinct(down'[c])
      /\ type = "hello" => Greeted(c)
      /\ \A k \in DOMAIN down'[c] : down'[c][k].type # "stranger"
  <2>1. /\ plan' = plan /\ server' = server /\ Running(c)
        /\ Head(down[c]) \in FrameSet /\ Head(down[c]).type # "stranger"
        /\ Told(down[c]) = Told(down'[c]) \cup
              (IF Replies(Head(down[c])) THEN {} ELSE {Head(down[c]).notif})
        /\ Distinct(down'[c])
        /\ Greeted(c) <=> Head(down[c]).type = "hello" \/ Greeted(c)'
        /\ \A k \in DOMAIN down'[c] : down'[c][k].type # "stranger"
        /\ Replies(Head(down[c])) => proc[c].waits = Request(Head(down[c]).type)
    BY TheFrames
  <2>2. type \in Requests
    BY <1>1, <1>2, <2>1 DEF FrameSet, Replies
  <2>3. proc[c].waits = type
    BY <1>1, <1>2, <2>1 DEF Request
  <2>. QED  BY <1>1, <1>2, <2>1, <2>2, <2>3
<1>4. ~Returns(c) /\ Instr(c).op = type
  BY <1>3, Waiting DEF Requests
<1>5. PICK chs : chs = IF type = "register"
                       THEN Append(scn[c].channels, Len(scn[c].channels) + 1)
                       ELSE scn[c].channels
  OBVIOUS
<1>6. /\ chs \in Seq(Nat)
      /\ \A k \in DOMAIN chs : chs[k] = k
      /\ DOMAIN scn[c].channels \subseteq DOMAIN chs
      /\ type # "register" => chs = scn[c].channels
  <2>1. scn[c].channels \in Seq(Nat) /\ Len(scn[c].channels) \in Nat
        /\ \A k \in 1..Len(scn[c].channels) : scn[c].channels[k] = k
    BY Typed DEF ScenarioSet, Aimed
  <2>2. PICK l : l = Len(scn[c].channels) + 1
    OBVIOUS
  <2>3. l \in Nat /\ 1..l = (1..Len(scn[c].channels)) \cup {l}
    BY <2>1, <2>2
  <2>4. PICK more : more = Append(scn[c].channels, l)
    OBVIOUS
  <2>5. /\ more \in Seq(Nat) /\ Len(more) = l
        /\ \A k \in 1..Len(scn[c].channels) : more[k] = scn[c].channels[k]
        /\ more[l] = l
    BY <2>1, <2>2, <2>3, <2>4, AppendProperties
  <2>6. /\ DOMAIN more = 1..l /\ DOMAIN scn[c].channels = 1..Len(scn[c].channels)
        /\ \A k \in DOMAIN more : more[k] = k
    BY <2>1, <2>3, <2>5
  <2>. QED  BY <1>5, <2>1, <2>2, <2>3, <2>4, <2>5, <2>6
<1>7. PICK known \in BOOLEAN : known = (type # "stranger")
  OBVIOUS
<1>8. PICK s : s = [scn[c] EXCEPT !.same = known, !.channels = chs]
  OBVIOUS
<1>9. Continue(c, s) /\ proc' = [proc EXCEPT ![c].waits = "nothing"]
  BY <1>2, <1>5, <1>7, <1>8 DEF Answered
<1>10. /\ s \in ScenarioSet /\ s.pc = scn[c].pc
       /\ s.notif = scn[c].notif /\ s.ids = scn[c].ids /\ s.channels = chs
  <2>1. scn[c] \in ScenarioSet
    BY Typed
  <2>. QED  BY <1>6, <1>7, <1>8, <2>1 DEF ScenarioSet
<1>11. /\ LeadsTo(plan.kind, plan.once, scn[c].pc, scn'[c].pc)
       /\ scn'[c].channels = chs /\ scn'[c].ids = scn[c].ids
       /\ scn'[c].notif = scn[c].notif
  <2>1. GoesOn(Instr(c), plan.once)
    BY <1>3, <1>4 DEF GoesOn, Requests
  <2>2. /\ LeadsTo(plan.kind, plan.once, scn[c].pc, scn'[c].pc)
        /\ scn'[c].channels = s.channels /\ scn'[c].ids = s.ids
        /\ scn'[c].notif = s.notif
    BY <1>3, <1>4, <1>9, <1>10, <2>1, Proceeding
  <2>. QED  BY <1>10, <2>2
<1>12. /\ proc'[c].waits = "nothing" /\ proc'[c].inbox = proc[c].inbox
       /\ proc'[c].connected = proc[c].connected
  BY <1>9, WaitingFor
<1>13. Afloat(c)' = Afloat(c) /\ Pending(c)' = Pending(c) /\ Seen(c)' = Seen(c)
  BY <1>2, <1>3, <1>12 DEF Afloat, Pending, Seen
<1>14. Numbered(c)'
  <2>1. Apart(proc'[c].inbox, down'[c])
    BY <1>3, <1>12 DEF Numbered, Apart
  <2>2. Unlike(server'[c].pending) /\ server'[c].last = server[c].last
    BY <1>3 DEF Numbered
  <2>. QED  BY <1>3, <1>13, <2>1, <2>2, StillNumbered
<1>15. Aimed(c)'
  <2>1. (type = "register" /\ plan.kind # "_expect_notifications") =>
           Vacant(c)
    BY <1>3, <1>4, TheCarrying DEF Timely, Clears
  <2>. QED
    BY <1>3, <1>6, <1>11, <1>12, <1>13, <2>1 DEF Aimed, Vacant
<1>16. Online(c)'
  <2>1. CASE type = "hello"
    <3>1. ~At(c, "hello")'
      <4>1. ~Returns(c)' =>
               Before(plan.kind, Instr(c), scn[c].pc, Instr(c)', scn'[c].pc)
        BY <1>3, <1>4, <1>11, TheNext
      <4>. QED  BY <1>4, <2>1, <4>1 DEF Before, At
    <3>. QED  BY <1>3, <1>12, <2>1, <3>1 DEF Online
  <2>2. CASE type # "hello"
    BY <1>3, <1>4, <1>11, <1>12, <2>2, Offstage DEF Requests
  <2>. QED  BY <2>1, <2>2
<1>17. Reaches(c)' /\ Clears(c)'
  <2>1. /\ server'[c].online = server[c].online
        /\ Pending(c)' \subseteq Pending(c)
        /\ Instr(c).op \notin {"expect", "ack", "collect", "ack_ids",
                               "disconnect", "if_notif"}
    BY <1>3, <1>4, <1>13 DEF Requests
  <2>. QED  BY <1>3, <1>4, <1>11, <1>12, <1>13, <2>1, Passing
<1>. QED  BY <1>14, <1>15, <1>16, <1>17 DEF Whereabouts

LEMMA ArrivesTraces ==
    ASSUME Inv, Inv', NEW c \in Clients, Arrives(c), Whereabouts(c),
           Running(c)'
    PROVE  Whereabouts(c)'
BY ExpectedArrivesTraces, OtherArrivesTraces, ReplyArrivesTraces

-----------------------------------------------------------------------------
(* What the push server does. *)

\* A request, and its scenario, which has to be connected.
LEMMA Requesting ==
    ASSUME Inv, NEW c \in Clients, ServerAnswers(c)
    PROVE  /\ Running(c) /\ ~Returns(c) /\ plan' = plan /\ scn' = scn
           /\ proc' = proc /\ post' = post /\ tally' = tally
           /\ up[c] \in Requests /\ proc[c].waits = up[c]
           /\ Instr(c).op = up[c] /\ plan.kind # "_explode"
           /\ proc[c].connected
           /\ \A k \in DOMAIN down[c] : ~Replies(down[c][k])
<1>1. /\ Running(c) /\ plan' = plan /\ scn' = scn
      /\ proc' = proc /\ post' = post /\ tally' = tally
      /\ up[c] \in Requests
  BY DEF ServerAnswers, Shared, Requests
<1>2. /\ proc[c].waits = up[c]
      /\ \A k \in DOMAIN down[c] : ~Replies(down[c][k])
  BY <1>1 DEF Inv, ClientInv, InTouch, Requests
<1>3. ~Returns(c) /\ Instr(c).op = up[c]
  BY <1>1, <1>2, Waiting DEF Requests
<1>4. plan.kind # "_explode"
  BY <1>1, <1>3, TheCarrying DEF Timely, Requests
<1>5. scn[c].pc \in Linked[plan.kind]
  BY <1>1, <1>3, <1>4, TheInstruction DEF Allowed
<1>6. proc[c].connected
  BY <1>1, <1>5 DEF Inv, ClientInv, InStep
<1>. QED  BY <1>1, <1>2, <1>3, <1>4, <1>6

\* A step of the server by which nothing is added to what it holds.
LEMMA ServingTraces ==
    ASSUME Inv, NEW c \in Clients, Whereabouts(c), plan' = plan, scn' = scn,
           proc' = proc, tally' = tally, ~At(c, "hello"),
           post'[c].channel = post[c].channel, post'[c].data = post[c].data,
           post[c].code # "none" => post'[c].code # "none",
           server'[c].online = server[c].online,
           server'[c].last = server[c].last, 0 \notin server'[c].subs,
           Pending(c)' \subseteq Pending(c), Unlike(server'[c].pending),
           Told(down'[c]) = Told(down[c]), Distinct(down'[c]),
           \A k \in DOMAIN down'[c] : down'[c][k].type # "stranger"
    PROVE  Whereabouts(c)'
<1>. Numbered(c) /\ Aimed(c) /\ Online(c) /\ Reaches(c) /\ Clears(c)
  BY DEF Whereabouts
<1>1. Afloat(c)' = Afloat(c) /\ Seen(c)' = Seen(c)
  BY DEF Afloat, Seen
<1>2. /\ Instr(c)' = Instr(c) /\ Returns(c)' = Returns(c)
      /\ Target(c)' = Target(c) /\ \A op : At(c, op)' = At(c, op)
  BY DEF Instr, Returns, Running, Target, At
<1>3. Owed(c)' = Owed(c)
  BY DEF Owed
<1>4. Numbered(c)'
  <2>1. Apart(proc'[c].inbox, down'[c])
    BY DEF Numbered, Apart
  <2>. QED  BY <1>1, <2>1, StillNumbered
<1>5. Aimed(c)'
  <2>1. \A n \in Pending(c)' \cup Afloat(c)' : n \in Pending(c) \cup Afloat(c)
    BY <1>1
  <2>. QED  BY <1>2, <2>1 DEF Aimed
<1>6. Online(c)'
  BY <1>2 DEF Online
<1>7. Reaches(c)'
  BY <1>1, <1>3 DEF Reaches
<1>8. Vacant(c) => Vacant(c)'
  BY <1>1 DEF Vacant
<1>9. Unposted(c)' => Unposted(c)
  BY <1>2 DEF Unposted
<1>10. Clears(c)'
  BY <1>1, <1>2, <1>8, <1>9 DEF Clears
<1>. QED  BY <1>4, <1>5, <1>6, <1>7, <1>10 DEF Whereabouts

\* The server greets a scenario that has nothing on its way, and sends it what
\* is pending.
LEMMA GreetingTells ==
    ASSUME Inv, NEW c \in Clients, ServerAnswers(c), Whereabouts(c),
           up[c] = "hello", ServerGreets(c), "uaid" \notin mishaps'[c]
    PROVE  /\ At(c, "hello") /\ proc[c].inbox = <<>>
           /\ scn[c].pc \notin Due[plan.kind]
           /\ Told(down'[c]) = Pending(c) /\ Distinct(down'[c])
           /\ \E k \in DOMAIN down'[c] : down'[c][k].type = "hello"
           /\ \A k \in DOMAIN down'[c] : down'[c][k].type # "stranger"
           /\ server'[c].online = TRUE
           /\ server'[c].pending = server[c].pending
           /\ server'[c].last = server[c].last
           /\ server'[c].subs = server[c].subs
           /\ Pending(c)' = Pending(c) /\ Afloat(c)' = Pending(c)
<1>. Numbered(c) /\ Aimed(c) /\ Online(c) /\ Reaches(c) /\ Clears(c)
  BY DEF Whereabouts
<1>1. /\ Running(c) /\ ~Returns(c) /\ plan' = plan /\ scn' = scn
      /\ proc' = proc /\ post' = post /\ tally' = tally
      /\ proc[c].waits = "hello" /\ Instr(c).op = "hello"
      /\ plan.kind # "_explode" /\ proc[c].connected
      /\ \A k \in DOMAIN down[c] : ~Replies(down[c][k])
  BY Requesting
<1>2. /\ server' = [server EXCEPT ![c].online = TRUE]
      /\ down' = [down EXCEPT ![c] = @ \o <<Frame("hello", NoNotif)>>
                                       \o Notifying(server[c].pending)]
  <2>1. ASSUME mishaps' = [mishaps EXCEPT ![c] = @ \cup {"uaid"}] PROVE FALSE
    BY <2>1, Types DEF Inv
  <2>. QED  BY <2>1 DEF ServerGreets
<1>3. At(c, "hello") /\ ~Greeted(c)
  BY <1>1 DEF At, Greeted, Replies
<1>4. /\ scn[c].pc \notin Due[plan.kind]
      /\ plan.kind = "_expect_notifications" =>
            scn[c].pc \in Vacancies[plan.kind]
  BY <1>1, TheCarrying DEF Timely
<1>5. Afloat(c) = {}
  <2>1. ~server[c].online
    BY <1>1, <1>3 DEF Online
  <2>. QED  BY <1>4, <2>1 DEF Reaches, Clears, Vacant
<1>6. /\ server \in [Clients -> AgentSet] /\ server[c] \in AgentSet
      /\ down \in [Clients -> Seq(FrameSet)] /\ down[c] \in Seq(FrameSet)
      /\ proc[c].inbox \in Seq(Notifs) /\ server[c].pending \in Seq(Notifs)
  BY Types DEF Inv, AgentSet, ProcessorSet
<1>7. proc[c].inbox = <<>> /\ down[c] = <<>>
  <2>1. Elements(proc[c].inbox) = {} /\ Told(down[c]) = {}
    BY <1>5 DEF Afloat
  <2>2. down[c] = <<>>
    BY <1>1, <1>6, <2>1, NothingTold
  <2>3. proc[c].inbox = <<>>
    BY <1>6, <2>1, NothingIn
  <2>. QED  BY <2>2, <2>3
<1>8. PICK first : first = <<Frame("hello", NoNotif)>>
  OBVIOUS
<1>9. PICK frames : frames = first \o Notifying(server[c].pending)
  OBVIOUS
<1>10. down'[c] = frames
  <2>1. first \in Seq(FrameSet)
    <3>1. Frame("hello", NoNotif) \in FrameSet
      BY Beginnings DEF Frame, FrameSet, Requests
    <3>. QED  BY <1>8, <3>1
  <2>2. <<>> \o first = first
    BY <2>1, ConcatEmptySeq
  <2>3. down'[c] = (down[c] \o first) \o Notifying(server[c].pending)
    BY <1>2, <1>6, <1>8
  <2>4. down[c] \o first = first
    BY <1>7, <2>2
  <2>. QED  BY <1>9, <2>3, <2>4
<1>11. /\ Told(frames) = Pending(c)
       /\ Distinct(frames)
       /\ \E k \in DOMAIN frames : frames[k].type = "hello"
       /\ \A k \in DOMAIN frames : frames[k].type # "stranger"
  <2>1. frames = <<Frame("hello", NoNotif)>> \o Notifying(server[c].pending)
    BY <1>8, <1>9
  <2>2. Unlike(server[c].pending)
    BY DEF Numbered
  <2>. QED  BY <1>6, <2>1, <2>2, Greeting DEF Pending
<1>12. /\ server'[c].online = TRUE /\ server'[c].pending = server[c].pending
       /\ server'[c].last = server[c].last /\ server'[c].subs = server[c].subs
  <2>1. server'[c] = [server[c] EXCEPT !.online = TRUE]
    BY <1>2, <1>6
  <2>. QED  BY <1>6, <2>1 DEF AgentSet
<1>13. Pending(c)' = Pending(c) /\ Afloat(c)' = Pending(c)
  <2>1. Elements(proc'[c].inbox) = {}
    BY <1>1, <1>7 DEF Elements
  <2>2. Afloat(c)' = Pending(c)
    BY <1>10, <1>11, <2>1 DEF Afloat
  <2>. QED  BY <1>12, <2>2 DEF Pending
<1>. QED  BY <1>3, <1>4, <1>7, <1>10, <1>11, <1>12, <1>13

LEMMA GreetingTraces ==
    ASSUME Inv, Inv', NEW c \in Clients, ServerAnswers(c), Whereabouts(c),
           up[c] = "hello", ServerGreets(c), "uaid" \notin mishaps'[c]
    PROVE  Whereabouts(c)'
<1>. Numbered(c) /\ Aimed(c) /\ Online(c) /\ Reaches(c) /\ Clears(c)
  BY DEF Whereabouts
<1>1. /\ Running(c) /\ ~Returns(c) /\ plan' = plan /\ scn' = scn
      /\ proc' = proc /\ tally' = tally
      /\ proc[c].waits = "hello" /\ Instr(c).op = "hello"
      /\ plan.kind # "_explode" /\ proc[c].connected
  BY Requesting
<1>2. /\ proc[c].inbox = <<>> /\ scn[c].pc \notin Due[plan.kind]
      /\ Told(down'[c]) = Pending(c) /\ Distinct(down'[c])
      /\ \E k \in DOMAIN down'[c] : down'[c][k].type = "hello"
      /\ \A k \in DOMAIN down'[c] : down'[c][k].type # "stranger"
      /\ server'[c].online = TRUE
      /\ server'[c].pending = server[c].pending
      /\ server'[c].last = server[c].last /\ server'[c].subs = server[c].subs
      /\ Pending(c)' = Pending(c) /\ Afloat(c)' = Pending(c)
  BY GreetingTells
<1>3. Seen(c)' = Seen(c)
  BY <1>1 DEF Seen
<1>4. Numbered(c)'
  <2>1. Apart(proc'[c].inbox, down'[c])
    BY <1>1, <1>2 DEF Apart, Unlike, Elements
  <2>2. Unlike(server'[c].pending)
    BY <1>2 DEF Numbered
  <2>. QED  BY <1>1, <1>2, <1>3, <2>1, <2>2, StillNumbered
<1>5. Aimed(c)'
  <2>1. 0 \notin server'[c].subs
    BY <1>2 DEF Aimed
  <2>. QED  BY <1>1, <1>2, <2>1, StillAimed
<1>6. Online(c)'
  <2>1. Greeted(c)'
    BY <1>2 DEF Greeted
  <2>. QED  BY <1>1, <1>2, <2>1 DEF Online
<1>7. scn[c].ids = <<>>
  BY <1>1 DEF Clears, At
<1>8. Owed(c) = {}
  BY <1>2, <1>7 DEF Owed, Elements
<1>9. Reaches(c)'
  <2>1. plan.kind # "notification_forever_direct_store" =>
           \A n \in Pending(c) : n.id \notin Seen(c)
    BY <1>8 DEF Reaches
  <2>. QED  BY <1>1, <1>2, <1>3, <2>1 DEF Reaches
<1>10. Vacant(c) => Vacant(c)'
  BY <1>2 DEF Vacant
<1>11. ~At(c, "send")' /\ ~At(c, "ack_ids")'
  BY <1>1 DEF At, Instr
<1>12. Clears(c)'
  BY <1>1, <1>2, <1>7, <1>10, <1>11 DEF Clears, Unposted
<1>. QED  BY <1>4, <1>5, <1>6, <1>9, <1>12 DEF Whereabouts

\* The reply to a request other than hello.
LEMMA ReplyingTraces ==
    ASSUME Inv, NEW c \in Clients, Whereabouts(c),
           NEW type \in {"register", "unregister"}, NEW frames,
           frames = Append(down[c], Frame(type, NoNotif))
    PROVE  /\ Told(frames) = Told(down[c]) /\ Distinct(frames)
           /\ \A k \in DOMAIN frames : frames[k].type # "stranger"
           /\ Sorts(frames) = Sorts(down[c]) \cup {type}
<1>1. PICK x : x = Frame(type, NoNotif)
  OBVIOUS
<1>2. x \in FrameSet /\ x.type = type /\ Replies(x)
  BY <1>1, Beginnings DEF Frame, FrameSet, Requests, Replies
<1>3. down[c] \in Seq(FrameSet) /\ Distinct(down[c])
  BY Typed DEF Whereabouts, Numbered, Apart
<1>4. /\ Told(frames) = Told(down[c]) \cup (IF Replies(x) THEN {} ELSE {x.notif})
      /\ (/\ Distinct(down[c])
          /\ ~Replies(x) => \A m \in Told(down[c]) : m.id # x.notif.id)
             => Distinct(frames)
      /\ Sorts(frames) = Sorts(down[c]) \cup {x.type}
  <2>1. PICK old \in Seq(FrameSet) : old = down[c]
    BY <1>3
  <2>2. frames = Append(old, x)
    BY <1>1, <2>1
  <2>3. /\ Told(frames) = Told(old) \cup (IF Replies(x) THEN {} ELSE {x.notif})
        /\ (/\ Distinct(old)
            /\ ~Replies(x) => \A m \in Told(old) : m.id # x.notif.id)
               => Distinct(frames)
        /\ Sorts(frames) = Sorts(old) \cup {x.type}
    BY <1>2, <2>2, ToldAppend
  <2>. QED  BY <2>1, <2>3
<1>5. "stranger" \notin Sorts(down[c])
  BY DEF Whereabouts, Online, Sorts
<1>6. "stranger" \notin Sorts(frames)
  BY <1>2, <1>4, <1>5
<1>. QED  BY <1>2, <1>3, <1>4, <1>6 DEF Sorts

LEMMA RegisteringTraces ==
    ASSUME Inv, NEW c \in Clients, ServerAnswers(c), Whereabouts(c),
           up[c] = "register", ServerRegisters(c)
    PROVE  Whereabouts(c)'
<1>. Numbered(c) /\ Aimed(c)
  BY DEF Whereabouts
<1>1. /\ plan' = plan /\ scn' = scn /\ proc' = proc /\ post' = post
      /\ tally' = tally /\ Instr(c).op = "register"
  BY Requesting
<1>2. /\ server \in [Clients -> AgentSet] /\ server[c] \in AgentSet
      /\ down \in [Clients -> Seq(FrameSet)] /\ scn[c].channels \in Seq(Nat)
  BY Types DEF Inv, ScenarioSet
<1>3. PICK subs : subs = server[c].subs \cup {Len(scn[c].channels) + 1}
  OBVIOUS
<1>4. 0 \notin subs
  <2>1. Len(scn[c].channels) + 1 # 0
    BY <1>2
  <2>. QED  BY <1>3, <2>1 DEF Aimed
<1>5. /\ server'[c].online = server[c].online
      /\ server'[c].pending = server[c].pending
      /\ server'[c].last = server[c].last /\ server'[c].subs = subs
  <2>1. server'[c] = [server[c] EXCEPT !.subs = subs]
    BY <1>2, <1>3 DEF ServerRegisters
  <2>. QED  BY <1>2, <2>1 DEF AgentSet
<1>6. PICK frames : frames = Append(down[c], Frame("register", NoNotif))
  OBVIOUS
<1>7. down'[c] = frames
  BY <1>2, <1>6 DEF ServerRegisters
<1>8. /\ Told(frames) = Told(down[c]) /\ Distinct(frames)
      /\ \A k \in DOMAIN frames : frames[k].type # "stranger"
  BY <1>6, ReplyingTraces
<1>9. ~At(c, "hello")
  BY <1>1 DEF At
<1>10. Pending(c)' \subseteq Pending(c) /\ Unlike(server'[c].pending)
  BY <1>5 DEF Pending, Numbered
<1>11. post[c].code # "none" => post'[c].code # "none"
  BY <1>1
<1>. QED
  BY <1>1, <1>4, <1>5, <1>7, <1>8, <1>9, <1>10, <1>11, ServingTraces

\* What is left of what the server holds, and of the channels it knows.
LEMMA Unregistering ==
    ASSUME Inv, NEW c \in Clients, ServerUnregisters(c),
           Unlike(server[c].pending)
    PROVE  LET ch == IF Instr(c).arg = "each" THEN scn[c].channels[scn[c].i]
                     ELSE scn[c].channels[Len(scn[c].channels)] IN
           /\ Pending(c)' = {n \in Pending(c) : n.channel # ch}
           /\ server'[c].subs = server[c].subs \ {ch}
           /\ Unlike(server'[c].pending)
           /\ server'[c].last = server[c].last
           /\ server'[c].online = server[c].online
<1>1. /\ server \in [Clients -> AgentSet] /\ server[c] \in AgentSet
      /\ server[c].pending \in Seq(Notifs)
  BY Types DEF Inv, AgentSet
<1>2. PICK ch : ch = IF Instr(c).arg = "each"
                     THEN scn[c].channels[scn[c].i]
                     ELSE scn[c].channels[Len(scn[c].channels)]
  OBVIOUS
<1>3. PICK left : left = {n \in Elements(server[c].pending) : n.channel # ch}
  OBVIOUS
<1>4. PICK kept : kept = Kept(server[c].pending, left)
  OBVIOUS
<1>5. kept \in Seq(Notifs) /\ Elements(kept) = left /\ Unlike(kept)
  <2>1. kept \in Seq(Notifs \cap left)
    BY <1>1, <1>4, KeptIsASequence
  <2>2. Elements(kept) = Elements(server[c].pending) \cap left
    BY <1>1, <1>4, KeptElements
  <2>3. Unlike(kept)
    BY <1>1, <1>4, UnlikeKept
  <2>. QED  BY <1>3, <2>1, <2>2, <2>3
<1>6. PICK subs : subs = server[c].subs \ {ch}
  OBVIOUS
<1>7. PICK a : a = [server[c] EXCEPT !.subs = subs, !.pending = kept]
  OBVIOUS
<1>8. /\ a.subs = subs /\ a.pending = kept
      /\ a.last = server[c].last /\ a.online = server[c].online
  BY <1>1, <1>7 DEF AgentSet
<1>9. server'[c] = a
  BY <1>1, <1>2, <1>3, <1>4, <1>6, <1>7 DEF ServerUnregisters
<1>10. Pending(c)' = {n \in Pending(c) : n.channel # ch}
  BY <1>3, <1>5, <1>8, <1>9 DEF Pending
<1>. QED  BY <1>2, <1>5, <1>6, <1>8, <1>9, <1>10

LEMMA UnregisteringTraces ==
    ASSUME Inv, NEW c \in Clients, ServerAnswers(c), Whereabouts(c),
           up[c] = "unregister", ServerUnregisters(c)
    PROVE  Whereabouts(c)'
<1>. Numbered(c) /\ Aimed(c)
  BY DEF Whereabouts
<1>1. /\ plan' = plan /\ scn' = scn /\ proc' = proc /\ post' = post
      /\ tally' = tally /\ Instr(c).op = "unregister"
  BY Requesting
<1>2. down \in [Clients -> Seq(FrameSet)]
  BY Types DEF Inv
<1>3. /\ Pending(c)' \subseteq Pending(c)
      /\ server'[c].subs \subseteq server[c].subs
      /\ Unlike(server'[c].pending)
      /\ server'[c].last = server[c].last
      /\ server'[c].online = server[c].online
  BY Unregistering DEF Numbered
<1>4. 0 \notin server'[c].subs
  BY <1>3 DEF Aimed
<1>5. PICK frames : frames = Append(down[c], Frame("unregister", NoNotif))
  OBVIOUS
<1>6. down'[c] = frames
  BY <1>2, <1>5 DEF ServerUnregisters
<1>7. /\ Told(frames) = Told(down[c]) /\ Distinct(frames)
      /\ \A k \in DOMAIN frames : frames[k].type # "stranger"
  BY <1>5, ReplyingTraces
<1>8. ~At(c, "hello")
  BY <1>1 DEF At
<1>9. post[c].code # "none" => post'[c].code # "none"
  BY <1>1
<1>. QED
  BY <1>1, <1>3, <1>4, <1>6, <1>7, <1>8, <1>9, ServingTraces

LEMMA ServerAnswersTraces ==
    ASSUME Inv, Inv', NEW c \in Clients, ServerAnswers(c), Whereabouts(c),
           "uaid" \notin mishaps'[c]
    PROVE  Whereabouts(c)'
<1>1. CASE up[c] = "hello" /\ ServerGreets(c)
  BY <1>1, GreetingTraces
<1>2. CASE up[c] = "register" /\ ServerRegisters(c)
  BY <1>2, RegisteringTraces
<1>3. CASE up[c] = "unregister" /\ ServerUnregisters(c)
  BY <1>3, UnregisteringTraces
<1>. QED  BY <1>1, <1>2, <1>3 DEF ServerAnswers

\* What the server holds when it keeps a notification that is new.
LEMMA KeepingNew ==
    ASSUME Inv, NEW c \in Clients, NEW n \in Notifs,
           Unlike(server[c].pending), \A m \in Pending(c) : m.id # n.id
    PROVE  /\ Unlike(Keeps(c, n))
           /\ n \in Elements(Keeps(c, n))
           /\ \A m \in Elements(Keeps(c, n)) : m \in Pending(c) \/ m = n
           /\ (n.data \notin Topics \/ server[c].online) =>
                 Elements(Keeps(c, n)) = Pending(c) \cup {n}
           /\ (/\ n.data \in Topics /\ ~server[c].online
               /\ \A m \in Pending(c) : m.data \in Topics) =>
                 Elements(Keeps(c, n)) = {n}
<1>1. PICK ns \in Seq(Notifs) : ns = server[c].pending
  BY Typed DEF AgentSet
<1>2. PICK others : others = {m \in Elements(ns) : m.data \notin Topics}
  OBVIOUS
<1>3. PICK kept : kept = Kept(ns, others)
  OBVIOUS
<1>4. /\ kept \in Seq(Notifs) /\ Elements(kept) = others /\ Unlike(kept)
  <2>1. kept \in Seq(Notifs \cap others)
    BY <1>3, KeptIsASequence
  <2>2. Elements(kept) = Elements(ns) \cap others
    BY <1>3, KeptElements
  <2>3. Unlike(kept)
    BY <1>1, <1>3, UnlikeKept
  <2>. QED  BY <1>2, <2>1, <2>2, <2>3
<1>5. /\ Elements(ns) = Pending(c) /\ Unlike(ns)
      /\ \A m \in Elements(ns) : m.id # n.id
  BY <1>1 DEF Pending
<1>6. CASE n.data \in Topics /\ ~server[c].online
  <2>1. Keeps(c, n) = Append(kept, n)
    BY <1>1, <1>2, <1>3, <1>6, Zenon DEF Keeps
  <2>2. Elements(Append(kept, n)) = others \cup {n}
    BY <1>4, ElementsAppended
  <2>3. Unlike(Append(kept, n))
    BY <1>2, <1>4, <1>5, UnlikeAppend
  <2>. QED  BY <1>2, <1>5, <1>6, <2>1, <2>2, <2>3
<1>7. CASE ~(n.data \in Topics /\ ~server[c].online)
  <2>1. Keeps(c, n) = Append(ns, n)
    BY <1>1, <1>7, Zenon DEF Keeps
  <2>2. Elements(Append(ns, n)) = Elements(ns) \cup {n}
    BY ElementsAppended
  <2>3. Unlike(Append(ns, n))
    BY <1>5, UnlikeAppend
  <2>. QED  BY <1>5, <1>7, <2>1, <2>2, <2>3
<1>. QED  BY <1>6, <1>7

\* A POST that is answered with 201, and the notification that comes of it.
LEMMA Created201 ==
    ASSUME Inv, NEW c \in Clients, PostTaken(c), Aimed(c), Code(c) = "201"
    PROVE  \E n \in Notifs :
              /\ n = Notification(server[c].last + 1, post[c].channel,
                                  post[c].data)
              /\ n.id = server[c].last + 1 /\ n.id \in Nat
              /\ n.channel = Len(scn[c].channels)
              /\ n.channel \in DOMAIN scn[c].channels
              /\ n.channel \in server[c].subs
              /\ n.data = Instr(c).arg /\ n.data \in Subjects(plan.kind)
              /\ n.data \notin Bad
              /\ server'[c].last = n.id /\ server'[c].pending = Keeps(c, n)
              /\ server'[c].subs = server[c].subs
              /\ server'[c].online = server[c].online
              /\ server[c].online =>
                    down'[c] = Append(down[c], Frame("notification", n))
              /\ ~server[c].online => down'[c] = down[c]
<1>1. /\ Running(c) /\ proc[c].waits = "send" /\ post[c].code = "none"
      /\ ~Returns(c) /\ Instr(c).op = "send"
  BY Waiting DEF PostTaken, Awaits
<1>2. /\ server \in [Clients -> AgentSet] /\ server[c] \in AgentSet
      /\ down \in [Clients -> Seq(FrameSet)] /\ post[c] \in PostSet
      /\ scn[c] \in ScenarioSet
  BY Types DEF Inv
<1>3. PICK id : id = server[c].last + 1
  OBVIOUS
<1>4. PICK n : n = Notification(id, post[c].channel, post[c].data)
  OBVIOUS
<1>5. /\ id \in Nat /\ n \in Notifs /\ n.id = id /\ n.channel = post[c].channel
      /\ n.data = post[c].data /\ n.data \in Payloads
  <2>1. id \in Nat
    BY <1>2, <1>3 DEF AgentSet
  <2>. QED  BY <1>2, <1>4, <2>1 DEF Notification, Notifs, PostSet
<1>6. /\ n.channel = Target(c) /\ n.data = Instr(c).arg
      /\ n.channel \in server[c].subs
  <2>1. post[c].channel = Target(c) /\ post[c].data = Instr(c).arg
    BY <1>1 DEF Aimed
  <2>2. post[c].channel \in server[c].subs
    BY DEF Code
  <2>. QED  BY <1>5, <2>1, <2>2
<1>7. n.data # "no_endpoint" /\ n.data # "bad_token"
  <2>1. n.data # "no_endpoint"
    BY <1>5 DEF Payloads
  <2>2. n.channel # 0
    BY <1>6 DEF Aimed
  <2>. QED  BY <1>6, <2>1, <2>2 DEF Target
<1>8. /\ n.channel = Len(scn[c].channels)
      /\ n.channel \in DOMAIN scn[c].channels
  <2>1. scn[c].pc \in Registered[plan.kind]
    BY <1>1, <1>6, <1>7, TheInstruction DEF Allowed
  <2>2. scn[c].channels # <<>>
    BY <1>1, <2>1 DEF Inv, ClientInv, InPlace
  <2>3. PICK chs \in Seq(Nat) : chs = scn[c].channels
    BY <1>2 DEF ScenarioSet
  <2>4. Len(chs) \in DOMAIN chs
    BY <2>2, <2>3
  <2>5. n.channel = chs[Len(chs)]
    BY <1>6, <1>7, <2>3 DEF Target
  <2>6. chs[Len(chs)] = Len(chs)
    BY <2>3, <2>4 DEF Aimed
  <2>. QED  BY <2>3, <2>4, <2>5, <2>6
<1>9. n.data \in Subjects(plan.kind)
  BY <1>1, <1>6, <1>7, TheCarrying DEF Timely
<1>10. /\ server' = [server EXCEPT ![c].last = id, ![c].pending = Keeps(c, n)]
       /\ down' = IF server[c].online
                  THEN [down EXCEPT ![c] = Append(@, Frame("notification", n))]
                  ELSE down
  BY <1>3, <1>4, <1>5 DEF PostTaken
<1>11. /\ server'[c].last = id /\ server'[c].pending = Keeps(c, n)
       /\ server'[c].subs = server[c].subs
       /\ server'[c].online = server[c].online
  <2>1. PICK pending : pending = Keeps(c, n)
    OBVIOUS
  <2>2. server'[c] = [server[c] EXCEPT !.last = id, !.pending = pending]
    BY <1>2, <1>10, <2>1
  <2>. QED  BY <1>2, <2>1, <2>2 DEF AgentSet
<1>12. /\ server[c].online =>
             down'[c] = Append(down[c], Frame("notification", n))
       /\ ~server[c].online => down'[c] = down[c]
  BY <1>2, <1>10
<1>. QED
  BY <1>3, <1>4, <1>5, <1>6, <1>7, <1>8, <1>9, <1>11, <1>12 DEF Bad

LEMMA PostTakenTraces ==
    ASSUME Inv, Inv', NEW c \in Clients, PostTaken(c), Whereabouts(c)
    PROVE  Whereabouts(c)'
<1>. Numbered(c) /\ Aimed(c) /\ Online(c) /\ Reaches(c) /\ Clears(c)
  BY DEF Whereabouts
<1>1. /\ Running(c) /\ proc[c].waits = "send" /\ post[c].code = "none"
      /\ ~Returns(c) /\ Instr(c).op = "send"
      /\ plan' = plan /\ scn' = scn /\ proc' = proc /\ tally' = tally
  BY Waiting DEF PostTaken, Awaits, Shared
<1>2. /\ post'[c].channel = post[c].channel /\ post'[c].data = post[c].data
      /\ post'[c].code = Code(c) /\ Code(c) # "none"
  <2>1. PICK code : code = Code(c)
    OBVIOUS
  <2>2. post \in [Clients -> PostSet] /\ post[c] \in PostSet
    BY Types DEF Inv
  <2>3. post'[c] = [post[c] EXCEPT !.code = code]
    BY <2>1, <2>2 DEF PostTaken
  <2>4. code # "none"
    BY <1>1, <2>1, Coding
  <2>. QED  BY <2>1, <2>2, <2>3, <2>4 DEF PostSet
<1>3. ~At(c, "hello") /\ At(c, "send")
  BY <1>1 DEF At
<1>4. CASE Code(c) # "201"
  <2>1. server' = server /\ down' = down
    BY <1>4 DEF PostTaken
  <2>2. /\ server'[c].online = server[c].online
        /\ server'[c].last = server[c].last /\ 0 \notin server'[c].subs
        /\ Pending(c)' \subseteq Pending(c) /\ Unlike(server'[c].pending)
        /\ Told(down'[c]) = Told(down[c]) /\ Distinct(down'[c])
        /\ \A k \in DOMAIN down'[c] : down'[c][k].type # "stranger"
    BY <2>1 DEF Pending, Numbered, Apart, Aimed, Online
  <2>3. post[c].code # "none" => post'[c].code # "none"
    BY <1>1
  <2>. QED  BY <1>1, <1>2, <1>3, <2>2, <2>3, ServingTraces
<1>5. CASE Code(c) = "201"
  <2>1. PICK n \in Notifs :
            /\ n.id = server[c].last + 1 /\ n.id \in Nat
            /\ n.channel = Len(scn[c].channels)
            /\ n.channel \in DOMAIN scn[c].channels
            /\ n.data = Instr(c).arg /\ n.data \in Subjects(plan.kind)
            /\ n.data \notin Bad
            /\ server'[c].last = n.id /\ server'[c].pending = Keeps(c, n)
            /\ server'[c].subs = server[c].subs
            /\ server'[c].online = server[c].online
            /\ server[c].online =>
                  down'[c] = Append(down[c], Frame("notification", n))
            /\ ~server[c].online => down'[c] = down[c]
    BY <1>5, Created201
  <2>2. /\ server[c].last \in Nat /\ down[c] \in Seq(FrameSet)
    BY Typed DEF AgentSet
  <2>3. /\ \A m \in Pending(c) \cup Afloat(c) :
              m.id \in Nat /\ m.id < n.id /\ m.id # n.id
        /\ \A id \in Seen(c) : id =< n.id /\ id # n.id
    <3>1. ASSUME NEW m \in Pending(c) \cup Afloat(c)
          PROVE  m.id \in Nat /\ m.id < n.id /\ m.id # n.id
      <4>1. m.id \in Nat /\ m.id =< server[c].last
        BY RealOnes DEF Numbered
      <4>. QED  BY <2>1, <2>2, <4>1
    <3>2. ASSUME NEW id \in Seen(c) PROVE id =< n.id /\ id # n.id
      <4>1. id =< server[c].last
        BY DEF Numbered
      <4>2. id \in Nat
        <5>1. tally[c].seen \in Seq(Nat)
          BY Typed DEF TallySet
        <5>. QED  BY <5>1, ElementsOf DEF Seen
      <4>3. PICK l \in Nat : l = server[c].last
        BY <2>2
      <4>4. PICK m \in Nat : m = n.id
        BY <2>1
      <4>5. id =< l /\ m = l + 1
        BY <2>1, <4>1, <4>3, <4>4
      <4>6. id =< m /\ id # m
        BY <4>2, <4>5
      <4>. QED  BY <4>4, <4>6
    <3>. QED  BY <3>1, <3>2
  <2>4. /\ scn[c].pc \notin Vacancies[plan.kind]
        /\ scn[c].pc \notin Due[plan.kind]
        /\ plan.kind = "basic_topic" => scn[c].pc \notin Linked[plan.kind]
    BY <1>1, <2>1, TheCarrying DEF Timely
  <2>5. scn[c].ids = <<>>
    BY <1>1 DEF Clears, At
  <2>6. Unposted(c) /\ ~Unposted(c)'
    <3>1. Unposted(c)
      BY <1>1, <1>3 DEF Unposted
    <3>2. ~Unposted(c)'
      BY <1>1, <1>2 DEF Unposted
    <3>. QED  BY <3>1, <3>2
  <2>7. /\ Unlike(server'[c].pending)
        /\ n \in Pending(c)'
        /\ \A m \in Pending(c)' : m \in Pending(c) \/ m = n
        /\ (/\ n.data \in Topics /\ ~server[c].online
            /\ \A m \in Pending(c) : m.data \in Topics) =>
              Pending(c)' = {n}
    <3>1. Unlike(server[c].pending) /\ \A m \in Pending(c) : m.id # n.id
      BY <2>3 DEF Numbered
    <3>. QED  BY <2>1, <3>1, KeepingNew DEF Pending
  <2>8. /\ Told(down'[c]) = Told(down[c]) \cup
              (IF server[c].online THEN {n} ELSE {})
        /\ Distinct(down'[c])
        /\ \A k \in DOMAIN down'[c] : down'[c][k].type # "stranger"
    <3>1. Distinct(down[c]) /\ "stranger" \notin Sorts(down[c])
      BY DEF Numbered, Apart, Online, Sorts
    <3>2. \A m \in Told(down[c]) : m.id # n.id
      BY <2>3 DEF Afloat
    <3>3. CASE server[c].online
      <4>1. PICK x : x = Frame("notification", n)
        OBVIOUS
      <4>2. x \in FrameSet /\ ~Replies(x) /\ x.notif = n /\ x.type # "stranger"
        BY <2>1, <4>1 DEF Frame, FrameSet, Replies
      <4>3. PICK old \in Seq(FrameSet) : old = down[c]
        BY <2>2
      <4>4. PICK frames : frames = Append(old, x)
        OBVIOUS
      <4>5. /\ Told(frames) = Told(old) \cup (IF Replies(x) THEN {} ELSE {x.notif})
            /\ (/\ Distinct(old)
                /\ ~Replies(x) => \A m \in Told(old) : m.id # x.notif.id)
                   => Distinct(frames)
            /\ Sorts(frames) = Sorts(old) \cup {x.type}
        BY <4>2, <4>4, ToldAppend
      <4>6. down'[c] = frames
        BY <2>1, <3>3, <4>1, <4>3, <4>4
      <4>7. Told(down'[c]) = Told(down[c]) \cup {n}
        BY <4>2, <4>3, <4>5, <4>6
      <4>8. Distinct(frames)
        <5>1. Distinct(old) /\ \A m \in Told(old) : m.id # n.id
          BY <3>1, <3>2, <4>3
        <5>. QED  BY <4>2, <4>5, <5>1
      <4>9. "stranger" \notin Sorts(frames)
        BY <3>1, <4>2, <4>3, <4>5
      <4>10. "stranger" \notin Sorts(down'[c])
        BY <4>6, <4>9
      <4>11. \A k \in DOMAIN down'[c] : down'[c][k].type # "stranger"
        BY <4>10 DEF Sorts
      <4>. QED  BY <3>3, <4>6, <4>7, <4>8, <4>11
    <3>4. CASE ~server[c].online
      BY <2>1, <3>1, <3>4 DEF Sorts
    <3>. QED  BY <3>3, <3>4
  <2>9. /\ Afloat(c)' = Afloat(c) \cup (IF server[c].online THEN {n} ELSE {})
        /\ Seen(c)' = Seen(c)
    BY <1>1, <2>8 DEF Afloat, Seen
  <2>10. plan.kind \notin Several => Afloat(c) = {} /\ Pending(c)' = {n}
    <3>1. CASE plan.kind \notin Several \cup {"basic_topic"}
      BY <2>6, <2>7, <3>1 DEF Clears, Vacant
    <3>2. CASE plan.kind = "basic_topic"
      <4>1. ~proc[c].connected
        BY <1>1, <2>4, <3>2 DEF Inv, ClientInv, InStep
      <4>2. ~server[c].online
        BY <4>1 DEF Online
      <4>3. Afloat(c) = {}
        BY <3>2, <4>2 DEF Reaches
      <4>4. Subjects(plan.kind) = Topics
        BY <3>2 DEF Subjects
      <4>5. \A m \in Pending(c) : m.data \in Topics
        BY <4>4 DEF Aimed
      <4>. QED  BY <2>1, <2>7, <4>2, <4>3, <4>4, <4>5
    <3>. QED  BY <3>1, <3>2
  <2>11. Numbered(c)'
    <3>1. Apart(proc'[c].inbox, down'[c])
      <4>1. \A l \in Elements(proc[c].inbox) : l.id # n.id
        BY <2>3 DEF Afloat
      <4>. QED  BY <1>1, <2>8, <4>1 DEF Numbered, Apart
    <3>2. ASSUME NEW m \in Pending(c)' \cup Afloat(c)'
          PROVE  /\ m.id =< n.id
                 /\ plan.kind \notin Several => m.id = n.id
      <4>1. m = n \/ m \in Pending(c) \cup Afloat(c)
        BY <2>7, <2>9
      <4>2. m.id =< n.id
        BY <2>1, <2>3, <4>1
      <4>3. plan.kind \notin Several => m = n
        BY <2>9, <2>10
      <4>. QED  BY <4>2, <4>3
    <3>3. \A id \in Seen(c)' : id =< n.id
      BY <2>3, <2>9
    <3>. QED  BY <1>1, <2>1, <2>7, <3>1, <3>2, <3>3 DEF Numbered
  <2>12. /\ Instr(c)' = Instr(c) /\ Returns(c)' = Returns(c)
         /\ Target(c)' = Target(c) /\ \A op : At(c, op)' = At(c, op)
    BY <1>1 DEF Instr, Returns, Running, Target, At
  <2>13. Aimed(c)'
    <3>1. ASSUME NEW m \in Pending(c)' \cup Afloat(c)'
          PROVE  /\ m.channel \in DOMAIN scn[c].channels
                 /\ plan.kind # "_expect_notifications" =>
                       m.channel = Len(scn[c].channels)
                 /\ m.data \in Subjects(plan.kind)
      <4>1. m = n \/ m \in Pending(c) \cup Afloat(c)
        BY <2>7, <2>9
      <4>. QED  BY <2>1, <4>1 DEF Aimed
    <3>. QED  BY <1>1, <1>2, <2>1, <2>12, <3>1 DEF Aimed
  <2>14. Online(c)'
    BY <1>1, <1>3, <2>1, <2>8, <2>12 DEF Online
  <2>15. Owed(c)' = Owed(c)
    BY <1>1 DEF Owed
  <2>16. Reaches(c)'
    <3>1. (~server'[c].online /\ plan'.kind # "_expect_notifications") =>
             Afloat(c)' = {}
      BY <1>1, <2>1, <2>9 DEF Reaches
    <3>2. server'[c].online =>
             \A m \in Pending(c)' : m \in Afloat(c)' \/ m.id \in Owed(c)'
      BY <2>1, <2>7, <2>9, <2>15 DEF Reaches
    <3>3. plan'.kind # "notification_forever_direct_store" =>
             /\ \A m \in Pending(c)' : m.id \in Seen(c)' => m.id \in Owed(c)'
             /\ \A m \in Afloat(c)' : m.id \notin Seen(c)'
      BY <1>1, <2>3, <2>7, <2>9, <2>15 DEF Reaches
    <3>. QED  BY <3>1, <3>2, <3>3 DEF Reaches
  <2>17. Clears(c)'
    <3>1. ~At(c, "ack_ids")'
      BY <1>1, <2>12 DEF At
    <3>. QED  BY <1>1, <2>4, <2>5, <2>6, <3>1 DEF Clears
  <2>. QED  BY <2>11, <2>13, <2>14, <2>16, <2>17 DEF Whereabouts
<1>. QED  BY <1>4, <1>5

-----------------------------------------------------------------------------
(* A step is one scenario's own, and what went wrong stays known.          *)

Alone(c) ==
    /\ plan' = plan /\ Running(c) /\ mishaps[c] \subseteq mishaps'[c]
    /\ \A d \in Clients \ {c} : Stays(d)

LEMMA Domains ==
    ASSUME Inv
    PROVE  /\ DOMAIN scn = Clients /\ DOMAIN proc = Clients
           /\ DOMAIN server = Clients /\ DOMAIN up = Clients
           /\ DOMAIN down = Clients /\ DOMAIN post = Clients
           /\ DOMAIN mishaps = Clients /\ DOMAIN tally = Clients
           /\ scn = [d \in Clients |-> scn[d]]
           /\ proc = [d \in Clients |-> proc[d]]
           /\ server = [d \in Clients |-> server[d]]
           /\ up = [d \in Clients |-> up[d]]
           /\ down = [d \in Clients |-> down[d]]
           /\ post = [d \in Clients |-> post[d]]
           /\ mishaps = [d \in Clients |-> mishaps[d]]
           /\ tally = [d \in Clients |-> tally[d]]
<1>1. /\ scn \in [Clients -> ScenarioSet] /\ proc \in [Clients -> ProcessorSet]
      /\ server \in [Clients -> AgentSet]
      /\ up \in [Clients -> Requests \cup {"none"}]
      /\ down \in [Clients -> Seq(FrameSet)] /\ post \in [Clients -> PostSet]
      /\ mishaps \in [Clients -> SUBSET (FaultKinds \cup {"refused"})]
      /\ tally \in [Clients -> TallySet]
  BY Types DEF Inv
<1>. QED  BY <1>1

LEMMA RaisingAlone ==
    ASSUME Inv, NEW c \in Clients, NEW p, Raise(c, p)
    PROVE  \A d \in Clients \ {c} : scn'[d] = scn[d] /\ proc'[d] = proc[d]
BY Domains DEF Raise

LEMMA RefusedAlone ==
    ASSUME Inv, NEW c \in Clients, Running(c), Refused(c), plan' = plan
    PROVE  Alone(c)
<1>1. \A d \in Clients \ {c} : scn'[d] = scn[d] /\ proc'[d] = proc[d]
  BY RaisingAlone DEF Refused
<1>2. \A d \in Clients \ {c} :
         up'[d] = up[d] /\ down'[d] = down[d] /\ server'[d] = server[d]
  BY Domains DEF Refused, Unconnected
<1>3. /\ mishaps[c] \subseteq mishaps'[c]
      /\ \A d \in Clients \ {c} : mishaps'[d] = mishaps[d]
  BY Domains DEF Refused
<1>4. post' = post /\ tally' = tally
  BY DEF Refused
<1>. QED  BY <1>1, <1>2, <1>3, <1>4 DEF Alone, Stays

LEMMA ScenarioAlone ==
    ASSUME Inv, NEW c \in Clients, Scenario(c)
    PROVE  Alone(c)
<1>1. ASSUME Refused(c), Running(c), plan' = plan PROVE Alone(c)
  BY <1>1, RefusedAlone
<1>2. ASSUME NEW s, Continue(c, s)
      PROVE  \A d \in Clients \ {c} : scn'[d] = scn[d]
  BY <1>2, Domains DEF Continue
<1>3. ASSUME Asks(c) PROVE \A d \in Clients \ {c} : proc'[d] = proc[d]
  BY <1>3, Domains DEF Asks
<1>4. ASSUME NEW ids, Acknowledged(c, ids)
      PROVE  \A d \in Clients \ {c} : server'[d] = server[d]
  BY <1>4, Domains DEF Acknowledged
<1>5. ASSUME NEW n, Saw(c, n)
      PROVE  \A d \in Clients \ {c} : tally'[d] = tally[d]
  BY <1>5, Domains DEF Saw
<1>6. ASSUME NEW signed, Posts(c, signed)
      PROVE  \A d \in Clients \ {c} : post'[d] = post[d]
  BY <1>6, Domains DEF Posts
<1>7. Running(c)
  BY DEF Scenario, RunConnect, RunDisconnect, RunRequest, RunSendNotification,
         RunExpect, RunWait, RunAck, RunTimer, RunCounter, RunCollect,
         RunAckIds, RunCheck, RunBranch, Return, Runs, Turn
<1>8. CASE RunConnect(c) \/ RunDisconnect(c) \/ RunRequest(c) \/ RunWait(c)
  <2>1. plan' = plan
    BY <1>8 DEF RunConnect, RunDisconnect, RunRequest, RunWait, Shared
  <2>2. CASE Refused(c)  BY <1>1, <1>7, <2>1, <2>2
  <2>3. CASE ~Refused(c)
    <3>1. /\ Asks(c) /\ scn' = scn /\ server' = server /\ down' = down
          /\ post' = post /\ mishaps' = mishaps /\ tally' = tally
          /\ up' = up \/ up' = [up EXCEPT ![c] = Instr(c).op]
      BY <1>8, <2>3 DEF RunConnect, RunDisconnect, RunRequest, RunWait, Outside,
                        network
    <3>2. \A d \in Clients \ {c} : up'[d] = up[d]
      BY <3>1, Domains
    <3>. QED  BY <1>3, <1>7, <2>1, <3>1, <3>2 DEF Alone, Stays
  <2>. QED  BY <2>2, <2>3
<1>9. CASE RunSendNotification(c)
  <2>1. /\ plan' = plan /\ server' = server /\ up' = up /\ down' = down
        /\ mishaps' = mishaps
    BY <1>9 DEF RunSendNotification
  <2>2. CASE Instr(c).arg = "no_endpoint"
    <3>1. /\ \E s : Continue(c, s)
          /\ tally' = [tally EXCEPT ![c].posted = @ + 1]
          /\ proc' = proc /\ post' = post
      BY <1>9, <2>2 DEF RunSendNotification
    <3>2. \A d \in Clients \ {c} : tally'[d] = tally[d]
      BY <3>1, Domains
    <3>. QED  BY <1>2, <1>7, <2>1, <3>1, <3>2 DEF Alone, Stays
  <2>3. CASE Instr(c).arg # "no_endpoint"
    <3>1. Asks(c) /\ scn' = scn /\ tally' = tally /\ SignAndPost(c)
      BY <1>9, <2>3 DEF RunSendNotification
    <3>2. plan.claims \in {"none", "text", "dict"}
      BY ThePlan
    <3>3. \E signed : Posts(c, signed)
      BY <3>1, <3>2 DEF SignAndPost
    <3>. QED  BY <1>3, <1>6, <1>7, <2>1, <3>1, <3>3 DEF Alone, Stays
  <2>. QED  BY <2>2, <2>3
<1>10. CASE RunExpect(c)
  <2>1. /\ plan' = plan /\ server' = server /\ up' = up /\ down' = down
        /\ post' = post /\ mishaps' = mishaps
    BY <1>10 DEF RunExpect, Shared, Outside, network
  <2>2. \/ /\ \E n : GivenNotif(c, n) /\ Saw(c, n)
           /\ \E inbox : proc' = [proc EXCEPT ![c].inbox = inbox]
        \/ Asks(c) /\ scn' = scn /\ tally' = tally
    BY <1>10, Zenon DEF RunExpect
  <2>3. \A d \in Clients \ {c} :
           scn'[d] = scn[d] /\ proc'[d] = proc[d] /\ tally'[d] = tally[d]
    BY <1>2, <1>3, <1>5, <2>2, Domains DEF GivenNotif
  <2>. QED  BY <1>7, <2>1, <2>3 DEF Alone, Stays
<1>11. CASE RunAck(c)
  <2>1. plan' = plan
    BY <1>11 DEF RunAck, Shared
  <2>2. CASE Refused(c)  BY <1>1, <1>7, <2>1, <2>2
  <2>3. CASE scn[c].notif = NoNotif
    <3>1. /\ Raise(c, proc[c]) /\ server' = server /\ up' = up /\ down' = down
          /\ post' = post /\ mishaps' = mishaps /\ tally' = tally
      BY <1>11, <2>3 DEF RunAck
    <3>. QED  BY <1>7, <2>1, <3>1, RaisingAlone DEF Alone, Stays
  <2>4. CASE scn[c].notif # NoNotif /\ ~Refused(c)
    <3>1. /\ Acknowledged(c, {scn[c].notif.id}) /\ Continue(c, scn[c])
          /\ proc' = proc /\ up' = up /\ down' = down /\ post' = post
          /\ mishaps' = mishaps /\ tally' = tally
      BY <1>11, <2>4 DEF RunAck, network
    <3>. QED  BY <1>2, <1>4, <1>7, <2>1, <3>1 DEF Alone, Stays
  <2>. QED  BY <2>2, <2>3, <2>4
<1>12. CASE RunTimer(c)
  <2>1. plan' = plan
    BY <1>12 DEF RunTimer, Shared
  <2>2. CASE Refused(c)  BY <1>1, <1>7, <2>1, <2>2
  <2>3. CASE ~Refused(c)
    <3>1. /\ \E starts : proc' = [proc EXCEPT ![c].timing = starts]
          /\ Continue(c, scn[c]) /\ server' = server /\ up' = up
          /\ down' = down /\ post' = post /\ mishaps' = mishaps
          /\ tally' = tally
      BY <1>12, <2>3, Zenon DEF RunTimer, Outside, network
    <3>2. \A d \in Clients \ {c} : proc'[d] = proc[d]
      BY <3>1, Domains
    <3>. QED  BY <1>2, <1>7, <2>1, <3>1, <3>2 DEF Alone, Stays
  <2>. QED  BY <2>2, <2>3
<1>13. CASE RunCounter(c) \/ RunCollect(c)
  <2>1. /\ plan' = plan /\ proc' = proc /\ server' = server /\ up' = up
        /\ down' = down /\ post' = post /\ mishaps' = mishaps
        /\ \E s : Continue(c, s)
    BY <1>13 DEF RunCounter, RunCollect, Shared, Outside, network
  <2>2. \A d \in Clients \ {c} : tally'[d] = tally[d]
    BY <1>13, Domains DEF RunCounter, RunCollect
  <2>. QED  BY <1>2, <1>7, <2>1, <2>2 DEF Alone, Stays
<1>14. CASE RunAckIds(c)
  <2>1. /\ plan' = plan /\ proc' = proc /\ up' = up
        /\ down' = down /\ post' = post /\ mishaps' = mishaps /\ tally' = tally
        /\ \E s : scn' = [scn EXCEPT ![c] = s]
        /\ server' = server \/ \E ids : Acknowledged(c, ids)
    BY <1>14, AckingIds DEF AcksIds, Continue, Shared, network
  <2>2. \A d \in Clients \ {c} : scn'[d] = scn[d] /\ server'[d] = server[d]
    BY <1>4, <2>1, Domains
  <2>. QED  BY <1>7, <2>1, <2>2 DEF Alone, Stays
<1>15. CASE RunCheck(c)
  <2>1. /\ plan' = plan /\ server' = server /\ up' = up
        /\ down' = down /\ post' = post /\ mishaps' = mishaps /\ tally' = tally
        /\ \/ Continue(c, scn[c]) /\ proc' = proc
           \/ Raise(c, proc[c])
    BY <1>15 DEF RunCheck, Shared, Outside, network
  <2>2. \A d \in Clients \ {c} : scn'[d] = scn[d] /\ proc'[d] = proc[d]
    BY <1>2, <2>1, RaisingAlone
  <2>. QED  BY <1>7, <2>1, <2>2 DEF Alone, Stays
<1>16. CASE RunBranch(c) \/ Return(c)
  <2>1. /\ plan' = plan /\ proc' = proc /\ server' = server /\ up' = up
        /\ down' = down /\ post' = post /\ mishaps' = mishaps /\ tally' = tally
    BY <1>16 DEF RunBranch, Return, Shared, Outside, network
  <2>2. \A d \in Clients \ {c} : scn'[d] = scn[d]
    BY <1>16, Domains DEF RunBranch, Return
  <2>. QED  BY <1>7, <2>1, <2>2 DEF Alone, Stays
<1>. QED
  BY <1>8, <1>9, <1>10, <1>11, <1>12, <1>13, <1>14, <1>15, <1>16 DEF Scenario

LEMMA AnswerAlone ==
    ASSUME Inv, NEW c \in Clients, Answer(c)
    PROVE  Alone(c)
<1>1. ASSUME NEW s, Answered(c, s)
      PROVE  \A d \in Clients \ {c} : scn'[d] = scn[d] /\ proc'[d] = proc[d]
  BY <1>1, Domains DEF Answered, Continue
<1>2. Running(c)
  BY DEF Answer, Opens, Closes, Arrives, TimesOut, WaitEnds, PostAnswered,
         PostFails, Awaits
<1>3. CASE Opens(c)
  <2>1. /\ plan' = plan /\ server' = server /\ up' = up /\ down' = down
        /\ post' = post /\ mishaps' = mishaps /\ tally' = tally
    BY <1>3 DEF Opens, Shared, Outside, network
  <2>2. \A d \in Clients \ {c} : scn'[d] = scn[d] /\ proc'[d] = proc[d]
    BY <1>3, Domains DEF Opens, Continue
  <2>. QED  BY <1>2, <2>1, <2>2 DEF Alone, Stays
<1>4. CASE Closes(c)
  <2>1. /\ plan' = plan /\ post' = post /\ mishaps' = mishaps
        /\ tally' = tally
    BY <1>4 DEF Closes, Shared
  <2>2. \A d \in Clients \ {c} :
           /\ scn'[d] = scn[d] /\ proc'[d] = proc[d] /\ up'[d] = up[d]
           /\ down'[d] = down[d] /\ server'[d] = server[d]
    BY <1>4, Domains DEF Closes, Continue, Unconnected
  <2>. QED  BY <1>2, <2>1, <2>2 DEF Alone, Stays
<1>5. CASE Arrives(c)
  <2>1. /\ plan' = plan /\ server' = server /\ up' = up
        /\ post' = post /\ mishaps' = mishaps
        /\ down' = [down EXCEPT ![c] = Tail(@)]
    BY <1>5 DEF Arrives, Shared
  <2>2. \/ \E s : Answered(c, s)
        \/ /\ scn' = scn
           /\ \E inbox : proc' = [proc EXCEPT ![c].inbox = inbox]
    BY <1>5 DEF Arrives
  <2>3. \A d \in Clients \ {c} : scn'[d] = scn[d] /\ proc'[d] = proc[d]
    BY <1>1, <2>2, Domains
  <2>4. tally' = tally \/ \E n : Saw(c, n)
    BY <1>5 DEF Arrives
  <2>5. \A d \in Clients \ {c} : tally'[d] = tally[d] /\ down'[d] = down[d]
    BY <2>1, <2>4, Domains DEF Saw
  <2>. QED  BY <1>2, <2>1, <2>3, <2>5 DEF Alone, Stays
<1>6. CASE TimesOut(c)
  <2>1. /\ plan' = plan /\ server' = server /\ up' = up /\ down' = down
        /\ post' = post /\ tally' = tally
        /\ \E s : Answered(c, s)
    BY <1>6 DEF TimesOut, Shared, network
  <2>2. /\ mishaps[c] \subseteq mishaps'[c]
        /\ \A d \in Clients \ {c} : mishaps'[d] = mishaps[d]
    BY <1>6, Domains DEF TimesOut
  <2>. QED  BY <1>1, <1>2, <2>1, <2>2 DEF Alone, Stays
<1>7. CASE WaitEnds(c)
  <2>1. /\ plan' = plan /\ server' = server /\ up' = up /\ down' = down
        /\ post' = post /\ mishaps' = mishaps /\ tally' = tally
        /\ \E s : Answered(c, s)
    BY <1>7 DEF WaitEnds, Shared, Outside, network
  <2>. QED  BY <1>1, <1>2, <2>1 DEF Alone, Stays
<1>8. CASE PostAnswered(c) \/ PostFails(c)
  <2>1. /\ plan' = plan /\ server' = server /\ up' = up /\ down' = down
        /\ \E response : Responds(c, response)
    BY <1>8 DEF PostAnswered, PostFails, Shared
  <2>2. \E s : Answered(c, s)
    BY <2>1 DEF Responds
  <2>3. \A d \in Clients \ {c} : post'[d] = post[d] /\ tally'[d] = tally[d]
    BY <2>1, Domains DEF Responds
  <2>4. /\ mishaps[c] \subseteq mishaps'[c]
        /\ \A d \in Clients \ {c} : mishaps'[d] = mishaps[d]
    BY <1>8, Domains DEF PostAnswered, PostFails
  <2>. QED  BY <1>1, <1>2, <2>1, <2>2, <2>3, <2>4 DEF Alone, Stays
<1>. QED  BY <1>3, <1>4, <1>5, <1>6, <1>7, <1>8 DEF Answer

LEMMA ServerAlone ==
    ASSUME Inv, NEW c \in Clients, Server(c) \/ Drops(c)
    PROVE  Alone(c)
<1>1. CASE ServerAnswers(c)
  <2>1. /\ Running(c) /\ plan' = plan /\ scn' = scn /\ proc' = proc
        /\ post' = post /\ tally' = tally /\ up' = [up EXCEPT ![c] = "none"]
        /\ \/ ServerGreets(c)
           \/ ServerRegisters(c) /\ mishaps' = mishaps
           \/ ServerUnregisters(c) /\ mishaps' = mishaps
    BY <1>1 DEF ServerAnswers, Shared
  <2>2. /\ \E agent : server' = [server EXCEPT ![c] = agent]
        /\ \E frames : down' = [down EXCEPT ![c] = frames]
    <3>1. CASE ServerGreets(c)  BY <3>1 DEF ServerGreets
    <3>2. CASE ServerRegisters(c)  BY <3>2 DEF ServerRegisters
    <3>3. CASE ServerUnregisters(c)  BY <3>3 DEF ServerUnregisters
    <3>. QED  BY <2>1, <3>1, <3>2, <3>3
  <2>3. mishaps' = mishaps \/ mishaps' = [mishaps EXCEPT ![c] = @ \cup {"uaid"}]
    BY <2>1 DEF ServerGreets
  <2>4. /\ mishaps[c] \subseteq mishaps'[c]
        /\ \A d \in Clients \ {c} : mishaps'[d] = mishaps[d]
    BY <2>3, Domains
  <2>5. \A d \in Clients \ {c} :
           up'[d] = up[d] /\ server'[d] = server[d] /\ down'[d] = down[d]
    BY <2>1, <2>2, Domains
  <2>. QED  BY <2>1, <2>4, <2>5 DEF Alone, Stays
<1>2. CASE PostTaken(c)
  <2>1. /\ Running(c) /\ plan' = plan /\ scn' = scn /\ proc' = proc
        /\ up' = up /\ mishaps' = mishaps /\ tally' = tally
        /\ \E code : post' = [post EXCEPT ![c].code = code]
    BY <1>2 DEF PostTaken, Awaits, Shared
  <2>2. /\ server' = server \/ \E agent : server' = [server EXCEPT ![c] = agent]
        /\ down' = down \/ \E frames : down' = [down EXCEPT ![c] = frames]
    BY <1>2 DEF PostTaken
  <2>3. \A d \in Clients \ {c} :
           post'[d] = post[d] /\ server'[d] = server[d] /\ down'[d] = down[d]
    BY <2>1, <2>2, Domains
  <2>. QED  BY <2>1, <2>3 DEF Alone, Stays
<1>3. CASE Drops(c)
  <2>1. /\ Running(c) /\ plan' = plan /\ post' = post /\ tally' = tally
        /\ \E p : Raise(c, p)
        /\ Unconnected(c)
        /\ mishaps' = [mishaps EXCEPT ![c] = @ \cup {"drop"}]
    BY <1>3 DEF Drops, Shared
  <2>2. \A d \in Clients \ {c} : scn'[d] = scn[d] /\ proc'[d] = proc[d]
    BY <2>1, RaisingAlone
  <2>3. /\ mishaps[c] \subseteq mishaps'[c]
        /\ \A d \in Clients \ {c} :
              /\ mishaps'[d] = mishaps[d] /\ up'[d] = up[d]
              /\ down'[d] = down[d] /\ server'[d] = server[d]
    BY <2>1, Domains DEF Unconnected
  <2>. QED  BY <2>1, <2>2, <2>3 DEF Alone, Stays
<1>. QED  BY <1>1, <1>2, <1>3 DEF Server

-----------------------------------------------------------------------------
(* The traces of all scenarios.                                            *)

\* A scenario that the server takes for a stranger does not start again.
LEMMA RaisingForGood ==
    ASSUME Inv, NEW c \in Clients, Running(c), ~Returns(c),
           NEW p \in ProcessorSet, Raise(c, p), Instr(c).op # "connect"
    PROVE  ~Running(c)'
<1>1. ASSUME Running(c)' PROVE FALSE
  <2>1. plan.kind = "_explode"
    BY <1>1, StartedAgain
  <2>. QED  BY <2>1, Exploding
<1>. QED  BY <1>1

\* It waits for the reply, which is the only one on its way.
LEMMA AStranger ==
    ASSUME Inv, NEW c \in Clients, NEW k \in DOMAIN down[c],
           down[c][k].type = "stranger"
    PROVE  /\ proc[c].waits = "hello" /\ up[c] = "none"
           /\ \A j \in DOMAIN down[c] : j # k => ~Replies(down[c][j])
<1>1. Replies(down[c][k]) /\ Request(down[c][k].type) = "hello"
  BY DEF Replies, Request
<1>2. InTouch(c)
  BY DEF Inv, ClientInv
<1>. QED  BY <1>1, <1>2 DEF InTouch

LEMMA StrangeFrameArrives ==
    ASSUME Inv, Inv', NEW c \in Clients, Arrives(c), Running(c)',
           Instr(c).arg = "again", proc[c].waits = "hello",
           NEW k \in DOMAIN down[c], down[c][k].type = "stranger"
    PROVE  \/ /\ proc'[c].waits = "hello" /\ Instr(c)'.arg = "again"
              /\ \E j \in DOMAIN down'[c] : down'[c][j].type = "stranger"
           \/ /\ At(c, "same_uaid")' /\ ~scn'[c].same
              /\ proc'[c].waits = "nothing"
<1>1. /\ Running(c) /\ down[c] # <<>> /\ down' = [down EXCEPT ![c] = Tail(@)]
      /\ plan' = plan
  BY DEF Arrives, Shared
<1>2. /\ down \in [Clients -> Seq(FrameSet)] /\ down[c] \in Seq(FrameSet)
      /\ proc \in [Clients -> ProcessorSet] /\ scn[c] \in ScenarioSet
  BY Types DEF Inv
<1>3. PICK old \in Seq(FrameSet) : old = down[c]
  BY <1>2
<1>4. PICK x : x = Head(old)
  OBVIOUS
<1>5. PICK rest : rest = Tail(old)
  OBVIOUS
<1>6. Sorts(old) = Sorts(rest) \cup {x.type}
  BY <1>1, <1>3, <1>4, <1>5, ToldTail
<1>7. "stranger" \in Sorts(old)
  BY <1>3 DEF Sorts
<1>8. down'[c] = rest
  BY <1>1, <1>2, <1>3, <1>5
<1>9. CASE x.type = "notification"
  <2>1. "stranger" \in Sorts(rest)
    BY <1>6, <1>7, <1>9
  <2>2. /\ scn' = scn
        /\ \E inbox : proc' = [proc EXCEPT ![c].inbox = inbox]
    BY <1>3, <1>4, <1>9 DEF Arrives
  <2>3. proc'[c].waits = "hello"
    BY <1>2, <2>2 DEF ProcessorSet
  <2>4. Instr(c)' = Instr(c)
    BY <1>1, <2>2 DEF Instr
  <2>. QED  BY <1>8, <2>1, <2>3, <2>4 DEF Sorts
<1>10. CASE x.type # "notification"
  <2>1. old[1] = x /\ 1 \in DOMAIN old
    BY <1>1, <1>3, <1>4
  <2>2. x.type = "stranger"
    <3>1. Replies(old[1])
      BY <1>10, <2>1 DEF Replies
    <3>2. k = 1
      BY <1>3, <2>1, <3>1, AStranger
    <3>. QED  BY <1>3, <2>1, <3>2
  <2>3. PICK s : s = [scn[c] EXCEPT !.same = FALSE,
                                    !.channels = scn[c].channels]
    OBVIOUS
  <2>4. Answered(c, s)
    BY <1>3, <1>4, <1>10, <2>2, <2>3 DEF Arrives
  <2>5. s \in ScenarioSet /\ s.pc = scn[c].pc /\ s.same = FALSE
    BY <1>2, <2>3 DEF ScenarioSet
  <2>6. ~Returns(c) /\ Instr(c).op = "hello"
    BY <1>1, Waiting
  <2>7. GoesOn(Instr(c), plan.once)
    BY <2>6 DEF GoesOn
  <2>8. /\ LeadsTo(plan.kind, plan.once, scn[c].pc, scn'[c].pc)
        /\ scn'[c].same = s.same
    BY <1>1, <2>4, <2>5, <2>6, <2>7, Proceeding DEF Answered
  <2>9. /\ Leads(plan.kind, plan.once, Instr(c), scn[c].pc, scn'[c].pc)
        /\ scn'[c].pc \in 1..Len(Script[plan.kind]) <=> ~Returns(c)'
        /\ ~Returns(c)' =>
              Before(plan.kind, Instr(c), scn[c].pc, Instr(c)', scn'[c].pc)
    BY <1>1, <2>6, <2>8, TheNext
  <2>10. ~Returns(c)'
    BY <2>6, <2>9 DEF Leads
  <2>11. Instr(c)'.op = "same_uaid"
    BY <2>6, <2>9, <2>10 DEF Before
  <2>12. proc'[c].waits = "nothing"
    BY <1>2, <2>4 DEF Answered
  <2>. QED  BY <2>5, <2>8, <2>10, <2>11, <2>12 DEF At
<1>. QED  BY <1>9, <1>10

\* What a scenario that is a stranger does next.
LEMMA StrangersFail ==
    ASSUME Inv, Inv', NEW c \in Clients, Running(c), "uaid" \in mishaps[c],
           Strange(c), Running(c)',
           Scenario(c) \/ Answer(c) \/ Server(c) \/ Drops(c)
    PROVE  /\ Arrives(c) /\ proc[c].waits = "hello" /\ Instr(c).arg = "again"
           /\ \E k \in DOMAIN down[c] : down[c][k].type = "stranger"
<1>1. CASE At(c, "same_uaid") /\ ~scn[c].same /\ proc[c].waits = "nothing"
  <2>1. Turn(c)
    BY <1>1 DEF Turn, Held, At
  <2>2. ~Quiet
    BY <2>1 DEF Quiet
  <2>3. Scenario(c)
    BY <2>2 DEF Answer, Opens, Closes, Arrives, TimesOut, WaitEnds,
                PostAnswered, PostFails, Awaits, Server, ServerAnswers,
                PostTaken, Drops
  <2>4. RunCheck(c)
    BY <1>1, <2>3 DEF At, Scenario, RunConnect, RunDisconnect, RunRequest,
         RunSendNotification, RunExpect, RunWait, RunAck, RunTimer, RunCounter,
         RunCollect, RunAckIds, RunBranch, Return, Runs, Requests
  <2>5. ~Holds(c, Instr(c))
    BY <1>1 DEF At, Holds
  <2>6. Raise(c, proc[c]) /\ proc[c] \in ProcessorSet
    BY <2>4, <2>5, Typed DEF RunCheck
  <2>. QED  BY <1>1, <2>6, RaisingForGood DEF At
<1>2. CASE /\ proc[c].waits = "hello" /\ Instr(c).arg = "again"
           /\ \E k \in DOMAIN down[c] : down[c][k].type = "stranger"
  <2>1. up[c] = "none"
    BY <1>2, AStranger
  <2>2. ~Returns(c) /\ Instr(c).op = "hello"
    BY <1>2, Waiting
  <2>3. ~Scenario(c)
    BY <1>2 DEF Scenario, RunConnect, RunDisconnect, RunRequest,
         RunSendNotification, RunExpect, RunWait, RunAck, RunTimer, RunCounter,
         RunCollect, RunAckIds, RunCheck, RunBranch, Return, Runs, Turn
  <2>4. ~Drops(c)
    <3>1. ASSUME Drops(c) PROVE FALSE
      <4>1. PICK p : p = [proc[c] EXCEPT !.connected = FALSE]
        OBVIOUS
      <4>2. p \in ProcessorSet
        <5>1. proc[c] \in ProcessorSet
          BY Typed
        <5>. QED  BY <4>1, <5>1 DEF ProcessorSet
      <4>3. Raise(c, p)
        BY <3>1, <4>1 DEF Drops
      <4>. QED  BY <2>2, <4>2, <4>3, RaisingForGood
    <3>. QED  BY <3>1
  <2>5. ~Server(c)
    BY <1>2, <2>1 DEF Server, ServerAnswers, PostTaken, Awaits
  <2>6. Arrives(c)
    BY <1>2, <2>3, <2>4, <2>5 DEF Answer, Opens, Closes, TimesOut, WaitEnds,
         PostAnswered, PostFails, Awaits
  <2>. QED  BY <1>2, <2>6
<1>. QED  BY <1>1, <1>2 DEF Strange

\* Who is not a stranger becomes one when the server greets it.
LEMMA BecomingAStranger ==
    ASSUME Inv, NEW c \in Clients,
           Scenario(c) \/ Answer(c) \/ Server(c) \/ Drops(c),
           "uaid" \notin mishaps[c], "uaid" \in mishaps'[c]
    PROVE  Strange(c)'
<1>1. mishaps \in [Clients -> SUBSET (FaultKinds \cup {"refused"})]
  BY Types DEF Inv
<1>2. /\ ServerAnswers(c) /\ up[c] = "hello" /\ ServerGreets(c)
      /\ mishaps' # mishaps
  <2>1. mishaps' # mishaps
    OBVIOUS
  <2>2. ~Refused(c)
    BY <1>1 DEF Refused
  <2>3. ~Scenario(c)
    BY <2>1, <2>2 DEF Scenario, RunConnect, RunDisconnect, RunRequest,
         RunSendNotification, RunExpect, RunWait, RunAck, RunTimer, RunCounter,
         RunCollect, RunAckIds, AckEach, RunCheck, RunBranch, Return, Outside,
         network
  <2>4. ~Answer(c)
    BY <1>1, <2>1 DEF Answer, Opens, Closes, Arrives, TimesOut, WaitEnds,
         PostAnswered, PostFails, Outside, network
  <2>5. ~Drops(c)
    BY <1>1 DEF Drops
  <2>6. ServerAnswers(c)
    BY <2>1, <2>3, <2>4, <2>5 DEF Server, PostTaken
  <2>. QED  BY <2>1, <2>6 DEF ServerAnswers
<1>3. /\ Instr(c).arg = "again" /\ scn' = scn /\ proc' = proc /\ plan' = plan
      /\ down' = [down EXCEPT ![c] = Append(@, Frame("stranger", NoNotif))]
  BY <1>2 DEF ServerGreets, ServerAnswers, Shared
<1>4. proc'[c].waits = "hello" /\ Instr(c)'.arg = "again"
  BY <1>2, <1>3 DEF Inv, ClientInv, InTouch, Instr
<1>5. PICK old \in Seq(FrameSet) : old = down[c]
  BY Typed
<1>6. PICK x : x = Frame("stranger", NoNotif)
  OBVIOUS
<1>7. x \in FrameSet /\ x.type = "stranger"
  BY <1>6, Beginnings DEF Frame, FrameSet
<1>8. PICK longer : longer = Append(old, x)
  OBVIOUS
<1>9. "stranger" \in Sorts(longer)
  <2>1. Sorts(longer) = Sorts(old) \cup {x.type}
    BY <1>7, <1>8, ToldAppend
  <2>. QED  BY <1>7, <2>1
<1>10. down'[c] = longer
  BY <1>3, <1>5, <1>6, <1>8, Domains
<1>11. \E k \in DOMAIN down'[c] : down'[c][k].type = "stranger"
  BY <1>9, <1>10 DEF Sorts
<1>. QED  BY <1>4, <1>11 DEF Strange

LEMMA StepsKeepStrange ==
    ASSUME Inv, Inv', NEW c \in Clients, Strange(c),
           Scenario(c) \/ Answer(c) \/ Server(c) \/ Drops(c)
    PROVE  Strange(c)'
<1>1. CASE "uaid" \notin mishaps[c] /\ "uaid" \in mishaps'[c]
  BY <1>1, BecomingAStranger
<1>2. CASE "uaid" \in mishaps[c] /\ Running(c)'
  <2>1. Running(c)
    BY ScenarioAlone, AnswerAlone, ServerAlone DEF Alone
  <2>2. /\ Arrives(c) /\ proc[c].waits = "hello" /\ Instr(c).arg = "again"
        /\ \E k \in DOMAIN down[c] : down[c][k].type = "stranger"
    BY <1>2, <2>1, StrangersFail
  <2>3. \/ /\ proc'[c].waits = "hello" /\ Instr(c)'.arg = "again"
           /\ \E j \in DOMAIN down'[c] : down'[c][j].type = "stranger"
        \/ /\ At(c, "same_uaid")' /\ ~scn'[c].same
           /\ proc'[c].waits = "nothing"
    BY <1>2, <2>2, StrangeFrameArrives
  <2>. QED  BY <2>3 DEF Strange
<1>3. CASE "uaid" \notin mishaps'[c] \/ ~Running(c)'
  BY <1>3 DEF Strange
<1>. QED  BY <1>1, <1>2, <1>3

\* A scenario is given what was afloat, when it expects it.
LEMMA GivenWhatWasAfloat ==
    ASSUME Inv, NEW c \in Clients,
           Scenario(c) \/ Answer(c) \/ Server(c) \/ Drops(c),
           tally'[c].seen # tally[c].seen
    PROVE  /\ ~Returns(c) /\ Instr(c).op = "expect" /\ proc[c].waits # "hello"
           /\ \E n \in Afloat(c) :
                 tally'[c].seen = Append(tally[c].seen, n.id)
<1>1. tally \in [Clients -> TallySet] /\ tally' # tally
  BY Types DEF Inv
<1>2. CASE RunExpect(c) \/ Arrives(c)
  <2>1. CASE RunExpect(c)
    <3>1. ~Returns(c) /\ Instr(c).op = "expect" /\ proc[c].waits # "hello"
      BY <2>1 DEF RunExpect, Runs, Turn
    <3>2. Stored(c) # {}
      BY <1>1, <2>1 DEF RunExpect
    <3>3. PICK k : k = CHOOSE m \in Stored(c) : \A j \in Stored(c) : m =< j
      OBVIOUS
    <3>4. proc[c].inbox \in Seq(Notifs)
      BY Typed DEF ProcessorSet
    <3>5. k \in 1..Len(proc[c].inbox)
      <4>1. Stored(c) \subseteq 1..Len(proc[c].inbox)
        BY <3>4 DEF Stored
      <4>2. \E m \in Stored(c) : \A j \in Stored(c) : m =< j
        BY <3>2, <3>4, <4>1, LeastNumber
      <4>3. k \in Stored(c)
        BY <3>3, <4>2
      <4>. QED  BY <4>1, <4>3
    <3>6. PICK n : n = proc[c].inbox[k]
      OBVIOUS
    <3>7. n \in Afloat(c) /\ n \in Notifs
      BY <3>4, <3>5, <3>6 DEF Afloat, Elements
    <3>8. Saw(c, n)
      BY <2>1, <3>2, <3>3, <3>6 DEF RunExpect
    <3>. QED  BY <3>1, <3>7, <3>8, SeeingMore
  <2>2. CASE Arrives(c)
    <3>1. PICK old \in Seq(FrameSet) : old = down[c]
      BY Typed
    <3>2. PICK x : x = Head(old)
      OBVIOUS
    <3>3. PICK n : n = x.notif
      OBVIOUS
    <3>4. /\ x.type = "notification" /\ proc[c].waits = "expect"
          /\ Saw(c, n) /\ old # <<>>
      BY <1>1, <2>2, <3>1, <3>2, <3>3 DEF Arrives
    <3>5. x \in FrameSet /\ n \in Notifs
      <4>1. x \in FrameSet
        BY <3>1, <3>2, <3>4
      <4>. QED  BY <3>3, <4>1 DEF FrameSet
    <3>6. n \in Told(old)
      <4>1. PICK rest : rest = Tail(old)
        OBVIOUS
      <4>2. Told(old) = Told(rest) \cup
               (IF Replies(x) THEN {} ELSE {x.notif})
        BY <3>1, <3>2, <3>4, <4>1, ToldTail
      <4>. QED  BY <3>3, <3>4, <4>2 DEF Replies
    <3>7. n \in Afloat(c)
      BY <3>1, <3>6 DEF Afloat
    <3>8. ~Returns(c) /\ Instr(c).op = "expect"
      BY <2>2, <3>4, Waiting DEF Arrives
    <3>. QED  BY <3>4, <3>5, <3>7, <3>8, SeeingMore
  <2>. QED  BY <1>2, <2>1, <2>2
<1>3. CASE ~RunExpect(c) /\ ~Arrives(c)
  <2>1. \/ tally' = tally
        \/ tally' = [tally EXCEPT ![c].posted = @ + 1]
        \/ tally' = [tally EXCEPT ![c].sent = @ + 1]
        \/ tally' = [tally EXCEPT ![c].received = @ + 1]
    <3>1. CASE Scenario(c)
      BY <1>3, <3>1 DEF Scenario, RunConnect, RunDisconnect, RunRequest,
           RunSendNotification, RunWait, RunAck, RunTimer, RunCounter,
           RunCollect, RunAckIds, AckEach, RunCheck, RunBranch, Return,
           Refused, Outside
    <3>2. CASE Answer(c)
      BY <1>3, <3>2 DEF Answer, Opens, Closes, TimesOut, WaitEnds,
           PostAnswered, PostFails, Responds
    <3>3. CASE Server(c) \/ Drops(c)
      BY <3>3 DEF Server, ServerAnswers, PostTaken, Drops
    <3>. QED  BY <3>1, <3>2, <3>3
  <2>2. tally'[c].seen = tally[c].seen
    BY <1>1, <2>1 DEF TallySet
  <2>. QED  BY <2>2
<1>. QED  BY <1>2, <1>3

LEMMA StepsKeepSeenOnce ==
    ASSUME Inv, NEW c \in Clients, ClientTrace(c),
           Scenario(c) \/ Answer(c) \/ Server(c) \/ Drops(c)
    PROVE  SeenOnce(c)'
<1>1. Alone(c)
  BY ScenarioAlone, AnswerAlone, ServerAlone
<1>2. PICK seen \in Seq(Nat) : seen = tally[c].seen
  BY Typed DEF TallySet
<1>3. SUFFICES ASSUME "late" \notin mishaps'[c],
                      plan.kind # "notification_forever_direct_store"
               PROVE  \A k, l \in DOMAIN tally'[c].seen :
                         tally'[c].seen[k] = tally'[c].seen[l] => k = l
  BY <1>1 DEF SeenOnce, Alone
<1>4. \A k, l \in DOMAIN seen : seen[k] = seen[l] => k = l
  BY <1>1, <1>2, <1>3 DEF Alone, ClientTrace, SeenOnce
<1>5. CASE tally'[c].seen = tally[c].seen
  BY <1>2, <1>4, <1>5
<1>6. CASE tally'[c].seen # tally[c].seen
  <2>1. /\ ~Returns(c) /\ Instr(c).op = "expect" /\ proc[c].waits # "hello"
        /\ \E n \in Afloat(c) : tally'[c].seen = Append(tally[c].seen, n.id)
    BY <1>6, GivenWhatWasAfloat
  <2>2. "uaid" \notin mishaps[c]
    BY <1>1, <2>1 DEF Alone, ClientTrace, Strange, At
  <2>3. Reaches(c)
    BY <1>1, <1>3, <2>2 DEF Alone, ClientTrace, Traced, Whereabouts
  <2>4. PICK n \in Afloat(c) : tally'[c].seen = Append(tally[c].seen, n.id)
    BY <2>1
  <2>5. PICK id \in Nat : id = n.id
    BY <2>4, RealOnes DEF Notifs
  <2>6. \A k \in DOMAIN seen : seen[k] # id
    BY <1>2, <1>3, <2>3, <2>5 DEF Reaches, Seen, Elements
  <2>7. PICK longer : longer = Append(seen, id)
    OBVIOUS
  <2>8. \A k, l \in DOMAIN longer : longer[k] = longer[l] => k = l
    BY <1>2, <1>4, <2>5, <2>6, <2>7
  <2>. QED  BY <1>2, <2>4, <2>5, <2>7, <2>8
<1>. QED  BY <1>5, <1>6

LEMMA StepsTrace ==
    ASSUME Inv, Inv', NEW c \in Clients, ClientTrace(c),
           Scenario(c) \/ Answer(c) \/ Server(c) \/ Drops(c)
    PROVE  ClientTrace(c)'
<1>1. Alone(c)
  BY ScenarioAlone, AnswerAlone, ServerAlone
<1>2. ASSUME Running(c)', "late" \notin mishaps'[c], "uaid" \notin mishaps'[c]
      PROVE  Whereabouts(c)'
  <2>1. Whereabouts(c)
    BY <1>1, <1>2 DEF Alone, ClientTrace, Traced
  <2>2. CASE Scenario(c)
    <3>1. ~Return(c)
      <4>1. ASSUME Return(c) PROVE FALSE
        BY <1>2, <4>1, Domains DEF Return, Running
      <4>. QED  BY <4>1
    <3>. QED
      BY <1>2, <2>1, <2>2, <3>1, RunConnectTraces, RunDisconnectTraces,
         RunRequestTraces, RunSendNotificationTraces, RunExpectTraces,
         RunWaitTraces, RunAckTraces, RunTimerTraces, RunCounterTraces,
         RunCollectTraces, AckingIds, RunAckIdsTraces, RunCheckTraces,
         RunBranchTraces DEF Scenario
  <2>3. CASE Answer(c)
    BY <1>2, <2>1, <2>3, OpensTraces, ClosesTraces, ArrivesTraces,
       TimesOutTraces, WaitEndsTraces, PostAnsweredTraces, PostFailsTraces
       DEF Answer
  <2>4. CASE Server(c)
    BY <1>2, <2>1, <2>4, ServerAnswersTraces, PostTakenTraces DEF Server
  <2>5. CASE Drops(c)
    BY <1>2, <2>1, <2>5, DropsTraces
  <2>. QED  BY <2>2, <2>3, <2>4, <2>5
<1>3. Strange(c)'
  BY StepsKeepStrange DEF ClientTrace
<1>4. SeenOnce(c)'
  BY StepsKeepSeenOnce
<1>. QED  BY <1>2, <1>3, <1>4 DEF ClientTrace, Traced

LEMMA StayingTraces ==
    ASSUME NEW d \in Clients, ClientTrace(d), Stays(d), plan' = plan
    PROVE  ClientTrace(d)'
<1>1. /\ Running(d)' = Running(d) /\ Instr(d)' = Instr(d)
      /\ Returns(d)' = Returns(d) /\ Target(d)' = Target(d)
      /\ \A op : At(d, op)' = At(d, op)
  BY DEF Stays, Running, Instr, Returns, Target, At
<1>2. /\ Afloat(d)' = Afloat(d) /\ Pending(d)' = Pending(d)
      /\ Seen(d)' = Seen(d) /\ Vacant(d)' = Vacant(d)
      /\ Owed(d)' = Owed(d) /\ Greeted(d)' = Greeted(d)
  BY DEF Stays, Afloat, Pending, Seen, Vacant, Owed, Greeted
<1>3. Unposted(d)' = Unposted(d)
  BY <1>1 DEF Stays, Unposted
<1>4. Whereabouts(d) => Whereabouts(d)'
  <2>1. Numbered(d) => Numbered(d)'
    BY <1>2 DEF Stays, Numbered
  <2>2. Aimed(d) => Aimed(d)'
    BY <1>1, <1>2 DEF Stays, Aimed
  <2>3. Online(d) => Online(d)'
    BY <1>1, <1>2 DEF Stays, Online
  <2>4. Reaches(d) => Reaches(d)'
    BY <1>2 DEF Stays, Reaches
  <2>5. Clears(d) => Clears(d)'
    BY <1>1, <1>2, <1>3 DEF Stays, Clears
  <2>. QED  BY <2>1, <2>2, <2>3, <2>4, <2>5 DEF Whereabouts
<1>5. Traced(d)'
  BY <1>1, <1>4 DEF ClientTrace, Traced, Stays
<1>6. Strange(d)'
  BY <1>1 DEF ClientTrace, Strange, Stays
<1>7. SeenOnce(d)'
  BY DEF ClientTrace, SeenOnce, Stays
<1>. QED  BY <1>5, <1>6, <1>7 DEF ClientTrace

LEMMA NextTraces ==
    ASSUME Inv, Inv', TraceInv, [Next]_vars
    PROVE  TraceInv'
<1>1. ASSUME NEW c \in Clients,
             Scenario(c) \/ Answer(c) \/ Server(c) \/ Drops(c)
      PROVE  TraceInv'
  <2>1. Alone(c)
    BY <1>1, ScenarioAlone, AnswerAlone, ServerAlone
  <2>2. ASSUME NEW d \in Clients PROVE ClientTrace(d)'
    <3>1. CASE d = c  BY <1>1, <3>1, StepsTrace DEF TraceInv
    <3>2. CASE d # c  BY <2>1, <3>2, StayingTraces DEF TraceInv, Alone
    <3>. QED  BY <3>1, <3>2
  <2>. QED  BY <2>2 DEF TraceInv
<1>2. CASE DayPasses \/ Rest \/ UNCHANGED vars
  <2>1. /\ plan' = plan /\ scn' = scn /\ proc' = proc /\ server' = server
        /\ up' = up /\ down' = down /\ post' = post /\ mishaps' = mishaps
        /\ tally' = tally
    BY <1>2 DEF DayPasses, Rest, vars, Outside, network
  <2>2. ASSUME NEW d \in Clients PROVE ClientTrace(d)'
    BY <2>1, StayingTraces DEF TraceInv, Stays
  <2>. QED  BY <2>2 DEF TraceInv
<1>. QED  BY <1>1, <1>2 DEF Next

LEMMA InitTraces ==
    ASSUME Init
    PROVE  TraceInv
<1>1. Inv
  BY InitKeeps
<1>2. ASSUME NEW c \in Clients PROVE ClientTrace(c)
  <2>1. /\ scn[c].pc = 1 /\ scn[c].channels = <<>>
        /\ scn[c].notif = NoNotif /\ scn[c].ids = <<>>
    BY <1>2 DEF Init, Fresh
  <2>2. /\ proc[c].waits = "nothing" /\ proc[c].connected = FALSE
        /\ proc[c].inbox = <<>> /\ down[c] = <<>> /\ mishaps[c] = {}
        /\ tally[c].seen = <<>>
    BY <1>2 DEF Init, Idle
  <2>3. /\ server[c].pending = <<>> /\ server[c].online = FALSE
        /\ server[c].subs = {} /\ server[c].last = 0
    BY <1>2 DEF Init, UserAgent
  <2>4. Afloat(c) = {} /\ Pending(c) = {} /\ Seen(c) = {}
    BY <2>2, <2>3 DEF Afloat, Pending, Seen, Told, Elements
  <2>5. 1 \in Vacancies[plan.kind] \ Due[plan.kind]
    BY <1>1, ThePlan, ScriptsCarryWhatIsOnItsWay DEF ScriptsCarry, Begins
  <2>6. Numbered(c)
    BY <2>2, <2>3, <2>4 DEF Numbered, Apart, Unlike, Distinct, Elements
  <2>7. Aimed(c)
    BY <2>1, <2>2, <2>3, <2>4 DEF Aimed
  <2>8. Online(c)
    BY <2>2, <2>3 DEF Online
  <2>9. Reaches(c)
    BY <2>3, <2>4 DEF Reaches
  <2>10. Clears(c)
    BY <2>1, <2>2, <2>4, <2>5 DEF Clears, Vacant
  <2>11. Strange(c) /\ SeenOnce(c)
    BY <2>2 DEF Strange, SeenOnce
  <2>. QED  BY <2>6, <2>7, <2>8, <2>9, <2>10, <2>11
            DEF ClientTrace, Traced, Whereabouts
<1>. QED  BY <1>2 DEF TraceInv

\* As long as none comes late, every notification is where it should be: what
\* is pending at the server and was not given to its scenario is on its way or
\* stored, once; what the scenario was given is not on its way any more; and
\* both are for a channel it has.  A scenario that is taken for a stranger
\* learns it from its next reply, and then fails.
THEOREM NotificationsAreTraced == Spec => []TraceInv
<1>1. Init => TraceInv
  BY InitTraces
<1>2. Inv /\ Inv' /\ TraceInv /\ [Next]_vars => TraceInv'
  BY NextTraces
<1>. QED  BY <1>1, <1>2, ScenariosKeepInStep, PTL DEF Spec

\* Unless a notification comes late, no scenario but the one that acknowledges
\* only after coming back is given a notification twice, however many clients
\* there are, however often they disconnect and whatever else fails.
THEOREM NotificationsAreGivenOnce == Spec => []GivenOnce
<1>1. TraceInv => GivenOnce
  BY DEF TraceInv, ClientTrace, SeenOnce, GivenOnce
<1>. QED  BY <1>1, NotificationsAreTraced, PTL
=============================================================================
