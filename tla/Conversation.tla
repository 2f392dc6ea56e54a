---------------------------- MODULE Conversation ----------------------------
(***************************************************************************)
(* What the command processor of aplt/client.py promises a scenario, seen  *)
(* from the scenario: it and the processor take turns.  The scenario asks  *)
(* for something and then hears, exactly once, a result that belongs to    *)
(* what it asked for, or at once an exception if it asked for something it *)
(* may not have now; until it is over, which it is for good.               *)
(*                                                                         *)
(* CommandProcessor.tla implements this as long as nothing unexpected      *)
(* happens (see Orderly there).                                            *)
(***************************************************************************)
CONSTANT Procs

VARIABLES
    turn,     \* who is to speak in each scenario's conversation
    asked,    \* what the scenario last asked for
    heard     \* what it is being told, "nothing" while it waits

conversation == <<turn, asked, heard>>

\* Commands whose result is the event of the same name, and those that are
\* answered by None, if they are answered without an exception.
OwnEvent == {"connect", "disconnect", "hello", "register", "unregister"}
NoResult == {"start", "nested", "spawn", "ack", "wait", "timer_start",
             "counter"}
Expecting == {"expect_notification", "expect_notifications"}

\* The results that belong to each request: commands, "start" for the
\* beginning of a generator, "nested" for waiting for a nested one.
Results(m) ==
    CASE m \in OwnEvent -> {m}
      [] m \in NoResult -> {"none"}
      [] m \in Expecting -> {"notification", "none"}
      [] m = "send_notification" -> {"response", "failure"}
      [] m = "timer_end" -> {"duration"}

Askable == OwnEvent \cup NoResult \cup Expecting
               \cup {"send_notification", "timer_end"}

Init ==
    /\ turn = [p \in Procs |-> "unborn"]
    /\ asked = [p \in Procs |-> "start"]
    /\ heard = [p \in Procs |-> "nothing"]

Becomes(p, t, m, a) ==
    /\ turn' = [turn EXCEPT ![p] = t]
    /\ asked' = [asked EXCEPT ![p] = m]
    /\ heard' = [heard EXCEPT ![p] = a]

Begin(p) == turn[p] = "unborn" /\ Becomes(p, "scenario", "start", "none")

Ask(p) ==
    /\ turn[p] = "scenario"
    /\ \E m \in Askable : Becomes(p, "processor", m, "nothing")

Answer(p) ==
    /\ turn[p] = "processor"
    /\ \E a \in Results(asked[p]) : Becomes(p, "scenario", asked[p], a)

\* Asking and being answered before anything else happens: the only way to
\* hear an exception.
AskAndHear(p) ==
    /\ turn[p] = "scenario"
    /\ \E m \in Askable : \E a \in Results(m) \cup {"exception"} :
          Becomes(p, "scenario", m, a)

\* A scenario that failed starts again (@restart).
StartAgain(p) ==
    /\ turn[p] = "scenario"
    /\ heard[p] = "exception"
    /\ Becomes(p, "scenario", "start", "none")

End(p) == turn[p] = "scenario" /\ Becomes(p, "over", "start", "nothing")

Next ==
    \E p \in Procs : \/ Begin(p) \/ Ask(p) \/ Answer(p) \/ AskAndHear(p)
                     \/ StartAgain(p) \/ End(p)

Spec == Init /\ [][Next]_conversation
=============================================================================
