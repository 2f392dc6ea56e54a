---------------------------- MODULE HarnessCount ----------------------------
(***************************************************************************)
(* What a harness and its load runner agree on: a harness launches         *)
(* scenarios, some at a time, each of them ends, and _processors is told   *)
(* of both, though an end may be reported more than once.                  *)
(*                                                                         *)
(* CommandProcessor.tla implements this with the processors of a harness,  *)
(* and LoadRunner.tla, which does not look into them, does so with each of *)
(* its harnesses: what it takes for granted is what they do.               *)
(***************************************************************************)
EXTENDS Integers

VARIABLES
    launched,     \* scenarios that were launched
    running,      \* those of them that are not over
    processors    \* _processors

counts == <<launched, running, processors>>

Init == launched = 0 /\ running = 0 /\ processors = 0

By(launches, ends, reports) ==
    /\ launched' = launched + launches
    /\ running' = running + launches - ends
    /\ processors' = processors + launches - reports

Launch ==
    LET n == launched' - launched IN n > 0 /\ By(n, 0, 0)
End == running > 0 /\ By(0, 1, 1)
EndReportedAgain == running < launched /\ By(0, 0, 1)

Next == Launch \/ End \/ EndReportedAgain

Spec == Init /\ [][Next]_counts
=============================================================================
