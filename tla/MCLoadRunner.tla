---------------------------- MODULE MCLoadRunner ----------------------------
(* Bounded instances of LoadRunner, see the README's table of runs. *)
EXTENDS LoadRunner

P(quantity, stagger, delay, fits) ==
    [quantity |-> quantity, stagger |-> stagger, delay |-> delay,
     fits |-> fits]

\* Two plans: one launches two a second twice and has one left over, the
\* other starts late.
TwoPlans == <<P(5, 2, 0, TRUE), P(1, 1, 2, TRUE)>>

\* What scenarios spawn: a plan that works, one that launches nothing, one
\* that raises, and one that launches nothing because it divides by zero.
SpawnedPlans == {P(2, 1, 1, TRUE), P(1, 2, 0, TRUE), P(1, 1, 0, FALSE),
                 P(1, 0, 0, TRUE)}
=============================================================================
