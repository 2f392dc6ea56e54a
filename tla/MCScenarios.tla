---------------------------- MODULE MCScenarios ----------------------------
(* Bounded instances of Scenarios, see the README's table of runs. *)
EXTENDS Scenarios

CONSTANTS c1, c2

APlan(kind, once, given, clients) ==
    [kind |-> kind, once |-> once, claims |-> given, clients |-> clients]

\* Every scenario, once and for ever, alone, with claims if it takes them;
\* and two instances of one that share their claims.
NoRunOnce == {"basic", "basic_topic", "_explode", "_expect_notifications"}
IsPlan(p) == IF p.kind = "connect_and_idle_forever" THEN ~p.once
             ELSE p.kind \in NoRunOnce => p.once

Alone(kinds, given) ==
    {p \in {APlan(kind, once, g, {c1}) :
                 kind \in kinds, once \in BOOLEAN, g \in given} : IsPlan(p)}
Together ==
    {APlan("basic", TRUE, given, {c1, c2}) : given \in {"dict", "text"}}

AllPlans ==
    Alone(DOMAIN Script, {"none"}) \cup Alone(TakeClaims, {"dict", "text"})
        \cup Together

Unsubscribed ==
    {APlan("notification_forever_unsubscribed", TRUE, "none", {c1})}
=============================================================================
