---------------------------- MODULE ShippedPlans ----------------------------
(***************************************************************************)
(* aplt/scenarios.py: the test plans that come with the program, written   *)
(* as the scenarios api_test, loadtest, _test_spawn and                    *)
(* _test_multiple_spawn spawn them, and the parameters of the scenarios    *)
(* they name.  Arguments.tla says what becomes of them.                    *)
(***************************************************************************)
EXTENDS Arguments

Num(n) == [values |-> <<n>>, keys |-> {}, escaped |-> FALSE]
Key(k) == [values |-> <<>>, keys |-> {k}, escaped |-> FALSE]

\* A scenario whose parameters all have a default; one that takes any arguments.
Optional(names) == [names |-> names, defaults |-> Len(names),
                    varargs |-> FALSE, keywords |-> FALSE]
AnyArguments(names) == [names |-> names, defaults |-> Len(names),
                        varargs |-> TRUE, keywords |-> TRUE]

DelayAndOnce(delay) == Optional(<<delay, "run_once">>)

Signature == [
    basic |-> AnyArguments(<<>>),
    connect_and_idle_forever |-> Optional(<<>>),
    reconnect_forever |-> DelayAndOnce("reconnect_delay"),
    register_forever |-> DelayAndOnce("reg_delay"),
    notification_forever |-> Optional(<<"notif_delay", "run_once", "vapid_claims">>),
    notification_forever_stored |->
        AnyArguments(<<"qty_stored", "ttl", "notif_delay", "run_once">>),
    notification_forever_unsubscribed |-> DelayAndOnce("notif_delay"),
    notification_forever_bad_tokens |->
        Optional(<<"notif_delay", "run_once", "token_length">>),
    notification_forever_bad_endpoints |-> DelayAndOnce("notif_delay")]

\* One instance, one a second, at once; then more words.
One(name, words) ==
    [func |-> Signature[name], words |-> <<Num(1), Num(1), Num(0)>> \o words]

Keyed(name, keys) == One(name, [k \in DOMAIN keys |-> Key(keys[k])])

\* api_test: after 2 seconds' delay, run_once is 1.
Once == <<Num(2), Num(1)>>
ApiTest == {
    One("notification_forever_unsubscribed", Once),
    One("notification_forever_bad_tokens", Once),
    One("notification_forever_bad_endpoints", Once)}

\* loadtest: run_once is 0.
Loadtest == {
    One("connect_and_idle_forever", <<>>),
    Keyed("reconnect_forever", <<"reconnect_delay", "run_once">>),
    Keyed("register_forever", <<"reg_delay", "run_once">>),
    Keyed("notification_forever", <<"notif_delay", "run_once">>),
    Keyed("notification_forever_stored",
          <<"qty_stored", "ttl", "notif_delay", "run_once">>),
    Keyed("notification_forever_unsubscribed", <<"notif_delay", "run_once">>),
    One("notification_forever_bad_tokens", <<Num(2), Key("run_once")>>),
    Keyed("notification_forever_bad_endpoints", <<"notif_delay", "run_once">>)}

\* All of the spawning scenarios but loadtest spawn basic.
Basic == One("basic", <<>>)

Spawned == {[program |-> "spawn", plans |-> <<plan>>] :
                plan \in ApiTest \cup Loadtest \cup {Basic}}

-----------------------------------------------------------------------------
(* Properties. *)

\* Every plan that api_test, loadtest and the spawning tests spawn starts, and
\* its scenario can be called with what parse_testplan makes of its words.
ShippedPlansRun ==
    input \in Spawned =>
        /\ phase \notin {"refused", "raised"}
        /\ \A i \in DOMAIN testplans :
              LET plan == testplans[i] IN
              CanCall(plan.func, Len(plan.args), plan.keys)

\* "API test: run scenarios once, then stop": the argument that reaches the
\* parameter run_once of what api_test spawns is not the 0 that is its default.
ApiTestRunsOnce ==
    (input \in Spawned /\ input.plans[1] \in ApiTest) =>
        \A i \in DOMAIN testplans :
            LET plan == testplans[i] IN
            \E k \in DOMAIN plan.args :
                plan.func.names[k] = "run_once" /\ plan.args[k] # 0
=============================================================================
