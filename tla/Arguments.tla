----------------------------- MODULE Arguments -----------------------------
(***************************************************************************)
(* aplt/runner.py: from the words of a command line, or of the string that *)
(* a scenario spawns, to the test plans that LoadRunner.tla launches.      *)
(* Words are grouped into positional and keyword arguments, what is no     *)
(* integer for int() is dropped, the first three of a plan become its      *)
(* numbers, the others are checked against the scenario function.          *)
(***************************************************************************)
EXTENDS Naturals, SequencesExt, Subsequences

CONSTANTS
    Text, Url,    \* a value that is no integer, and one that begins with ws
    Truncated,    \* what int() makes of a float, a boolean or a numeric string
    Inputs        \* what users and scenarios write, a set of Input

Value == Nat \cup {Text, Url} \cup DOMAIN Truncated

\* A word by what json.loads or key=value make of it: the values it adds to
\* the positional arguments (one, or those of a list) and the keywords it
\* sets.  escaped: it is JSON whose commas are escaped, so that the word is
\* not split at them; parse_string_to_list leaves the escapes in.
Word == [values : Seq(Value), keys : SUBSET STRING, escaped : BOOLEAN]

\* A scenario function as getargspec describes it.
Function == [names : Seq(STRING), defaults : Nat, varargs : BOOLEAN,
             keywords : BOOLEAN]

\* program: run_scenario, run_testplan or LoadRunner.spawn.  plans: each plan's
\* function and the words that follow it.
Input == [program : {"scenario", "testplan", "spawn"},
          plans : Seq([func : Function, words : Seq(Word)])]

ASSUME InputsAreWellFormed ==
    /\ Text \notin Nat /\ Url \notin Nat /\ Text # Url
    /\ \A v \in DOMAIN Truncated :
          v \notin Nat \cup {Text, Url} /\ Truncated[v] \in Nat
    /\ \A input \in Inputs :
          /\ input \in Input
          /\ input.plans # <<>>
          /\ input.program = "scenario" => Len(input.plans) = 1
          /\ \A i \in DOMAIN input.plans :
                input.plans[i].func.defaults =< Len(input.plans[i].func.names)

VARIABLES
    input,
    phase,      \* given, parsed, refused (parsing raised), started or raised
                \* (a plan could not be run)
    testplans,  \* the plans that were parsed
    ran,        \* how many of them _run_testplan has run
    url         \* the websocket URL is the default, the one given, or wrong

vars == <<input, phase, testplans, ran, url>>

-----------------------------------------------------------------------------
(* The parsing functions. *)

\* group_kw_args, word by word.
ValuesOf(w) == IF w.escaped THEN <<Text>> ELSE w.values
KeysOf(w) == IF w.escaped THEN {} ELSE w.keys

Positional(words) == FlattenSeq([i \in DOMAIN words |-> ValuesOf(words[i])])
Keywords(words) == UNION {KeysOf(words[i]) : i \in DOMAIN words}

\* try_int_list_coerce, and a mutant that keeps what is no integer.
IntOf(v) == IF v \in DOMAIN Truncated THEN Truncated[v] ELSE v
AsIntegers(values) == [i \in DOMAIN values |-> IntOf(values[i])]

CoercedKeeps(values) == AsIntegers(values)
Coerced(values) == Kept(AsIntegers(values), Nat)

\* verify_arguments, for n positional arguments; mutants that take every
\* parameter for required, or let any number of arguments pass.
VerifiesAllRequired(f, n) ==
    n >= Len(f.names) /\ (f.varargs \/ n =< Len(f.names))

VerifiesMore(f, n) == n >= Len(f.names) - f.defaults

Verifies(f, n) ==
    /\ n >= Len(f.names) - f.defaults
    /\ f.varargs \/ n =< Len(f.names)

\* Whether Python can call f with n positional arguments and these keywords:
\* the field fits of a plan in LoadRunner.tla.
CanCall(f, n, keys) ==
    LET later == {i \in DOMAIN f.names : i > n} IN
    /\ f.varargs \/ n =< Len(f.names)
    /\ \A k \in keys : \/ \E i \in later : f.names[i] = k
                       \/ f.keywords /\ \A i \in DOMAIN f.names : f.names[i] # k
    /\ \A i \in later : i =< Len(f.names) - f.defaults => f.names[i] \in keys

UpTo(n, s) == SubSeq(s, 1, IF Len(s) < n THEN Len(s) ELSE n)
From(n, s) == SubSeq(s, n + 1, Len(s))

TestPlan(func, numbers, args, keys) ==
    [func |-> func, numbers |-> numbers, args |-> args, keys |-> keys]

\* Mutant of ParsedPlan: the third number is passed to the scenario, too.
ParsedPlanOverlaps(plan) ==
    LET ints == Coerced(Positional(plan.words))
    IN  TestPlan(plan.func, UpTo(3, ints), From(2, ints), Keywords(plan.words))

\* Mutant of ParsedPlan: the scenario misses its first argument.
ParsedPlanSkips(plan) ==
    LET ints == Coerced(Positional(plan.words))
    IN  TestPlan(plan.func, UpTo(3, ints), From(4, ints), Keywords(plan.words))

\* One round of parse_testplan's loop, and what makes it raise.
ParsedPlan(plan) ==
    LET ints == Coerced(Positional(plan.words))
    IN  TestPlan(plan.func, UpTo(3, ints), From(3, ints), Keywords(plan.words))

\* verify_arguments gets the keywords beside its own parameter, func.
Passed(plan) == "func" \notin Keywords(plan.words)

Parses(plan) ==
    /\ Len(plan.words) >= 3
    /\ Passed(plan)
    /\ Verifies(plan.func, Len(ParsedPlan(plan).args))

\* The arguments of aplt_scenario: when the first one is a URL, the last one
\* is taken for it.
UrlFirst(values) == values # <<>> /\ values[1] = Url
WithoutUrl(values) == IF UrlFirst(values) THEN Front(values) ELSE values

ParsedScenario(plan) ==
    TestPlan(plan.func, <<1, 1, 0>>,
             Coerced(WithoutUrl(Positional(plan.words))), Keywords(plan.words))

\* Without any words verify_arguments is not called.
ScenarioParses(plan) ==
    \/ plan.words = <<>>
    \/ Passed(plan) /\ Verifies(plan.func, Len(ParsedScenario(plan).args))

-----------------------------------------------------------------------------
Init ==
    /\ input \in Inputs
    /\ phase = "given"
    /\ testplans = <<>>
    /\ ran = 0
    /\ url = "default"

\* run_scenario: one plan, to be launched once.
ParseScenario ==
    /\ phase = "given"
    /\ input.program = "scenario"
    /\ LET plan == input.plans[1]
           values == Positional(plan.words) IN
          IF ScenarioParses(plan)
          THEN /\ phase' = "parsed"
               /\ testplans' = <<ParsedScenario(plan)>>
               /\ url' = IF ~UrlFirst(values) THEN "default"
                         ELSE IF Last(values) = Url THEN "given" ELSE "wrong"
          ELSE phase' = "refused" /\ UNCHANGED <<testplans, url>>
    /\ UNCHANGED <<input, ran>>

\* run_testplan and spawn: parse_testplan refuses all plans or none.
ParseTestplan ==
    /\ phase = "given"
    /\ input.program \in {"testplan", "spawn"}
    /\ IF \A i \in DOMAIN input.plans : Parses(input.plans[i])
       THEN /\ phase' = "parsed"
            /\ testplans' = [i \in DOMAIN input.plans |->
                                ParsedPlan(input.plans[i])]
       ELSE phase' = "refused" /\ UNCHANGED testplans
    /\ UNCHANGED <<input, ran, url>>

\* LoadRunner.start runs all plans, spawn only the first.
ToRun == IF input.program = "spawn" THEN 1 ELSE Len(testplans)

\* The keywords that RunnerHarness has parameters of its own for.
HarnessParameters ==
    {"self", "load_runner", "websocket_url", "statsd_client", "scenario",
     "endpoint", "endpoint_ssl_cert", "endpoint_ssl_key"}

\* _run_testplan raises when it cannot unpack the plan, make the harness, or
\* divide by the stagger.
Runs(plan) ==
    /\ Len(plan.numbers) = 3
    /\ plan.keys \cap HarnessParameters = {}
    /\ url # "wrong"
    /\ plan.numbers[2] > 0

RunTestplan ==
    /\ phase = "parsed"
    /\ ran < ToRun
    /\ IF Runs(testplans[ran + 1])
       THEN ran' = ran + 1 /\ UNCHANGED phase
       ELSE phase' = "raised" /\ UNCHANGED ran
    /\ UNCHANGED <<input, testplans, url>>

Started ==
    /\ phase = "parsed"
    /\ ran = ToRun
    /\ phase' = "started"
    /\ UNCHANGED <<input, testplans, ran, url>>

Next == ParseScenario \/ ParseTestplan \/ RunTestplan \/ Started

Spec == Init /\ [][Next]_vars

-----------------------------------------------------------------------------
(* Properties. *)

TypeOK ==
    /\ phase \in {"given", "parsed", "refused", "raised", "started"}
    /\ testplans \in Seq([func : Function, numbers : Seq(Nat), args : Seq(Nat),
                          keys : SUBSET STRING])
    /\ ran \in 0..Len(testplans)
    /\ url \in {"default", "given", "wrong"}

\* A plan as the usage of aplt_testplan has it begins with three integers.
ThreeNumbers(words) ==
    /\ Len(words) >= 3
    /\ \A i \in 1..3 : LET w == words[i] IN
          /\ ~w.escaped /\ w.keys = {}
          /\ Len(w.values) = 1 /\ w.values[1] \in Nat

\* The integers that the words after the third stand for.
Further(words) == Coerced(Positional(From(3, words)))

\* Quantity, stagger and delay are what a plan's first three words say, and
\* the scenario is called with what the other words say, in their order:
\* dropping and grouping words does not let one take the place of another
\* (parse_testplan).
NumbersAreAsWritten ==
    (input.program # "scenario" /\ testplans # <<>>) =>
        \A i \in DOMAIN testplans :
            LET words == input.plans[i].words IN
            ThreeNumbers(words) =>
                /\ testplans[i].numbers = [k \in 1..3 |-> words[k].values[1]]
                /\ testplans[i].args = Further(words)

\* What is launched without keywords can be called: verify_arguments lets no
\* plan pass whose scenarios raise when they are made.  With keywords, or when
\* aplt_scenario is given no words, plans pass that keep the program from ending
\* (StopsUnlessRaised in LoadRunner.tla).
VerifiedCanBeCalled ==
    \A i \in DOMAIN testplans :
        (testplans[i].keys = {} /\ input.plans[i].words # <<>>) =>
            CanCall(testplans[i].func, Len(testplans[i].args), {})

\* A test plan that is as the usage has it, for scenarios that take its
\* arguments, is neither refused nor does starting it raise, unless a keyword
\* is the name of a parameter of the program's own.
DocumentedPlansStart ==
    (/\ input.program # "scenario"
     /\ \A i \in DOMAIN input.plans :
           LET plan == input.plans[i] IN
           /\ ThreeNumbers(plan.words)
           /\ plan.words[2].values[1] > 0
           /\ CanCall(plan.func, Len(Further(plan.words)), {})
           /\ Keywords(plan.words) \cap (HarnessParameters \cup {"func"}) = {})
        => phase \notin {"refused", "raised"}

=============================================================================
