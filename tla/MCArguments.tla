---------------------------- MODULE MCArguments ----------------------------
(* Bounded instances of Arguments, see the README's table of runs. *)
EXTENDS ShippedPlans

CONSTANT OneAndAHalf
Halves == [v \in {OneAndAHalf} |-> 1]

\* Words: integers, what is none, a URL, a list, keywords, escaped JSON.
NoInt == [values |-> <<Text>>, keys |-> {}, escaped |-> FALSE]
AUrl == [values |-> <<Url>>, keys |-> {}, escaped |-> FALSE]
List == [values |-> <<2, Text, OneAndAHalf>>, keys |-> {}, escaped |-> FALSE]
Escaped == [values |-> <<>>, keys |-> {"a"}, escaped |-> TRUE]

\* Scenario functions: one parameter required and one not, any arguments, and
\* no parameters.
F(names, defaults, any) ==
    [names |-> names, defaults |-> defaults, varargs |-> any, keywords |-> any]
Functions == {F(<<"a", "b">>, 1, FALSE), F(<<>>, 0, TRUE), F(<<>>, 0, FALSE)}

UpToWords(words, n) == UNION {[1..k -> words] : k \in 0..n}
PlansOf(words, n) == [func : Functions, words : UpToWords(words, n)]

I(program, plans) == {[program |-> program, plans |-> p] : p \in plans}

\* One plan of up to five words; two plans, given or spawned; a
\* scenario's arguments; and the plans that are shipped.
LongPlans ==
    I("testplan",
      {<<plan>> : plan \in PlansOf({Num(0), Num(1), NoInt, List, Key("a")}, 4)
                      \cup PlansOf({Num(2), Num(1), List}, 5)})
TwoPlans ==
    {<<first, second>> :
        first \in PlansOf({Num(0), Num(1), Key("endpoint"), Key("func")}, 3),
        second \in PlansOf({Num(1)}, 4)}
Scenarios ==
    I("scenario",
      {<<plan>> : plan \in PlansOf({Num(1), NoInt, AUrl, Key("a"), Key("func"),
                                    Escaped}, 3)})

AllInputs ==
    LongPlans \cup I("spawn", TwoPlans) \cup I("testplan", TwoPlans) \cup Scenarios
        \cup Spawned
=============================================================================
