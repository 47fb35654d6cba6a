---------------------------- MODULE MCDiscovery ----------------------------
EXTENDS Discovery

\* Two instances of a service that is used, one of a service that is not, and
\* two files of workbooks.
MCKeys == {"g1", "g2", "o1", "n1", "n2"}
MCDir  == [k \in MCKeys |-> CASE k \in {"g1", "g2"} -> "game"
                             [] k = "o1" -> "other" [] OTHER -> "numbers"]

\* A is whole, with two rows of the same name.  The parse of B ends with a sheet
\* without rows, before its last sheet, that of C in a row longer than its header.
MCBooks == [A |-> <<[name |-> "t", rows |-> << <<"", "x", "y">>, <<"1", "2", "3">>, <<"1", "4">> >>],
                    [name |-> "s", rows |-> << <<"", "x">>, <<"1", "6">> >>]>>,
            B |-> <<[name |-> "t", rows |-> << <<"", "x">>, <<"2", "5">> >>],
                    [name |-> "u", rows |-> << <<"", "x">> >>],
                    [name |-> "v", rows |-> << <<"", "x">>, <<"1", "7">> >>]>>,
            C |-> <<[name |-> "t", rows |-> << <<"", "x">>, <<"1", "8">>, <<"3", "9", "0">>,
                                               <<"4", "1">> >>]>>]

MCValues == [k \in MCKeys |-> CASE k = "g1" -> {"a"} [] k = "g2" -> {"b"}
                                [] k = "n1" -> {"A", "B", "broken"} [] k = "n2" -> {"C"}
                                [] OTHER -> {}]

\* The lookups answer from what parse makes of these workbooks.
ASSUME BooksAnswered == \A c \in DOMAIN MCBooks : AnswersFrom(parse(MCBooks[c]), MCBooks[c])

Set(k, v) == [action |-> "set", key |-> k, value |-> v]
Load(prior, game, numbs, callers, subscribes, down) ==
    [log |-> prior, callers |-> callers, subscribes |-> subscribes, down |-> down,
     tables |-> callers = {},
     changes |-> [d \in {"game", "other", "numbers"} |->
                     CASE d = "game" -> game [] d = "numbers" -> numbs [] OTHER -> 0]]

\* Instances that come and go under lookups; a subscriber whose channel is too
\* small; workbooks stored over a broken one and over each other; some of each.
MCLoads ==
    {Load(<<Set("g1", "a"), Set("o1", "c")>>, 3, 0, {"p"}, FALSE, {"b"}),
     Load(<<Set("g1", "a"), Set("g2", "b")>>, 1, 0, {"p"}, TRUE, {"a"}),
     Load(<<Set("n1", "broken"), Set("n2", "C")>>, 0, 2, {}, FALSE, {}),
     Load(<<Set("g1", "a"), Set("n1", "A")>>, 1, 1, {}, FALSE, {"a"})}
=============================================================================
