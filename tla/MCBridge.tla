------------------------------ MODULE MCBridge ------------------------------
(* Bridge for TLC: the rules of the README's example, one setup for each.  *)
EXTENDS Bridge, TLC

Msg(id, topic, qos, retain) ==
  [id |-> id, topic |-> topic, qos |-> qos, retain |-> retain, empty |-> FALSE]

Rule(l, r, direction, qos) ==
  [local |-> l, remote |-> r, direction |-> direction, qos |-> qos, retain |-> direction # "out"]

Out == Rule(<<"sensors", "#">>, <<"edge", "sensors", "#">>, "out", 2)
In == Rule(<<"commands", "#">>, <<"device", "commands", "#">>, "in", 2)
Both == Rule(<<"shared", "#">>, <<"shared", "#">>, "both", 1)

\* Rules with other patterns: "+" as the last level and before it, no wildcard,
\* and different last levels.
Patterns == << Rule(<<"a", "+">>, <<"x", "y", "+">>, "out", 1),
               Rule(<<"b", "+", "t">>, <<"x", "+", "t">>, "out", 1),
               Rule(<<"alarm">>, <<"x", "alarm">>, "out", 0),
               Rule(<<"c", "#">>, <<"x">>, "out", 1) >>

Setup(rules, prevention, here, there, failures) ==
  [rules |-> rules, loop_prevention |-> prevention, keepalive |-> 60, local |-> here,
   remote |-> there, faults |-> failures, lasting |-> FALSE, stops |-> FALSE]

\* Three local messages through one rule, of which two have QoS 2, and one
\* that no rule matches; two remote messages.
Upward == {Msg(1, <<"sensors", "x">>, 2, TRUE), Msg(2, <<"sensors", "x", "y">>, 1, FALSE),
           Msg(3, <<"sensors", "x">>, 2, FALSE)}
Downward == {Msg(4, <<"device", "commands", "x">>, 1, TRUE),
             Msg(5, <<"device", "commands", "x">>, 2, FALSE)}
Shared == {Msg(6, <<"shared", "x">>, 1, FALSE)}
SharedBack == {Msg(7, <<"shared", "x">>, 2, TRUE)}
Other == {Msg(8, <<"other">>, 0, FALSE)}
\* The parent level of a pattern, and topics of the other patterns.
Parents == {Msg(1, <<"sensors">>, 1, FALSE), Msg(2, <<"device", "commands">>, 1, FALSE)}
Various == {Msg(1, <<"a", "z">>, 2, TRUE), Msg(2, <<"b", "z", "t">>, 1, FALSE),
            Msg(3, <<"alarm">>, 1, FALSE), Msg(4, <<"c">>, 1, FALSE)}

MCSetups ==
  { Setup(<<Out, In>>, "no_local", Upward \cup Other, {}, 0),
    Setup(<<Out, In>>, "no_local", {}, Downward, 1),
    Setup(<<Out, In>>, "no_local", {m \in Parents : m.id = 1}, {m \in Parents : m.id = 2}, 0),
    Setup(Patterns, "no_local", Various, {}, 0),
    Setup(<<Out, Both>>, "no_local", Shared, SharedBack, 1),
    Setup(<<Out, Both>>, "none", Shared, SharedBack, 0),
    [Setup(<<Out>>, "no_local", Upward, {}, 1) EXCEPT !.stops = TRUE],
    [Setup(<<Out>>, "no_local", Upward, {}, 1) EXCEPT !.stops = TRUE, !.lasting = TRUE],
    [Setup(<<Both>>, "no_local", Shared, {}, 1) EXCEPT !.stops = TRUE, !.keepalive = 0] }

MCTopics == {<<"commands", "x">>, <<"shared", "x">>}

MCClients == {"c1", "c2", "c3", "c4"}
MCStanding == ("c1" :> "online") @@ ("c2" :> "full") @@ ("c3" :> "offline") @@ ("c4" :> "clean")
MCSubs == {[client |-> c, filter |-> f, qos |-> 1] :
             c \in MCClients, f \in {<<"#">>, <<"shared", "+">>}}

=============================================================================
