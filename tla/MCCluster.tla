------------------------------ MODULE MCCluster ------------------------------
(* Cluster for TLC: two nodes, a and b, and what is published on a. *)
EXTENDS Cluster, TLC

m1 == [id |-> 1, topic |-> "t", qos |-> 1, retain |-> TRUE, empty |-> FALSE]
m2 == [id |-> 2, topic |-> "t", qos |-> 0, retain |-> TRUE, empty |-> TRUE]

OneMessage == {m1}
TwoMessages == {m1, m2}
FromA == [m \in Messages |-> "a"]

OneEach == ("c1" :> "a") @@ ("c2" :> "b")
OneEachStanding == ("c1" :> "online") @@ ("c2" :> "offline")
BothOnB == ("c1" :> "b") @@ ("c2" :> "b")

BothSubscribed == {<<"c1", "t">>, <<"c2", "t">>}
AHears == {<<"a", "b">>}

TopicCovers == {<<"t", "t">>}

=============================================================================
