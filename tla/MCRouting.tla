------------------------------ MODULE MCRouting ------------------------------
(* Routing over short filters and topics. *)
EXTENDS Routing

Short == {<<"a">>, <<"+">>, <<"#">>, <<"#", "a">>, <<"$SYS", "#">>}
         \cup {<<m, n>> : m \in {"a", "+"}, n \in {"a", "#"}}

\* Ordinary and shared filters, and malformed ones of both kinds.
MCFilters ==
  Short \cup {<<"$share", "g">> \o f : f \in {<<"a">>, <<"+">>, <<"#", "a">>}}
  \cup {<<"$share", "g">>, <<"$share", "+", "a">>, <<"">>, <<"a", "+", "a">>}

Entry(filter, qos, no_local, rap, handling) ==
  [filter |-> filter, qos |-> qos, no_local |-> no_local,
   retain_as_published |-> rap, retain_handling |-> handling]

\* Every filter in a packet of its own, and packets with two entries: the options
\* differ from one to the next.
MCSubscribes ==
  {[subscriptions |-> <<Entry(f, 1, FALSE, FALSE, "SendAtSubscribeIfNew")>>,
    id |-> None] : f \in MCFilters}
  \cup
  {[subscriptions |-> <<Entry(f, 2, TRUE, FALSE, "SendAtSubscribeIfNew"),
                        Entry(<<"a">>, 0, FALSE, TRUE, "SendAtSubscribe")>>,
    id |-> 1] : f \in {<<"#">>, <<"a">>, <<"$share", "g", "+">>}}

MCUnsubscribes ==
  {<<f>> : f \in Short \cup {<<"$share", "g", "a">>, <<"$share", "g", "#", "a">>}}
  \cup {<<<<"a">>, <<"#">>>>}

MCTopics ==
  {<<"a">>, <<"b">>, <<"$SYS">>, <<"a", "a">>, <<"a", "b">>, <<"b", "a">>, <<"$SYS", "a">>}

\* The first was published above max_qos.
MCRetained == (<<"a">> :> 2) @@ (<<"b", "a">> :> 1) @@ (<<"$SYS", "a">> :> 0)

MCSymmetry == Permutations(Clients)
=============================================================================
