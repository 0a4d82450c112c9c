------------------------- MODULE MCSubscriptionStore -------------------------
(* SubscriptionStore over real filters: the order of visits is the trie's. *)
EXTENDS SubscriptionStore

CONSTANT NoNode

Trie == INSTANCE TopicTrie WITH None <- NoNode

AB == <<"a", "b">>
AHash == <<"a", "#">>

FullTrie ==
  FoldSet(LAMBDA f, node : Trie!insert(node, f, f), Trie!NewNode, Filters)

MCVisits == [t \in Topics |-> Trie!matches(FullTrie, t)]

MCFilters == {AHash, AB}
MCTopics == {AB, <<"b">>, <<"c">>}

\* Bound: before the first change three threads read three topics, which is
\* enough for the cache to grow past twice its limit; after it two threads at a
\* time are inside the store, and read the topic that has subscriptions.
MCThreads ==
  \/ generation = 0 /\ \A w \in Workers : ~ Pending(w)
  \/ /\ \E w \in Workers : pc[w] = "idle"
     /\ \A w \in Workers : InMatches(w) => topic[w] = AB

\* Threads are interchangeable.
MCSymmetry == Permutations(Workers)
=============================================================================
