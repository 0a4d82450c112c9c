------------------------------ MODULE TrieStore ------------------------------
(***************************************************************************)
(* The operations of SubscriptionStore (src/src/topic/mod.rs) on the real  *)
(* trie, one call at a time, with the validation that precedes them        *)
(* (src/src/topic/validation.rs).  SubscriptionStore models the same calls *)
(* made by concurrent threads, with the trie as a map.                     *)
(* A name or filter is the sequence of its levels; <<"">> is the empty     *)
(* string.                                                                 *)
(***************************************************************************)
EXTENDS TopicTrie, TopicFilter, FiniteSets

CONSTANT max_topic_levels   \* 0: unlimited

-----------------------------------------------------------------------------
IsShared(filter) ==
  /\ Len(filter) > 2 /\ filter[1] = "$share" /\ filter[2] # ""
  /\ SubSeq(filter, 3, Len(filter)) # <<"">>

\* parse_shared_subscription: the group, None for an ordinary filter, and the
\* filter that goes into the trie.
ShareGroup(filter) == IF IsShared(filter) THEN filter[2] ELSE None

Actual(filter) ==
  IF IsShared(filter) THEN SubSeq(filter, 3, Len(filter)) ELSE filter

\* A filter that starts with "$share/" must be a shared one with a group free of
\* wildcards; "#" is the last level.  Levels that mix a wildcard with other
\* characters are not among the inputs.
validate_topic_filter(filter) ==
  /\ filter # <<"">>
  /\ Len(filter) > 1 /\ filter[1] = "$share"
       => IsShared(filter) /\ filter[2] \notin {"+", "#"}
  /\ max_topic_levels > 0 => Len(Actual(filter)) <= max_topic_levels
  /\ \A i \in DOMAIN Actual(filter) :
       Actual(filter)[i] = "#" => i = Len(Actual(filter))

-----------------------------------------------------------------------------
SameOwner(s, client_id, group) == s.client_id = client_id /\ s.share_group = group

\* The Vec without the client's subscription in the group.
Others(subs, client_id, group) ==
  SelectSeq(subs, LAMBDA s : ~ SameOwner(s, client_id, group))

\* The subscription carries its share group already.
subscribe(root, filter, sub) ==
  LET there == get_mut(root, Actual(filter))
  IN  insert(root, Actual(filter),
             IF there = None THEN <<sub>>
             ELSE Append(Others(there, sub.client_id, sub.share_group), sub))

\* Mutant: a subscription in any group counts.
RemovesAnyGroup(root, filter, client_id) ==
  LET there == get_mut(root, Actual(filter))
  IN  /\ there # None
      /\ \E i \in DOMAIN there : there[i].client_id = client_id

\* Whether unsubscribe finds something to remove, its result.
Removes(root, filter, client_id) ==
  LET there == get_mut(root, Actual(filter))
  IN  /\ there # None
      /\ \E i \in DOMAIN there : SameOwner(there[i], client_id, ShareGroup(filter))

unsubscribe(root, filter, client_id) ==
  LET there == get_mut(root, Actual(filter))
      left == Others(there, client_id, ShareGroup(filter))
  IN  IF there = None THEN root
      ELSE IF left = <<>> THEN remove(root, Actual(filter))
      ELSE insert(root, Actual(filter), left)

unsubscribe_all(root, client_id) == remove_by_predicate(root, client_id)

\* The subscriptions of all the groups that match, one of each to be picked.
Picks(shared) ==
  LET groups == {s.share_group : s \in shared}
  IN  {p \in [groups -> shared] : \A g \in groups : p[g].share_group = g}

\* The answers matches may give, by the state of the groups' counters: the
\* ordinary subscriptions in the order of the walk, then one of each group.
Answers(root, topic) ==
  LET found == FlattenSeq(matches(root, topic))
  IN  {SelectSeq(found, LAMBDA s : s.share_group = None)
         \o SetToSeq({p[g] : g \in DOMAIN p}) :
         p \in Picks({s \in ToSet(found) : s.share_group # None})}
=============================================================================
