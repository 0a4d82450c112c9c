------------------------------ MODULE TopicTrie ------------------------------
(***************************************************************************)
(* The topic trie (src/src/topic/trie.rs) as operators on nodes.  A filter *)
(* or a topic is the sequence of its levels, what split('/') yields; the   *)
(* keys of children are ordinary levels, "+" and "#" have fields of their  *)
(* own.  A node's Option fields hold None when they are empty.             *)
(***************************************************************************)
EXTENDS Naturals, SequencesExt

CONSTANT None

NewNode ==
  [value |-> None, children |-> <<>>, single_wildcard |-> None,
   multi_wildcard |-> None]

\* children.entry(level).or_default(), and the child written back.
WithChild(node, level, child) ==
  [node EXCEPT !.children =
     [l \in DOMAIN @ \cup {level} |-> IF l = level THEN child ELSE @[l]]]

\* The node reached by one ordinary level or "+", None if there is none.
ChildAt(node, level) ==
  IF level = "+" THEN node.single_wildcard
  ELSE IF level \in DOMAIN node.children THEN node.children[level]
  ELSE None

RECURSIVE insert(_, _, _)
insert(node, filter, value) ==
  IF filter = <<>> THEN [node EXCEPT !.value = value]
  ELSE LET level == Head(filter)
           there == ChildAt(node, level)
           child == IF there = None THEN NewNode ELSE there
           below == insert(child, Tail(filter), value)
       IN  IF level = "#" THEN [node EXCEPT !.multi_wildcard = value]
           ELSE IF level = "+" THEN [node EXCEPT !.single_wildcard = below]
           ELSE WithChild(node, level, below)

RECURSIVE get_mut(_, _)
get_mut(node, filter) ==
  IF node = None THEN None
  ELSE IF filter = <<>> THEN node.value
  ELSE IF Head(filter) = "#" THEN node.multi_wildcard
  ELSE get_mut(ChildAt(node, Head(filter)), Tail(filter))

\* remove empties the field of the filter; nodes are never pruned.
RECURSIVE remove(_, _)
remove(node, filter) ==
  IF filter = <<>> THEN [node EXCEPT !.value = None]
  ELSE LET level == Head(filter)
           child == ChildAt(node, level)
       IN  IF level = "#" THEN [node EXCEPT !.multi_wildcard = None]
           ELSE IF child = None THEN node
           ELSE IF level = "+"
             THEN [node EXCEPT !.single_wildcard = remove(child, Tail(filter))]
           ELSE WithChild(node, level, remove(child, Tail(filter)))

\* The predicate of unsubscribe_all: the client's subscriptions leave the Vec,
\* and a Vec that is empty then leaves the trie.
Retain(subs, client_id) ==
  IF subs = None THEN None
  ELSE LET kept == SelectSeq(subs, LAMBDA s : s.client_id # client_id)
       IN  IF kept = <<>> THEN None ELSE kept

RECURSIVE remove_by_predicate(_, _)
remove_by_predicate(node, client_id) ==
  IF node = None THEN None
  ELSE [value |-> Retain(node.value, client_id),
        multi_wildcard |-> Retain(node.multi_wildcard, client_id),
        single_wildcard |-> remove_by_predicate(node.single_wildcard, client_id),
        children |-> [l \in DOMAIN node.children |->
                        remove_by_predicate(node.children[l], client_id)]]

Some(v) == IF v = None THEN <<>> ELSE <<v>>

IsSystemTopic(topic) == topic # <<>> /\ Head(topic) = "$SYS"

\* matches_recursive: the values passed to the callback, in order.  wild says
\* whether wildcards count at this node (not at the root for a $-topic).
RECURSIVE matches_recursive(_, _, _)
matches_recursive(node, levels, wild) ==
  IF node = None THEN <<>>
  ELSE (IF wild THEN Some(node.multi_wildcard) ELSE <<>>) \o
       (IF levels = <<>> THEN Some(node.value)
        ELSE (IF wild
              THEN matches_recursive(node.single_wildcard, Tail(levels), TRUE)
              ELSE <<>>) \o
             (IF Head(levels) \in DOMAIN node.children
              THEN matches_recursive(node.children[Head(levels)],
                                     Tail(levels), TRUE)
              ELSE <<>>))

\* Mutant: wildcards at the root match $-topics too.
MatchesSystemTopics(node, topic) == matches_recursive(node, topic, TRUE)

matches(node, topic) == matches_recursive(node, topic, ~ IsSystemTopic(topic))

\* for_each: the set of the values it visits.
RECURSIVE for_each(_)
for_each(node) ==
  IF node = None THEN {}
  ELSE ({node.value, node.multi_wildcard} \ {None})
       \cup for_each(node.single_wildcard)
       \cup UNION {for_each(node.children[l]) : l \in DOMAIN node.children}
=============================================================================
