----------------------------- MODULE TopicFilter -----------------------------
(***************************************************************************)
(* topic_matches_filter of src/src/topic/validation.rs.  A topic name and  *)
(* a filter are the sequences of their levels.                             *)
(***************************************************************************)
EXTENDS Sequences

\* The loop over the levels.
RECURSIVE LevelsMatch(_, _)
LevelsMatch(topic, filter) ==
  IF filter = <<>> THEN topic = <<>>
  ELSE \/ Head(filter) = "#"
       \/ /\ topic # <<>>
          /\ Head(filter) \in {"+", Head(topic)}
          /\ LevelsMatch(Tail(topic), Tail(filter))

\* The names that start with "$" are those with a first level "$SYS".
topic_matches_filter(topic, filter) ==
  /\ ~ (Head(topic) = "$SYS" /\ Head(filter) \in {"+", "#"})
  /\ LevelsMatch(topic, filter)

=============================================================================
