----------------------------- MODULE TopicMapper -----------------------------
(***************************************************************************)
(* The forwarding rules of a bridge: src/src/bridge/topic_mapper.rs.  A    *)
(* topic and a pattern are the sequences of their levels; a rule is a      *)
(* record with its patterns local and remote, its direction, the highest   *)
(* QoS it forwards and whether it forwards the retain flag.                *)
(***************************************************************************)
EXTENDS Integers, SequencesExt, TopicFilter, LocalRouting

source(rule, outbound) == IF outbound THEN rule.local ELSE rule.remote
dest(rule, outbound) == IF outbound THEN rule.remote ELSE rule.local

is_outbound(rule) == rule.direction \in {"out", "both"}
is_inbound(rule) == rule.direction \in {"in", "both"}

outbound_rules(rules) == SelectSeq(rules, is_outbound)
inbound_rules(rules) == SelectSeq(rules, is_inbound)

(* The levels before the first wildcard. *)
BeforeWildcard(levels) ==
  LET k == SelectInSeq(levels, LAMBDA l : l \in {"#", "+"})
  IN  IF k = 0 THEN levels ELSE SubSeq(levels, 1, k - 1)

(* Mutant: the prefix of the source stays. *)
PrefixStays(topic, prefix) == topic

(* strip_prefix, for a prefix that ends with "/". *)
Strip(topic, prefix) ==
  IF IsStrictPrefix(prefix, topic) THEN SubSeq(topic, Len(prefix) + 1, Len(topic)) ELSE topic

(* Patterns with the same last level exchange what precedes it; with       *)
(* other patterns (compute_prefix_transform finds no prefixes) the topic   *)
(* stays as it is.                                                         *)
transform(rule, topic, outbound) ==
  LET from == source(rule, outbound)
      to == dest(rule, outbound)
  IN  IF from = to \/ Last(from) # Last(to) THEN topic
      ELSE BeforeWildcard(Front(to)) \o Strip(topic, Front(from))

(* The first rule that matches, 0 if there is none. *)
FirstMatch(rules, topic, outbound) ==
  SelectInSeq(rules, LAMBDA r : topic_matches_filter(topic, source(r, outbound)))

should_forward_outbound(rules, topic) == FirstMatch(outbound_rules(rules), topic, TRUE) # 0

(* map_outbound and map_inbound: the message with another topic, no QoS    *)
(* above that of the rule, and its retain flag if the rule lets it pass.   *)
MapBy(rule, m, outbound) ==
  [m EXCEPT !.topic = transform(rule, @, outbound),
            !.qos = effective_qos(@, rule.qos),
            !.retain = @ /\ rule.retain]

map_outbound(rules, m) ==
  LET rs == outbound_rules(rules) IN MapBy(rs[FirstMatch(rs, m.topic, TRUE)], m, TRUE)

should_forward_inbound(rules, topic) == FirstMatch(inbound_rules(rules), topic, FALSE) # 0

map_inbound(rules, m) ==
  LET rs == inbound_rules(rules) IN MapBy(rs[FirstMatch(rs, m.topic, FALSE)], m, FALSE)

inbound_filters(rules) == {[filter |-> r.remote, qos |-> r.qos] : r \in Range(inbound_rules(rules))}

=============================================================================
