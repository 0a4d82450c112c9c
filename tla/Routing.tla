------------------------------- MODULE Routing -------------------------------
(***************************************************************************)
(* The handlers of SUBSCRIBE and UNSUBSCRIBE                               *)
(* (src/src/broker/connection/subscribe.rs) on the real trie, and how a    *)
(* message is merged into one copy per client (route_message of            *)
(* publish.rs, route_will_message of disconnect.rs).  A handler is one     *)
(* step here; ConnectionLifecycle and SubscriptionStore have the steps     *)
(* inside.  What becomes of a copy is in Session.                          *)
(***************************************************************************)
EXTENDS TrieStore

CONSTANTS
  Clients,
  Subscribes,    \* SUBSCRIBE packets: [subscriptions, id]
  Unsubscribes,  \* UNSUBSCRIBE packets: sequences of filters
  Topics,        \* topic names of messages
  Retained,      \* the topics that have a retained message, to its QoS
  max_qos,
  wildcard_subscription_available,
  MaxPackets     \* bound: packets handled

VARIABLES
  root,          \* TopicTrie<Vec<Subscription>>
  sessions,      \* client -> its session's subscriptions, by filter
  asked,         \* history: the subscriptions granted and not given up
  orphans,       \* history: those taken by an UNSUBSCRIBE of another filter
  answer,        \* the last SUBACK, UNSUBACK or CONNACK, and what follows it
  packets

history == <<asked, orphans>>
vars == <<root, sessions, history, answer, packets>>

Lower(m, n) == IF m <= n THEN m ELSE n

-----------------------------------------------------------------------------
(* SUBSCRIBE *)

HasWildcard(filter) == \E i \in DOMAIN filter : filter[i] \in {"+", "#"}

Success == 0
NoSubscriptionExisted == 17
UnspecifiedError == 128
NotAuthorized == 135
TopicFilterInvalid == 143
WildcardSubsNotSupported == 162

is_success(code) == code < 128

\* What the hook on_subscribe_check makes of an entry: Ok(true), Ok(false), Err.
Verdicts == {Success, NotAuthorized, UnspecifiedError}

\* The checks of one entry, in order.
Check(sub, verdict) ==
  IF ~ validate_topic_filter(sub.filter) THEN TopicFilterInvalid
  ELSE IF ~ wildcard_subscription_available /\ HasWildcard(sub.filter)
    THEN WildcardSubsNotSupported
  ELSE verdict

Subscription(client_id, sub, id) ==
  [client_id |-> client_id, qos |-> Lower(sub.qos, max_qos),
   no_local |-> sub.no_local, retain_as_published |-> sub.retain_as_published,
   subscription_id |-> id, share_group |-> ShareGroup(sub.filter)]

\* Mutant: a filter the session has keeps its options.
AddIfNew(session, sub, id) ==
  [f \in DOMAIN session \cup {sub.filter} |->
     IF f \in DOMAIN session THEN session[f]
     ELSE [options |-> sub, subscription_id |-> id]]

add_subscription(session, sub, id) ==
  [f \in DOMAIN session \cup {sub.filter} |->
     IF f = sub.filter THEN [options |-> sub, subscription_id |-> id]
     ELSE session[f]]

\* subscription_existed, read before the session changes.
Existed(session, filter) == filter \in DOMAIN session

\* Nothing after the first "#" of a filter counts in the trie.
UpToHash(filter) ==
  SubSeq(filter, 1,
         Min({Len(filter)} \cup {i \in DOMAIN filter : filter[i] = "#"}))

Place(filter) == UpToHash(Actual(filter))

\* The subscriptions of a client that the store cannot tell from this filter.
SamePlace(subs, client_id, filter) ==
  {a \in subs : /\ Place(a.filter) = Place(filter)
                /\ SameOwner(a.sub, client_id, ShareGroup(filter))}

\* One turn of the loop over the entries of the packet.
SubscribeOne(client_id, sub, id, verdict, st) ==
  IF Check(sub, verdict) # Success
  THEN [st EXCEPT !.codes = Append(@, Check(sub, verdict)),
                  !.existed = Append(@, FALSE)]
  ELSE LET s == Subscription(client_id, sub, id)
       IN  [root |-> subscribe(st.root, sub.filter, s),
            session |-> add_subscription(st.session, sub, id),
            asked |-> (st.asked \ SamePlace(st.asked, client_id, sub.filter))
                        \cup {[sub |-> s, filter |-> sub.filter]},
            orphans |-> st.orphans \ {<<client_id, sub.filter>>},
            codes |-> Append(st.codes, s.qos),
            existed |-> Append(st.existed, Existed(st.session, sub.filter))]

RECURSIVE SubscribeAll(_, _, _, _, _)
SubscribeAll(client_id, subs, id, verdicts, st) ==
  IF subs = <<>> THEN st
  ELSE SubscribeAll(client_id, Tail(subs), id, Tail(verdicts),
         SubscribeOne(client_id, Head(subs), id, Head(verdicts), st))

should_send(sub, existed) ==
  \/ sub.retain_handling = "SendAtSubscribe"
  \/ sub.retain_handling = "SendAtSubscribeIfNew" /\ ~ existed

\* send_retained_messages for one entry.  The filter is the one of the packet, so
\* that a shared one matches no topic.  Expiry is in Session.
send_retained_messages(filter, qos, id) ==
  {[topic |-> t, qos |-> Lower(Retained[t], qos), id |-> id] :
     t \in {u \in DOMAIN Retained : topic_matches_filter(u, filter)}}

\* The loop over the entries after the SUBACK; one set per entry.
SendRetained(subs, id, codes, existed) ==
  [i \in DOMAIN subs |->
     IF is_success(codes[i]) /\ should_send(subs[i], existed[i])
     THEN send_retained_messages(subs[i].filter, codes[i], id) ELSE {}]

handle_subscribe(client_id, packet, verdicts) ==
  LET done == SubscribeAll(client_id, packet.subscriptions, packet.id, verdicts,
                [root |-> root, session |-> sessions[client_id],
                 asked |-> asked, orphans |-> orphans,
                 codes |-> <<>>, existed |-> <<>>])
  IN  /\ packets < MaxPackets
      /\ packets' = packets + 1
      /\ root' = done.root
      /\ sessions' = [sessions EXCEPT ![client_id] = done.session]
      /\ asked' = done.asked /\ orphans' = done.orphans
      /\ answer' = [kind |-> "SUBACK", client_id |-> client_id, packet |-> packet,
                    codes |-> done.codes,
                    retained |-> SendRetained(packet.subscriptions, packet.id,
                                              done.codes, done.existed)]

-----------------------------------------------------------------------------
(* UNSUBSCRIBE.  The filter is not validated: one with levels after "#" acts on
   the trie as the filter that ends there, and on the session as another.  The
   codes are those of version 5; version 3.1.1 has none. *)

remove_subscription(session, filter) ==
  [f \in DOMAIN session \ {filter} |-> session[f]]

RECURSIVE UnsubscribeAll(_, _, _)
UnsubscribeAll(client_id, filters, st) ==
  IF filters = <<>> THEN st
  ELSE LET f == Head(filters)
           taken == SamePlace(st.asked, client_id, f)
       IN  UnsubscribeAll(client_id, Tail(filters),
             [root |-> unsubscribe(st.root, f, client_id),
              session |-> remove_subscription(st.session, f),
              asked |-> st.asked \ taken,
              orphans |-> (st.orphans \cup {<<client_id, a.filter>> : a \in taken})
                            \ {<<client_id, f>>},
              codes |-> Append(st.codes, IF Removes(st.root, f, client_id)
                                         THEN Success
                                         ELSE NoSubscriptionExisted)])

handle_unsubscribe(client_id, filters) ==
  LET done == UnsubscribeAll(client_id, filters,
                [root |-> root, session |-> sessions[client_id],
                 asked |-> asked, orphans |-> orphans, codes |-> <<>>])
  IN  /\ packets < MaxPackets
      /\ packets' = packets + 1
      /\ root' = done.root
      /\ sessions' = [sessions EXCEPT ![client_id] = done.session]
      /\ asked' = done.asked /\ orphans' = done.orphans
      /\ answer' = [kind |-> "UNSUBACK", client_id |-> client_id,
                    filters |-> filters, codes |-> done.codes]

\* A session that is given up: a clean start, or the end of a session that does
\* not outlive its connection.
CleanSession(client_id) ==
  /\ packets < MaxPackets
  /\ packets' = packets + 1
  /\ root' = unsubscribe_all(root, client_id)
  /\ sessions' = [sessions EXCEPT ![client_id] = <<>>]
  /\ asked' = {a \in asked : a.sub.client_id # client_id}
  /\ orphans' = {o \in orphans : o[1] # client_id}
  /\ answer' = None

\* A session that is resumed: after the CONNACK the retained messages are sent
\* for what the session lists, at the QoS the client had asked for.
send_retained_for_existing_subscriptions(client_id) ==
  LET session == sessions[client_id]
  IN  /\ packets < MaxPackets
      /\ packets' = packets + 1
      /\ answer' = [kind |-> "CONNACK", client_id |-> client_id,
                    retained |-> [f \in DOMAIN session |->
                      send_retained_messages(f, session[f].options.qos,
                                             session[f].subscription_id)]]
      /\ UNCHANGED <<root, sessions, history>>

Init ==
  /\ root = NewNode
  /\ sessions = [c \in Clients |-> <<>>]
  /\ asked = {} /\ orphans = {} /\ answer = None /\ packets = 0

Next ==
  \E c \in Clients :
    \/ \E p \in Subscribes :
         \E verdicts \in [DOMAIN p.subscriptions -> Verdicts] :
           handle_subscribe(c, p, verdicts)
    \/ \E filters \in Unsubscribes : handle_unsubscribe(c, filters)
    \/ CleanSession(c)
    \/ send_retained_for_existing_subscriptions(c)

Spec == Init /\ [][Next]_vars

-----------------------------------------------------------------------------
(* The copies of a message, one per client. *)

\* Mutant: the QoS of the last subscription found wins.
MergeLast(entry, sub) ==
  [qos |-> sub.qos,
   retain_as_published |-> entry.retain_as_published \/ sub.retain_as_published,
   ids |-> entry.ids \cup ({sub.subscription_id} \ {None})]

\* The update of an entry of client_subs; route_message starts from the first
\* subscription of the client, route_will_message from an empty entry.
Merge(entry, sub) ==
  [qos |-> IF sub.qos > entry.qos THEN sub.qos ELSE entry.qos,
   retain_as_published |-> entry.retain_as_published \/ sub.retain_as_published,
   ids |-> entry.ids \cup ({sub.subscription_id} \ {None})]

EmptyEntry == [qos |-> 0, retain_as_published |-> FALSE, ids |-> {}]

FirstEntry(sub) ==
  [qos |-> sub.qos, retain_as_published |-> sub.retain_as_published,
   ids |-> {sub.subscription_id} \ {None}]

Skipped(sub, sender) == sub.no_local /\ sub.client_id = sender

\* The subscriptions found for one client.
Found(found, client_id, sender) ==
  SelectSeq(found, LAMBDA s : s.client_id = client_id /\ ~ Skipped(s, sender))

\* The entry of one client in client_subs.
ClientSub(entry, subs) == FoldLeft(Merge, entry, subs)

Recipients(found, sender) ==
  {s.client_id : s \in {r \in ToSet(found) : ~ Skipped(r, sender)}}

\* outgoing: its QoS, whether the retain flag survives, and the subscription
\* identifiers.
Outgoing(qos, entry) == [entry EXCEPT !.qos = Lower(qos, @)]

route_message(found, sender, qos) ==
  [c \in Recipients(found, sender) |->
     LET own == Found(found, c, sender)
     IN  Outgoing(qos, ClientSub(FirstEntry(Head(own)), Tail(own)))]

route_will_message(found, sender, qos) ==
  [c \in Recipients(found, sender) |->
     Outgoing(qos, ClientSub(EmptyEntry, Found(found, c, sender)))]

-----------------------------------------------------------------------------
(* Properties *)

\* The client has subscribed to this very filter.
Has(client_id, filter) ==
  \E a \in asked : a.filter = filter /\ a.sub.client_id = client_id

Matching(topic) ==
  {a \in asked : topic_matches_filter(topic, Actual(a.filter))}

\* The walk of the trie finds, for every topic, exactly the subscriptions whose
\* filter matches it by topic_matches_filter, each as often as it was made: live
\* messages and retained ones (subscribe.rs:220) are selected by two algorithms
\* that agree.  The lookup of a filter, which decides between a new node and an
\* existing one, and the walk over all values see exactly what was subscribed,
\* whatever calls emptied and refilled the nodes (trie.rs:93-114, 244-270).
TrieAgrees ==
  /\ \A t \in Topics :
       LET found == FlattenSeq(matches(root, t))
       IN  \A sub \in {a.sub : a \in asked} \cup ToSet(found) :
             Cardinality({i \in DOMAIN found : found[i] = sub})
               = Cardinality({a \in Matching(t) : a.sub = sub})
  /\ \A a \in asked : get_mut(root, Actual(a.filter)) # None
  /\ \A f \in UNION {ToSet(filters) : filters \in Unsubscribes} :
       LET there == get_mut(root, Actual(f))
       IN  (IF there = None THEN {} ELSE ToSet(there)) =
             {a.sub : a \in {x \in asked : Actual(x.filter) = Place(f)}}
  /\ UNION {ToSet(v) : v \in for_each(root)} = {a.sub : a \in asked}

\* What a set of subscriptions entitles their client to.
Entitled(subs, qos) ==
  [qos |-> Lower(qos, Max({s.qos : s \in subs})),
   retain_as_published |-> \E s \in subs : s.retain_as_published,
   ids |-> {s.subscription_id : s \in subs} \ {None}]

\* However many filters of a client match, and in whatever order the walk finds
\* them, the client gets one copy: at the highest QoS it was granted, with the
\* identifiers of all of them, without those whose no_local excludes the sender.
\* Of each share group one subscription counts, picked before no_local is looked
\* at.  A message and a will are merged alike (publish.rs:296-350,
\* disconnect.rs:263-313).
CopiesMerge ==
  \A t \in Topics, sender \in Clients, qos \in 0 .. max_qos :
    LET subs == {a.sub : a \in Matching(t)}
        Due(pick) ==
          LET due == {s \in subs : s.share_group = None}
                       \cup {pick[g] : g \in DOMAIN pick}
              heard == {s \in due : ~ Skipped(s, sender)}
          IN  [c \in {s.client_id : s \in heard} |->
                 Entitled({s \in heard : s.client_id = c}, qos)]
        all == {Due(p) : p \in Picks({s \in subs : s.share_group # None})}
        answers == Answers(root, t)
    IN  /\ {route_message(found, sender, qos) : found \in answers} = all
        /\ {route_will_message(found, sender, qos) : found \in answers} = all

\* The session lists every filter the client is routed, with the identifier and
\* the flags that routing uses and a QoS of which routing uses what max_qos leaves:
\* the session keeps the QoS that was asked for (subscribe.rs:117-142).  What else it
\* lists are exactly the filters that an UNSUBSCRIBE of a longer one has taken from
\* the trie alone, 'a/#/b' for 'a/#' (subscribe.rs:293-300).
SessionAgrees ==
  \A c \in Clients :
    LET session == sessions[c]
        routed == {a \in asked : a.sub.client_id = c}
    IN  /\ \A a \in routed :
             /\ a.filter \in DOMAIN session
             /\ LET s == session[a.filter]
                IN  /\ a.sub.subscription_id = s.subscription_id
                    /\ a.sub.no_local = s.options.no_local
                    /\ a.sub.retain_as_published = s.options.retain_as_published
                    /\ a.sub.qos = Lower(s.options.qos, max_qos)
        /\ {<<c, f>> : f \in DOMAIN session \ {a.filter : a \in routed}} =
             {o \in orphans : o[1] = c}

\* The step answers a packet of this kind.
Answered(kind) == packets' # packets /\ answer' # None /\ answer'.kind = kind

\* The codes of a SUBACK say what the trie then holds: a granted entry is routed
\* at the QoS of its code, or that of a later entry of the packet with the same
\* filter, and a packet whose entries are all refused changes nothing.  A shared
\* filter with no_local is granted like any other, which
\* docs/mqtt-rfc/v5/05.05-subscribe.md:75 makes a Protocol Error.
Granted ==
  LET subs == answer'.packet.subscriptions
      codes == answer'.codes
      granted == {i \in DOMAIN subs : is_success(codes[i])}
      LastOf(i) == Max({j \in granted : subs[j].filter = subs[i].filter})
      there(i) == get_mut(root', Actual(subs[i].filter))
  IN  /\ Len(codes) = Len(subs)
      /\ granted = {} => root' = root /\ sessions' = sessions
      /\ \A i \in granted :
           /\ there(i) # None
           /\ \E s \in ToSet(there(i)) :
                /\ SameOwner(s, answer'.client_id, ShareGroup(subs[i].filter))
                /\ s.qos = codes[LastOf(i)]

\* Retained messages go out with a SUBSCRIBE exactly as its options ask: always,
\* never, or if the client did not have the subscription already; and never for a
\* shared one.  A filter that only the session still lists counts as one the client
\* has (subscribe.rs:120-123).
RetainedAsAsked ==
  LET c == answer'.client_id
      subs == answer'.packet.subscriptions
      had(i) ==
        \/ Has(c, subs[i].filter) \/ <<c, subs[i].filter>> \in orphans
        \/ \E j \in 1 .. i - 1 :
             /\ subs[j].filter = subs[i].filter
             /\ is_success(answer'.codes[j])
      wanted(i) ==
        /\ is_success(answer'.codes[i]) /\ ~ IsShared(subs[i].filter)
        /\ \/ subs[i].retain_handling = "SendAtSubscribe"
           \/ subs[i].retain_handling = "SendAtSubscribeIfNew" /\ ~ had(i)
  IN  \A i \in DOMAIN subs :
        {m.topic : m \in answer'.retained[i]} =
          {t \in DOMAIN Retained :
             wanted(i) /\ topic_matches_filter(t, subs[i].filter)}

\* A client that resumes its session gets the retained messages of everything it is
\* routed, with the identifier of the subscription, and those of the filters that
\* only its session lists; no message above the QoS it was granted, unless the
\* message was published above max_qos, which the broker lets pass: then the QoS is
\* the one asked for (connect.rs:525-536).
RetainedOnResume ==
  LET c == answer'.client_id
      routed == {a \in asked : a.sub.client_id = c}
      granted(m, a) ==
        /\ m.id = a.sub.subscription_id
        /\ m.qos = Lower(Retained[m.topic], a.sub.qos) \/ Retained[m.topic] > max_qos
  IN  /\ DOMAIN answer'.retained =
           {a.filter : a \in routed} \cup {o[2] : o \in {p \in orphans : p[1] = c}}
      /\ \A a \in routed :
           /\ {m.topic : m \in answer'.retained[a.filter]} =
                {t \in DOMAIN Retained : topic_matches_filter(t, a.filter)}
           /\ \A m \in answer'.retained[a.filter] : granted(m, a)

\* The UNSUBACK says Success for the filters the client had, and deleted is what it
\* names, character by character (docs/mqtt-rfc/v3.1.1/05.06-unsubscribe.md:104);
\* but a filter with levels behind a "#" is answered Success, and deletes, for
\* the filter that ends with the "#".
Removed ==
  LET c == answer'.client_id
      filters == ToSet(answer'.filters)
      success == {answer'.filters[i] : i \in {j \in DOMAIN answer'.filters :
                                                answer'.codes[j] = Success}}
      had == {f \in filters : Has(c, f)}
      cut == {f \in filters : Place(f) # Actual(f)}
  IN  /\ success \ cut = had
      /\ \A f \in cut : f \in success <=> SamePlace(asked, c, f) # {}
      /\ \A a \in asked \ asked' :
           a.sub.client_id = c /\ (a.filter \in had
                                    \/ \E f \in cut : Place(f) = Actual(a.filter))

\* What a client is told is true: the codes of a SUBACK and the retained messages
\* with it (subscribe.rs:44-206), the retained messages behind a CONNACK, and the
\* codes of an UNSUBACK (subscribe.rs:293-308).
AcksAreTrue ==
  [][/\ Answered("SUBACK") => Granted /\ RetainedAsAsked
     /\ Answered("CONNACK") => RetainedOnResume
     /\ Answered("UNSUBACK") => Removed]_vars
=============================================================================
