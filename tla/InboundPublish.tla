--------------------------- MODULE InboundPublish ---------------------------
(***************************************************************************)
(* Messages from one publisher with a persistent session to the broker:    *)
(* handle_publish and handle_pubrel (src/src/broker/connection/publish.rs, *)
(* qos.rs) and the session's inflight_incoming.                            *)
(*                                                                         *)
(* The publisher opens connections 1, 2, ... one after another, and        *)
(* resumes its session on each.  Where Overlap allows it, the task of a    *)
(* broken connection goes on with what it has received next to the task of *)
(* the new connection; both work on the same session, one lock acquisition *)
(* or one write a step.  The publisher keeps to the protocol: it resends   *)
(* what is not acknowledged, in order, and uses an id again once it is     *)
(* free.                                                                   *)
(***************************************************************************)
EXTENDS Integers, FiniteSets, Sequences

CONSTANTS
  N,                \* messages 1 .. N are published in this order
  NoMsg,
  Qos,              \* message -> QoS
  Denied,           \* messages with an invalid topic or refused by the ACL
  Retain,           \* messages with the retain flag, all to one topic
  Empty,            \* messages without a payload
  MaxPacketId,
  max_awaiting_rel,
  V5,               \* the publisher speaks MQTT 5
  Overlap,          \* the task of a broken connection may outlive Reconnect
  MaxConnections    \* bound: connections the publisher opens

Messages == 1 .. N
Conns == 1 .. MaxConnections
PacketIds == 1 .. MaxPacketId

ASSUME InboundConstants ==
  /\ N \in Nat /\ NoMsg \notin Messages
  /\ Qos \in [Messages -> 0 .. 2]
  /\ Denied \cup Retain \cup Empty \subseteq Messages
  /\ MaxPacketId \in Nat /\ max_awaiting_rel \in Nat /\ MaxConnections \in Nat \ {0}
  /\ V5 \in BOOLEAN /\ Overlap \in BOOLEAN

VARIABLES
  conn,              \* the publisher's connection
  up,                \* it has not broken
  to_broker,         \* connection -> packets its task has not read
  to_client,         \* packets on their way to the publisher
  task,              \* connection -> the handler its task is in
  inflight_incoming, \* packet id -> QoS 2 message waiting for its PUBREL
  retained,          \* retained message of the topic
  sent,              \* publisher: message -> its state
  ids,               \* publisher: message -> its packet id
  routed             \* history: message -> how often it was routed

wire == <<to_broker, to_client>>
publisher == <<conn, up, sent, ids>>
vars == <<publisher, wire, task, inflight_incoming, retained, routed>>

Idle == [step |-> "idle"]
Gone == [step |-> "gone"]
\* A handler with the packet it answers with; ok is reason code < 0x80.
Handler(step, type, id, msg, ok) ==
  [step |-> step, type |-> type, id |-> id, msg |-> msg, ok |-> ok]

Become(c, t) == task' = [task EXCEPT ![c] = t]
Step(c, label) == Become(c, [task[c] EXCEPT !.step = label])

-----------------------------------------------------------------------------
(* The broker *)

Publish(c, p) ==
  LET qos == Qos[p.msg]
      answer == IF qos = 1 THEN "PUBACK" ELSE "PUBREC"
      full == Cardinality(DOMAIN inflight_incoming) >= max_awaiting_rel
      Go(step, ok) == Become(c, Handler(step, answer, p.id, p.msg, ok))
  IN  \/ p.msg \in Denied /\ IF qos = 0 THEN Become(c, Idle) ELSE Go("respond", FALSE)
      \/ p.msg \notin Denied /\ qos = 0 /\ Go("retain", TRUE)
      \/ p.msg \notin Denied /\ qos = 1 /\ Go("respond", TRUE)
      \/ p.msg \notin Denied /\ qos = 2
         /\ IF full THEN Go("respond", FALSE) ELSE Go("insert", TRUE)

\* Validation, ACL, and the test of max_awaiting_rel under the read lock.
handle_publish(c) ==
  /\ task[c] = Idle
  /\ to_broker[c] # <<>>
  /\ Head(to_broker[c]).type = "PUBLISH"
  /\ Publish(c, Head(to_broker[c]))
  /\ to_broker' = [to_broker EXCEPT ![c] = Tail(@)]
  /\ UNCHANGED <<publisher, to_client, inflight_incoming, retained, routed>>

\* The insertion takes the write lock.
Insert(c) ==
  /\ task[c].step = "insert"
  /\ inflight_incoming' = [i \in DOMAIN inflight_incoming \cup {task[c].id} |->
       IF i = task[c].id THEN task[c].msg ELSE inflight_incoming[i]]
  /\ Step(c, "respond")
  /\ UNCHANGED <<publisher, wire, retained, routed>>

Take(c, id, keep) ==
  LET stored == id \in DOMAIN inflight_incoming
      msg == IF stored THEN inflight_incoming[id] ELSE NoMsg
  IN  /\ inflight_incoming' = [i \in DOMAIN inflight_incoming \ ({id} \ keep)
                                 |-> inflight_incoming[i]]
      /\ Become(c, Handler("respond", "PUBCOMP", id, msg, TRUE))

\* Mutant: the message stays until it is replaced.
PubrelKeeps(c) ==
  /\ task[c] = Idle
  /\ to_broker[c] # <<>>
  /\ Head(to_broker[c]).type = "PUBREL"
  /\ Take(c, Head(to_broker[c]).id, PacketIds)
  /\ to_broker' = [to_broker EXCEPT ![c] = Tail(@)]
  /\ UNCHANGED <<publisher, to_client, retained, routed>>

\* Mutant: an id that is not there is not answered.
PubrelUnknownIgnored(c) ==
  /\ task[c] = Idle
  /\ to_broker[c] # <<>>
  /\ Head(to_broker[c]).type = "PUBREL"
  /\ IF Head(to_broker[c]).id \in DOMAIN inflight_incoming
     THEN Take(c, Head(to_broker[c]).id, {})
     ELSE UNCHANGED <<task, inflight_incoming>>
  /\ to_broker' = [to_broker EXCEPT ![c] = Tail(@)]
  /\ UNCHANGED <<publisher, to_client, retained, routed>>

\* The message is taken out of the session before PUBCOMP is written; an id that
\* is not there is answered all the same.
handle_pubrel(c) ==
  /\ task[c] = Idle
  /\ to_broker[c] # <<>>
  /\ Head(to_broker[c]).type = "PUBREL"
  /\ Take(c, Head(to_broker[c]).id, {})
  /\ to_broker' = [to_broker EXCEPT ![c] = Tail(@)]
  /\ UNCHANGED <<publisher, to_client, retained, routed>>

\* Mutant: PUBCOMP is the end of it.
AfterWriteForgets(t) ==
  IF t.ok /\ t.type \in {"PUBACK", "PUBREC"} THEN [t EXCEPT !.step = "retain"] ELSE Idle

\* What the handler does once its answer is written.
AfterWrite(t) ==
  CASE ~ t.ok -> Idle
    [] t.ok /\ t.type \in {"PUBACK", "PUBREC"} -> [t EXCEPT !.step = "retain"]
    [] t.ok /\ t.type = "PUBCOMP" /\ t.msg # NoMsg -> [t EXCEPT !.step = "route"]
    [] t.ok /\ t.type = "PUBCOMP" /\ t.msg = NoMsg -> Idle

\* MQTT 3.1.1 has no reason codes on the wire.
Encode(t) == [type |-> t.type, id |-> t.id, ok |-> IF V5 THEN t.ok ELSE TRUE]

\* On a broken connection a write may still succeed and go nowhere.
Respond(c) ==
  /\ task[c].step = "respond"
  /\ to_client' = IF c = conn /\ up THEN Append(to_client, Encode(task[c]))
                  ELSE to_client
  /\ Become(c, AfterWrite(task[c]))
  /\ UNCHANGED <<publisher, to_broker, inflight_incoming, retained, routed>>

\* Or it fails, and with it the handler and the task.
RespondFails(c) ==
  /\ task[c].step = "respond"
  /\ c # conn \/ ~ up
  /\ Become(c, Gone)
  /\ UNCHANGED <<publisher, wire, inflight_incoming, retained, routed>>

NewRetained(msg) ==
  CASE msg \notin Retain -> retained
    [] msg \in Retain \cap Empty -> NoMsg
    [] msg \in Retain \ Empty -> msg

\* Mutant: a retained message is not replaced.
StoreRetainedVacant(c) ==
  /\ task[c].step = "retain"
  /\ retained' = IF retained = NoMsg THEN NewRetained(task[c].msg) ELSE retained
  /\ IF Qos[task[c].msg] = 2 THEN Become(c, Idle) ELSE Step(c, "route")
  /\ UNCHANGED <<publisher, wire, inflight_incoming, routed>>

\* A QoS 2 message is routed on PUBREL, the others at once.
StoreRetained(c) ==
  /\ task[c].step = "retain"
  /\ retained' = NewRetained(task[c].msg)
  /\ IF Qos[task[c].msg] = 2 THEN Become(c, Idle) ELSE Step(c, "route")
  /\ UNCHANGED <<publisher, wire, inflight_incoming, routed>>

route_message(c) ==
  /\ task[c].step = "route"
  /\ routed' = [routed EXCEPT ![task[c].msg] = @ + 1]
  /\ Become(c, Idle)
  /\ UNCHANGED <<publisher, wire, inflight_incoming, retained>>

\* The task of a broken connection sees end of file, a read error, or the
\* Disconnect of the takeover, perhaps before it has read everything.
TaskEnds(c) ==
  /\ task[c] = Idle
  /\ c < conn \/ (c = conn /\ ~ up)
  /\ Become(c, Gone)
  /\ UNCHANGED <<publisher, wire, inflight_incoming, retained, routed>>

-----------------------------------------------------------------------------
(* The publisher and its network *)

Wait == {"published", "released"}
IdsInUse == {ids[m] : m \in {n \in Messages : sent[n] \in Wait}}
Packet(m) ==
  [type |-> IF sent[m] = "released" THEN "PUBREL" ELSE "PUBLISH",
   id |-> ids[m], msg |-> m]

Send(packet) == to_broker' = [to_broker EXCEPT ![conn] = Append(@, packet)]

PublishNext ==
  \E m \in Messages, id \in PacketIds \ IdsInUse :
    /\ up
    /\ \A n \in Messages : sent[n] = "new" <=> n >= m
    /\ ids' = [ids EXCEPT ![m] = id]
    /\ sent' = [sent EXCEPT ![m] = IF Qos[m] = 0 THEN "done" ELSE "published"]
    /\ Send([type |-> "PUBLISH", id |-> id, msg |-> m])
    /\ UNCHANGED <<conn, up, to_client, task, inflight_incoming, retained,
                   routed>>

Receive ==
  LET p == Head(to_client)
  IN  /\ to_client # <<>>
      /\ to_client' = Tail(to_client)
      /\ \E m \in Messages :
           /\ sent[m] \in Wait /\ ids[m] = p.id
           /\ sent' = [sent EXCEPT ![m] =
                 CASE ~ p.ok -> "refused"
                   [] p.ok /\ p.type = "PUBREC" -> "released"
                   [] OTHER -> "done"]
           /\ IF p.ok /\ p.type = "PUBREC"
              THEN Send([type |-> "PUBREL", id |-> p.id, msg |-> m])
              ELSE UNCHANGED to_broker
      /\ UNCHANGED <<conn, up, ids, task, inflight_incoming, retained, routed>>

Break ==
  /\ up /\ conn < MaxConnections
  /\ up' = FALSE
  /\ to_client' = <<>>
  /\ UNCHANGED <<conn, sent, ids, to_broker, task, inflight_incoming, retained,
                 routed>>

\* The one way to arrange a set of messages in the order they were published.
Ascending(S) ==
  {s \in UNION {[1 .. n -> S] : n \in 0 .. N} :
     /\ S = {s[i] : i \in DOMAIN s}
     /\ \A i, j \in DOMAIN s : i < j => s[i] < s[j]}

\* The session is resumed: the publisher sends again what is not acknowledged.
Reconnect ==
  /\ ~ up
  /\ Overlap \/ task[conn] = Gone
  /\ up' = TRUE
  /\ conn' = conn + 1
  /\ \E pending \in Ascending({m \in Messages : sent[m] \in Wait}) :
       to_broker' = [to_broker EXCEPT ![conn + 1] =
                       [i \in DOMAIN pending |-> Packet(pending[i])]]
  /\ UNCHANGED <<sent, ids, to_client, task, inflight_incoming, retained, routed>>

-----------------------------------------------------------------------------
Init ==
  /\ conn = 1 /\ up = TRUE
  /\ to_broker = [c \in Conns |-> <<>>]
  /\ to_client = <<>>
  /\ task = [c \in Conns |-> Idle]
  /\ inflight_incoming = <<>>
  /\ retained = NoMsg
  /\ sent = [m \in Messages |-> "new"]
  /\ ids = [m \in Messages |-> 0]
  /\ routed = [m \in Messages |-> 0]

HandlePacket(c) ==
  \/ handle_publish(c) \/ Insert(c) \/ handle_pubrel(c) \/ Respond(c)
  \/ StoreRetained(c) \/ route_message(c)

Next ==
  \/ \E c \in Conns : HandlePacket(c) \/ RespondFails(c) \/ TaskEnds(c)
  \/ PublishNext \/ Receive \/ Break \/ Reconnect

Spec == Init /\ [][Next]_vars

\* Tasks are scheduled, one whose connection broke ends, packets arrive, and the
\* publisher reconnects.
FairSpec ==
  /\ Spec
  /\ \A c \in Conns : WF_vars(HandlePacket(c)) /\ WF_vars(TaskEnds(c))
  /\ WF_vars(Receive) /\ WF_vars(Reconnect)

-----------------------------------------------------------------------------
PacketType ==
  [type : {"PUBLISH", "PUBREL"}, id : PacketIds, msg : Messages]
AnswerType ==
  [type : {"PUBACK", "PUBREC", "PUBCOMP"}, id : PacketIds, ok : BOOLEAN]

\* Routing keeps to what the publisher was told.  A QoS 2 message is routed at most
\* once, though PUBLISH and PUBREL are resent and ids are used again (qos.rs:62
\* removes the message before it routes it); one refused with a reason code is not
\* routed at all, not even when it is stored already and its retransmission found
\* max_awaiting_rel reached (publish.rs:179).  A QoS 1 message with a PUBACK has
\* been routed, or the task that wrote the PUBACK is about to do it
\* (publish.rs:165-273).  This is so as long as connections do not overlap: a task
\* left behind can store its message again, under an id in use (publish.rs:201).
RoutedAsAnswered ==
  \A m \in Messages :
    /\ Qos[m] = 2 => routed[m] <= IF sent[m] = "refused" THEN 0 ELSE 1
    /\ Qos[m] = 1 /\ sent[m] = "done" /\ m \notin Denied =>
         \/ routed[m] > 0
         \/ \E c \in Conns :
              task[c].step \in {"retain", "route"} /\ task[c].msg = m

\* A QoS 2 message the broker has stored, or has taken out of the session for a
\* PUBREL.
Stored(m) ==
  \/ \E id \in DOMAIN inflight_incoming : inflight_incoming[id] = m
  \/ \E c \in Conns :
       /\ task[c].step \in {"respond", "route"}
       /\ task[c].type = "PUBCOMP" /\ task[c].msg = m

\* Such a message is routed, or its publisher was told that it is refused, or it
\* goes down with the task that could not write its PUBCOMP (qos.rs:62-90): no
\* retransmission, no id used again and no other task makes the broker forget it.
StoredIsRouted ==
  [][\A m \in Messages :
       Stored(m) /\ ~ Stored(m)' =>
         \/ routed'[m] > 0
         \/ sent[m] = "refused"
         \/ \E c \in Conns :
              task[c].step = "respond" /\ task[c].msg = m /\ task'[c] = Gone]_vars

\* The retained message is not older than one of the same QoS that the publisher
\* knows the broker has, although retransmissions store old messages again
\* (publish.rs:214-239, before the PUBREL) and PUBREC is written before the map
\* is changed.
RetainedInOrder ==
  \A m, n \in Messages :
    /\ m < n /\ n \in Retain \ Denied /\ Qos[n] = Qos[m]
    /\ retained = m
    /\ sent[n] \in {"released", "done"}
    => \E c \in Conns : task[c].step = "retain" /\ task[c].msg = n

\* The handshake comes to an end: what the publisher has sent is acknowledged or
\* refused, also after a PUBREL whose PUBCOMP was lost.
IncomingCompletes ==
  \A m \in Messages : sent[m] \in Wait ~> sent[m] \in {"done", "refused"}
=============================================================================
