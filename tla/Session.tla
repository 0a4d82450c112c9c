------------------------------- MODULE Session -------------------------------
(***************************************************************************)
(* Delivery of messages to one subscriber with a persistent session:       *)
(* src/src/session/mod.rs and the parts of the connection task that send   *)
(* (src/src/broker/connection/{mod,connect,qos,subscribe,publish}.rs).     *)
(*                                                                         *)
(* The connection task is sequential; phase says which handler it is in.   *)
(* The subscriber keeps to the protocol: it acknowledges what it receives, *)
(* in order, and filters QoS 2 duplicates.  The network is TCP: a FIFO in  *)
(* each direction whose content is lost when the connection breaks.        *)
(* Messages 1 .. N are routed to the session in this order.                *)
(***************************************************************************)
EXTENDS Integers, FiniteSets, SequencesExt

CONSTANTS
  N,                         \* number of messages routed to the subscriber
  RetainedMsgs,              \* retained messages that match its filter, > N
  Qos,                       \* message -> delivery QoS
  Oversize,                  \* messages over the client's max_packet_size
  Expiring,                  \* messages with a message_expiry_interval
  Incoming,                  \* ids held in inflight_incoming
  MaxPacketId,               \* 65535 in the code
  max_inflight,
  max_pending_messages,
  receive_maximum,
  outbound_channel_capacity,
  WireCapacity,              \* bound: packets in transit to the client
  MaxBreaks,                 \* bound: broken connections
  MaxExtras                  \* bound: ticks of the retry timer and SUBSCRIBEs

Routed == 1 .. N
Messages == Routed \cup RetainedMsgs
PacketIds == 1 .. MaxPacketId

ASSUME SessionConstants ==
  /\ N \in Nat
  /\ RetainedMsgs \subseteq Nat /\ RetainedMsgs \cap Routed = {}
  /\ Qos \in [Messages -> 0 .. 2]
  /\ Incoming \subseteq PacketIds
  /\ MaxPacketId \in Nat
  /\ max_inflight \in Nat
  /\ max_pending_messages \in Nat
  /\ receive_maximum \in Nat

\* The loop of next_packet_id terminates: some id is always free.
ASSUME IdsSuffice == max_inflight + Cardinality(Incoming) < MaxPacketId

VARIABLES
  phase,             \* handler the connection task is in, or how it ended
  network,           \* "up" or "broken"
  packet_rx,         \* mpsc channel from the routers to the connection task
  router,            \* message a publisher is about to queue, or 0
  routed,            \* number of messages routed so far
  pending_messages,  \* offline queue of the session
  draining,          \* what send_pending_messages took out of it
  inflight_outgoing, \* packet id -> message and its QoS 2 state
  send_quota,
  next_packet_id,
  resend,            \* ids a resend loop has still to send
  retained_todo,     \* retained messages still to send
  to_client, to_broker,
  delivered,         \* messages handed to the application, in order
  receiving,         \* client: QoS 2 ids received and not released
  acked,             \* history: messages whose in-flight entry was removed
  collided,          \* history: messages tracked under an id still under way
  waited,            \* history: messages queued for want of quota
  discarded,         \* history: messages dropped as the limits prescribe
  breaks, extras

session == <<pending_messages, inflight_outgoing, send_quota, next_packet_id>>
task == <<draining, resend, retained_todo>>
wire == <<to_client, to_broker>>
client == <<delivered, receiving>>
routing == <<router, routed>>
counters == <<breaks, extras>>
marks == <<collided, waited>>
history == <<acked, marks>>
vars == <<phase, network, packet_rx, routing, session, task, wire, client,
          history, discarded, counters>>

Connected == phase \notin {"none", "dead"}

-----------------------------------------------------------------------------
(* Session: packet identifiers, queue, quota. *)

Used == DOMAIN inflight_outgoing \cup Incoming

\* The first id at or after next_packet_id, in cyclic order, that is free.
FreeId ==
  CHOOSE id \in PacketIds \ Used : \A other \in PacketIds \ Used :
    (id - next_packet_id) % MaxPacketId <= (other - next_packet_id) % MaxPacketId

After(id) == (id % MaxPacketId) + 1

\* queue_message drops the oldest message of a full queue.
QueueFull == Len(pending_messages) >= max_pending_messages

Queue(m) ==
  /\ pending_messages' =
       Append(IF QueueFull /\ pending_messages # <<>>
              THEN Tail(pending_messages) ELSE pending_messages, m)
  /\ discarded' = IF QueueFull /\ pending_messages # <<>>
                  THEN discarded \cup {Head(pending_messages)} ELSE discarded

\* Mutant: the cap stops one short of receive_maximum.
IncrementQuotaOffByOne ==
  IF send_quota < receive_maximum - 1 THEN send_quota + 1 ELSE send_quota

IncrementQuota ==
  IF send_quota < receive_maximum THEN send_quota + 1 ELSE send_quota

WithInflight(id, entry) ==
  [i \in DOMAIN inflight_outgoing \cup {id} |->
     IF i = id THEN entry ELSE inflight_outgoing[i]]

WithoutInflight(id) ==
  [i \in DOMAIN inflight_outgoing \ {id} |-> inflight_outgoing[i]]

\* What may be left of a set of messages when those that have expired are gone.
NotExpired(msgs) == {kept \in SUBSET msgs : msgs \ kept \subseteq Expiring}

Keep(queue, kept) == SelectSeq(queue, LAMBDA m : m \in kept)

-----------------------------------------------------------------------------
(* The wire. *)

\* write_all: waits while the socket is full; on a broken connection the
\* kernel may still take the bytes.
Send(packet) ==
  \/ /\ network = "up"
     /\ Len(to_client) < WireCapacity
     /\ to_client' = Append(to_client, packet)
  \/ /\ network = "broken"
     /\ UNCHANGED to_client

Publish(id, m, dup) == [type |-> "PUBLISH", id |-> id, msg |-> m, dup |-> dup]

\* A PUBLISH too large for the client is encoded and then not written.
SendPublish(id, m, dup) ==
  IF m \in Oversize THEN UNCHANGED to_client ELSE Send(Publish(id, m, dup))

\* What handle_outgoing_packet and send_pending_messages do to the session
\* with a message.  Quota and in-flight limit are two tests in the code; the
\* second one gives the quota back.
MayTrack ==
  send_quota > 0 /\ Cardinality(DOMAIN inflight_outgoing) < max_inflight

\* Ids that a packet on the wire or the client's handshake belongs to.
UnderWay == {p.id : p \in ToSet(to_client) \cup ToSet(to_broker)} \cup receiving

Track(m) ==
  /\ inflight_outgoing' = WithInflight(FreeId,
       [msg |-> m,
        qos2_state |-> IF Qos[m] = 2 THEN "WaitingPubRec" ELSE "None"])
  /\ send_quota' = send_quota - 1
  /\ next_packet_id' = After(FreeId)
  /\ collided' = IF FreeId \in UnderWay THEN collided \cup {m} ELSE collided
  /\ UNCHANGED <<pending_messages, waited, discarded>>

\* Mutant: a message over the quota is not queued.
AcceptDrops(m) ==
  \/ /\ Qos[m] = 0 \/ ~ MayTrack
     /\ UNCHANGED <<session, marks, discarded>>
  \/ /\ Qos[m] > 0
     /\ MayTrack
     /\ Track(m)

Accept(m) ==
  \/ /\ Qos[m] = 0
     /\ UNCHANGED <<session, marks, discarded>>
  \/ /\ Qos[m] > 0
     /\ ~ MayTrack
     /\ Queue(m)
     /\ waited' = waited \cup {m}
     /\ UNCHANGED <<inflight_outgoing, send_quota, next_packet_id, collided>>
  \/ /\ Qos[m] > 0
     /\ MayTrack
     /\ Track(m)

Writes(m) == m \notin Oversize /\ (Qos[m] = 0 \/ MayTrack)

Outgoing(m) ==
  /\ Accept(m)
  /\ IF Writes(m)
     THEN Send(Publish(IF Qos[m] = 0 THEN 0 ELSE FreeId, m, FALSE))
     ELSE UNCHANGED to_client

-----------------------------------------------------------------------------
(* Routing: the body of route_message for this subscriber. *)

\* connections.get finds a live sender: try_send, or drop on a full channel.
RouteToConnection ==
  LET m == routed + 1
      fits == Len(packet_rx) < outbound_channel_capacity
  IN  /\ router = 0 /\ m \in Routed
      /\ Connected
      /\ packet_rx' = IF fits THEN Append(packet_rx, m) ELSE packet_rx
      /\ discarded' = IF fits THEN discarded ELSE discarded \cup {m}
      /\ routed' = m
      /\ UNCHANGED <<phase, network, router, session, task, wire, client,
                     history, counters>>

\* The sender found belongs to a task that is gone: TrySendError::Closed.
RouteToClosed ==
  /\ router = 0 /\ routed + 1 \in Routed
  /\ phase = "dead"
  /\ routed' = routed + 1
  /\ UNCHANGED <<phase, network, packet_rx, router, session, task, wire,
                 client, history, discarded, counters>>

\* No connection: the session is looked up and locked in a later step.
RouteToSession ==
  /\ router = 0 /\ routed + 1 \in Routed
  /\ phase = "none"
  /\ router' = routed + 1
  /\ routed' = routed + 1
  /\ UNCHANGED <<phase, network, packet_rx, session, task, wire, client,
                 history, discarded, counters>>

QueueRouted ==
  /\ router # 0
  /\ Queue(router)
  /\ router' = 0
  /\ UNCHANGED <<phase, network, packet_rx, routed, inflight_outgoing,
                 send_quota, next_packet_id, task, wire, client, history,
                 counters>>

-----------------------------------------------------------------------------
(* The connection task. *)

handle_outgoing_packet ==
  /\ phase = "running"
  /\ packet_rx # <<>>
  /\ packet_rx' = Tail(packet_rx)
  /\ Outgoing(Head(packet_rx))
  /\ UNCHANGED <<phase, network, routing, task, to_broker, client, acked,
                 counters>>

\* handle_puback and handle_pubcomp have the same body.
handle_puback(type) ==
  /\ phase = "running"
  /\ to_broker # <<>>
  /\ Head(to_broker).type = type
  /\ LET id == Head(to_broker).id
     IN  /\ inflight_outgoing' = WithoutInflight(id)
         /\ acked' = acked \cup
              {inflight_outgoing[i].msg : i \in DOMAIN inflight_outgoing \cap {id}}
  /\ send_quota' = IncrementQuota
  /\ to_broker' = Tail(to_broker)
  /\ UNCHANGED <<phase, network, packet_rx, routing, pending_messages,
                 next_packet_id, task, to_client, client, marks, discarded,
                 counters>>

handle_pubrec ==
  /\ phase = "running"
  /\ to_broker # <<>>
  /\ Head(to_broker).type = "PUBREC"
  /\ LET id == Head(to_broker).id
     IN  /\ inflight_outgoing' =
              [i \in DOMAIN inflight_outgoing |->
                 IF i = id THEN [inflight_outgoing[i] EXCEPT
                                   !.qos2_state = "WaitingPubComp"]
                 ELSE inflight_outgoing[i]]
         /\ Send([type |-> "PUBREL", id |-> id])
  /\ to_broker' = Tail(to_broker)
  /\ UNCHANGED <<phase, network, packet_rx, routing, pending_messages,
                 send_quota, next_packet_id, task, client, history, discarded,
                 counters>>

\* retry_unacked_messages collects the entries older than retry_interval.
retry_unacked_messages ==
  /\ phase = "running"
  /\ extras < MaxExtras
  /\ extras' = extras + 1
  /\ resend' \in (SUBSET DOMAIN inflight_outgoing) \ {{}}
  /\ phase' = "retry"
  /\ UNCHANGED <<network, packet_rx, routing, session, draining,
                 retained_todo, wire, client, history, discarded, breaks>>

\* A SUBSCRIBE is handled up to its SUBACK; the retained messages follow.
handle_subscribe ==
  /\ phase = "running"
  /\ extras < MaxExtras
  /\ extras' = extras + 1
  /\ retained_todo' \in NotExpired(RetainedMsgs)
  /\ phase' = "subscribe"
  /\ UNCHANGED <<network, packet_rx, routing, session, draining, resend, wire,
                 client, history, discarded, breaks>>

\* handle_connect for a client that comes back, up to the CONNACK: the session
\* is resumed and the new sender is in connections.  The quota is set anew when
\* the CONNECT carries a Receive Maximum.
handle_connect ==
  /\ phase \in {"none", "dead"}
  /\ phase' = "connack"
  /\ network' = "up"
  /\ send_quota' \in {send_quota, receive_maximum}
  /\ UNCHANGED <<packet_rx, routing, pending_messages, inflight_outgoing,
                 next_packet_id, task, wire, client, history, discarded,
                 counters>>

\* Mutant: the queue is popped from the back.
DrainReversed ==
  /\ phase = "connack"
  /\ phase' = "connect_pending"
  /\ draining' = Reverse(pending_messages)
  /\ pending_messages' = <<>>
  /\ UNCHANGED <<network, packet_rx, routing, inflight_outgoing, send_quota,
                 next_packet_id, resend, retained_todo, wire, client, history,
                 discarded, counters>>

\* The queue is emptied into a local of send_pending_messages.
drain_pending_messages ==
  /\ phase = "connack"
  /\ phase' = "connect_pending"
  /\ \E kept \in NotExpired(ToSet(pending_messages)) :
       /\ draining' = Keep(pending_messages, kept)
       /\ discarded' = discarded \cup (ToSet(pending_messages) \ kept)
  /\ pending_messages' = <<>>
  /\ UNCHANGED <<network, packet_rx, routing, inflight_outgoing, send_quota,
                 next_packet_id, resend, retained_todo, wire, client, history,
                 counters>>

\* The periodic task of the broker, through SessionStore::cleanup_expired.
cleanup_expired_messages ==
  /\ \E kept \in NotExpired(ToSet(pending_messages)) :
       /\ kept # ToSet(pending_messages)
       /\ pending_messages' = Keep(pending_messages, kept)
       /\ discarded' = discarded \cup (ToSet(pending_messages) \ kept)
  /\ UNCHANGED <<phase, network, packet_rx, routing, inflight_outgoing,
                 send_quota, next_packet_id, task, wire, client, history,
                 counters>>

\* One turn of the loop of send_pending_messages.
send_pending_message ==
  /\ phase = "connect_pending"
  /\ draining # <<>>
  /\ draining' = Tail(draining)
  /\ Outgoing(Head(draining))
  /\ UNCHANGED <<phase, network, packet_rx, routing, resend, retained_todo,
                 to_broker, client, acked, counters>>

resend_inflight_messages ==
  /\ phase = "connect_pending"
  /\ draining = <<>>
  /\ resend' = DOMAIN inflight_outgoing
  /\ phase' = "connect_resend"
  /\ UNCHANGED <<network, packet_rx, routing, session, draining,
                 retained_todo, wire, client, history, discarded, counters>>

\* Mutant: the PUBLISH is sent again whatever the QoS 2 state.
ResendPublish(id) ==
  /\ phase \in {"connect_resend", "retry"}
  /\ id \in resend
  /\ resend' = resend \ {id}
  /\ SendPublish(id, inflight_outgoing[id].msg, TRUE)
  /\ UNCHANGED <<phase, network, packet_rx, routing, session, draining,
                 retained_todo, to_broker, client, history, discarded, counters>>

\* Mutant: the loop forgets the message it should send.
ResendNothing(id) ==
  /\ phase \in {"connect_resend", "retry"}
  /\ id \in resend
  /\ resend' = resend \ {id}
  /\ UNCHANGED <<phase, network, packet_rx, routing, session, draining,
                 retained_todo, wire, client, history, discarded, counters>>

\* One turn of a resend loop.  inflight_outgoing is a hash map: any order.
ResendOne(id) ==
  /\ phase \in {"connect_resend", "retry"}
  /\ id \in resend
  /\ resend' = resend \ {id}
  /\ LET entry == inflight_outgoing[id]
     IN  IF entry.qos2_state = "WaitingPubComp"
         THEN Send([type |-> "PUBREL", id |-> id])
         ELSE SendPublish(id, entry.msg, TRUE)
  /\ UNCHANGED <<phase, network, packet_rx, routing, session, draining,
                 retained_todo, to_broker, client, history, discarded, counters>>

\* One turn of the loop of send_retained_messages: the message gets an id of
\* the session, but neither an in-flight entry nor a unit of the quota.
send_retained_message(m) ==
  /\ phase \in {"connect_retained", "subscribe"}
  /\ m \in retained_todo
  /\ retained_todo' = retained_todo \ {m}
  /\ IF Qos[m] = 0
     THEN Send(Publish(0, m, FALSE)) /\ UNCHANGED next_packet_id
     ELSE Send(Publish(FreeId, m, FALSE)) /\ next_packet_id' = After(FreeId)
  /\ UNCHANGED <<phase, network, packet_rx, routing, pending_messages,
                 inflight_outgoing, send_quota, draining, resend, to_broker,
                 client, history, discarded, counters>>

\* The end of a loop: on to the next one, or back to the select of
\* run_connected.
EndOfLoop ==
  /\ \/ /\ phase = "connect_resend" /\ resend = {}
        /\ phase' = "connect_retained"
        /\ retained_todo' \in NotExpired(RetainedMsgs)
     \/ /\ phase = "retry" /\ resend = {}
        /\ phase' = "running" /\ UNCHANGED retained_todo
     \/ /\ phase \in {"connect_retained", "subscribe"} /\ retained_todo = {}
        /\ phase' = "running" /\ UNCHANGED retained_todo
  /\ UNCHANGED <<network, packet_rx, routing, session, draining, resend, wire,
                 client, history, discarded, counters>>

\* The task ends; what it held in local variables and in its receiver is gone.
Ends(how) ==
  /\ network = "broken"
  /\ phase' = how
  /\ packet_rx' = <<>>
  /\ draining' = <<>>
  /\ resend' = {}
  /\ retained_todo' = {}
  /\ UNCHANGED <<network, routing, wire, client, acked, counters>>

\* End of file, a read error, or a write error inside handle_packet:
\* handle_disconnect runs.
handle_disconnect ==
  /\ \/ phase = "running"
     \/ phase = "subscribe" /\ retained_todo # {}
  /\ Ends("none")
  /\ UNCHANGED <<session, marks, discarded>>

\* A write error in handle_connect, in handle_outgoing_packet or in
\* retry_unacked_messages leaves the task through `?', and handle_disconnect
\* does not run.
WriteFails ==
  /\ \/ phase = "connack"
     \/ phase \in {"connect_resend", "retry"} /\ resend # {}
     \/ phase = "connect_retained" /\ retained_todo # {}
  /\ Ends("dead")
  /\ UNCHANGED <<session, marks, discarded>>

\* The message being sent has been accounted for before the write.
PublishFails(queue) ==
  /\ queue # <<>>
  /\ Writes(Head(queue))
  /\ Accept(Head(queue))
  /\ Ends("dead")

OutgoingFails == phase = "running" /\ PublishFails(packet_rx)
PendingFails == phase = "connect_pending" /\ PublishFails(draining)

-----------------------------------------------------------------------------
(* Environment: the connection and the subscriber. *)

Break ==
  /\ Connected /\ network = "up"
  /\ breaks < MaxBreaks
  /\ breaks' = breaks + 1
  /\ network' = "broken"
  /\ to_client' = <<>>
  /\ to_broker' = <<>>
  /\ UNCHANGED <<phase, packet_rx, routing, session, task, client, history,
                 discarded, extras>>

Reply(type, id) == to_broker' = Append(to_broker, [type |-> type, id |-> id])

ClientReceives ==
  /\ to_client # <<>>
  /\ LET p == Head(to_client)
         new == p.type = "PUBLISH" /\ ~ (Qos[p.msg] = 2 /\ p.id \in receiving)
         q == IF p.type = "PUBLISH" THEN Qos[p.msg] ELSE 2
     IN  /\ delivered' = IF new THEN Append(delivered, p.msg) ELSE delivered
         /\ receiving' = IF p.type = "PUBREL" THEN receiving \ {p.id}
                         ELSE IF q = 2 THEN receiving \cup {p.id}
                         ELSE receiving
         /\ IF q = 0 THEN UNCHANGED to_broker
            ELSE Reply(IF p.type = "PUBREL" THEN "PUBCOMP"
                       ELSE IF q = 1 THEN "PUBACK" ELSE "PUBREC", p.id)
  /\ to_client' = Tail(to_client)
  /\ UNCHANGED <<phase, network, packet_rx, routing, session, task, history,
                 discarded, counters>>

-----------------------------------------------------------------------------
\* The client has left a session behind that has its subscriptions.
Init ==
  /\ phase = "none" /\ network = "broken"
  /\ packet_rx = <<>> /\ router = 0 /\ routed = 0
  /\ pending_messages = <<>> /\ inflight_outgoing = <<>>
  /\ send_quota = receive_maximum /\ next_packet_id = 1
  /\ draining = <<>> /\ resend = {} /\ retained_todo = {}
  /\ to_client = <<>> /\ to_broker = <<>>
  /\ delivered = <<>> /\ receiving = {}
  /\ acked = {} /\ collided = {} /\ waited = {} /\ discarded = {}
  /\ breaks = 0 /\ extras = 0

Routing == RouteToConnection \/ RouteToClosed \/ RouteToSession \/ QueueRouted

Acks == handle_puback("PUBACK") \/ handle_puback("PUBCOMP") \/ handle_pubrec

Loops ==
  \/ send_pending_message \/ resend_inflight_messages
  \/ \E id \in PacketIds : ResendOne(id)
  \/ \E m \in RetainedMsgs : send_retained_message(m)
  \/ EndOfLoop

Next ==
  \/ Routing \/ handle_outgoing_packet \/ Acks
  \/ retry_unacked_messages \/ handle_subscribe
  \/ handle_connect \/ drain_pending_messages \/ Loops
  \/ cleanup_expired_messages
  \/ handle_disconnect \/ WriteFails \/ OutgoingFails \/ PendingFails
  \/ Break \/ ClientReceives

Spec == Init /\ [][Next]_vars

\* The select of run_connected polls its branches in random order and so starves
\* none, a task that can run does run, and the client reads, and comes back after
\* a broken connection.  Publishers and the channel need not be fair.
FairSpec ==
  /\ Spec
  /\ WF_vars(handle_connect) /\ WF_vars(drain_pending_messages)
  /\ WF_vars(Loops) /\ WF_vars(Acks)
  /\ WF_vars(handle_disconnect) /\ WF_vars(ClientReceives)

-----------------------------------------------------------------------------
(* What delivery promises. *)

\* Flow control never strands the client: the units of the quota that are
\* missing are held by messages in flight, so with nothing in flight the whole
\* quota is there, whatever acknowledgements, retries and reconnections came
\* between (session/mod.rs:373-387, mod.rs:320-348, qos.rs:19-93).
NoQuotaLeak ==
  /\ Cardinality(DOMAIN inflight_outgoing) <= max_inflight
  /\ send_quota + Cardinality(DOMAIN inflight_outgoing) >= receive_maximum

\* "The message is delivered exactly once" (docs/mqtt-rfc/v5/07-qos.md:33), the
\* half of it that is safety.  A message leaves inflight_outgoing only after the
\* subscriber has it, even though acknowledgements carry nothing but an id that is
\* used again, and retries cause second acknowledgements; and retries and resumed
\* sessions do not hand a QoS 2 message to the application twice.  The exception
\* are messages for which next_packet_id has come round to an id that the client
\* still uses: retained messages take ids that nobody tracks (subscribe.rs:262), and
\* the acknowledgement of one, or a second acknowledgement, completes whatever
\* message has the id by then (qos.rs:25).
DeliveredAsAcked ==
  /\ acked \subseteq ToSet(delivered) \cup collided
  /\ \A i, j \in DOMAIN delivered :
       Qos[delivered[i]] = 2 /\ delivered[i] = delivered[j]
       /\ delivered[i] \in Routed \ collided => i = j

\* Whatever is in flight is acknowledged in the end: the client that loses its
\* connection and comes back gets each message or PUBREL again, and what it was
\* sent reaches it (connect.rs:456-516), also when a message the client's limit
\* forbids to send keeps its slot and its unit of quota for good (mod.rs:375).
InflightIsAcked ==
  \A m \in {n \in Routed \ Oversize : Qos[n] > 0} :
    (\E id \in DOMAIN inflight_outgoing : inflight_outgoing[id].msg = m) ~> m \in acked

\* Where a routed message can be that has not reached the subscriber.
Held ==
  ToSet(packet_rx) \cup ToSet(pending_messages) \cup ToSet(draining)
  \cup {inflight_outgoing[id].msg : id \in DOMAIN inflight_outgoing}
  \cup {router}

\* A QoS 1 or 2 message that is neither delivered nor discarded by one of the
\* limits is let go in two cases only: the task of a connection ends with the
\* message in its channel or among what it has drained from the queue, or the
\* message is routed to the channel of such a task (publish.rs:353, mod.rs:262).
\* What is in flight or in the queue outlives every connection, unless the message
\* was given an id still under way.
LostOnlyWithTask ==
  [][\A m \in (1 .. routed') \ collided :
       Qos[m] > 0 /\ m \notin (Held \cup discarded)' \cup ToSet(delivered) =>
         \/ m > routed /\ phase = "dead"
         \/ m <= routed /\ m \notin Held
         \/ /\ m \in ToSet(packet_rx) \cup ToSet(draining)
            /\ phase' # phase /\ phase' \in {"none", "dead"}]_vars

\* Messages are sent for the first time in the order in which they were routed,
\* but for those that had to wait for quota: they go to the back of the queue
\* (connection/mod.rs:320-366, connect.rs:405), where they overtake what a slower
\* publisher queues behind them and are overtaken by the channel and by what was
\* queued before they returned.  No other message is overtaken, neither in the
\* channel nor in what connect.rs:391 has drained.
OvertakenOnlyInQueue ==
  [][LET sent == Last(to_client')
     IN  Len(to_client') > Len(to_client) /\ sent.type = "PUBLISH" =>
           \/ sent.dup \/ sent.msg \notin Routed \/ sent.msg \in waited
           \/ \A m \in (ToSet(packet_rx) \cup ToSet(draining)) \ waited :
                sent.msg <= m]_vars
=============================================================================
