# TLA+ verification of the vibemq broker

vibemq is an MQTT 3.1.1 / 5 broker in Rust. Every client connection is a tokio task. The tasks share three concurrent
maps (`connections`, `sessions`, `retained`), the subscription store and, behind one lock each, the `Session` objects.
Brokers form clusters, and a bridge makes a broker the client of another one.
This directory models the broker in TLA+, model-checks the models with TLC on small instances, and proves the central
properties of six of them with TLAPS for all instances. Paths below are relative to `src/src/`, those that start with
`docs/` to `src/`.

## The system

| part | state | operations | what is hard about it |
|---|---|---|---|
| accept loops and flapping detector (`broker/mod.rs`, `flapping/mod.rs`) | per-address counters, token bucket, window, ban list | accept, check, record, disconnect, ban, clean up | three listeners whose tasks check and count in separate steps |
| byte stream, PROXY header, codec (`proxy/parser.rs`, `codec/`, `protocol/`, `broker/connection/{mod,connect}.rs`) | read buffer, decoder | read, decode, encode | TCP cuts packets anywhere; lengths are computed apart from the bytes |
| connection lifecycle (`broker/connection/{connect,mod,disconnect}.rs`, `SessionStore`) | the maps, the session's state and will, delayed will tasks | CONNECT, takeover, SUBSCRIBE, disconnection, will, expiry | several tasks of one client identifier, each handler a dozen separate map accesses |
| subscription store (`topic/mod.rs`) | trie, topic cache with generation tags, share-group counters | subscribe, unsubscribe, unsubscribe_all, matches | readers look at generation, cache and trie in separate steps while writers change trie and generation in separate steps |
| trie, validation, SUBSCRIBE, routing (`topic/`, `broker/connection/{subscribe,publish,disconnect}.rs`) | tree of levels, the session's subscriptions | SUBSCRIBE, UNSUBSCRIBE, merging of overlapping subscriptions | two matching algorithms that must agree; nodes emptied and reused; the same fact kept in trie and session |
| inbound publish (`broker/connection/{publish,qos}.rs`) | `inflight_incoming`, retained message | PUBLISH, PUBREL | resends, refusals, failing writes in the middle of a handler |
| session and outbound delivery (`session/mod.rs`, `broker/connection/{mod,connect,qos,publish,subscribe}.rs`) | offline queue, in-flight window, send quota, packet ids | route, send, acknowledge, retry, resume, expire | acknowledgements that carry only an id, resends, lost connections, limits |
| persistence (`persistence/`, `main.rs`) | channel, batch, backend | write, batch, commit, shutdown, load | crash between steps, order, failing commits |
| cluster (`cluster/`) | filters advertised by gossip, peer tasks, connections between nodes | subscribe, publish, gossip, connect, handshake, forward | gossip, TCP and local events reach a node by different ways and in any order |
| bridge (`bridge/`) | event channel, command channel, connection to the remote broker | map topics, forward, receive, reconnect, stop | one packet decoded per read, one packet id, loops |
| auth/ACL, transport, configuration, metrics | | | see "Not modelled" |

They interact as follows. `Admission` decides which sockets get a connection task. `Wire` is the task's view of the
socket: bytes in, packets out. A CONNECT goes to `ConnectionLifecycle`, a SUBSCRIBE to `Routing`, a PUBLISH to the
handlers of `InboundPublish`. `matches` of `SubscriptionStore` yields the subscribers of a message, `Routing` merges them
into one copy per client, and `Session` starts where a copy is handed to a subscriber. `ConnectionLifecycle` decides
whether that subscriber has an entry in `connections` and a session. `Persistence` receives the operations of the publish
and disconnect handlers, `Cluster` and `Bridge` the events of the publish and subscribe handlers; what arrives from
another broker goes through `LocalRouting`.

## Modules

| module | models | one step is |
|---|---|---|
| `Admission` | `FlappingDetector` used by the tasks of the TCP, WebSocket and TLS listeners, clean-up task, clock | one access to a `DashMap` entry or atomic |
| `AdmissionProofs`, `AdmissionRateProofs` | theorems about it: the connection limit; rate limit and bans | |
| `CodecBytes`, `Properties`, `Codec` | every encoder and decoder, byte by byte, as operators; both protocol versions | - |
| `ProxyHeader` | how many bytes the PROXY parser asks for and what it takes for a header | - |
| `Wire` | a sender, TCP, and the reading side of a connection task, composed of the four modules above | one read with all the decoding after it |
| `ConnectionLifecycle` | all connection tasks of one client identifier | one access to a shared map or session |
| `ConnectionLifecycleProofs` | theorems about it | |
| `SubscriptionStore` | the store with its cache, any number of threads; the trie is a map from filters to subscription lists | one lock acquisition or one atomic operation |
| `SubscriptionStoreProofs` | theorems about it | |
| `TopicTrie`, `TopicFilter` | the trie's functions and `topic_matches_filter` as recursive operators | - |
| `TrieStore` | the store's calls on the real trie, with validation and shared filters, as operators | - |
| `Routing` | the handlers of SUBSCRIBE and UNSUBSCRIBE on the real trie; `route_message` and `route_will_message` up to the copies | one packet |
| `InboundPublish` | one publisher with a persistent session, its connection tasks and network | one lock acquisition or one write |
| `InboundPublishInvariant`, `InboundPublishProofs` | the inductive invariant and the theorem about it | |
| `Session` | one subscriber with a persistent session: publishers that route to it, its connection task, the network, the client | one lock acquisition, one channel operation or one write |
| `SessionProofs` | theorem about it | |
| `DurableLog` | what the persistence layer promises: an in-order log that may lose runs of operations | - |
| `Persistence` | publishing tasks, channel, writer loop, backend, crash, shutdown, restart; implements `DurableLog` | one channel operation, map access or commit |
| `PersistenceProofs` | the proof that it does, and that the backend catches up with the map | |
| `LocalRouting` | `Broker::publish` and the callbacks of cluster and bridge: three copies of one piece of code | - |
| `Cluster` | cluster task, gossip watcher, peer tasks and handlers of every node, the connections between them | one channel operation, one frame read or written, one gossip update |
| `TopicMapper` | the bridge's forwarding rules as operators | - |
| `Bridge` | bridge task, connection task, a remote broker, the connection | one channel operation, one read or write |
| `MC...` | instances for TLC | |

The modules are separate because their state spaces do not fit together. They meet at named points: the view of the trie
that `SubscriptionStore` works with (a map from filters to subscriptions) is the variable `asked` of `Routing`, which is
checked against the real trie; `MCSubscriptionStore` takes the order in which the walk visits filters from
`TopicTrie`; `handle_connect` of `Session` and `Reconnect` of `InboundPublish` are the resumption that
`ConnectionLifecycle` takes apart; `Cluster` and `Bridge` start from the events that `handle_subscribe` and
`route_message` send and end in `LocalRouting`.

Definitions keep the code's names. Names that start with a capital letter are steps of a function or helpers.
A definition introduced by "Mutant:" is a deliberately wrong version of the one after it. It is part of no
specification; substituted for the right one it violates a property, which shows that the property depends on that
line of the code.

### What is abstracted

* Outside the codec, messages are numbers or records with a topic, QoS and retain flag; topics and filters are sequences
  of levels; payloads and most properties are left out. Reason codes are success or failure except in `Routing` and in
  the codec; MQTT 3.1.1 does not transmit them (`InboundPublish!Encode`).
* TCP is a FIFO channel in each direction that loses its content when it breaks, in `Cluster` a suffix of it. Writes to
  a broken connection may still succeed. `Wire` and `Bridge` also have the sizes of reads.
* In the codec a `u32` is its four bytes, text is ASCII apart from one malformed string, and UTF-8 validation is external.
* Clients keep to the protocol. Authentication and ACLs are choices of the environment.
* Time is nondeterminism: timers fire at any moment. `Admission` has a clock of a few ticks, because windows, bans and
  tokens compare times. `disconnected_at` is a counter, since only equality is tested.
* Address ranges of the flapping detector are sets of addresses; `cluster/`'s gossip library is a register per pair of
  nodes that a node reads late or never; the remote broker of a bridge follows the standard.
* The fjall keyspace: a batch is atomic and a later operation on a key wins. This is the one assumption
  about a library that a property (`InOrder`) rests on.

## Runs

Sizes are distinct states. All properties hold except in the two runs marked **violated**.

| run | question | bounds | size |
|---|---|---|---|
| `subscription_cache` | can a stale result be taken for a fresh one; does each share group get exactly one subscriber; how far is the cache limit exceeded | 3 threads and 3 topics before the first change, 2 threads at a time after it, 2 clients, 2 overlapping filters, one share group, 2 changes, cache of 1, counter that wraps at 2 | 160,000 |
| `topic_matching` | do the trie and `topic_matches_filter` agree; what do overlapping subscriptions become; do session, store, SUBACK, UNSUBACK and retained messages agree | every sequence of 3 packets, clean starts or resumptions of 2 clients over 16 filters of up to 3 levels, plain, shared and malformed, three sets of options, all verdicts of the ACL hook, 7 topics of up to 2 levels, `max_qos` 1 | 45,000 |
| `delivery` | quota, acknowledgements, exactly-once bookkeeping, loss, order and progress | 4 messages of QoS 0, 1, 2 and 1, one of them oversized, one expiring, a retained one, a session that starts offline, a lost connection, a retry, a SUBSCRIBE; 4 packet ids, quota of 1, window, queue and channel of 2 | 448,000 |
| `inbound` | QoS 1 and 2 from the publisher, retained messages, progress | 5 messages of every QoS, one refused, one that clears the retained message, `max_awaiting_rel` 2, ids that are reused, one lost connection | 199,000 |
| `lifecycle` | do maps, session, subscriptions and persisted session stay consistent; does a takeover end the old connection; does a will go out | 2 connections of one client, 4 kinds of CONNECT, channels that may be full when the takeover signals | 220,000 |
| `takeover` | the old connection's end of file arrives during a takeover | 2 connections, `LateEvents` | **violated**: `Registered`; the new connection is removed from the map |
| `persistence` | order, durability, shutdown, refinement of `DurableLog` | 2 tasks, 3 topics, channel 2, batches of 2, 4 messages, one restart, failing commits | 91,000 |
| `wire` | do the packets come out that went in, whatever the reads; is what is refused bad; does the PROXY header end where it should | one script per packet type, version, property, length boundary and check of the decoder, PROXY headers at both of their limits; reads of up to 6 bytes or everything | 97,000 |
| `admission` | are connections counted right; by how much is the limit exceeded; do rate limit and bans hold, and are bans deserved | 2 tasks (one TCP, one WebSocket or TLS), 3 addresses (ordinary, allowed, banned), 3 sockets or manual bans, 4 ticks | 187,000 |
| `cluster` | does a message reach a client twice, or overtaken; are filters learnt; do tasks of lost nodes end | 2 nodes, one client each, 2 messages, one change of a subscription, one fault, channels of 1 and 2; from the start, from a cluster at rest, and from a connection that has just broken | 347,000 |
| `cluster_filters` | the same filter of two clients of one node | 2 clients on one node | **violated**: `Advertised`; the filter goes with the first client that unsubscribes |
| `bridge` | loops, topics, order, loss, acknowledgement, reconnection, stop | the rules of the repository's example and four with other patterns, 9 setups of up to 4 messages, one failure, a remote broker that stays away, keep-alive 0, a stop | 75,000 |

What the properties say is in the comment before each of them. The ones that took most care to state, because the code
promises less than one would think:

* `LostOnlyWithTask` (`Session`): a message that was taken over for a client is dropped only with the task that holds it,
  by the queue's limit, or because it expired or is too large. `OvertakenOnlyInQueue`: only a message that has waited in
  the queue for quota is overtaken, or overtakes.
* `DeliveredAsAcked` (`Session`): exactly once, except for messages that were given an id the client still used. The
  variable `collided` collects them when `next_packet_id` hands out such an id.
* `SessionAgrees` and `AcksAreTrue` (`Routing`) state what an UNSUBSCRIBE for 'a/#/b' does, instead of leaving it out.
* `TakenOverEnds` (`ConnectionLifecycle`) excepts the connection whose channel was full at the takeover, and nothing
  else. `WillGoesOut` covers every end of a connection: the ones after which the will goes out, and the ones after which the
  code leaves it in the session.
* `Settles` (`Cluster`): one formula for everything that must come to rest. Its one exception is a node that was first
  seen without an address.
* `StoredIsRouted` (`InboundPublish`): a QoS 2 message leaves `inflight_incoming` for the subscribers, or with
  the task that cannot write its PUBCOMP.
* `CopiesMerge` (`Routing`): the sequential merge over the order of the walk equals a definition by sets, for every pick
  the share groups may make.
* `LimitOvershoot` (`Admission`): the connections of an address exceed the limit by at most the sockets that were
  between check and record at the same time.
* `InOrder` (`Cluster`), `ForwardedInOrder` and `ReceivedIsHandedOver` (`Bridge`): a message is lost or overtaken only where
  a fault, a full channel or its place in a read explains it. `ReceivedIsHandedOver` speaks of each connection by itself,
  because the session at the remote broker ends with it, and names the lost messages one by one (`dropped`).
* `ReconnectsOrStops` (`Bridge`): the bridge ends when told even if the remote broker stays away for good and the channel
  is full, since each attempt takes one command from it; with keep-alive 0 it ends at its first CONNACK.
* `DecodedIsSent` (`Wire`): what comes out is a prefix of what went in, only malformed or oversized packets are refused,
  and no byte behind a PROXY header of 16 bytes or more is taken.
* `RoutedAsAnswered` (`InboundPublish`): a QoS 2 message is routed at most once, never after a refusal, and a QoS 1
  message with a PUBACK has been routed or is about to be, as long as connections do not overlap.
* `SessionMirrored` (`ConnectionLifecycle`): what the session lists is what the store routes, a clean start leaves
  nothing behind, and the persisted session is the one in memory.

Why these bounds: each of the mechanisms has two or three participants (reader and writer of the cache, old and new
connection, message and the one that reuses its id, checking and recording task, node and peer), and each limit is set so
that it is reached: cache, channel, queue, window, quota, bucket and batch sizes are one or two and fewer than the
messages. In `inbound` and `delivery` there are fewer packet ids than uses of them, so that ids come round; in `delivery`
one even to an id that is still under way, because retained messages use ids that nobody tracks. `cluster` starts in three
kinds of states so that one fault is enough: a failed attempt to connect that meets a full channel needs two otherwise. `SubscriptionCache.cfg` has three threads because `CacheBounded` leaves
`invalidate_cache` nothing to clear with fewer than `TOPIC_CACHE_MAX_SIZE` + 2 of them (a process with the real limit of
1,024 has far fewer, so that branch is idle there); the constraint `MCThreads` keeps the third one to the time before
the first change. Three packets are enough for two subscriptions of a client to meet in one node and
one of them to go. Symmetry is used only in runs without liveness properties, over threads or clients that differ
by name alone. Deadlock checking is off where the bounds (number of messages, connections, calls) let the system stop.

`lifecycle` and `inbound` assume a client that opens one connection at a time and whose old connection is quiet once
the new handshake has begun (`ConcurrentConnects`, `LateEvents`, `Overlap` are false). Channels may be full in
`lifecycle`; from the takeover that finds one full on, `Registered`, `WillAtMostOnce` and `SessionMirrored` promise
nothing (`AllTold`). `takeover` shows what happens
without this assumption; the corresponding variants of the other properties are described under "Where code and
documents part".

### Fairness

* Tokio schedules every task that can run, and `select!` polls its branches in random order: weak fairness for every
  step of a task. A timer that is set fires.
* Clients read what they are sent and reconnect after a lost connection (`ClientReceives`, `handle_connect` in
  `Session`, `Receive` and `Reconnect` in `InboundPublish`). Connections break finitely often. Without both there is no
  progress to speak of. TCP hands over what was written (`Wire`).
* In `Cluster` gossip arrives in the end (what the library promises); in `Bridge` the remote broker answers while it can be reached, and an
  attempt to connect ends.
* `Session` asks no fairness of publishers or of the outbound channel: what is in flight is acknowledged without them.
* Nothing is assumed of publishers, subscribers and new connections in `ConnectionLifecycle`, of publishing
  in `Persistence`, nor of clients in `Cluster`. `Admission`, `SubscriptionStore` and `Routing` are checked for
  safety only.

## Proofs

TLC shows the properties for the bounds above. The theorems hold for every value of the constants that satisfies the
`ASSUME` of its module; TLC evaluates these assumptions in the runs. None of the properties is inductive by itself. The
invariant that is stands in the proof module, and TLC has checked it on the run's instance before it was proved.

| theorem | states | further hypothesis |
|---|---|---|
| `SubscriptionStoreProofs!CacheCoherence` | `Spec => []CacheCoherent` | |
| `SubscriptionStoreProofs!AnswersAreCurrent` | `Spec => []AnswerIsCurrent` | |
| `SubscriptionStoreProofs!CacheSize` | `Spec => []CacheBounded` | finitely many threads and topics |
| `SessionProofs!FlowControl` | `Spec => []NoQuotaLeak` | ids suffice for the window |
| `AdmissionProofs!CountExact` | `Spec => []CountIsLive` | |
| `AdmissionProofs!OvershootBounded` | `Spec => []LimitOvershoot` | |
| `AdmissionProofs!TcpKeepsLimit` | the limit is kept when only the TCP loop accepts | all tasks are of the TCP loop |
| `AdmissionRateProofs!RateKept` | `Spec => []RateBounded` | |
| `AdmissionRateProofs!BansKept` | `Spec => []BannedStaysOut` | |
| `AdmissionRateProofs!BansDeserved` | `Spec => []BanDeserved` | |
| `ConnectionLifecycleProofs!LastIsRegistered` | `Spec => []Registered` | `Orderly` |
| `ConnectionLifecycleProofs!WillsGoOutOnce` | `Spec => []WillAtMostOnce` | `Orderly`, `DelaysPositive` |
| `ConnectionLifecycleProofs!SessionIsMirrored` | `Spec => []SessionMirrored` | `Orderly`, `CleanEnds` |
| `PersistenceProofs!ImplementsLog` | `Spec => InOrder`, the refinement of `DurableLog` | |
| `PersistenceProofs!RestartKeepsMap` | `Spec => []StoredIsRetained` | one publisher per topic |
| `InboundPublishProofs!RoutesAsAnswered` | `Spec => []RoutedAsAnswered` | connections do not overlap |

How the arguments go:

* **Cache.** A thread computes a result from the trie and tags it with a generation it read before. The invariant relates
  the two: a result computed after generation `g` was read comes from the trie that was in place at `g` or from a later
  one, and an entry tagged with the current generation differs from the trie only while a writer stands between its write
  and its increment. `AnswerIsCurrent` adds what a share group gets: one member of the group, picked from the same answer.
  `CacheSize` counts the cached topics together with the threads that have passed the size test and not yet inserted;
  each thread adds at most one.
* **Flow control.** The units missing from the send quota are held by messages in flight. When a message is tracked, a unit
  goes and an entry comes, but only if `next_packet_id` hands out an id that is not in flight: such an id exists
  because there are more ids than the window and the incoming messages can use, and the search finds it.
* **Admission.** An entry's `connection_count` is the number of tasks that have recorded a connection and not yet written
  it off. The overshoot is bounded by counting the tasks between check and record: `Headroom` says that the
  connections and those tasks together exceed the limit by less than the largest number of such tasks there ever was.
* **Rate and bans.** `Spent` keeps an account of tokens: what an entry has let through and what is left in its bucket is
  at most the burst and what had been added at the last refill. Refills round down, and `last_refill` moves with each
  of them, so that the sum of the rounded refills is at most the rounded sum; a task that refills with an old clock value
  adds nothing. `Listed` says that a ban is in the list until it expires or is lifted. For `BanDeserved` the
  invariant `Windows` follows a disconnection through its four steps: while no two disconnections of an address overlap,
  the count in the entry is the number of its drops since the window began, less the one that is being counted.
* **Connection lifecycle.** `Base` says that under `Orderly` (one handshake at a time, nothing more from the old
  connection), and until a takeover finds a full channel (`AllTold`, a premise of the three properties themselves), every connection but the last is idle or about to find its Disconnect; that
  an object is found only after it was created; and that the last connection's object is in the store and Connected from
  its creation until its own `handle_disconnect` marks it. `Registered` follows. For wills, an object either has a
  delay, and then only delayed tasks publish from it, each taking the will under the lock it reads it under; or it has
  none, and then `handle_disconnect` publishes what it has read and clears it before the client can be back. For
  `SessionMirrored` the invariant lists, place by place, which of session, store and persisted session is ahead of the others;
  a subscribed session that is not routed exists only inside UNSUBSCRIBE or between removal of the subscriptions and
  deletion of the session. Each hypothesis is needed, as TLC shows on two connections: `takeover` breaks `Registered`
  without `Orderly`, and a full channel does so without `AllTold`; the other two are explained
  under "Where code and documents part" (Clean Start with a session that stays, an explicit will delay of 0).
* **Persistence.** The abstract log is the batch being committed, the batch being collected, and the channel, one behind
  the other. Receiving and flushing move its parts and leave it as it is; a commit or failure takes its front; the exit
  of the writer or of the process takes all of it, which does not split it because a writer that has left its loop has
  flushed its batch. For `StoredIsRetained` the invariant says what the map holds while the log is not empty: for a topic
  without a dropped operation, the version in the hand of its publisher, or else what the log would make of the backend.
  `ApplyConcat` (two batches one after the other do what they do together) carries this through the commit. With two
  publishers of one topic the claim is false (`broker/connection/publish.rs:261`), hence the hypothesis.
* **Inbound publish.** A routed message must not be stored again, and PUBREL names nothing but an id. Both follow from one
  picture: a message that waits for an acknowledgement has at most one token on the present connection, its packet
  on the way to the broker, the handler that has not answered yet, or the answer on the way back; ids in use are
  distinct; what is stored under an id is the message that has it. A second layer, `Acks`, says that a successful answer
  to a QoS 1 message exists only once the handler is past the refusals. Resumption after a lost connection throws the tokens of
  the old connection away and makes a new one for each waiting message. With overlapping connections the claim is false.

Only model-checked:

* every liveness property (`InflightIsAcked`, `TakenOverEnds`, `WillGoesOut`, `IncomingCompletes`, `BecomesDurable`,
  `ReadIsDecoded`, `Settles`, `ReconnectsOrStops`): the prover has no rules for fairness;
* the trie, routing, codec and bridge: they are recursive over trees, packets and topics, and what a recursive definition
  computes for every input needs an induction that the provers cannot carry out (the bridge is concerned because its
  rules are applied with `topic_matches_filter`);
* the other properties of `Session` (order, loss and delivery; `DeliveredAsAcked` would need an invariant that follows
  every id through the network and the client's memory of it) and `InboundPublish` (retained messages,
  `StoredIsRouted`), and those of `Cluster`: their invariants have not been worked out.

## Where code and documents part

Two disagreements are runs that end in a violation:

* `takeover`: `handle_disconnect` (`broker/connection/disconnect.rs:33`) removes the entry of a client identifier from
  `connections` whoever owns it. If the old connection's end of file is handled during a takeover, the new
  connection is live and not in the map that `broker/mod.rs:213` calls "Active connections".
* `cluster_filters`: `remove_subscription` (`cluster/manager.rs:168`) stops advertising a filter when any client of the node
  unsubscribes from it; `cluster/protocol.rs:46` says "All topic filters this node has subscribers for".

The rest was met while modelling. Unless it is listed at the end of the section, the models have the behaviour and the
properties are stated with it, their exceptions being exactly these cases.

Delivery to subscribers:

* Receive Maximum is exceeded after a resume, which sets the quota anew while messages are in flight
  (`broker/connection/connect.rs:258`), and after a retry that is acknowledged twice (`qos.rs:26`).
* A message queued for want of quota stays queued until the next CONNECT, and later ones overtake it
  (`broker/connection/mod.rs:325`); messages in flight are resent in the order of a hash map (`connect.rs:481`).
  `docs/mqtt-rfc/v5/07-qos.md:57` and `:61` ask for order.
* Retained messages are sent under ids that nobody tracks (`subscribe.rs:262`). When `next_packet_id` comes round to one of
  them, or to the id of a message acknowledged twice, the acknowledgement completes the wrong message (`qos.rs:25`).
* A message over the client's maximum packet size keeps its slot and its quota (`broker/connection/mod.rs:375`).
* QoS 1 messages in the channel of a connection that ends are lost (`publish.rs:353`), contrary to `07-qos.md:18`.
* A full topic cache never replaces an outdated entry (`topic/mod.rs:235`).

Sessions and subscriptions:

* A takeover whose signal finds a full channel leaves the old connection running (`connect.rs:216`);
  `docs/mqtt-rfc/v3.1.1/05.01-connect.md:255` requires its end.
* After a malformed packet, a failed write or a takeover the will is not published and stays in the session
  (`mod.rs:221`, `:262`); `05.01-connect.md:128-134` asks for it in the first two cases.
* A client that comes back without Clean Start after its session has expired is answered `session_present = 0` and is
  still routed its old subscriptions (`session/mod.rs:474`).
* A CONNECT without a will keeps the will of the session (`connect.rs:276`); `max_connections` is tested before the
  insertion (`connect.rs:188`); stored sessions are loaded and not restored (`main.rs:432`).
* UNSUBSCRIBE does not validate its filters: 'a/#/b' takes 'a/#' from the trie and leaves it in the session
  (`subscribe.rs:293`). The session keeps the QoS that was asked for and the store the granted one (`subscribe.rs:117`).
* `no_local` on a shared subscription is a Protocol Error in `docs/mqtt-rfc/v5/05.05-subscribe.md:75` and is not checked;
  share groups are keyed by the group name alone, whatever the filter.

Publishing:

* At `max_awaiting_rel` the retransmission of a message that is stored already is refused too (`publish.rs:179`).
* A QoS 2 message whose PUBCOMP cannot be written is lost (`qos.rs:73`).
* Shutdown flushes the batch and leaves what is in the channel (`persistence/mod.rs:155`); `:84` says "This flushes all
  pending writes".

Byte stream:

* What a client sends right behind CONNECT stays in `read_buf` until the next read (`broker/connection/mod.rs:211`);
  `docs/mqtt-rfc/v3.1.1/05.01-connect.md:263` lets clients do so. The `InvalidProtocolVersion` arm of `connect.rs:53`
  cannot be reached. A decoding error in `run_connected` returns without `handle_disconnect` (`mod.rs:221`).
* `read_variable_int` waits for a fifth byte after four continuation bytes; `encode_publish` counts two bytes for the id
  whenever QoS > 0 and writes them only if there is one.
* The bytes that `parse_proxy_header` gives back (`proxy/parser.rs:99`) are ignored by the accept loops
  (`broker/mod.rs:580`, `:744`, `:1123`; `cluster/manager.rs:286`). The TCP loop waits for the header before it accepts
  the next socket.
* Flapping: `is_temp_banned` removes an expired ban in a second step, a new window is begun with two stores, and clean-up goes
  by `first_seen`.

Cluster and bridge:

* A node is put in `known_nodes` before its address is
  looked for, and never gets a task if the address is not there yet (`cluster/manager.rs:471`). A SubscriptionSync
  that arrives together with HelloAck is dropped; after a failed attempt a command is taken from the channel and thrown
  away. Retained messages are forwarded only to nodes with a matching subscription at that moment.
* The callbacks of cluster and bridge and `Broker::publish` keep the retain flag and ignore `retain_as_published` and
  subscription identifiers.
* Every message of the bridge has packet id 1 (`bridge/client.rs:294`), QoS 2 is never completed, and one packet is decoded
  per read (`:366`). The CONNECT has no Session Expiry Interval (`:194`), so that `clean_start = false` keeps nothing: what
  is lost is not sent again. Rules with "+" before the last level or with different last levels yield topics outside
  the other pattern, and the parent level of "#" is put below itself. A keep-alive of 0 panics the task (`:284`), in a
  release build the process.

In the code, and not in the runs. A model with the first three violates the property named:

* After Clean Start with a session that outlives the connection, `handle_disconnect` removes the subscriptions from the
  store and the session keeps listing them (`disconnect.rs:41`): `SessionMirrored`, whose theorem assumes `CleanEnds`.
* The task of a delayed will checks the session under one lock and takes the will under another (`disconnect.rs:73-99`,
  where a comment says "Session is still disconnected from the SAME disconnect event"). If the client reconnects in between
  with a new will and an explicit delay of 0, and is lost again, both the task and `handle_disconnect` publish
  the new will: `WillAtMostOnce`, whose theorem assumes `DelaysPositive`.
* Two publishers of one topic can change the map and write to persistence in opposite orders (`publish.rs:261`), and
  the task of a connection left behind can store its message under an id that the new connection uses for another one
  (`publish.rs:201`; `07-qos.md:33` asks for exactly once): `StoredIsRetained` and `RoutedAsAnswered`.
* Disconnections, clean starts and restored sessions emit no event for the cluster. Filters of shared subscriptions are
  advertised to it as they stand and match nothing; a cluster frame of more
  than 64 KB counts as a disconnection (`cluster/manager.rs:382`); an address that does not parse has the effect of a
  missing one. A PUBLISH of more than 4096 bytes never gets through the bridge's buffer. The `{local}` placeholder
  (`config/bridge.rs:77`) and the `user_property` loop prevention of `README.md:324` are not implemented.

## Not modelled

* Authentication, ACL and hooks: whether a CONNECT or a message is accepted is a choice of the environment.
* TLS, WebSocket framing and the construction of listeners: to the modelled code a connection is a stream of bytes that may
  break. Configuration values are constants.
* Metrics, `$SYS` topics, profiling and the buffer pool do not feed back into the rest.
* Keep-alive arithmetic and topic aliases, the TLVs of a PROXY header, UTF-8 validation, and fjall's serialisation.
* `matches_with_callback`, `MessageRouter` and `RemotePeers` have no caller.
