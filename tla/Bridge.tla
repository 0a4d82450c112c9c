------------------------------- MODULE Bridge -------------------------------
(***************************************************************************)
(* A bridge to another broker: src/src/bridge/client.rs, manager.rs and    *)
(* the bridge task and callback of src/src/broker/mod.rs, with             *)
(* TopicMapper for the rules and LocalRouting for what the callback hands  *)
(* to the clients.                                                         *)
(*                                                                         *)
(* The bridge task takes the broker's events in order and puts what is to  *)
(* be forwarded into the channel of the connection task.  The connection   *)
(* task connects as an MQTT client, subscribes, and from then on writes    *)
(* what it finds in the channel and handles what it reads; it connects     *)
(* again when the connection fails, and ends when it is told to.           *)
(*                                                                         *)
(* Each read takes some bytes: some packets, and perhaps a part of the     *)
(* next.  The task decodes the first packet of what it read and forgets    *)
(* the rest; what is left of a packet that was cut is no packet when the   *)
(* next read finds it.  The remote broker and the network are external:    *)
(* the remote broker follows the MQTT standard and deals with one          *)
(* connection of the bridge after the other.  Whatever clean_start is, the *)
(* CONNECT has no Session Expiry Interval, so the session at the remote    *)
(* broker ends with the connection.                                        *)
(***************************************************************************)
EXTENDS Integers, Sequences, FiniteSets, SequencesExt, TopicMapper

CONSTANTS
  Setups,      \* the configurations with what happens in each, see Init
  Topics,      \* the local topics
  Subs,        \* the subscriptions of local clients: client, filter and qos
  Clients, standing,   \* the clients, and each as the callback finds it
  NoMsg,
  EVENTS,      \* capacity of the event channel
  COMMANDS     \* capacity of the command channel

ASSUME BridgeAssumption ==
  /\ EVENTS \in Nat \ {0} /\ COMMANDS \in Nat \ {0}
  /\ standing \in [Clients -> Standings]

VARIABLES
  setup,       \* rules, loop_prevention, keepalive, the messages of all time, and what may fail
  unpublished, \* bound: the messages still to be published, on either side
  events,      \* events the bridge task has not received
  stopping,    \* the broker has been told to shut down
  task,        \* the bridge task
  conn,        \* the connection task, with its command channel
  link,        \* the connection
  remote,      \* the bridge's session at the remote broker
  retained,    \* the retained messages of the local broker
  copies,      \* history: per client, the copies kept of each message from the callback
  forwarded,   \* history: what the bridge task put into the channel
  got,         \* history: what the remote broker took from the bridge
  sent,        \* history: what the remote broker sent to the bridge
  called,      \* history: what was given to the callback, and as what
  dropped,     \* history: the messages a read took behind another packet, or in two parts
  since,       \* history: the lengths of sent and called when the connection began
  faulty,      \* history: a connection has failed
  faults       \* bound: failures still to come

local == <<unpublished, events, stopping, task>>
history == <<retained, copies, sent, called, forwarded, got, since>>
vars == <<setup, unpublished, events, stopping, task, conn, link, remote, retained, copies,
          forwarded, got, sent, called, dropped, since, faulty, faults>>

CONNECT == [type |-> "connect"]
SUBSCRIBE == [type |-> "subscribe"]
CONNACK(ok) == [type |-> "connack", ok |-> ok]
ACK == [type |-> "ack"]     \* SUBACK, PUBACK or PUBREC from the remote broker
PUBLISH(m) == [type |-> "publish", msg |-> m]
PUBACK(m) == [type |-> "puback", msg |-> m]
DISCONNECT == [type |-> "disconnect"]
Shutdown == [type |-> "shutdown"]

(* The messages of a sequence of packets. *)
Publishes(packets) ==
  LET p == SelectSeq(packets, LAMBDA q : q.type = "publish")
  IN  [i \in 1..Len(p) |-> p[i].msg]

NoLink == [remote |-> "none"]
NewLink == [remote |-> "new", open |-> TRUE, broken |-> FALSE, cut |-> FALSE,
            up |-> <<CONNECT>>, down |-> <<>>]

NoSession == [subs |-> {}, unacked |-> <<>>, id_used |-> FALSE]

Rules == setup.rules
All == setup.local \cup setup.remote

Init ==
  /\ setup \in Setups
  /\ unpublished = All
  /\ events = <<>> /\ stopping = FALSE
  /\ task = [pc |-> "idle"]
  /\ conn = [pc |-> "connecting", queue |-> <<>>]
  /\ link = NoLink
  /\ remote = NoSession
  /\ retained = [t \in Topics |-> NoMsg]
  /\ copies = [c \in Clients |-> [i \in {m.id : m \in All} |-> 0]]
  /\ forwarded = <<>> /\ got = <<>> /\ sent = <<>> /\ called = <<>>
  /\ dropped = {} /\ since = [sent |-> 0, called |-> 0] /\ faulty = FALSE
  /\ faults = setup.faults

-----------------------------------------------------------------------------
(* The broker and the bridge task.                                         *)

(* A client publishes: the event goes to a receiver that loses its oldest  *)
(* when it is a whole channel behind.                                      *)
Publish(m) ==
  /\ m \in unpublished \cap setup.local
  /\ unpublished' = unpublished \ {m}
  /\ events' = IF task.pc = "done" THEN events
               ELSE Append(IF Len(events) = EVENTS THEN Tail(events) ELSE events, m)
  /\ UNCHANGED <<setup, stopping, task, conn, link, remote, history, dropped, faulty, faults>>

(* The broker is told to shut down. *)
Stop ==
  /\ setup.stops /\ ~stopping
  /\ stopping' = TRUE
  /\ UNCHANGED <<setup, unpublished, events, task, conn, link, remote, history, dropped, faulty, faults>>

(* The status, which a panic of the connection task leaves as it is. *)
Connected == conn.pc \in {"run", "panicked"}

(* BridgeManager::forward_publish: only what a rule matches, and only while *)
(* the bridge is connected.                                                *)
TakeEvent ==
  /\ task.pc = "idle" /\ events # <<>>
  /\ events' = Tail(events)
  /\ LET m == Head(events)
     IN  task' = IF should_forward_outbound(Rules, m.topic) /\ Connected
                 THEN [pc |-> "send", msg |-> map_outbound(Rules, m)] ELSE task
  /\ UNCHANGED <<setup, unpublished, stopping, conn, link, remote, history, dropped, faulty, faults>>

(* tx.send waits for room in the channel; without a receiver it fails.     *)
Room == Len(conn.queue) < COMMANDS \/ conn.pc = "panicked"

Sent(command) == IF conn.pc = "panicked" THEN conn ELSE [conn EXCEPT !.queue = Append(@, command)]

ForwardPublish ==
  /\ task.pc = "send" /\ Room
  /\ conn' = Sent(PUBLISH(task.msg))
  /\ forwarded' = IF conn.pc = "panicked" THEN forwarded ELSE Append(forwarded, task.msg)
  /\ task' = [pc |-> "idle"]
  /\ UNCHANGED <<setup, unpublished, events, stopping, link, remote, retained, copies, sent, called,
                 got, dropped, since, faulty, faults>>

(* The events come first; then stop_all. *)
TakeShutdown ==
  /\ task.pc = "idle" /\ events = <<>> /\ stopping
  /\ task' = [pc |-> "stop"]
  /\ UNCHANGED <<setup, unpublished, events, stopping, conn, link, remote, history, dropped, faulty,
                 faults>>

stop_all ==
  /\ task.pc = "stop" /\ Room
  /\ conn' = Sent(Shutdown)
  /\ task' = [pc |-> "done"]
  /\ UNCHANGED <<setup, unpublished, events, stopping, link, remote, history, dropped, faulty, faults>>

-----------------------------------------------------------------------------
(* The connection task.                                                    *)

(* The task drops its end of the connection, which is gone when the remote *)
(* broker has ended its own.                                               *)
Closed == IF link.remote = "done" THEN NoLink ELSE [link EXCEPT !.open = FALSE, !.down = <<>>]

Dead == link.broken \/ link.remote = "done"

(* write_all: on a dead connection what is written is lost. *)
Written(packet) == IF Dead THEN link ELSE [link EXCEPT !.up = Append(@, packet)]

(* connect_and_run returns an error. *)
Fails ==
  /\ conn' = [conn EXCEPT !.pc = "backoff"]
  /\ link' = Closed

(* After the first failure the remote broker stays out of reach. *)
Unreachable == setup.lasting /\ faulty

ConnectRemote ==
  /\ conn.pc = "connecting" /\ link = NoLink
  /\ ~Unreachable
  /\ link' = NewLink
  /\ conn' = [conn EXCEPT !.pc = "connack"]
  /\ since' = [sent |-> Len(sent), called |-> Len(called)]
  /\ UNCHANGED <<setup, local, remote, retained, copies, sent, called, forwarded, got, dropped, faulty,
                 faults>>

(* The connection is refused, or times out. *)
ConnectFails ==
  /\ conn.pc = "connecting" /\ link = NoLink
  /\ \/ faults > 0 /\ faults' = faults - 1
     \/ Unreachable /\ UNCHANGED faults
  /\ faulty' = TRUE
  /\ conn' = [conn EXCEPT !.pc = "backoff"]
  /\ UNCHANGED <<setup, local, link, remote, history, dropped>>

(* A read: the packets it takes whole, and whether it takes a part of the  *)
(* next.  The first packet is handled unless it is the rest of a cut one.  *)
Read(k, cut) ==
  /\ k \in 0..Len(link.down)
  /\ cut => k < Len(link.down)
  /\ k > 0 \/ (cut /\ ~link.cut)
  /\ dropped' = dropped \cup Range(Publishes(SubSeq(link.down, IF link.cut THEN 1 ELSE 2, k)))

AfterRead(k, cut) == [link EXCEPT !.down = SubSeq(@, k + 1, Len(@)), !.cut = cut]

(* The SUBSCRIBE that follows the CONNACK, if a rule is inbound. *)
Subscription ==
  IF inbound_filters(Rules) = {} \/ Dead THEN <<>> ELSE <<SUBSCRIBE>>

(* tokio's interval panics for a period of 0.  The task ends with its      *)
(* channel and its connection; built with panic = "abort", as a release    *)
(* is, the process ends here.                                              *)
StartTimer(k, cut) ==
  \/ /\ setup.keepalive > 0
     /\ conn' = [conn EXCEPT !.pc = "run"]
     /\ link' = [AfterRead(k, cut) EXCEPT !.up = @ \o Subscription]
  \/ /\ setup.keepalive = 0
     /\ conn' = [pc |-> "panicked", queue |-> <<>>]
     /\ link' = IF link.remote = "done" THEN NoLink
                ELSE [Closed EXCEPT !.up = @ \o Subscription]

(* The read that is to bring the CONNACK; the SUBSCRIBE is written at once. *)
ReadConnack ==
  /\ conn.pc = "connack"
  /\ \E k \in 1..Len(link.down), cut \in BOOLEAN :
       /\ Read(k, cut)
       /\ \/ /\ Head(link.down) = CONNACK(TRUE)
             /\ StartTimer(k, cut)
          \/ /\ Head(link.down) = CONNACK(FALSE)
             /\ Fails
  /\ UNCHANGED <<setup, local, remote, history, faulty, faults>>

(* The end of file; or a timeout, or a part of the CONNACK. *)
HandshakeFails ==
  /\ conn.pc = "connack"
  /\ \/ /\ link.down = <<>> /\ Dead
        /\ UNCHANGED <<faults, faulty>>
     \/ /\ faults > 0
        /\ faults' = faults - 1 /\ faulty' = TRUE
  /\ Fails
  /\ UNCHANGED <<setup, local, remote, history, dropped>>

(* Mutant: all that is waiting is taken, and the last of it is written. *)
RunCommandBatch ==
  /\ conn.pc = "run" /\ conn.queue # <<>>
  /\ LET command == Last(conn.queue)
     IN  \/ /\ command.type = "publish"
            /\ conn' = [conn EXCEPT !.queue = <<>>]
            /\ link' = Written(command)
         \/ /\ command = Shutdown
            /\ conn' = [pc |-> "done", queue |-> <<>>]
            /\ link' = IF link.remote = "done" THEN NoLink
                       ELSE [Written(DISCONNECT) EXCEPT !.open = FALSE, !.down = <<>>]
  /\ UNCHANGED <<setup, local, remote, history, dropped, faulty, faults>>

(* A command.  When the connection is dead, writing fails or what is       *)
(* written is lost; the packet id of every PUBLISH is 1.  The broker gives *)
(* no Subscribe and no Unsubscribe.                                        *)
RunCommand ==
  /\ conn.pc = "run" /\ conn.queue # <<>>
  /\ LET command == Head(conn.queue)
         rest == Tail(conn.queue)
     IN  \/ /\ command.type = "publish"
            /\ conn' = [conn EXCEPT !.queue = rest]
            /\ link' = Written(command)
         \/ /\ command.type = "publish" /\ Dead
            /\ conn' = [pc |-> "backoff", queue |-> rest]
            /\ link' = Closed
         \/ /\ command = Shutdown
            /\ conn' = [pc |-> "done", queue |-> <<>>]
            /\ link' = IF link.remote = "done" THEN NoLink
                       ELSE [Written(DISCONNECT) EXCEPT !.open = FALSE, !.down = <<>>]
  /\ UNCHANGED <<setup, local, remote, history, dropped, faulty, faults>>

(* The callback of create_bridge_manager, with the message as the rules    *)
(* map it: it sends no event.                                              *)
inbound_callback(m) ==
  LET matches == {s \in Subs : topic_matches_filter(m.topic, s.filter)}
      takers == {k.client : k \in Copies(matches, m, standing)}
  IN  /\ copies' = [c \in Clients |->
                      IF c \in takers THEN [copies[c] EXCEPT ![m.id] = @ + 1] ELSE copies[c]]
      /\ retained' = Retain(retained, m, NoMsg)

(* Mutant: everything a read has taken is acknowledged. *)
HandlePublishAcksAll(m, k, cut) ==
  /\ IF should_forward_inbound(Rules, m.topic)
     THEN /\ inbound_callback(map_inbound(Rules, m))
          /\ called' = Append(called, [from |-> m, as |-> map_inbound(Rules, m)])
     ELSE UNCHANGED <<copies, retained, called>>
  /\ link' = IF Dead THEN AfterRead(k, cut)
             ELSE [AfterRead(k, cut) EXCEPT
                     !.up = @ \o [i \in 1..Len(Publishes(SubSeq(link.down, 1, k))) |->
                                     PUBACK(Publishes(SubSeq(link.down, 1, k))[i])]]
  /\ UNCHANGED conn

(* A PUBLISH: the callback if a rule matches, and a PUBACK for QoS 1 in    *)
(* any case.                                                               *)
HandlePublish(m, k, cut) ==
  /\ IF should_forward_inbound(Rules, m.topic)
     THEN /\ inbound_callback(map_inbound(Rules, m))
          /\ called' = Append(called, [from |-> m, as |-> map_inbound(Rules, m)])
     ELSE UNCHANGED <<copies, retained, called>>
  /\ link' = IF m.qos = 1 /\ ~Dead THEN [AfterRead(k, cut) EXCEPT !.up = Append(@, PUBACK(m))]
             ELSE AfterRead(k, cut)
  /\ UNCHANGED conn

RunRead ==
  /\ conn.pc = "run" /\ link.down # <<>>
  /\ \E k \in 0..Len(link.down), cut \in BOOLEAN :
       /\ Read(k, cut)
       /\ LET first == Head(link.down)
              whole == k > 0 /\ ~link.cut
          IN  \/ /\ whole /\ first.type = "publish"
                 /\ HandlePublish(first.msg, k, cut)
              \/ /\ whole /\ first = DISCONNECT
                 /\ Fails
                 /\ UNCHANGED <<copies, retained, called>>
              \/ /\ ~whole \/ first.type \notin {"publish", "disconnect"}
                 /\ link' = AfterRead(k, cut)
                 /\ UNCHANGED <<conn, copies, retained, called>>
  /\ UNCHANGED <<setup, local, remote, sent, forwarded, got, since, faulty, faults>>

(* The end of file, or a PINGREQ that cannot be written. *)
RunFails ==
  /\ conn.pc = "run" /\ Dead
  /\ Fails
  /\ UNCHANGED <<setup, local, remote, history, dropped, faulty, faults>>

(* Mutant: only a Shutdown is taken from the channel. *)
RetryKeeps ==
  /\ conn.pc = "backoff"
  /\ conn' = IF conn.queue # <<>> /\ Head(conn.queue) = Shutdown
             THEN [pc |-> "done", queue |-> <<>>]
             ELSE [conn EXCEPT !.pc = "connecting"]
  /\ UNCHANGED <<setup, local, link, remote, history, dropped, faulty, faults>>

(* After the pause: a command that is waiting is taken, and only Shutdown  *)
(* is looked at.                                                           *)
Retry ==
  /\ conn.pc = "backoff"
  /\ conn' = IF conn.queue # <<>> /\ Head(conn.queue) = Shutdown
             THEN [pc |-> "done", queue |-> <<>>]
             ELSE [pc |-> "connecting",
                   queue |-> IF conn.queue = <<>> THEN <<>> ELSE Tail(conn.queue)]
  /\ UNCHANGED <<setup, local, link, remote, history, dropped, faulty, faults>>

-----------------------------------------------------------------------------
(* The remote broker and the network (external).                           *)

(* Mutant: the subscription is made without no_local. *)
NeverNoLocal == FALSE

use_no_local == setup.loop_prevention \in {"no_local", "both"}

(* What the remote broker sends for a message of topic t. *)
Offered(m) == {[m EXCEPT !.qos = effective_qos(@, s.qos)] :
                 s \in {r \in remote.subs : topic_matches_filter(m.topic, r.filter)}}

Answer(packets) == IF link.broken \/ ~link.open THEN link.down ELSE link.down \o packets

Taken(answer) == [link EXCEPT !.up = Tail(@), !.down = Answer(answer)]

(* The session keeps what is sent with QoS 1 or 2 until it is acknowledged, *)
(* or ends.                                                                *)
Keep(session, offers) ==
  [session EXCEPT !.unacked = @ \o SelectSeq(offers, LAMBDA m : m.qos > 0)]

RemoteEnds ==
  /\ link' = IF link.open THEN [link EXCEPT !.remote = "done", !.up = <<>>] ELSE NoLink
  /\ remote' = NoSession

RemoteAccepts ==
  /\ link.remote = "new" /\ link.up # <<>>
  /\ link' = [Taken(<<CONNACK(TRUE)>>) EXCEPT !.remote = "on"]
  /\ UNCHANGED <<setup, local, conn, remote, history, dropped, faulty, faults>>

RemoteRefuses ==
  /\ link.remote = "new" /\ link.up # <<>>
  /\ faults > 0
  /\ faults' = faults - 1 /\ faulty' = TRUE
  /\ link' = IF link.open THEN [Taken(<<CONNACK(FALSE)>>) EXCEPT !.remote = "done", !.up = <<>>]
             ELSE NoLink
  /\ UNCHANGED <<setup, local, conn, remote, history, dropped>>

(* A PUBLISH of the bridge: a QoS 2 packet id that is in use belongs to an *)
(* earlier message.  Without no_local the bridge gets its own back.        *)
RemoteTakes(m) ==
  LET new == ~(m.qos = 2 /\ remote.id_used)
      echo == IF new /\ ~use_no_local THEN SetToSeq(Offered(m)) ELSE <<>>
  IN  /\ got' = IF new THEN Append(got, m) ELSE got
      /\ sent' = sent \o echo
      /\ remote' = [Keep(remote, echo) EXCEPT !.id_used = @ \/ m.qos = 2]
      /\ link' = Taken([i \in DOMAIN echo |-> PUBLISH(echo[i])]
                       \o (IF m.qos > 0 THEN <<ACK>> ELSE <<>>))

RemoteReads ==
  /\ link.remote = "on" /\ link.up # <<>>
  /\ LET packet == Head(link.up)
     IN  \/ /\ packet = SUBSCRIBE
            /\ remote' = [remote EXCEPT !.subs = inbound_filters(Rules)]
            /\ link' = Taken(<<ACK>>)
            /\ UNCHANGED <<got, sent>>
         \/ /\ packet.type = "publish"
            /\ RemoteTakes(packet.msg)
         \/ /\ packet.type = "puback"
            /\ remote' = [remote EXCEPT !.unacked = SelectSeq(@, LAMBDA m : m # packet.msg)]
            /\ link' = Taken(<<>>)
            /\ UNCHANGED <<got, sent>>
         \/ /\ packet = DISCONNECT
            /\ RemoteEnds
            /\ UNCHANGED <<got, sent>>
  /\ UNCHANGED <<setup, local, conn, retained, copies, called, forwarded, dropped, since, faulty,
                 faults>>

RemoteEof ==
  /\ link.remote \in {"new", "on"} /\ link.up = <<>>
  /\ link.broken \/ ~link.open
  /\ RemoteEnds
  /\ UNCHANGED <<setup, local, conn, history, dropped, faulty, faults>>

(* A client of the remote broker publishes: a session has a connection. *)
RemotePublish(m) ==
  LET offers == SetToSeq(Offered(m))
  IN  /\ m \in unpublished \cap setup.remote
      /\ unpublished' = unpublished \ {m}
      /\ sent' = sent \o offers
      /\ remote' = Keep(remote, offers)
      /\ link' = IF offers = <<>> THEN link
                 ELSE [link EXCEPT !.down = Answer([i \in DOMAIN offers |-> PUBLISH(offers[i])])]
      /\ UNCHANGED <<setup, events, stopping, task, conn, retained, copies, called, forwarded, got,
                     dropped, since, faulty, faults>>

(* The remote broker shuts down, with a DISCONNECT. *)
RemoteShutdown ==
  /\ link.remote = "on" /\ link.open /\ ~link.broken
  /\ faults > 0
  /\ faults' = faults - 1 /\ faulty' = TRUE
  /\ link' = [link EXCEPT !.down = Append(@, DISCONNECT), !.remote = "done", !.up = <<>>]
  /\ remote' = NoSession
  /\ UNCHANGED <<setup, local, conn, history, dropped>>

(* The connection breaks: of what is under way, a prefix still arrives. *)
Break ==
  /\ link # NoLink /\ link.remote # "done" /\ link.open /\ ~link.broken
  /\ faults > 0
  /\ faults' = faults - 1 /\ faulty' = TRUE
  /\ \E j \in 0..Len(link.up), k \in 0..Len(link.down) :
       link' = [link EXCEPT !.broken = TRUE, !.up = SubSeq(@, 1, j), !.down = SubSeq(@, 1, k),
                            !.cut = @ /\ k > 0]
  /\ UNCHANGED <<setup, local, conn, remote, history, dropped>>

-----------------------------------------------------------------------------
Environment ==
  \/ \E m \in All : Publish(m) \/ RemotePublish(m)
  \/ Stop \/ RemoteRefuses \/ RemoteShutdown \/ Break

BridgeTask == TakeEvent \/ ForwardPublish \/ TakeShutdown \/ stop_all

Connection == ConnectRemote \/ ConnectFails \/ ReadConnack \/ HandshakeFails \/ RunFails \/ Retry

RemoteBroker == RemoteAccepts \/ RemoteReads \/ RemoteEof

Next == Environment \/ BridgeTask \/ Connection \/ RunCommand \/ RunRead \/ RemoteBroker

Spec == Init /\ [][Next]_vars

(* The tasks are scheduled, the pause of a retry ends, and the remote      *)
(* broker answers.                                                         *)
Fairness == WF_vars(BridgeTask) /\ WF_vars(Connection) /\ WF_vars(RunCommand) /\ WF_vars(RemoteBroker)

FairSpec == Spec /\ Fairness

-----------------------------------------------------------------------------
(* Nothing goes round: the remote broker gets each local message once at   *)
(* most (nothing is written twice, and the callback sends no event) and    *)
(* none of its own; and with no_local no local client gets a local message *)
(* from the bridge.                                                        *)
NoLoop ==
  /\ \A i, j \in DOMAIN got : got[i].id = got[j].id => i = j
  /\ \A m \in setup.remote : \A i \in DOMAIN got : got[i].id # m.id
  /\ setup.loop_prevention = "no_local" =>
       \A m \in setup.local, c \in Clients : copies[c][m.id] = 0

(* No wildcard before the last level. *)
Prefixed(pattern) == \A i \in 1..(Len(pattern) - 1) : pattern[i] \notin {"#", "+"}

(* A message mapped by a rule: neither its QoS nor its retain flag exceeds *)
(* what the rule allows; if the patterns end alike and have no other       *)
(* wildcard, the topic is one of the other pattern, and where it was below *)
(* the prefix of its own (it may be the parent level of "#") it is at the  *)
(* same place below the other prefix.                                      *)
MappedBy(rule, outbound, m, as) ==
  LET from == source(rule, outbound)
      to == dest(rule, outbound)
  IN  /\ topic_matches_filter(m.topic, from)
      /\ as.qos <= rule.qos /\ as.qos <= m.qos
      /\ as.retain => m.retain /\ rule.retain
      /\ Prefixed(from) /\ Prefixed(to) /\ Last(from) = Last(to) =>
           /\ topic_matches_filter(as.topic, to)
           /\ IsStrictPrefix(Front(from), m.topic) =>
                as.topic = Front(to) \o SubSeq(m.topic, Len(from), Len(m.topic))

(* What crosses the bridge comes out below the other prefix, as one of the *)
(* rules of its direction says.                                            *)
Mapped ==
  /\ \A i \in DOMAIN forwarded : \E m \in setup.local, r \in Range(Rules) :
       m.id = forwarded[i].id /\ r.direction # "in" /\ MappedBy(r, TRUE, m, forwarded[i])
  /\ \A i \in DOMAIN called : \E r \in Range(Rules) :
       r.direction # "out" /\ MappedBy(r, FALSE, called[i].from, called[i].as)

(* A sequence of messages without those of QoS 2 that follow another one. *)
OneQos2(msgs) ==
  LET keep == {i \in DOMAIN msgs : msgs[i].qos = 2 => \A j \in 1..(i-1) : msgs[j].qos # 2}
      at == SetToSortSeq(keep, <)
  IN  [i \in DOMAIN at |-> msgs[at[i]]]

(* While no connection has failed, what was put into the channel reaches   *)
(* the remote broker in that order and nothing is left out, but for QoS 2: *)
(* all have packet id 1 and no handshake is finished, so the remote broker *)
(* takes the first one only.                                               *)
ForwardedInOrder ==
  ~faulty =>
    LET written == IF link = NoLink THEN <<>> ELSE Publishes(link.up)
    IN  OneQos2(forwarded) = OneQos2(got \o written \o Publishes(conn.queue))

(* On every connection, what the remote broker sends is given to the       *)
(* callback once and in that order, and only what a read took behind       *)
(* another packet or in two parts is left out (client.rs:366), or what was *)
(* under way when the connection broke.  While the connection lasts, a     *)
(* message of QoS 1 or 2 that the remote broker no longer keeps was given  *)
(* to the callback: whatever else a read took, only the packet that was    *)
(* handled is acknowledged.                                                *)
ReceivedIsHandedOver ==
  link # NoLink =>
    LET mine == SubSeq(sent, since.sent + 1, Len(sent))
        calls == SubSeq(called, since.called + 1, Len(called))
        handed == [i \in DOMAIN calls |-> calls[i].from]
        arriving == handed \o Publishes(link.down)
        due == SelectSeq(mine, LAMBDA m : m \notin dropped)
    IN  /\ IsPrefix(arriving, due)
        /\ link.open /\ ~link.broken => arriving = due
        /\ link.remote = "on" =>
             \A m \in Range(mine) : m.qos > 0 => m \in Range(remote.unacked) \cup Range(handed)

(* Unless the broker stops, the bridge is connected again and again while  *)
(* the remote broker can be reached; told to stop, it ends, even if it can *)
(* never connect again and its channel is full.  With keepalive 0 the task *)
(* ends with the first CONNACK.                                            *)
ReconnectsOrStops ==
  []<>(IF stopping THEN conn.pc \in {"done", "panicked"}
       ELSE Unreachable \/ conn.pc = IF setup.keepalive = 0 THEN "panicked" ELSE "run")

=============================================================================
