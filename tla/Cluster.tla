------------------------------- MODULE Cluster -------------------------------
(***************************************************************************)
(* Several brokers as one: src/cluster/manager.rs, src/cluster/peer.rs,    *)
(* src/cluster/protocol.rs and the cluster task of src/broker/mod.rs.      *)
(*                                                                         *)
(* Every node has a cluster task, which takes the broker's events in       *)
(* order: it keeps local_subscriptions, puts them into the gossip state    *)
(* and forwards what local clients publish.  A gossip watcher starts a     *)
(* peer task for every node it learns of, overwrites what it knows of the  *)
(* node's filters with what gossip says, and stops the task when the node  *)
(* is gone.  A peer task connects, shakes hands, and from then on writes   *)
(* what it is given; it connects again when the connection breaks.  The    *)
(* other end of each connection is a handler of the node it leads to.      *)
(*                                                                         *)
(* A frame is one message of the protocol.  A connection keeps the order   *)
(* of the frames of each direction; when it breaks, each direction keeps   *)
(* only a prefix of what is under way.  The gossip library and the network *)
(* are external.                                                           *)
(***************************************************************************)
EXTENDS Integers, Sequences, FiniteSets, SequencesExt, LocalRouting

CONSTANTS
  Nodes,
  Clients, Home,       \* each client's node
  standing,            \* each client as a callback finds it
  Filters,
  Changing,            \* the clients that change their subscriptions
  Subscribed,          \* subscriptions of an initial state
  Hears,               \* the pairs of nodes of which the first hears of the second's changes
  Messages, Origin,    \* what clients publish, and the node each message is published on
  Early,               \* the messages the first initial state publishes
  Covers,              \* the pairs of a topic and a filter that matches it
  NoView, NoKeys,      \* no gossip state of a node; a state without keys as yet
  NoMsg,               \* no message
  EVENTS,              \* capacity of the event channel
  COMMANDS,            \* capacity of a peer task's command channel
  MaxTasks, MaxLinks,  \* bounds: peer tasks and connections at a time
  MaxOps,              \* bound: subscription changes in a behaviour
  MaxFaults            \* bound: broken connections and nodes given up by the watcher

ASSUME ClusterAssumption ==
  /\ Home \in [Clients -> Nodes]
  /\ standing \in [Clients -> Standings]
  /\ Origin \in [Messages -> Nodes]
  /\ EVENTS \in Nat \ {0} /\ COMMANDS \in Nat \ {0}

VARIABLES
  store,       \* the subscriptions of all nodes: pairs of a client and a filter
  events,      \* per node: events the cluster task has not received
  local,       \* per node: local_subscriptions
  gossip,      \* per node: its KEY_SUBSCRIPTIONS
  view,        \* per node and other node: the gossip state it has of the other
  fwd,         \* per node: the cluster task
  known,       \* per node: known_nodes of the watcher
  peers,       \* per node and other node: the peer task in the map, 0 for none
  burying,     \* per node: the peer task the watcher is stopping, 0 for none
  tasks,       \* the peer tasks
  links,       \* the connections
  retained,    \* per node: its retained messages
  copies,      \* history: per client and message, the copies kept
  unpublished, \* bound: the messages still to be published
  forwarded,   \* history: per pair of nodes, the messages given to a peer task
  called,      \* history: per pair of nodes, the messages given to the callback
  lagged,      \* history: the nodes whose event channel has overflowed
  faulty,      \* history: a connection has broken, or a node was given up
  ops, faults  \* bounds: subscription changes and faults still to come

broker == <<store, retained, copies, unpublished>>
gossiping == <<local, gossip, view>>
watcher == <<known, peers, burying>>
network == <<tasks, links>>
history == <<forwarded, called>>
bounds == <<faulty, ops, faults>>
vars == <<store, events, local, gossip, view, fwd, known, peers, burying, tasks, links,
          retained, copies, unpublished, forwarded, called, lagged, faulty, ops, faults>>

Topics == {m.topic : m \in Messages}

Task(owner, target, filters) ==
  [owner |-> owner, target |-> target, pc |-> "connecting", subs |-> filters,
   queue |-> <<>>, link |-> 0]

(* Shutdown as a command, and the frames.  All nodes have the same version *)
(* of the protocol, and a frame fits in the 64 KB a handler reads into.    *)
Shutdown == [type |-> "shutdown"]
Hello == [type |-> "hello"]
HelloAck == [type |-> "ack"]
Goodbye == [type |-> "goodbye"]
SubscriptionSync(filters) == [type |-> "sync", filters |-> filters]
Publishing(m) == [type |-> "publish", msg |-> m]

NoTask == [pc |-> "none"]
NoLink == [task |-> 0]

(* A connection of task i: the Hello is under way. *)
Link(i, from, to) ==
  [task |-> i, up |-> <<Hello>>, down |-> <<>>, open |-> TRUE, handler |-> "hello",
   garbled |-> FALSE, broken |-> FALSE, from |-> from, to |-> to]

FiltersOf(subs) == [n \in Nodes |-> {s[2] : s \in {r \in subs : Home[r[1]] = n}}]

AtFirst(subs) ==
  /\ store = subs
  /\ local = FiltersOf(subs)
  /\ gossip = FiltersOf(subs)
  /\ fwd = [n \in Nodes |-> [pc |-> "idle"]]
  /\ events = [n \in Nodes |-> <<>>]
  /\ burying = [n \in Nodes |-> 0]
  /\ retained = [n \in Nodes |-> [t \in Topics |-> NoMsg]]
  /\ copies = [c \in Clients |-> [m \in Messages |-> 0]]
  /\ forwarded = [n \in Nodes |-> [m \in Nodes \ {n} |-> <<>>]]
  /\ called = [n \in Nodes |-> [m \in Nodes \ {n} |-> <<>>]]
  /\ lagged = {}

(* The nodes have not heard of each other; clients may have subscribed. *)
InitApart(subs) ==
  /\ AtFirst(subs)
  /\ view = [n \in Nodes |-> [m \in Nodes \ {n} |-> NoView]]
  /\ known = [n \in Nodes |-> {}]
  /\ peers = [n \in Nodes |-> [m \in Nodes \ {n} |-> 0]]
  /\ tasks = [i \in 1..MaxTasks |-> NoTask]
  /\ links = [l \in 1..MaxLinks |-> NoLink]
  /\ faulty = FALSE
  /\ ops = MaxOps /\ faults = MaxFaults /\ unpublished = Early

(* Later: every node has heard of all of it, and the peer tasks have been  *)
(* started.  No subscription changes any more, and nothing breaks.         *)
InitTogether(subs) ==
  LET filters == FiltersOf(subs)
      pairs == SetToSeq({p \in Nodes \X Nodes : p[1] # p[2]})
  IN  /\ AtFirst(subs)
      /\ view = [n \in Nodes |-> [m \in Nodes \ {n} |-> filters[m]]]
      /\ known = [n \in Nodes |-> Nodes \ {n}]
      /\ peers = [n \in Nodes |-> [m \in Nodes \ {n} |->
                     CHOOSE i \in 1..MaxTasks : pairs[i] = <<n, m>>]]
      /\ tasks = [i \in 1..MaxTasks |->
                     IF i <= Len(pairs) THEN Task(pairs[i][1], pairs[i][2], filters[pairs[i][2]])
                     ELSE NoTask]
      /\ links = [l \in 1..MaxLinks |-> NoLink]
      /\ faulty = FALSE
      /\ ops = 0 /\ faults = 0 /\ unpublished = Messages

(* Later still: who hears of another was connected to it, the connection   *)
(* has broken, which the other end has found and the task has not, and the *)
(* other node may be given up.                                             *)
InitBroken(subs) ==
  LET filters == FiltersOf(subs)
      pairs == SetToSeq(Hears)
      Nr(n, m) == IF <<n, m>> \in Hears THEN CHOOSE i \in 1..Len(pairs) : pairs[i] = <<n, m>> ELSE 0
  IN  /\ AtFirst(subs)
      /\ view = [n \in Nodes |-> [m \in Nodes \ {n} |->
                   IF <<n, m>> \in Hears THEN filters[m] ELSE NoView]]
      /\ known = [n \in Nodes |-> {m \in Nodes : <<n, m>> \in Hears}]
      /\ peers = [n \in Nodes |-> [m \in Nodes \ {n} |-> Nr(n, m)]]
      /\ tasks = [i \in 1..MaxTasks |->
                    IF i <= Len(pairs)
                    THEN [Task(pairs[i][1], pairs[i][2], filters[pairs[i][2]])
                            EXCEPT !.pc = "run", !.link = i]
                    ELSE NoTask]
      /\ links = [l \in 1..MaxLinks |->
                    IF l <= Len(pairs)
                    THEN [Link(l, pairs[l][1], pairs[l][2]) EXCEPT !.up = <<>>, !.handler = "done", !.broken = TRUE]
                    ELSE NoLink]
      /\ faulty = TRUE
      /\ ops = 0 /\ faults = MaxFaults /\ unpublished = Messages

Init ==
  \/ InitApart({})
  \/ InitApart({s \in Subscribed : s[1] \in Changing})
  \/ InitTogether(Subscribed)
  \/ InitBroken(Subscribed)

-----------------------------------------------------------------------------
(* The broker of a node.                                                   *)

(* events.send: a receiver that is a whole channel behind loses its oldest. *)
Send(n, e) ==
  LET full == Len(events[n]) = EVENTS
  IN  /\ events' = [events EXCEPT ![n] = Append(IF full THEN Tail(@) ELSE @, e)]
      /\ lagged' = IF full THEN lagged \cup {n} ELSE lagged

(* handle_subscribe and handle_unsubscribe change the store and send the   *)
(* event, for an unsubscription only if the filter was there.              *)
Subscribe(c, f) ==
  /\ ops > 0
  /\ store' = store \cup {<<c, f>>}
  /\ Send(Home[c], [type |-> "added", filter |-> f])
  /\ ops' = ops - 1
  /\ UNCHANGED <<gossiping, fwd, watcher, network, retained, copies, unpublished, history, faults,
                 faulty>>

Unsubscribe(c, f) ==
  /\ ops > 0
  /\ <<c, f>> \in store
  /\ store' = store \ {<<c, f>>}
  /\ Send(Home[c], [type |-> "removed", filter |-> f])
  /\ ops' = ops - 1
  /\ UNCHANGED <<gossiping, fwd, watcher, network, retained, copies, unpublished, history, faults,
                 faulty>>

(* The end of a session that leaves nothing behind: unsubscribe_all, and   *)
(* no event.                                                               *)
UnsubscribeAll(c) ==
  /\ ops > 0
  /\ \E f \in Filters : <<c, f>> \in store
  /\ store' = {s \in store : s[1] # c}
  /\ ops' = ops - 1
  /\ UNCHANGED <<events, gossiping, fwd, watcher, network, retained, copies, unpublished, history,
                 lagged, faults, faulty>>

(* The subscriptions of a node that match the topic of a message. *)
Matches(n, m) ==
  {[client |-> s[1], qos |-> 0] :
     s \in {r \in store : Home[r[1]] = n /\ <<m.topic, r[2]>> \in Covers}}

(* One copy for each client that matches, and the retained message. *)
Deliver(n, m) ==
  LET takers == {k.client : k \in Copies(Matches(n, m), m, standing)}
  IN  /\ copies' = [c \in Clients |->
                      IF c \in takers THEN [copies[c] EXCEPT ![m] = @ + 1] ELSE copies[c]]
      /\ retained' = [retained EXCEPT ![n] = Retain(@, m, NoMsg)]

(* Mutant: the callback reports the message as published. *)
CallbackForwards(n, m, from) ==
  /\ Deliver(n, m)
  /\ called' = [called EXCEPT ![from][n] = Append(@, m)]
  /\ Send(n, [type |-> "published", msg |-> m])

(* The callback of create_cluster_manager: it sends no event. *)
inbound_callback(n, m, from) ==
  /\ Deliver(n, m)
  /\ called' = [called EXCEPT ![from][n] = Append(@, m)]
  /\ UNCHANGED <<events, lagged>>

(* A client publishes: its own node's clients get theirs, and the event    *)
(* goes out.                                                               *)
Publish(m) ==
  /\ m \in unpublished
  /\ unpublished' = unpublished \ {m}
  /\ Deliver(Origin[m], m)
  /\ Send(Origin[m], [type |-> "published", msg |-> m])
  /\ UNCHANGED <<store, gossiping, fwd, watcher, network, history, bounds>>

-----------------------------------------------------------------------------
(* The cluster task.                                                       *)

Connected(i) == i # 0 /\ tasks[i].pc = "run"

should_forward(i, m) == \E f \in tasks[i].subs : <<m.topic, f>> \in Covers

(* add_subscription and remove_subscription: the set changes under its     *)
(* lock; the gossip state follows in a step of its own.                    *)
ChangeLocal(n, e) ==
  /\ local' = [local EXCEPT ![n] = IF e.type = "added" THEN @ \cup {e.filter} ELSE @ \ {e.filter}]
  /\ fwd' = [fwd EXCEPT ![n] = [pc |-> "gossip"]]

(* forward_publish, with the peers it has still to look at. *)
Forward(m, todo) ==
  IF todo = {} THEN [pc |-> "idle"]
  ELSE [pc |-> "forward", msg |-> m, todo |-> todo, held |-> {}]

TakeEvent(n) ==
  /\ fwd[n].pc = "idle"
  /\ events[n] # <<>>
  /\ events' = [events EXCEPT ![n] = Tail(@)]
  /\ LET e == Head(events[n])
     IN  \/ /\ e.type \in {"added", "removed"}
            /\ ChangeLocal(n, e)
         \/ /\ e.type = "published"
            /\ fwd' = [fwd EXCEPT ![n] = Forward(e.msg, {m \in Nodes \ {n} : peers[n][m] # 0})]
            /\ UNCHANGED local
  /\ UNCHANGED <<broker, gossip, view, watcher, network, history, lagged, bounds>>

(* update_subscriptions: what the set was becomes the value of the key. *)
SetGossip(n) ==
  /\ fwd[n].pc = "gossip"
  /\ gossip' = [gossip EXCEPT ![n] = local[n]]
  /\ fwd' = [fwd EXCEPT ![n] = [pc |-> "idle"]]
  /\ UNCHANGED <<broker, events, local, view, watcher, network, history, lagged, bounds>>

NextPeer(n, m) == Forward(fwd[n].msg, fwd[n].todo \ {m})

(* tx.send on the command channel of task i: it waits for room, and fails  *)
(* if the task has ended.                                                  *)
Room(i) == tasks[i].pc = "done" \/ Len(tasks[i].queue) < COMMANDS
Queue(i, command) ==
  tasks' = IF tasks[i].pc = "done" THEN tasks
           ELSE [tasks EXCEPT ![i].queue = Append(@, command)]

(* forward_publish looks at a peer: is it connected and interested?  It    *)
(* keeps the entry of the map locked while it waits for room.              *)
LookAtPeer(n, m) ==
  /\ fwd[n].pc = "forward" /\ fwd[n].held = {}
  /\ m \in fwd[n].todo
  /\ LET i == peers[n][m]
     IN  fwd' = [fwd EXCEPT ![n] = IF Connected(i) /\ should_forward(i, fwd[n].msg)
                                   THEN [@ EXCEPT !.held = {m}] ELSE NextPeer(n, m)]
  /\ UNCHANGED <<broker, events, gossiping, watcher, network, history, lagged, bounds>>

ForwardToPeer(n) ==
  /\ fwd[n].pc = "forward" /\ fwd[n].held # {}
  /\ \E m \in fwd[n].held :
       LET i == peers[n][m]
       IN  /\ Room(i)
           /\ Queue(i, Publishing(fwd[n].msg))
           /\ fwd' = [fwd EXCEPT ![n] = NextPeer(n, m)]
           /\ forwarded' = IF tasks[i].pc = "done" THEN forwarded
                           ELSE [forwarded EXCEPT ![n][m] = Append(@, fwd[n].msg)]
  /\ UNCHANGED <<broker, events, gossiping, watcher, links, called, lagged, bounds>>

-----------------------------------------------------------------------------
(* Gossip (external) and the gossip watcher.                               *)

(* A first heartbeat: the node is there, its keys are not. *)
GossipHeartbeat(n, m) ==
  /\ <<n, m>> \in Hears
  /\ view[n][m] = NoView
  /\ view' = [view EXCEPT ![n][m] = NoKeys]
  /\ UNCHANGED <<broker, events, local, gossip, fwd, watcher, network, history, lagged, bounds>>

(* All keys of a node: its filters, and its address, which never changes. *)
GossipArrives(n, m) ==
  /\ <<n, m>> \in Hears
  /\ view[n][m] # gossip[m]
  /\ view' = [view EXCEPT ![n][m] = gossip[m]]
  /\ UNCHANGED <<broker, events, local, gossip, fwd, watcher, network, history, lagged, bounds>>

(* The failure detector gives the other node up. *)
GossipLoses(n, m) ==
  /\ view[n][m] # NoView
  /\ faults > 0
  /\ view' = [view EXCEPT ![n][m] = NoView]
  /\ faults' = faults - 1
  /\ faulty' = TRUE
  /\ UNCHANGED <<broker, events, local, gossip, fwd, watcher, network, history, lagged, ops>>

FreeTask(i) ==
  /\ tasks[i].pc \in {"none", "done"}
  /\ \A n \in Nodes, m \in Nodes : n # m => peers[n][m] # i
  /\ \A n \in Nodes : burying[n] # i

(* A node the watcher does not know: from now on it does, and it starts a  *)
(* peer task, if the gossip state has the node's address.                  *)
Discover(n, m) ==
  /\ burying[n] = 0
  /\ view[n][m] # NoView
  /\ m \notin known[n]
  /\ known' = [known EXCEPT ![n] = @ \cup {m}]
  /\ \/ /\ view[n][m] = NoKeys
        /\ UNCHANGED <<tasks, peers>>
     \/ /\ view[n][m] # NoKeys
        /\ \E i \in 1..MaxTasks :
             /\ FreeTask(i) /\ \A j \in 1..(i-1) : ~FreeTask(j)
             /\ tasks' = [tasks EXCEPT ![i] = Task(n, m, view[n][m])]
             /\ peers' = [peers EXCEPT ![n][m] = i]
  /\ UNCHANGED <<broker, events, gossiping, fwd, burying, links, history, lagged, bounds>>

(* update_remote_subscriptions, on every round and for every peer. *)
Refresh(n, m) ==
  /\ burying[n] = 0
  /\ view[n][m] \notin {NoView, NoKeys}
  /\ m \in known[n] /\ peers[n][m] # 0
  /\ tasks' = [tasks EXCEPT ![peers[n][m]].subs = view[n][m]]
  /\ UNCHANGED <<broker, events, gossiping, fwd, watcher, links, history, lagged, bounds>>

(* A node that is gone: its entry leaves the map once nobody holds it, and *)
(* its task is told to stop.                                               *)
Bury(n, m) ==
  /\ burying[n] = 0
  /\ view[n][m] = NoView
  /\ m \in known[n]
  /\ ~(fwd[n].pc = "forward" /\ m \in fwd[n].held)
  /\ known' = [known EXCEPT ![n] = @ \ {m}]
  /\ peers' = [peers EXCEPT ![n][m] = 0]
  /\ burying' = [burying EXCEPT ![n] = peers[n][m]]
  /\ fwd' = IF fwd[n].pc = "forward" THEN [fwd EXCEPT ![n] = NextPeer(n, m)] ELSE fwd
  /\ UNCHANGED <<broker, events, gossiping, network, history, lagged, bounds>>

StopPeer(n) ==
  /\ burying[n] # 0
  /\ Room(burying[n])
  /\ Queue(burying[n], Shutdown)
  /\ burying' = [burying EXCEPT ![n] = 0]
  /\ UNCHANGED <<broker, events, gossiping, fwd, known, peers, links, history, lagged, bounds>>

-----------------------------------------------------------------------------
(* A peer task.                                                            *)

(* The task ends its part of the connection; the slot is free when the     *)
(* handler has ended too.                                                  *)
Close(l) == [links EXCEPT ![l] = IF @.handler = "done" THEN NoLink ELSE [@ EXCEPT !.open = FALSE]]

(* connect_and_run returns an error: the connection is dropped. *)
Fails(i) ==
  /\ tasks' = [tasks EXCEPT ![i].pc = "backoff", ![i].link = 0]
  /\ links' = Close(tasks[i].link)

others == <<broker, gossiping, watcher, fwd, lagged, ops>>

(* Mutant: the task does not wait for the HelloAck. *)
ConnectAndRun(i) ==
  /\ tasks[i].pc = "connecting"
  /\ \E l \in 1..MaxLinks :
       /\ links[l] = NoLink /\ \A k \in 1..(l-1) : links[k] # NoLink
       /\ links' = [links EXCEPT ![l] = Link(i, tasks[i].owner, tasks[i].target)]
       /\ tasks' = [tasks EXCEPT ![i].pc = "run", ![i].link = l]
  /\ UNCHANGED <<others, events, history, faults, faulty>>

ConnectPeer(i) ==
  /\ tasks[i].pc = "connecting"
  /\ \E l \in 1..MaxLinks :
       /\ links[l] = NoLink /\ \A k \in 1..(l-1) : links[k] # NoLink
       /\ links' = [links EXCEPT ![l] = Link(i, tasks[i].owner, tasks[i].target)]
       /\ tasks' = [tasks EXCEPT ![i].pc = "ack", ![i].link = l]
  /\ UNCHANGED <<others, events, history, faults, faulty>>

ConnectFails(i) ==
  /\ tasks[i].pc = "connecting"
  /\ tasks' = [tasks EXCEPT ![i].pc = "backoff"]
  /\ UNCHANGED <<others, events, links, history, faults, faulty>>

(* The first read: the HelloAck, and whatever came with it.  The other     *)
(* frames of the read are dropped; if it ends inside a frame, the rest of  *)
(* that frame is taken for a frame later.                                  *)
ReadHelloAck(i) ==
  /\ tasks[i].pc = "ack"
  /\ LET l == tasks[i].link
     IN  /\ links[l].down # <<>>
         /\ \E k \in 1..Len(links[l].down), cut \in BOOLEAN :
              /\ cut => k < Len(links[l].down)
              /\ links' = [links EXCEPT ![l].down = SubSeq(@, k + 1, Len(@)), ![l].garbled = cut]
  /\ tasks' = [tasks EXCEPT ![i].pc = "run"]
  /\ UNCHANGED <<others, events, history, faults, faulty>>

(* A timeout, an end of file or a part of the HelloAck. *)
HandshakeFails(i) ==
  /\ tasks[i].pc = "ack"
  /\ Fails(i)
  /\ UNCHANGED <<others, events, history, faults, faulty>>

Dead(l) == links[l].broken \/ links[l].handler = "done"

(* A command is written to the connection.  On a dead one the write fails, *)
(* or it seems to succeed; the message is lost either way.  The broker     *)
(* gives no SyncSubscriptions and no UpdateSubscriptions.                  *)
RunCommand(i) ==
  /\ tasks[i].pc = "run"
  /\ tasks[i].queue # <<>>
  /\ LET l == tasks[i].link
         command == Head(tasks[i].queue)
         rest == Tail(tasks[i].queue)
     IN  \/ /\ command.type = "publish"
            /\ tasks' = [tasks EXCEPT ![i].queue = rest]
            /\ links' = IF Dead(l) THEN links ELSE [links EXCEPT ![l].up = Append(@, command)]
         \/ /\ command.type = "publish" /\ Dead(l)
            /\ tasks' = [tasks EXCEPT ![i].queue = rest, ![i].pc = "backoff", ![i].link = 0]
            /\ links' = Close(l)
         \/ /\ command = Shutdown
            /\ tasks' = [tasks EXCEPT ![i] = [@ EXCEPT !.pc = "done", !.queue = <<>>, !.link = 0, !.subs = {}]]
            /\ links' = IF links[l].handler = "done" THEN [links EXCEPT ![l] = NoLink]
                        ELSE [links EXCEPT ![l].open = FALSE,
                                           ![l].up = IF links[l].broken THEN @ ELSE Append(@, Goodbye)]
  /\ UNCHANGED <<others, events, history, faults, faulty>>

(* A frame from the handler: its filters.  A handler sends no              *)
(* SubscriptionUpdate, no Publish and no Ping.                             *)
RunRead(i) ==
  /\ tasks[i].pc = "run"
  /\ LET l == tasks[i].link
         frame == Head(links[l].down)
     IN  /\ links[l].down # <<>>
         /\ links' = [links EXCEPT ![l].down = Tail(@)]
         /\ tasks' = IF frame.type = "sync" /\ ~links[l].garbled
                     THEN [tasks EXCEPT ![i].subs = frame.filters] ELSE tasks
  /\ UNCHANGED <<others, events, history, faults, faulty>>

RunEof(i) ==
  /\ tasks[i].pc = "run"
  /\ links[tasks[i].link].down = <<>> /\ Dead(tasks[i].link)
  /\ Fails(i)
  /\ UNCHANGED <<others, events, history, faults, faulty>>

(* The ping of every 15 s: on a dead connection the write may fail.  On a  *)
(* live one it is answered by a Pong that nobody looks at: neither frame   *)
(* is kept.                                                                *)
RunPing(i) ==
  /\ tasks[i].pc = "run"
  /\ Dead(tasks[i].link)
  /\ Fails(i)
  /\ UNCHANGED <<others, events, history, faults, faulty>>

(* Mutant: a command that is not Shutdown is left where it is. *)
RetryKeeps(i) ==
  /\ tasks[i].pc = "backoff"
  /\ tasks' = IF tasks[i].queue # <<>> /\ Head(tasks[i].queue) = Shutdown
              THEN [tasks EXCEPT ![i] = [@ EXCEPT !.pc = "done", !.queue = <<>>, !.subs = {}]]
              ELSE [tasks EXCEPT ![i].pc = "connecting"]
  /\ UNCHANGED <<others, events, links, history, faults, faulty>>

(* After the pause: a command that is waiting is taken, and only Shutdown  *)
(* is looked at.                                                           *)
Retry(i) ==
  /\ tasks[i].pc = "backoff"
  /\ tasks' = IF tasks[i].queue # <<>> /\ Head(tasks[i].queue) = Shutdown
              THEN [tasks EXCEPT ![i] = [@ EXCEPT !.pc = "done", !.queue = <<>>, !.subs = {}]]
              ELSE [tasks EXCEPT ![i].pc = "connecting",
                                 ![i].queue = IF @ = <<>> THEN @ ELSE Tail(@)]
  /\ UNCHANGED <<others, events, links, history, faults, faulty>>

-----------------------------------------------------------------------------
(* handle_incoming_peer: the handler at the other end of a connection.     *)

HandlerEnds(l) == [links EXCEPT ![l] = IF @.open THEN [@ EXCEPT !.handler = "done", !.up = <<>>]
                                       ELSE NoLink]

(* The first read: the Hello, and whatever came with it, which is dropped. *)
(* The answer is the HelloAck and the filters of the node.                 *)
ReadHello(l) ==
  /\ links[l] # NoLink /\ links[l].handler = "hello"
  /\ links[l].up # <<>>
  /\ \E k \in 1..Len(links[l].up) :
       links' = [links EXCEPT ![l].up = SubSeq(@, k + 1, Len(@)),
                              ![l].down = IF links[l].broken THEN @
                                          ELSE @ \o <<HelloAck, SubscriptionSync(local[links[l].to])>>,
                              ![l].handler = "loop"]
  /\ UNCHANGED <<others, events, tasks, history, faults, faulty>>

HandlerRead(l) ==
  /\ links[l] # NoLink /\ links[l].handler = "loop"
  /\ links[l].up # <<>>
  /\ LET frame == Head(links[l].up)
     IN  \/ /\ frame.type = "publish"
            /\ inbound_callback(links[l].to, frame.msg, links[l].from)
            /\ links' = [links EXCEPT ![l].up = Tail(@)]
         \/ /\ frame = Goodbye
            /\ links' = HandlerEnds(l)
            /\ UNCHANGED <<copies, retained, called, events, lagged>>
  /\ UNCHANGED <<store, unpublished, gossiping, watcher, fwd, tasks, forwarded, bounds>>

HandlerEof(l) ==
  /\ links[l] # NoLink /\ links[l].handler \in {"hello", "loop"}
  /\ links[l].up = <<>>
  /\ links[l].broken \/ ~links[l].open
  /\ links' = HandlerEnds(l)
  /\ UNCHANGED <<others, events, tasks, history, faults, faulty>>

(* The connection breaks: of what is under way, a prefix still arrives. *)
Break(l) ==
  /\ faults > 0
  /\ links[l] # NoLink /\ ~links[l].broken /\ links[l].open
  /\ \E j \in 0..Len(links[l].up), k \in 0..Len(links[l].down) :
       links' = [links EXCEPT ![l].broken = TRUE, ![l].up = SubSeq(@, 1, j),
                              ![l].down = SubSeq(@, 1, k)]
  /\ faults' = faults - 1
  /\ faulty' = TRUE
  /\ UNCHANGED <<others, events, tasks, history>>

-----------------------------------------------------------------------------
Environment ==
  \/ \E c \in Changing, f \in Filters : Subscribe(c, f) \/ Unsubscribe(c, f)
  \/ \E c \in Changing : UnsubscribeAll(c)
  \/ \E m \in Messages : Publish(m)
  \/ \E n \in Nodes : \E m \in Nodes \ {n} : GossipLoses(n, m)
  \/ \E l \in 1..MaxLinks : Break(l)

ClusterTask(n) ==
  \/ TakeEvent(n)
  \/ SetGossip(n)
  \/ \E m \in Nodes \ {n} : LookAtPeer(n, m)
  \/ ForwardToPeer(n)

Watch(n, m) == Discover(n, m) \/ Refresh(n, m) \/ Bury(n, m)

(* The part of a peer task that connects. *)
Connecting(i) == ConnectPeer(i) \/ ConnectFails(i) \/ ReadHelloAck(i) \/ HandshakeFails(i) \/ Retry(i)

Receiving(i) == RunRead(i) \/ RunEof(i)

Handler(l) == ReadHello(l) \/ HandlerRead(l) \/ HandlerEof(l)

Next ==
  \/ Environment
  \/ \E n \in Nodes : ClusterTask(n) \/ StopPeer(n)
  \/ \E n \in Nodes : \E m \in Nodes \ {n} : 
       GossipHeartbeat(n, m) \/ GossipArrives(n, m) \/ Watch(n, m)
  \/ \E i \in 1..MaxTasks : Connecting(i) \/ RunCommand(i) \/ Receiving(i) \/ RunPing(i)
  \/ \E l \in 1..MaxLinks : Handler(l)

Spec == Init /\ [][Next]_vars

(* The tasks are scheduled, the timers of the watcher and of the retries   *)
(* expire, and gossip spreads; nothing forces a connection to be made.     *)
Fairness ==
  /\ \A n \in Nodes : WF_vars(ClusterTask(n))
  /\ \A p \in Hears :
       WF_view(GossipArrives(p[1], p[2])) /\ WF_vars(Watch(p[1], p[2])) /\ WF_burying(StopPeer(p[1]))
  /\ \A i \in 1..MaxTasks : WF_tasks(Connecting(i)) /\ WF_tasks(RunCommand(i))

FairSpec == Spec /\ Fairness

-----------------------------------------------------------------------------
(* A client gets no message twice, whatever the cluster does: a message    *)
(* another node has sent is not forwarded again (the callback sends no     *)
(* event), and of two tasks for the same node each message is given to     *)
(* one.                                                                    *)
AtMostOnce == \A c \in Clients, m \in Messages : copies[c][m] <= 1

OnTheWay(frames) ==
  LET p == SelectSeq(frames, LAMBDA f : f.type = "publish")
  IN  [k \in 1..Len(p) |-> p[k].msg]

Written(i) == IF tasks[i].link = 0 THEN <<>> ELSE OnTheWay(links[tasks[i].link].up)

(* While no connection has broken and no node was given up, nothing that   *)
(* was given to a peer task is lost or overtaken: it was handed to the     *)
(* callback, is in the connection or in the channel, in that order.  This  *)
(* rests on the order of the handshake (the first read of the handler      *)
(* drops what follows the Hello, and nothing does), and on nothing being   *)
(* queued before the first connection, whose retries take commands away.   *)
InOrder ==
  ~faulty =>
    \A n \in Nodes : \A m \in Nodes \ {n} :
      LET i == peers[n][m]
      IN  forwarded[n][m] = IF i = 0 THEN <<>>
                            ELSE called[n][m] \o Written(i) \o OnTheWay(tasks[i].queue)

(* Once the events are handled, a filter some client of the node has is    *)
(* among those the node advertises.                                        *)
Advertised ==
  \A s \in store :
    LET n == Home[s[1]]
    IN  (/\ n \notin lagged
         /\ events[n] = <<>> /\ fwd[n].pc # "gossip")
        => s[2] \in gossip[n]

(* The watcher first saw the node without its address: it knows the node   *)
(* and will not look for the address again (manager.rs:471).               *)
Overlooked(n, m) == m \in known[n] /\ peers[n][m] = 0

(* The filters the other node advertises are known. *)
Current(n, m) == peers[n][m] # 0 /\ tasks[peers[n][m]].subs = local[m]

(* A task that still runs is in the map. *)
NoOrphans ==
  \A i \in 1..MaxTasks :
    tasks[i].pc \in {"none", "done"} \/ peers[tasks[i].owner][tasks[i].target] = i

(* When nothing changes, breaks or is published any more, the cluster comes *)
(* to rest.  Every node knows the filters of the others, although          *)
(* connections bring older ones (SubscriptionSync) at any time and may drop *)
(* or mutilate them, for gossip has the last word: except for a node whose *)
(* address was missing when it was first seen.  Forwarding, which holds    *)
(* the entry of a peer while it waits for room in the peer's channel and   *)
(* so keeps the watcher from removing it, comes to its end.  And a task    *)
(* whose node was given up ends, even if it never connects again and its   *)
(* channel is full.                                                        *)
Settles ==
  <>[](/\ \A p \in Hears : Overlooked(p[1], p[2]) \/ Current(p[1], p[2])
       /\ \A n \in Nodes : events[n] = <<>> /\ fwd[n].pc = "idle"
       /\ NoOrphans)

=============================================================================
