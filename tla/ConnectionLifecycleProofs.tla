--------------------- MODULE ConnectionLifecycleProofs ---------------------
(***************************************************************************)
(* Proofs about ConnectionLifecycle for any number of connections: the     *)
(* last connection of a client is the registered one, its will goes out at *)
(* most once, and session, subscription store and persisted session agree. *)
(*                                                                         *)
(* Three assumptions on what clients do are needed, because the code is    *)
(* not correct without them; the theorems name those they use.  A client   *)
(* is Orderly, packets are CleanEnds and DelaysPositive.                   *)
(*                                                                         *)
(* All three rest on the invariant Base, which holds as long as no         *)
(* takeover has found a full channel (AllTold).  Its core is that under    *)
(* Orderly only the last connection acts (Superseded, LastActs): of the    *)
(* others none is between two steps of a handler, so what the last one     *)
(* has written in one step is still there in its next.                     *)
(***************************************************************************)
EXTENDS ConnectionLifecycle, TLAPS

\* A client opens one connection at a time and does not use the old one any more:
\* see Serial and Quiet.
Orderly == ~ ConcurrentConnects /\ ~ LateEvents

\* Nobody asks for a clean start and a session that outlives the connection: for
\* such a session handle_disconnect empties the subscription store and keeps it.
CleanEnds == \A p \in Connects : p.clean_start => p.expiry = "zero"

\* A will_delay_interval that is present is positive.  An explicit 0 switches the
\* delay off in a session that a delayed task may still be about to take a will
\* from: the task has checked the session under one lock and takes under another
\* (disconnect.rs:73-99), and handle_disconnect then publishes the same will.
DelaysPositive == \A p \in Connects : p.will => p.delay # "zero"

NoneOr(S) == S \cup {NoConn}

SessionObjects ==
  [state : {"Connected", "Disconnected"}, clean_start : BOOLEAN, expiry : Expiries,
   elapsed : BOOLEAN, subscribed : BOOLEAN, will : NoneOr(Conns), delayed : BOOLEAN,
   disconnected_at : Nat]

Locals == [publish_will : BOOLEAN, clean_start : BOOLEAN, will : NoneOr(Conns), delayed : BOOLEAN]

Typed ==
  /\ pc \in [Conns -> Labels]
  /\ packet \in [Conns -> ConnectPackets]
  /\ connections \in NoneOr(Conns) /\ sessions \in NoneOr(Conns) /\ latest \in NoneOr(Conns)
  /\ heap \in [Conns -> SessionObjects]
  /\ session \in [Conns -> NoneOr(Conns)]
  /\ subscriptions \in BOOLEAN
  /\ local \in [Conns -> Locals]
  /\ published \in [Conns -> Nat]
  /\ DOMAIN will_task = Conns
  /\ clock \in Nat

\* A step of the task at one of the labels from, to one of the labels to.
Moves(c, from, to) == pc[c] \in from /\ \E label \in to : Goto(c, label)

Idle == {"new", "running"} \cup Gone

Opening == Connecting \ {"takeover", "connack"}

\* handle_disconnect after the connection has left the map.
Closing == Disconnecting \ {"remove"}

\* A connection that is not the last has nothing to do any more but to find its
\* Disconnect, which the last one sends before it does anything else.
Superseded ==
  \A d \in Conns \ {latest} :
    /\ pc[d] \in Idle
    /\ pc[d] = "running" =>
         Told(d) \/ (latest \in Conns /\ pc[latest] = "takeover" /\ connections = d)

Unheard ==
  \A d \in Conns : pc[d] \in {"new", "rejected"} => ~ Told(d) /\ connections # d /\ latest # d

\* The entry of the map, by where the last connection is.
MapEntry ==
  latest \in Conns =>
    /\ ~ Told(latest)
    /\ pc[latest] \in {"takeover"} \cup Opening => connections # latest
    /\ pc[latest] \in {"connack", "remove", "dead"} \cup Running => connections = latest
    /\ pc[latest] \in {"closed"} \cup Closing => connections = NoConn

Core == Superseded /\ Unheard /\ MapEntry

-----------------------------------------------------------------------------
\* What a step of a task does to the label, the maps' entry for the client, the
\* channels and the order of connections.
CoreMove(c) ==
  \/ /\ pc[c] = "new" /\ Serial(c) /\ Goto(c, "takeover") /\ latest' = c
     /\ UNCHANGED <<connections, inbox>>
  \/ Moves(c, {"new"}, {"rejected"}) /\ UNCHANGED <<connections, inbox, latest>>
  \/ /\ Moves(c, {"takeover"}, {"session"}) /\ UNCHANGED <<connections, latest>>
     /\ Signal("sent")
  \/ Moves(c, Opening, Opening) /\ UNCHANGED <<connections, inbox, latest>>
  \/ Moves(c, {"register"}, {"connack"}) /\ connections' = c /\ UNCHANGED <<inbox, latest>>
  \/ Moves(c, {"connack"}, {"running", "dead"}) /\ UNCHANGED <<connections, inbox, latest>>
  \/ /\ Moves(c, {"running"}, {"subscribe", "unsubscribe", "remove", "dead"}) /\ Quiet(c)
     /\ UNCHANGED <<connections, inbox, latest>>
  \/ Moves(c, {"running"}, {"dead"}) /\ Told(c) /\ UNCHANGED <<connections, inbox, latest>>
  \/ Moves(c, {"subscribe", "unsubscribe"}, {"running"}) /\ UNCHANGED <<connections, inbox, latest>>
  \/ Moves(c, {"remove"}, {"read"}) /\ connections' = NoConn /\ UNCHANGED <<inbox, latest>>
  \/ Moves(c, Closing, {"closed"} \cup Closing) /\ UNCHANGED <<connections, inbox, latest>>
  \/ UNCHANGED <<pc, connections, inbox, latest>>

\* Every step of a task is one of these, if no channel is found full.
LEMMA StepMoves ==
  ASSUME AllTold', NEW c \in Conns,
         \/ handle_connect(c) \/ run_connected(c) \/ ChangeSession(c)
         \/ handle_disconnect(c) \/ delayed_will(c) \/ Elapse(c)
  PROVE  CoreMove(c)
<1> USE DEF At, shared
<1>1. CASE CheckLimit(c)
  BY <1>1, Zenon DEF CheckLimit, CoreMove, Moves
<1>2. CASE Takeover(c)
  <2>1. Signal("full") => connections \notin Conns
    BY DEF AllTold, Signal
  <2>2. Signal("full") => Signal("sent") BY <2>1 DEF Signal
  <2> QED BY <1>2, <2>2, Zenon DEF Takeover, CoreMove, Moves
<1>3. CASE get_or_create(c) \/ CreateNew(c) \/ ClearSubscriptions(c) \/ UpdateSession(c)
  <2>1. UNCHANGED <<connections, inbox, latest>>
    BY <1>3, Zenon DEF get_or_create, CreateNew, ClearSubscriptions, UpdateSession
  <2>2. Moves(c, Opening, Opening)
    BY <1>3, Zenon DEF get_or_create, CreateNew, ClearSubscriptions, UpdateSession, Moves, Opening, Connecting
  <2> QED BY <2>1, <2>2, Zenon DEF CoreMove
<1>4. CASE Register(c)
  BY <1>4, Zenon DEF Register, CoreMove, Moves
<1>5. CASE SendConnack(c)
  BY <1>5, Zenon DEF SendConnack, CoreMove, Moves
<1>6. CASE run_connected(c)
  BY <1>6, Zenon DEF run_connected, ChangeStore, StartDisconnect, TakenOver, Fails, Leave, CoreMove, Moves
<1>7. CASE ChangeSession(c)
  BY <1>7, Zenon DEF ChangeSession, CoreMove, Moves
<1>8. CASE RemoveConnection(c)
  BY <1>8, Zenon DEF RemoveConnection, CoreMove, Moves
<1>9. CASE \/ ReadSession(c) \/ UnsubscribeAll(c) \/ MarkDisconnected(c) \/ DeleteSession(c)
           \/ PublishWill(c) \/ ClearWill(c) \/ Persist(c)
  <2>1. UNCHANGED <<connections, inbox, latest>>
    BY <1>9, Zenon DEF ReadSession, UnsubscribeAll, MarkDisconnected, DeleteSession, PublishWill,
       ClearWill, Persist
  <2>2. Moves(c, Closing, {"closed"} \cup Closing)
    BY <1>9, Zenon DEF ReadSession, UnsubscribeAll, MarkDisconnected, DeleteSession, PublishWill,
       ClearWill, Persist, Moves, Closing, Disconnecting
  <2> QED BY <2>1, <2>2, Zenon DEF CoreMove
<1>10. CASE delayed_will(c) \/ Elapse(c)
  BY <1>10, Zenon DEF delayed_will, CheckCurrent, CheckDisconnected, TakeWill, Elapse, CoreMove
<1> QED
  BY <1>1, <1>2, <1>3, <1>4, <1>5, <1>6, <1>7, <1>8, <1>9, <1>10, Zenon
     DEF handle_connect, handle_disconnect

\* Only the last connection acts, but for a CONNECT and for a Disconnect that is
\* found.
LEMMA LastActs ==
  ASSUME Orderly, Core, Typed, NEW c \in Conns,
         pc[c] \notin Idle \/ (pc[c] = "running" /\ Quiet(c))
  PROVE  c = latest
<1> SUFFICES ASSUME c # latest PROVE FALSE
  OBVIOUS
<1>1. pc[c] \in Idle /\ (pc[c] = "running" => Told(c) \/ (latest \in Conns /\ pc[latest] = "takeover"))
  BY DEF Core, Superseded
<1> QED BY <1>1, Zenon DEF Quiet, Orderly, Connecting

\* A step of one task keeps the order of the connections and the map's entry.
LEMMA CoreStep ==
  ASSUME Orderly, Typed, Core, NEW c \in Conns, CoreMove(c)
  PROVE  Core'
<1> USE DEF Moves, Goto, Told
<1>0. pc \in [Conns -> Labels] /\ NoConn \notin Conns
  BY LifecycleConstants, Zenon DEF Typed
<1> DEFINE Later == \A d \in Conns \ {c} : pc'[d] = pc[d]
<1>1. CASE /\ pc[c] = "new" /\ Serial(c) /\ Goto(c, "takeover") /\ latest' = c
           /\ UNCHANGED <<connections, inbox>>
  <2>1. Later /\ pc'[c] = "takeover" BY <1>0, <1>1, Zenon
  <2>2. ~ Told(c) /\ connections # c BY <1>1, Zenon DEF Core, Unheard
  <2>3. \A d \in Conns \ {c} : pc[d] \in Idle BY <1>1, Zenon DEF Serial, Orderly, Idle
  <2>4. \A d \in Conns \ {c} : pc[d] = "running" => Told(d) \/ connections = d
    <3> SUFFICES ASSUME NEW d \in Conns \ {c}, pc[d] = "running" PROVE Told(d) \/ connections = d
      OBVIOUS
    <3>1. CASE d = latest BY <3>1, Zenon DEF Core, MapEntry, Running
    <3>2. CASE d # latest BY <3>2, Zenon DEF Core, Superseded
    <3> QED BY <3>1, <3>2, Zenon
  <2>5. Superseded' BY <2>1, <2>3, <2>4, <1>1, Zenon DEF Superseded
  <2>6. Unheard' BY <2>1, <1>1, Zenon DEF Core, Unheard
  <2>7. MapEntry' BY <2>1, <2>2, <1>1, Zenon DEF MapEntry, Opening, Connecting, Running, Closing, Disconnecting
  <2> QED BY <2>5, <2>6, <2>7, Zenon DEF Core
<1>2. CASE Moves(c, {"new"}, {"rejected"}) /\ UNCHANGED <<connections, inbox, latest>>
  <2>1. Later /\ pc'[c] = "rejected" BY <1>0, <1>2, Zenon
  <2>2. latest # c BY <1>2, Zenon DEF Core, Unheard
  <2>3. Superseded' BY <2>1, <2>2, <1>2, Zenon DEF Core, Superseded, Idle, Gone
  <2>4. Unheard' BY <2>1, <1>2, Zenon DEF Core, Unheard
  <2>5. MapEntry' BY <2>1, <2>2, <1>2, Zenon DEF Core, MapEntry
  <2> QED BY <2>3, <2>4, <2>5 DEF Core
<1>3. CASE /\ Moves(c, {"takeover"}, {"session"}) /\ UNCHANGED <<connections, latest>>
           /\ Signal("sent")
  <2>1. Later /\ pc'[c] = "session" BY <1>0, <1>3, Zenon
  <2>2. c = latest BY <1>3, LastActs, Zenon DEF Idle, Gone
  <2>3. \A d \in Conns : Told(d)' <=> Told(d) \/ d = connections BY <1>3 DEF Signal
  <2>4. connections # c /\ ~ Told(c) BY <2>2, <1>3, Zenon DEF Core, MapEntry
  <2>5. Superseded' BY <2>1, <2>2, <2>3, <1>3, Zenon DEF Core, Superseded
  <2>6. Unheard' BY <2>1, <2>2, <2>3, <1>3, Zenon DEF Core, Unheard
  <2>7. MapEntry' BY <2>1, <2>2, <2>3, <2>4, <1>3, Zenon DEF MapEntry, Running, Closing, Disconnecting
  <2> QED BY <2>5, <2>6, <2>7 DEF Core
<1>4. CASE Moves(c, {"running"}, {"dead"}) /\ Told(c) /\ UNCHANGED <<connections, inbox, latest>>
  <2>1. Later /\ pc'[c] = "dead" BY <1>0, <1>4, Zenon
  <2>2. c # latest BY <1>4, Zenon DEF Core, MapEntry
  <2>3. Superseded' BY <2>1, <2>2, <1>4, Zenon DEF Core, Superseded, Idle, Gone
  <2>4. Unheard' BY <2>1, <1>4, Zenon DEF Core, Unheard
  <2>5. MapEntry' BY <2>1, <2>2, <1>4, Zenon DEF Core, MapEntry
  <2> QED BY <2>3, <2>4, <2>5 DEF Core
<1>5. CASE UNCHANGED <<pc, connections, inbox, latest>>
  BY <1>5, Zenon DEF Core, Superseded, Unheard, MapEntry
<1>6. ASSUME c = latest, NEW label, pc' = [pc EXCEPT ![c] = label],
             UNCHANGED <<inbox, latest>>, pc[c] # "takeover", label \notin {"new", "rejected"},
             connections' \in {connections, c, NoConn},
             label \in {"takeover"} \cup Opening => connections' # latest,
             label \in {"connack", "remove", "dead"} \cup Running => connections' = latest,
             label \in {"closed"} \cup Closing => connections' = NoConn
      PROVE  Core'
  <2>1. Later /\ pc'[c] = label BY <1>0, <1>6, Zenon
  <2>2. Superseded' BY <2>1, <1>6, Zenon DEF Core, Superseded
  <2>3. Unheard' BY <2>1, <1>6, <1>0, Zenon DEF Core, Unheard
  <2>4. MapEntry' BY <2>1, <1>6, Zenon DEF Core, MapEntry
  <2> QED BY <2>2, <2>3, <2>4 DEF Core
<1> USE DEF Idle, Gone, Opening, Connecting, Running, Closing, Disconnecting
<1>7. CASE Moves(c, Opening, Opening) /\ UNCHANGED <<connections, inbox, latest>>
  <2>1. c = latest BY <1>7, LastActs, Zenon
  <2>2. connections # latest BY <2>1, <1>7, Zenon DEF Core, MapEntry
  <2> QED BY <2>1, <2>2, <1>6, <1>7, Zenon
<1>8. CASE Moves(c, {"register"}, {"connack"}) /\ connections' = c /\ UNCHANGED <<inbox, latest>>
  <2>1. c = latest BY <1>8, LastActs, Zenon
  <2> QED BY <2>1, <1>6, <1>8, Zenon
<1>9. CASE Moves(c, {"connack"}, {"running", "dead"}) /\ UNCHANGED <<connections, inbox, latest>>
  <2>1. c = latest BY <1>9, LastActs, Zenon
  <2>2. connections = latest BY <2>1, <1>9, Zenon DEF Core, MapEntry
  <2> QED BY <2>1, <2>2, <1>6, <1>9, Zenon
<1>10. CASE /\ Moves(c, {"running"}, {"subscribe", "unsubscribe", "remove", "dead"}) /\ Quiet(c)
            /\ UNCHANGED <<connections, inbox, latest>>
  <2>1. c = latest BY <1>10, LastActs, Zenon
  <2>2. connections = latest BY <2>1, <1>10, Zenon DEF Core, MapEntry
  <2> QED BY <2>1, <2>2, <1>6, <1>10, Zenon
<1>11. CASE Moves(c, {"subscribe", "unsubscribe"}, {"running"}) /\ UNCHANGED <<connections, inbox, latest>>
  <2>1. c = latest BY <1>11, LastActs, Zenon
  <2>2. connections = latest BY <2>1, <1>11, Zenon DEF Core, MapEntry
  <2> QED BY <2>1, <2>2, <1>6, <1>11, Zenon
<1>12. CASE Moves(c, {"remove"}, {"read"}) /\ connections' = NoConn /\ UNCHANGED <<inbox, latest>>
  <2>1. c = latest BY <1>12, LastActs, Zenon
  <2> QED BY <2>1, <1>6, <1>12, Zenon
<1>13. CASE Moves(c, Closing, {"closed"} \cup Closing) /\ UNCHANGED <<connections, inbox, latest>>
  <2>1. c = latest BY <1>13, LastActs, Zenon
  <2>2. connections = NoConn BY <2>1, <1>13, Zenon DEF Core, MapEntry
  <2> QED BY <2>1, <2>2, <1>6, <1>13, Zenon
<1> QED
  BY <1>1, <1>2, <1>3, <1>4, <1>5, <1>7, <1>8, <1>9, <1>10, <1>11, <1>12, <1>13, Zenon DEF CoreMove

-----------------------------------------------------------------------------
\* Every step keeps the types: sessions have an owner, wills name the connection
\* that left them.
LEMMA TypedStep ==
  ASSUME Typed, Core, NEW c \in Conns,
         session[c] \in Conns \/ pc[c] \notin {"update", "subscribe", "unsubscribe", "read", "clear"},
         will_task[c].state # "none" => session[c] \in Conns,
         \/ handle_connect(c) \/ run_connected(c) \/ ChangeSession(c)
         \/ handle_disconnect(c) \/ delayed_will(c) \/ Elapse(c)
  PROVE  Typed'
<1> USE DEF At, shared, NoneOr, Goto, Mine
<1>0. NoConn \notin Conns /\ Connects \subseteq ConnectPackets
  BY LifecycleConstants, Zenon
<1>1. NewSession \in SessionObjects
  BY Zenon DEF NewSession, SessionObjects, Expiries
<1>2. CASE CheckLimit(c)
  BY <1>0, <1>2 DEF CheckLimit, Typed, Labels, Connecting, Gone
<1>3. CASE Takeover(c)
  BY <1>3, Zenon DEF Takeover, Typed, Labels, Connecting
<1>4. CASE get_or_create(c)
  <2>1. CASE packet[c].clean_start
    BY <1>1, <1>4, <2>1 DEF get_or_create, Create, Typed, Labels, Connecting
  <2>2. CASE ~ packet[c].clean_start
    <3> PICK s : s = sessions OBVIOUS
    <3>1. CASE UNCHANGED <<heap, sessions, session>>
      BY <1>4, <2>2, <3>1 DEF get_or_create, Typed, Labels, Connecting
    <3>2. CASE ~ UNCHANGED <<heap, sessions, session>>
      <4>1. /\ s \in Conns /\ session' = [session EXCEPT ![c] = s] /\ UNCHANGED sessions
            /\ heap' = [heap EXCEPT ![s] = [heap[s] EXCEPT !.state = "Connected", !.disconnected_at = 0]]
        BY <1>4, <2>2, <3>2, Zenon DEF get_or_create, Typed
      <4>2. heap' \in [Conns -> SessionObjects]
        <5>1. heap[s] \in SessionObjects BY <4>1, Zenon DEF Typed
        <5>2. [heap[s] EXCEPT !.state = "Connected", !.disconnected_at = 0] \in SessionObjects
          BY <5>1, Zenon DEF SessionObjects
        <5> QED BY <4>1, <5>2, Zenon DEF Typed
      <4>3. pc' \in [Conns -> Labels] BY <1>4 DEF get_or_create, Typed, Labels, Connecting
      <4> QED BY <4>1, <4>2, <4>3, <1>4, Zenon DEF get_or_create, Typed
    <3> QED BY <3>1, <3>2, Zenon
  <2> QED BY <2>1, <2>2, Zenon
<1>5. CASE CreateNew(c)
  BY <1>1, <1>5, Zenon DEF CreateNew, Create, Typed, Labels, Connecting
<1>6. CASE ClearSubscriptions(c)
  BY <1>6, Zenon DEF ClearSubscriptions, Typed, Labels, Connecting
<1>7. CASE UpdateSession(c)
  <2> PICK s, p : s = session[c] /\ p = packet[c] OBVIOUS
  <2> DEFINE w == IF p.will THEN c ELSE heap[s].will
             l == IF p.will /\ p.delay # "absent" THEN p.delay = "positive" ELSE heap[s].delayed
             r == [heap[s] EXCEPT !.clean_start = p.clean_start, !.expiry = p.expiry,
                                  !.will = w, !.delayed = l]
  <2>1. s \in Conns /\ heap[s] \in SessionObjects /\ p \in ConnectPackets
    BY <1>7, Zenon DEF UpdateSession, Typed
  <2>2. r \in SessionObjects
    <3>1. w \in NoneOr(Conns) BY <2>1, Zenon DEF SessionObjects
    <3>2. l \in BOOLEAN BY <2>1, Zenon DEF SessionObjects
    <3>3. p.clean_start \in BOOLEAN /\ p.expiry \in Expiries BY <2>1, Zenon DEF ConnectPackets
    <3> HIDE DEF w, l
    <3> QED BY <2>1, <3>1, <3>2, <3>3 DEF SessionObjects
  <2>3. heap' = [heap EXCEPT ![s] = r] BY <1>7, Zenon DEF UpdateSession
  <2> HIDE DEF r
  <2>4. heap' \in [Conns -> SessionObjects] BY <2>1, <2>2, <2>3, Zenon DEF Typed
  <2>5. pc' \in [Conns -> Labels] BY <1>7, Zenon DEF UpdateSession, Typed, Labels, Connecting
  <2> QED BY <2>4, <2>5, <1>7, Zenon DEF UpdateSession, Typed
<1>8. CASE Register(c) \/ SendConnack(c)
  BY <1>8, Zenon DEF Register, SendConnack, Typed, Labels, Connecting, Running, Gone
<1>9. CASE ChangeStore(c) \/ TakenOver(c) \/ Fails(c)
  BY <1>9, Zenon DEF ChangeStore, TakenOver, Fails, Leave, Typed, Labels, Running, Gone
<1>10. CASE StartDisconnect(c)
  <2>1. \A w \in BOOLEAN : [NewLocal EXCEPT !.publish_will = w] \in Locals
    BY Zenon DEF NewLocal, Locals
  <2> QED BY <2>1, <1>10 DEF StartDisconnect, Typed, Labels, Disconnecting
<1>11. CASE ChangeSession(c)
  <2> PICK s : s = session[c] OBVIOUS
  <2> DEFINE v == pc[c] = "subscribe"
  <2>1. s \in Conns /\ heap[s] \in SessionObjects BY <1>11, Zenon DEF ChangeSession, Typed
  <2>2. [heap[s] EXCEPT !.subscribed = v] \in SessionObjects
    <3>1. v \in BOOLEAN OBVIOUS
    <3> HIDE DEF v
    <3> QED BY <2>1, <3>1, Zenon DEF SessionObjects
  <2>3. heap' = [heap EXCEPT ![s] = [heap[s] EXCEPT !.subscribed = v]] BY <1>11, Zenon DEF ChangeSession
  <2>4. heap' \in [Conns -> SessionObjects] BY <2>1, <2>2, <2>3, Zenon DEF Typed
  <2>5. pc' \in [Conns -> Labels] BY <1>11, Zenon DEF ChangeSession, Typed, Labels, Running
  <2> QED BY <2>4, <2>5, <1>11, Zenon DEF ChangeSession, Typed
<1>12. CASE RemoveConnection(c) \/ UnsubscribeAll(c) \/ DeleteSession(c)
  BY <1>12, Zenon DEF RemoveConnection, UnsubscribeAll, DeleteSession, Typed, Labels, Disconnecting
<1>13. CASE ReadSession(c)
  <2>1. heap[session[c]] \in SessionObjects BY <1>13, Zenon DEF ReadSession, Typed
  <2>2. local' \in [Conns -> Locals]
    <3> PICK m : m = heap[session[c]] OBVIOUS
    <3>1. local[c] \in Locals BY Zenon DEF Typed
    <3>2. /\ m.clean_start \in BOOLEAN /\ m.will \in NoneOr(Conns) /\ m.delayed \in BOOLEAN
      BY <2>1, Zenon DEF SessionObjects
    <3>3. [local[c] EXCEPT !.clean_start = m.clean_start, !.will = m.will, !.delayed = m.delayed]
            \in Locals
      BY <3>1, <3>2, Zenon DEF Locals
    <3>4. local' = [local EXCEPT ![c] = [local[c] EXCEPT !.clean_start = m.clean_start,
                                            !.will = m.will, !.delayed = m.delayed]]
      BY <1>13, Zenon DEF ReadSession
    <3> QED BY <3>3, <3>4, Zenon DEF Typed
  <2>3. pc' \in [Conns -> Labels] BY <1>13, Zenon DEF ReadSession, Typed, Labels, Disconnecting
  <2> QED BY <2>2, <2>3, <1>13, Zenon DEF ReadSession, Typed
<1>14. CASE MarkDisconnected(c)
  <2> PICK s, at : s = sessions /\ at = clock + 1 OBVIOUS
  <2>1. at \in Nat /\ clock' = at BY <1>14 DEF MarkDisconnected, Typed
  <2>2. pc' \in [Conns -> Labels] BY <1>14 DEF MarkDisconnected, Typed, Labels, Disconnecting
  <2>3. heap' \in [Conns -> SessionObjects]
    <3>1. CASE s = NoConn BY <3>1, <1>14, Zenon DEF MarkDisconnected, Typed
    <3>2. CASE s # NoConn
      <4>1. s \in Conns /\ heap[s] \in SessionObjects BY <3>2, Zenon DEF Typed
      <4>2. [heap[s] EXCEPT !.state = "Disconnected", !.elapsed = FALSE, !.disconnected_at = at]
              \in SessionObjects
        BY <4>1, <2>1, Zenon DEF SessionObjects
      <4>3. heap' = [heap EXCEPT ![s] = [heap[s] EXCEPT !.state = "Disconnected", !.elapsed = FALSE,
                                                        !.disconnected_at = at]]
        BY <3>2, <2>1, <1>14, Zenon DEF MarkDisconnected
      <4> QED BY <4>1, <4>2, <4>3, Zenon DEF Typed
    <3> QED BY <3>1, <3>2, Zenon
  <2> QED BY <2>1, <2>2, <2>3, <1>14, Zenon DEF MarkDisconnected, Typed
<1>15. CASE PublishWill(c)
  <2>1. local[c].will \in NoneOr(Conns) BY Zenon DEF Typed, Locals
  <2>2. published' \in [Conns -> Nat] BY <2>1, <1>15 DEF PublishWill, Typed, Count
  <2>3. pc' \in [Conns -> Labels] BY <1>15 DEF PublishWill, Typed, Labels, Disconnecting
  <2>4. DOMAIN will_task' = Conns BY <1>15, Zenon DEF PublishWill, Typed
  <2> QED BY <2>2, <2>3, <2>4, <1>15, Zenon DEF PublishWill, Typed
<1>16. CASE ClearWill(c)
  BY <1>16 DEF ClearWill, Typed, Labels, Disconnecting, SessionObjects
<1>17. CASE Persist(c)
  BY <1>17, Zenon DEF Persist, Typed, Labels, Gone
<1>18. CASE CheckCurrent(c) \/ CheckDisconnected(c)
  BY <1>18, Zenon DEF CheckCurrent, CheckDisconnected, SetTask, Typed
<1>19. CASE TakeWill(c)
  <2>1. heap[session[c]] \in SessionObjects /\ session[c] \in Conns BY <1>19, Zenon DEF TakeWill, Typed
  <2>2. heap' \in [Conns -> SessionObjects]
    BY <2>1, <1>19, Zenon DEF TakeWill, Typed, SessionObjects
  <2>3. published' \in [Conns -> Nat] BY <2>1, <1>19 DEF TakeWill, Typed, Count, SessionObjects
  <2> QED BY <2>2, <2>3, <1>19, Zenon DEF TakeWill, SetTask, Typed
<1>20. CASE Elapse(c)
  <2>1. heap[c] \in SessionObjects BY Zenon DEF Typed
  <2>2. [heap[c] EXCEPT !.elapsed = TRUE] \in SessionObjects BY <2>1, Zenon DEF SessionObjects
  <2>3. heap' = [heap EXCEPT ![c] = [heap[c] EXCEPT !.elapsed = TRUE]] BY <1>20, Zenon DEF Elapse
  <2>4. heap' \in [Conns -> SessionObjects] BY <2>2, <2>3, Zenon DEF Typed
  <2> QED BY <2>4, <1>20, Zenon DEF Elapse, Typed
<1> QED
  BY <1>2, <1>3, <1>4, <1>5, <1>6, <1>7, <1>8, <1>9, <1>10, <1>11, <1>12, <1>13, <1>14, <1>15,
     <1>16, <1>17, <1>18, <1>19, <1>20, Zenon
     DEF handle_connect, run_connected, handle_disconnect, delayed_will

-----------------------------------------------------------------------------
(* The session objects.                                                    *)

\* Where a task works on a Session object, and where it has done so.
HasSession ==
  {"cleanup", "update", "register", "connack", "closed", "dead"} \cup Running \cup Disconnecting

\* Where the last connection's object is in the store and marked Connected.
Attached ==
  {"cleanup", "update", "register", "connack", "dead", "remove", "read", "unsubscribe_all", "mark"}
    \cup Running

\* An object is created before anybody can find it.
Known ==
  /\ \A c \in Conns : pc[c] \in HasSession <=> session[c] # NoConn
  /\ \A c \in Conns : session[c] = NoConn => sessions # c /\ \A d \in Conns : session[d] # c
  /\ \A c \in Conns : will_task[c].state # "none" => session[c] # NoConn

InStore ==
  latest \in Conns /\ pc[latest] \in Attached =>
    sessions = session[latest] /\ heap[sessions].state = "Connected"

\* What handle_connect writes into the session (connect.rs:255-285).
LEMMA UpdateWrites ==
  ASSUME Typed, NEW c \in Conns, session[c] \in Conns, UpdateSession(c)
  PROVE  LET m == heap'[session[c]]
             p == packet[c]
         IN  /\ \A s \in Conns \ {session[c]} : heap'[s] = heap[s]
             /\ m.state = Mine(c).state /\ m.subscribed = Mine(c).subscribed
             /\ m.clean_start = p.clean_start /\ m.expiry = p.expiry
             /\ m.will = IF p.will THEN c ELSE Mine(c).will
             /\ m.delayed = IF p.will /\ p.delay # "absent" THEN p.delay = "positive"
                            ELSE Mine(c).delayed
<1> PICK s, p : s = session[c] /\ p = packet[c] OBVIOUS
<1> DEFINE w == IF p.will THEN c ELSE heap[s].will
           l == IF p.will /\ p.delay # "absent" THEN p.delay = "positive" ELSE heap[s].delayed
           r == [heap[s] EXCEPT !.clean_start = p.clean_start, !.expiry = p.expiry,
                                !.will = w, !.delayed = l]
<1>1. s \in Conns /\ heap[s] \in SessionObjects /\ heap \in [Conns -> SessionObjects]
  BY Zenon DEF Typed
<1>2. heap' = [heap EXCEPT ![s] = r] BY Zenon DEF UpdateSession, Mine
<1>3. /\ r.state = heap[s].state /\ r.subscribed = heap[s].subscribed
      /\ r.clean_start = p.clean_start /\ r.expiry = p.expiry /\ r.will = w /\ r.delayed = l
  <2> HIDE DEF w, l
  <2> QED BY <1>1, Zenon DEF SessionObjects
<1> HIDE DEF r
<1>4. heap'[s] = r /\ \A q \in Conns \ {s} : heap'[q] = heap[q]
  BY <1>1, <1>2, Zenon
<1> QED BY <1>3, <1>4, Zenon DEF Mine

\* SUBSCRIBE and UNSUBSCRIBE change one field of one session.
LEMMA ChangeWrites ==
  ASSUME Typed, NEW c \in Conns, session[c] \in Conns, ChangeSession(c)
  PROVE  LET m == heap'[session[c]]
         IN  /\ \A s \in Conns \ {session[c]} : heap'[s] = heap[s]
             /\ m.subscribed = (pc[c] = "subscribe")
             /\ m.state = Mine(c).state /\ m.clean_start = Mine(c).clean_start
             /\ m.expiry = Mine(c).expiry /\ m.will = Mine(c).will /\ m.delayed = Mine(c).delayed
<1> PICK s : s = session[c] OBVIOUS
<1> DEFINE v == pc[c] = "subscribe"
           r == [heap[s] EXCEPT !.subscribed = v]
<1>1. s \in Conns /\ heap[s] \in SessionObjects /\ heap \in [Conns -> SessionObjects]
  BY Zenon DEF Typed
<1>2. heap' = [heap EXCEPT ![s] = r] BY Zenon DEF ChangeSession, At
<1>3. /\ r.state = heap[s].state /\ r.clean_start = heap[s].clean_start
      /\ r.expiry = heap[s].expiry /\ r.will = heap[s].will /\ r.delayed = heap[s].delayed
      /\ r.subscribed = v
  <2> HIDE DEF v
  <2> QED BY <1>1, Zenon DEF SessionObjects
<1> HIDE DEF r
<1>4. heap'[s] = r /\ \A q \in Conns \ {s} : heap'[q] = heap[q]
  BY <1>1, <1>2, Zenon
<1> QED BY <1>3, <1>4, Zenon DEF Mine

\* A will is taken from one session, and nothing else is.
LEMMA WillTaken ==
  ASSUME Typed, NEW c \in Conns, session[c] \in Conns, ClearWill(c) \/ TakeWill(c)
  PROVE  LET m == heap'[session[c]]
         IN  /\ \A s \in Conns \ {session[c]} : heap'[s] = heap[s]
             /\ m.will = NoConn
             /\ m.state = Mine(c).state /\ m.clean_start = Mine(c).clean_start
             /\ m.expiry = Mine(c).expiry /\ m.subscribed = Mine(c).subscribed
             /\ m.delayed = Mine(c).delayed
<1> PICK s : s = session[c] OBVIOUS
<1>1. s \in Conns /\ heap[s] \in SessionObjects /\ heap \in [Conns -> SessionObjects]
  BY Zenon DEF Typed
<1>2. heap' = [heap EXCEPT ![s].will = NoConn] BY Zenon DEF ClearWill, TakeWill
<1> QED BY <1>1, <1>2, Zenon DEF Mine, SessionObjects

\* Time is all that Elapse changes.
LEMMA ElapseWrites ==
  ASSUME Typed, NEW c \in Conns, Elapse(c)
  PROVE  \A s \in Conns :
           /\ heap'[s].state = heap[s].state /\ heap'[s].clean_start = heap[s].clean_start
           /\ heap'[s].expiry = heap[s].expiry /\ heap'[s].subscribed = heap[s].subscribed
           /\ heap'[s].will = heap[s].will /\ heap'[s].delayed = heap[s].delayed
<1>1. heap \in [Conns -> SessionObjects] BY Zenon DEF Typed
<1>2. heap' = [heap EXCEPT ![c].elapsed = TRUE] BY Zenon DEF Elapse
<1> QED BY <1>1, <1>2, Zenon DEF SessionObjects

\* SessionStore::disconnect marks the session of the map.
LEMMA MarkWrites ==
  ASSUME Typed, NEW c \in Conns, MarkDisconnected(c)
  PROVE  \A s \in Conns :
           /\ s # sessions => heap'[s].state = heap[s].state
           /\ heap'[s].clean_start = heap[s].clean_start
           /\ heap'[s].expiry = heap[s].expiry /\ heap'[s].subscribed = heap[s].subscribed
           /\ heap'[s].will = heap[s].will /\ heap'[s].delayed = heap[s].delayed
<1> PICK q, at : q = sessions /\ at = clock' OBVIOUS
<1>1. heap \in [Conns -> SessionObjects] BY Zenon DEF Typed
<1>2. CASE q = NoConn BY <1>2, Zenon DEF MarkDisconnected
<1>3. CASE q # NoConn
  <2>1. heap' = [heap EXCEPT ![q].state = "Disconnected", ![q].elapsed = FALSE,
                             ![q].disconnected_at = at]
    BY <1>3, Zenon DEF MarkDisconnected
  <2>2. q \in Conns BY <1>3, Zenon DEF Typed, NoneOr
  <2> QED BY <1>1, <2>1, <2>2 DEF SessionObjects
<1> QED BY <1>2, <1>3, Zenon

\* A resumed session is marked Connected.
LEMMA ResumeWrites ==
  ASSUME Typed, NEW s \in Conns,
         heap' = [heap EXCEPT ![s].state = "Connected", ![s].disconnected_at = 0]
  PROVE  /\ heap'[s].state = "Connected"
         /\ \A q \in Conns :
              /\ heap'[q].clean_start = heap[q].clean_start
              /\ heap'[q].expiry = heap[q].expiry /\ heap'[q].subscribed = heap[q].subscribed
              /\ heap'[q].will = heap[q].will /\ heap'[q].delayed = heap[q].delayed
<1>1. heap \in [Conns -> SessionObjects] BY Zenon DEF Typed
<1> QED BY <1>1 DEF SessionObjects

\* A step of one task leaves the objects known, and finds or creates its own.
LEMMA KnownStep ==
  ASSUME Typed, Known, NEW c \in Conns,
         \/ handle_connect(c) \/ run_connected(c) \/ ChangeSession(c)
         \/ handle_disconnect(c) \/ delayed_will(c) \/ Elapse(c)
  PROVE  Known'
<1> USE DEF At, shared, Goto
<1>0. /\ NoConn \notin Conns /\ pc \in [Conns -> Labels] /\ session \in [Conns -> NoneOr(Conns)]
      /\ sessions \in NoneOr(Conns) /\ DOMAIN will_task = Conns
  BY LifecycleConstants, Zenon DEF Typed
<1> USE DEF NoneOr
<1>1. ASSUME session' = session, sessions' \in {sessions, NoConn}, UNCHANGED will_task,
             pc[c] \in HasSession <=> pc'[c] \in HasSession,
             \A d \in Conns \ {c} : pc'[d] = pc[d]
      PROVE  Known'
  BY <1>0, <1>1 DEF Known
<1>2. ASSUME NEW s \in Conns, session' = [session EXCEPT ![c] = s], sessions' = s,
             s = c \/ s = sessions, UNCHANGED will_task, pc'[c] \in HasSession,
             \A d \in Conns \ {c} : pc'[d] = pc[d]
      PROVE  Known'
  <2>1. \A x \in Conns : session'[x] = NoConn => x # c /\ session[x] = NoConn BY <1>0, <1>2, Zenon
  <2>2. \A x \in Conns : session[x] = NoConn => sessions # x /\ \A d \in Conns : session[d] # x
    BY Zenon DEF Known
  <2>3. \A x \in Conns : session'[x] = NoConn => sessions' # x /\ \A d \in Conns : session'[d] # x
    BY <2>1, <2>2, <1>0, <1>2, Zenon
  <2>4. \A x \in Conns : pc'[x] \in HasSession <=> session'[x] # NoConn
    BY <1>0, <1>2, Zenon DEF Known
  <2>5. \A x \in Conns : will_task'[x].state # "none" => session'[x] # NoConn
    BY <2>1, <1>2, Zenon DEF Known
  <2> QED BY <2>3, <2>4, <2>5, Zenon DEF Known
<1> USE DEF HasSession, Running, Disconnecting
<1>3. CASE CheckLimit(c) \/ Takeover(c)
  BY <1>0, <1>1, <1>3 DEF CheckLimit, Takeover
<1>4. CASE get_or_create(c)
  <2>1. CASE packet[c].clean_start
    BY <1>0, <1>2, <1>4, <2>1, Zenon DEF get_or_create, Create
  <2>2. CASE ~ packet[c].clean_start /\ UNCHANGED <<heap, sessions, session>> /\ Goto(c, "create")
    BY <1>0, <1>1, <1>4, <2>2, Zenon DEF get_or_create
  <2>3. CASE ~ packet[c].clean_start /\ ~ (UNCHANGED <<heap, sessions, session>> /\ Goto(c, "create"))
    <3>1. sessions \in Conns /\ session' = [session EXCEPT ![c] = sessions] /\ sessions' = sessions
      BY <1>0, <1>4, <2>3, Zenon DEF get_or_create
    <3>2. Goto(c, "update") /\ UNCHANGED will_task BY <1>4, <2>3, Zenon DEF get_or_create
    <3> QED BY <1>0, <1>2, <3>1, <3>2, Zenon
  <2> QED BY <2>1, <2>2, <2>3, Zenon
<1>5. CASE CreateNew(c)
  BY <1>0, <1>2, <1>5, Zenon DEF CreateNew, Create
<1>6. CASE ClearSubscriptions(c) \/ UpdateSession(c) \/ Register(c) \/ SendConnack(c)
  BY <1>0, <1>1, <1>6, Zenon DEF ClearSubscriptions, UpdateSession, Register, SendConnack
<1>7. CASE run_connected(c) \/ ChangeSession(c)
  BY <1>0, <1>1, <1>7
    , Zenon DEF run_connected, ChangeStore, StartDisconnect, TakenOver, Fails, Leave, ChangeSession
<1>8. CASE RemoveConnection(c) \/ ReadSession(c) \/ UnsubscribeAll(c) \/ DeleteSession(c)
  BY <1>0, <1>1, <1>8, Zenon DEF RemoveConnection, ReadSession, UnsubscribeAll, DeleteSession
<1>9. CASE MarkDisconnected(c) \/ ClearWill(c) \/ Persist(c)
  BY <1>0, <1>1, <1>9, Zenon DEF MarkDisconnected, ClearWill, Persist
<1>10. ASSUME UNCHANGED <<session, sessions>>,
              pc[c] \in HasSession <=> pc'[c] \in HasSession,
              \A d \in Conns \ {c} : pc'[d] = pc[d],
              \A d \in Conns \ {c} : will_task'[d] = will_task[d], session[c] # NoConn
       PROVE  Known'
  BY <1>0, <1>10 DEF Known
<1>11. CASE PublishWill(c)
  <2>1. session[c] # NoConn BY <1>11, Zenon DEF PublishWill, Known
  <2>2. UNCHANGED <<session, sessions>> /\ \A d \in Conns \ {c} : will_task'[d] = will_task[d]
    BY <1>0, <1>11, Zenon DEF PublishWill
  <2>3. /\ pc[c] \in HasSession <=> pc'[c] \in HasSession
        /\ \A d \in Conns \ {c} : pc'[d] = pc[d]
    BY <1>0, <1>11, Zenon DEF PublishWill
  <2> QED BY <2>1, <2>2, <2>3, <1>10, Zenon
<1>12. CASE delayed_will(c)
  <2>1. session[c] # NoConn BY <1>12, Zenon DEF delayed_will, CheckCurrent, CheckDisconnected, TakeWill, Known
  <2>2. /\ UNCHANGED <<pc, session, sessions>>
        /\ \A d \in Conns \ {c} : will_task'[d] = will_task[d]
    BY <1>0, <1>12, Zenon DEF delayed_will, CheckCurrent, CheckDisconnected, TakeWill, SetTask
  <2> QED BY <2>1, <2>2, <1>10, Zenon
<1>13. CASE Elapse(c)
  BY <1>1, <1>13, Zenon DEF Elapse
<1> QED
  BY <1>3, <1>4, <1>5, <1>6, <1>7, <1>8, <1>9, <1>11, <1>12, <1>13, Zenon
     DEF handle_connect, handle_disconnect

\* The object of the last connection stays in the store, and Connected, until the
\* connection's own handle_disconnect marks it.
LEMMA InStoreStep ==
  ASSUME Orderly, Typed, Core, Known, InStore, NEW c \in Conns,
         \/ handle_connect(c) \/ run_connected(c) \/ ChangeSession(c)
         \/ handle_disconnect(c) \/ delayed_will(c) \/ Elapse(c)
  PROVE  InStore'
<1> USE DEF At, shared, Goto
<1>0. /\ NoConn \notin Conns /\ pc \in [Conns -> Labels] /\ session \in [Conns -> NoneOr(Conns)]
      /\ sessions \in NoneOr(Conns) /\ heap \in [Conns -> SessionObjects]
  BY LifecycleConstants, Zenon DEF Typed
<1> USE DEF NoneOr
<1>1. pc[c] \in HasSession => session[c] \in Conns BY <1>0, Zenon DEF Known
<1>2. latest \in Conns /\ pc[latest] \in Attached => session[latest] \in Conns
  BY <1>0, Zenon DEF Known, Attached, HasSession, Disconnecting
<1>3. ASSUME UNCHANGED <<sessions, session, latest>>,
             \A d \in Conns \ {c} : pc'[d] = pc[d],
             c = latest /\ pc'[c] \in Attached => pc[c] \in Attached,
             \A s \in Conns : heap'[s].state = heap[s].state
      PROVE  InStore'
  BY <1>2, <1>3, Zenon DEF InStore
<1>4. pc[c] \notin Idle \/ (pc[c] = "running" /\ Quiet(c)) => c = latest
  BY LastActs, Zenon
<1>5. pc[c] = "new" => c # latest BY Zenon DEF Core, Unheard
<1> USE DEF Attached, Running
<1>6. CASE CheckLimit(c)
  <2>1. \A d \in Conns \ {c} : pc'[d] = pc[d] BY <1>0, <1>6, Zenon DEF CheckLimit
  <2>2. CASE latest' = c /\ Goto(c, "takeover") BY <1>0, <2>2, Zenon DEF InStore
  <2>3. CASE ~ (latest' = c /\ Goto(c, "takeover"))
    <3>1. UNCHANGED <<latest, heap, session, sessions>> /\ c # latest
      BY <1>5, <1>6, <2>3, Zenon DEF CheckLimit
    <3> QED BY <2>1, <3>1, <1>3, Zenon
  <2> QED BY <2>2, <2>3, Zenon
<1>7. CASE Takeover(c)
  BY <1>0, <1>3, <1>7, Zenon DEF Takeover
<1>8. CASE get_or_create(c)
  <2>1. c = latest /\ latest' = latest BY <1>4, <1>8, Zenon DEF get_or_create, Idle, Gone
  <2>2. CASE packet[c].clean_start
    BY <1>0, <1>8, <2>1, <2>2 DEF get_or_create, Create, InStore, NewSession
  <2>3. CASE ~ packet[c].clean_start /\ Goto(c, "create")
    BY <1>0, <1>8, <2>1, <2>3, Zenon DEF get_or_create, InStore
  <2>4. CASE ~ packet[c].clean_start /\ ~ Goto(c, "create")
    <3>1. /\ sessions \in Conns /\ session' = [session EXCEPT ![c] = sessions]
          /\ sessions' = sessions
          /\ heap' = [heap EXCEPT ![sessions].state = "Connected", ![sessions].disconnected_at = 0]
      BY <1>0, <1>8, <2>4, Zenon DEF get_or_create
    <3>2. heap'[sessions].state = "Connected" BY <3>1, ResumeWrites, Zenon
    <3> QED BY <1>0, <2>1, <3>1, <3>2, Zenon DEF InStore
  <2> QED BY <2>2, <2>3, <2>4, Zenon
<1>9. CASE CreateNew(c)
  <2>1. c = latest /\ latest' = latest BY <1>4, <1>9, Zenon DEF CreateNew, Idle, Gone
  <2> QED BY <1>0, <1>9, <2>1, Zenon DEF CreateNew, Create, InStore, NewSession
<1>10. CASE ClearSubscriptions(c) \/ Register(c) \/ SendConnack(c)
  BY <1>0, <1>3, <1>10, Zenon DEF ClearSubscriptions, Register, SendConnack
<1>11. CASE UpdateSession(c)
  <2>1. session[c] \in Conns BY <1>1, <1>11, Zenon DEF UpdateSession, HasSession
  <2>2. \A s \in Conns : heap'[s].state = heap[s].state
    BY <2>1, <1>11, UpdateWrites, Zenon DEF Mine
  <2> QED BY <2>2, <1>0, <1>3, <1>11, Zenon DEF UpdateSession
<1>12. CASE run_connected(c)
  BY <1>0, <1>3, <1>12
    , Zenon DEF run_connected, ChangeStore, StartDisconnect, TakenOver, Fails, Leave
<1>13. CASE ChangeSession(c)
  <2>1. session[c] \in Conns BY <1>1, <1>13, Zenon DEF ChangeSession, HasSession
  <2>2. \A s \in Conns : heap'[s].state = heap[s].state
    BY <2>1, <1>13, ChangeWrites, Zenon DEF Mine
  <2> QED BY <2>2, <1>0, <1>3, <1>13, Zenon DEF ChangeSession
<1>14. CASE RemoveConnection(c) \/ ReadSession(c) \/ UnsubscribeAll(c)
  BY <1>0, <1>3, <1>14, Zenon DEF RemoveConnection, ReadSession, UnsubscribeAll
<1>15. CASE MarkDisconnected(c)
  <2>1. c = latest /\ latest' = latest BY <1>4, <1>15, Zenon DEF MarkDisconnected, Idle, Gone
  <2>2. pc'[c] \in {"delete", "will"} BY <1>0, <1>15, Zenon DEF MarkDisconnected
  <2> QED BY <2>1, <2>2, Zenon DEF InStore
<1>16. CASE DeleteSession(c)
  <2>1. c = latest /\ latest' = latest BY <1>4, <1>16, Zenon DEF DeleteSession, Idle, Gone
  <2>2. pc'[c] = "will" BY <1>0, <1>16, Zenon DEF DeleteSession
  <2> QED BY <2>1, <2>2, Zenon DEF InStore
<1>17. CASE PublishWill(c) \/ Persist(c)
  BY <1>0, <1>3, <1>17, Zenon DEF PublishWill, Persist
<1>18. CASE ClearWill(c)
  <2>1. session[c] \in Conns BY <1>1, <1>18, Zenon DEF ClearWill, HasSession, Disconnecting
  <2>2. \A s \in Conns : heap'[s].state = heap[s].state
    BY <2>1, <1>18, WillTaken, Zenon DEF Mine
  <2> QED BY <2>2, <1>0, <1>3, <1>18, Zenon DEF ClearWill
<1>19. CASE CheckCurrent(c) \/ CheckDisconnected(c)
  BY <1>3, <1>19, Zenon DEF CheckCurrent, CheckDisconnected
<1>20. CASE TakeWill(c)
  <2>1. session[c] \in Conns BY <1>0, <1>20, Zenon DEF TakeWill, Known
  <2>2. \A s \in Conns : heap'[s].state = heap[s].state
    BY <2>1, <1>20, WillTaken, Zenon DEF Mine
  <2> QED BY <2>2, <1>0, <1>3, <1>20, Zenon DEF TakeWill
<1>21. CASE Elapse(c)
  <2>1. \A s \in Conns : heap'[s].state = heap[s].state BY <1>21, ElapseWrites, Zenon
  <2> QED BY <2>1, <1>3, <1>21, Zenon DEF Elapse
<1> QED
  BY <1>6, <1>7, <1>8, <1>9, <1>10, <1>11, <1>12, <1>13, <1>14, <1>15, <1>16, <1>17, <1>18, <1>19,
     <1>20, <1>21, Zenon DEF handle_connect, handle_disconnect, delayed_will

-----------------------------------------------------------------------------
Base == Typed /\ Core /\ Known /\ InStore

\* A broker that has just started.
LEMMA BaseInit == Init => Base
<1> SUFFICES ASSUME Init PROVE Base
  OBVIOUS
<1> USE LifecycleConstants DEF Init, NoneOr
<1>1. NewSession \in SessionObjects /\ NewLocal \in Locals /\ NoPacket \in ConnectPackets
  BY Zenon DEF NewSession, SessionObjects, NewLocal, Locals, NoPacket, ConnectPackets, Expiries, Delays
<1>2. Typed
  BY <1>1, Zenon DEF Typed, Labels
<1>3. Core
  BY Zenon DEF Core, Superseded, Unheard, MapEntry, Idle, Told
<1>4. Known
  BY Zenon DEF Known, HasSession, Running, Disconnecting, NoTask
<1>5. InStore
  BY Zenon DEF InStore
<1> QED BY <1>2, <1>3, <1>4, <1>5, Zenon DEF Base

\* cleanup_expired takes a session from the map, never that of a client that is
\* connected.
LEMMA BaseStep ==
  ASSUME Orderly, Base, AllTold', [Next]_vars
  PROVE  Base'
<1> USE DEF Base
<1>1. ASSUME NEW c \in Conns,
             \/ handle_connect(c) \/ run_connected(c) \/ ChangeSession(c)
             \/ handle_disconnect(c) \/ delayed_will(c) \/ Elapse(c)
      PROVE  Base'
  <2>1. pc[c] \in HasSession => session[c] \in Conns
    BY Zenon DEF Typed, Known, NoneOr
  <2>2. will_task[c].state # "none" => session[c] \in Conns
    BY Zenon DEF Typed, Known, NoneOr
  <2>3. session[c] \in Conns \/ pc[c] \notin {"update", "subscribe", "unsubscribe", "read", "clear"}
    BY <2>1, Zenon DEF HasSession, Running, Disconnecting
  <2>4. Typed'
    BY <1>1, <2>2, <2>3, TypedStep, Zenon
  <2>5. Core'
    BY <1>1, StepMoves, CoreStep, Zenon
  <2>6. Known'
    BY <1>1, KnownStep, Zenon
  <2>7. InStore'
    BY <1>1, InStoreStep, Zenon
  <2> QED BY <2>4, <2>5, <2>6, <2>7, Zenon
<1>2. CASE cleanup_expired
  <2>1. heap[sessions].state = "Disconnected" /\ sessions' = NoConn
    BY <1>2, Zenon DEF cleanup_expired, is_expired
  <2>2. UNCHANGED <<pc, packet, connections, subscriptions, heap, session, inbox, local, will_task,
                    published, latest, clock>>
    BY <1>2, Zenon DEF cleanup_expired
  <2>3. Typed' BY <2>1, <2>2, Zenon DEF Typed, NoneOr
  <2>4. Core' BY <2>2, Zenon DEF Core, Superseded, Unheard, MapEntry, Told
  <2>5. Known' BY <2>1, <2>2, LifecycleConstants, Zenon DEF Known
  <2>6. InStore' BY <2>1, <2>2, Zenon DEF InStore
  <2> QED BY <2>3, <2>4, <2>5, <2>6, Zenon
<1>3. CASE UNCHANGED vars
  <2>1. UNCHANGED <<pc, packet, connections, sessions, subscriptions, heap, session, inbox, local,
                    will_task, published, latest, clock>>
    BY <1>3, Zenon DEF vars, shared
  <2>2. Typed' BY <2>1, Zenon DEF Typed
  <2>3. Core' BY <2>1, Zenon DEF Core, Superseded, Unheard, MapEntry, Told
  <2>4. Known' BY <2>1, Zenon DEF Known
  <2>5. InStore' BY <2>1, Zenon DEF InStore
  <2> QED BY <2>2, <2>3, <2>4, <2>5
<1> QED BY <1>1, <1>2, <1>3, Zenon DEF Next

\* A signal that was lost stays lost.
LEMMA ToldBefore ==
  ASSUME [Next]_vars, AllTold'
  PROVE  AllTold
<1> USE DEF shared
<1>1. ASSUME NEW c \in Conns, Takeover(c) PROVE AllTold
  <2>1. \A d \in Conns : inbox[d] \subseteq inbox'[d] BY <1>1 DEF Takeover, Signal
  <2> QED BY <2>1, Zenon DEF AllTold
<1>2. ASSUME NEW c \in Conns, handle_connect(c), ~ Takeover(c) PROVE inbox' = inbox
  BY <1>2, Zenon DEF handle_connect, CheckLimit, get_or_create, CreateNew, ClearSubscriptions,
     UpdateSession, Register, SendConnack
<1>3. ASSUME NEW c \in Conns, run_connected(c) \/ ChangeSession(c) PROVE inbox' = inbox
  BY <1>3, Zenon DEF run_connected, ChangeStore, StartDisconnect, TakenOver, Fails, Leave, ChangeSession
<1>4. ASSUME NEW c \in Conns, handle_disconnect(c) PROVE inbox' = inbox
  BY <1>4, Zenon DEF handle_disconnect, RemoveConnection, ReadSession, UnsubscribeAll, MarkDisconnected,
     DeleteSession, PublishWill, ClearWill, Persist
<1>5. ASSUME NEW c \in Conns, delayed_will(c) \/ Elapse(c) PROVE inbox' = inbox
  BY <1>5, Zenon DEF delayed_will, CheckCurrent, CheckDisconnected, TakeWill, Elapse
<1>6. cleanup_expired \/ UNCHANGED vars => inbox' = inbox
  BY Zenon DEF cleanup_expired, vars
<1>7. inbox' = inbox => AllTold BY Zenon DEF AllTold
<1> QED BY <1>1, <1>2, <1>3, <1>4, <1>5, <1>6, <1>7, Zenon DEF Next

\* Base holds until a takeover finds a full channel.
LEMMA BaseAlways == ASSUME Orderly PROVE Spec => [](AllTold => Base)
<1>1. Init => Base BY BaseInit, Zenon
<1>2. (AllTold => Base) /\ [Next]_vars => (AllTold => Base)' BY BaseStep, ToldBefore, Zenon
<1> QED BY <1>1, <1>2, PTL DEF Spec

\* The last connection of a client is the one its messages go to.  The old one, told
\* to leave, does not run handle_disconnect and so does not remove what the new one
\* has registered (mod.rs, run_connected), handle_disconnect of the last one is over
\* before there is another, and cleanup_expired spares what is connected.
THEOREM LastIsRegistered == ASSUME Orderly PROVE Spec => []Registered
<1>1. (AllTold => Base) => Registered
  <2> SUFFICES ASSUME Base, NEW c \in Conns, pc[c] \in Running, latest = c
               PROVE  connections = c /\ sessions = session[c] /\ Mine(c).state = "Connected"
    BY Zenon DEF Registered
  <2>1. connections = c BY Zenon DEF Base, Core, MapEntry
  <2>2. sessions = session[c] /\ heap[sessions].state = "Connected"
    BY Zenon DEF Base, InStore, Attached
  <2> QED BY <2>1, <2>2, Zenon DEF Mine
<1>2. Spec => [](AllTold => Base) BY BaseAlways, Zenon
<1> QED BY <1>1, <1>2, PTL

-----------------------------------------------------------------------------
\* Between ReadSession and PublishWill: will and delay are in the locals.
Reading == {"unsubscribe_all", "mark", "delete", "will"}

\* The will in an object is that of a connection that works on the object.
Owned ==
  \A s \in Conns :
    heap[s].will # NoConn =>
      session[heap[s].will] = s /\ pc[heap[s].will] \notin {"cleanup", "update"}

Unsent ==
  \A c \in Conns : session[c] = NoConn \/ pc[c] \in {"cleanup", "update"} => published[c] = 0

\* Only an object with a delay has a task that waits for it.
Waiting == \A c \in Conns : will_task[c].state # "none" => Mine(c).delayed

\* What handle_disconnect has read of the will is still so, but for a delayed one,
\* which it does not publish itself.
Copied ==
  \A c \in Conns :
    pc[c] \in Reading \/ (pc[c] = "clear" /\ local[c].publish_will) =>
      /\ local[c].delayed <=> Mine(c).delayed
      /\ ~ local[c].delayed => local[c].will = Mine(c).will
      /\ pc[c] = "clear" => ~ local[c].delayed

\* A will that has gone out is about to be cleared.
Sent ==
  \A s \in Conns :
    heap[s].will # NoConn /\ published[heap[s].will] = 1 =>
      latest \in Conns /\ pc[latest] = "clear" /\ local[latest].publish_will /\ session[latest] = s

Asked == packet \in [Conns -> Connects \cup {NoPacket}]

\* WillAtMostOnce, whatever the channels.
SentOnce == \A c \in Conns : published[c] <= 1

Wills == SentOnce /\ Owned /\ Unsent /\ Waiting /\ Copied /\ Sent

\* No step of a task publishes a will that has been published, or leaves one in its
\* session that has been.
LEMMA WillsStep ==
  ASSUME Orderly, DelaysPositive, Base, Asked, Wills,
         NEW c \in Conns,
         \/ handle_connect(c) \/ run_connected(c) \/ ChangeSession(c)
         \/ handle_disconnect(c) \/ delayed_will(c) \/ Elapse(c)
  PROVE  Wills'
<1> USE DEF At, shared, Goto, Mine
<1>0. /\ NoConn \notin Conns /\ pc \in [Conns -> Labels] /\ session \in [Conns -> NoneOr(Conns)]
      /\ sessions \in NoneOr(Conns) /\ heap \in [Conns -> SessionObjects]
      /\ latest \in NoneOr(Conns)
      /\ local \in [Conns -> Locals] /\ published \in [Conns -> Nat] /\ DOMAIN will_task = Conns
  BY LifecycleConstants, Zenon DEF Base, Typed
<1>a. \A s \in Conns : heap[s].will \in NoneOr(Conns) BY <1>0, Zenon DEF SessionObjects
<1> USE DEF NoneOr
<1>b. \A d \in Conns : will_task[d].state # "none" => session[d] \in Conns
  BY <1>0, Zenon DEF Base, Known
<1>c. \A d \in Conns : pc[d] \in Reading \cup {"clear"} => session[d] \in Conns /\ d = latest
  BY <1>0, LastActs, Zenon DEF Base, Known, HasSession, Disconnecting, Reading, Idle, Gone
<1>d. pc[c] \notin Idle => c = latest BY LastActs, Zenon DEF Base
<1> DEFINE Others == \A d \in Conns \ {c} : pc'[d] = pc[d] /\ local'[d] = local[d]
<1>1. ASSUME UNCHANGED <<session, published, will_task>>, Others,
             \A s \in Conns : heap'[s].will = heap[s].will /\ heap'[s].delayed = heap[s].delayed,
             pc'[c] \in {"cleanup", "update"} => pc[c] = "cleanup",
             pc'[c] \in Reading => pc[c] \in Reading /\ local'[c] = local[c],
             pc'[c] = "clear" => ~ local'[c].publish_will,
             c = latest => pc[c] # "clear" \/ ~ local[c].publish_will,
             latest' = latest \/ latest \notin Conns \/ pc[latest] # "clear"
      PROVE  Wills'
  <2>1. SentOnce' BY <1>1, Zenon DEF Wills, SentOnce
  <2>2. Owned' BY <1>0, <1>a, <1>1 DEF Wills, Owned
  <2>3. Unsent' BY <1>1, Zenon DEF Wills, Unsent
  <2>4. Waiting' BY <1>b, <1>1, Zenon DEF Wills, Waiting
  <2>5. Copied' BY <1>c, <1>1 DEF Wills, Copied, Reading
  <2>6. Sent' BY <1>1 DEF Wills, Sent
  <2> QED BY <2>1, <2>2, <2>3, <2>4, <2>5, <2>6, Zenon DEF Wills
<1>2. CASE CheckLimit(c)
  <2>1. latest \in Conns /\ latest # c => pc[latest] # "clear"
    BY <1>2, Zenon DEF CheckLimit, Serial, Orderly, Gone
  <2> QED BY <2>1, <1>0, <1>1, <1>2, Zenon DEF CheckLimit, Reading
<1>3. CASE \/ Takeover(c) \/ ClearSubscriptions(c) \/ Register(c) \/ SendConnack(c)
           \/ run_connected(c) \/ RemoveConnection(c) \/ UnsubscribeAll(c)
           \/ DeleteSession(c) \/ Persist(c)
  <2>1. UNCHANGED <<session, published, will_task, heap, latest>>
    BY <1>3, Zenon DEF Takeover, ClearSubscriptions, Register, SendConnack, run_connected, ChangeStore,
       StartDisconnect, TakenOver, Fails, Leave, RemoveConnection, UnsubscribeAll, DeleteSession, Persist
  <2>2. Others
    BY <1>0, <1>3, Zenon DEF Takeover, ClearSubscriptions, Register, SendConnack, run_connected, ChangeStore,
       StartDisconnect, TakenOver, Fails, Leave, RemoveConnection, UnsubscribeAll, DeleteSession, Persist
  <2>3. /\ pc'[c] \in {"cleanup", "update"} => pc[c] = "cleanup"
        /\ pc'[c] \in Reading => pc[c] \in Reading /\ local'[c] = local[c]
        /\ pc'[c] # "clear" /\ pc[c] # "clear"
    BY <1>0, <1>3, Zenon DEF Takeover, ClearSubscriptions, Register, SendConnack, run_connected, ChangeStore,
       StartDisconnect, TakenOver, Fails, Leave, RemoveConnection, UnsubscribeAll, DeleteSession, Persist,
       Reading
  <2> QED BY <2>1, <2>2, <2>3, <1>1, Zenon
<1>4. ASSUME Create(c), session[c] = NoConn, c = latest, pc[c] \in {"session", "create"},
             pc'[c] \in {"cleanup", "update"}, Others, UNCHANGED <<published, will_task, local, latest>>
      PROVE  Wills'
  <2>1. /\ heap'[c].will = NoConn /\ \A s \in Conns \ {c} : heap'[s] = heap[s]
        /\ session' = [session EXCEPT ![c] = c]
    BY <1>0, <1>4, Zenon DEF Create, NewSession
  <2>2. \A d \in Conns : session[d] # c /\ heap[d].will # c
    BY <1>0, <1>4 DEF Base, Known, Wills, Owned
  <2>3. SentOnce' BY <1>4, Zenon DEF Wills, SentOnce
  <2>4. Owned' BY <1>0, <1>a, <1>4, <2>1, <2>2 DEF Wills, Owned
  <2>5. Unsent' BY <1>0, <1>4, <2>1, Zenon DEF Wills, Unsent
  <2>6. Waiting' BY <1>0, <1>b, <1>4, <2>1, <2>2 DEF Wills, Waiting
  <2>7. Copied'
    BY <1>0, <1>c, <1>4, <2>1, <2>2 DEF Wills, Copied, Reading
  <2>8. Sent' BY <1>4, <2>1, Zenon DEF Wills, Sent
  <2> QED BY <2>3, <2>4, <2>5, <2>6, <2>7, <2>8 DEF Wills
<1>e. pc[c] \in {"session", "create"} => session[c] = NoConn /\ c = latest
  BY <1>d, Zenon DEF Base, Known, HasSession, Running, Disconnecting, Idle, Gone
<1>5. CASE CreateNew(c)
  BY <1>0, <1>e, <1>4, <1>5, Zenon DEF CreateNew
<1>6. CASE get_or_create(c)
  <2>1. CASE packet[c].clean_start
    BY <1>0, <1>e, <1>4, <1>6, <2>1, Zenon DEF get_or_create
  <2>2. CASE ~ packet[c].clean_start /\ Goto(c, "create")
    <3>1. UNCHANGED <<session, published, will_task, heap, latest, local>> /\ pc[c] = "session"
      BY <1>0, <1>6, <2>2, Zenon DEF get_or_create
    <3> QED BY <1>0, <2>2, <3>1, <1>1, Zenon DEF Reading
  <2>3. CASE ~ packet[c].clean_start /\ ~ Goto(c, "create")
    <3>1. /\ sessions \in Conns /\ session' = [session EXCEPT ![c] = sessions]
          /\ heap' = [heap EXCEPT ![sessions].state = "Connected", ![sessions].disconnected_at = 0]
          /\ UNCHANGED <<published, will_task, latest, local>>
          /\ pc[c] = "session" /\ pc'[c] = "update" /\ Others
      BY <1>0, <1>6, <2>3, Zenon DEF get_or_create
    <3>2. \A s \in Conns : heap'[s].will = heap[s].will /\ heap'[s].delayed = heap[s].delayed
      BY <3>1, ResumeWrites, Zenon DEF Base
    <3>3. \A s \in Conns : heap[s].will # c
      BY <1>0, <1>e, <3>1 DEF Wills, Owned
    <3>4. SentOnce' BY <3>1, Zenon DEF Wills, SentOnce
    <3>5. Owned' BY <1>0, <1>a, <3>1, <3>2, <3>3 DEF Wills, Owned
    <3>6. Unsent' BY <1>0, <1>e, <3>1, Zenon DEF Wills, Unsent
    <3>7. Waiting' BY <1>0, <1>b, <1>e, <3>1, <3>2 DEF Wills, Waiting
    <3>8. Copied' BY <1>0, <1>c, <1>e, <3>1, <3>2 DEF Wills, Copied, Reading
    <3>9. Sent' BY <1>0, <1>e, <3>1, <3>2 DEF Wills, Sent
    <3> QED BY <3>4, <3>5, <3>6, <3>7, <3>8, <3>9 DEF Wills
  <2> QED BY <2>1, <2>2, <2>3, Zenon
<1>7. CASE UpdateSession(c)
  <2>1. session[c] \in Conns /\ c = latest
    BY <1>0, <1>d, <1>7, Zenon DEF UpdateSession, Base, Known, HasSession, Idle, Gone
  <2>2. /\ \A s \in Conns \ {session[c]} : heap'[s] = heap[s]
        /\ heap'[session[c]].will \in {c, heap[session[c]].will}
        /\ heap'[session[c]].delayed \in {TRUE, heap[session[c]].delayed}
    <3>1. packet[c].will /\ packet[c].delay # "absent" => packet[c].delay = "positive"
      BY LifecycleConstants DEF Asked, DelaysPositive, NoPacket, ConnectPackets, Delays
    <3> QED BY <2>1, <1>7, <3>1, UpdateWrites, Zenon DEF Base
  <2>3. /\ UNCHANGED <<session, published, will_task, latest, local>>
        /\ pc[c] = "update" /\ pc'[c] = "register" /\ Others
    BY <1>0, <1>7, Zenon DEF UpdateSession
  <2>4. SentOnce' BY <2>3, Zenon DEF Wills, SentOnce
  <2>5. Owned' BY <1>0, <1>a, <2>1, <2>2, <2>3 DEF Wills, Owned
  <2>6. Unsent' BY <2>3, Zenon DEF Wills, Unsent
  <2>7. Waiting' BY <1>b, <2>1, <2>2, <2>3, Zenon DEF Wills, Waiting
  <2>8. Copied' BY <1>c, <2>1, <2>2, <2>3 DEF Wills, Copied, Reading
  <2>9. Sent'
    <3>1. published[c] = 0 BY <2>3, Zenon DEF Wills, Unsent
    <3>2. \A s \in Conns : heap[s].will # NoConn => published[heap[s].will] # 1
      BY <2>1, <2>3, Zenon DEF Wills, Sent
    <3> QED BY <2>2, <2>3, <3>1, <3>2 DEF Sent
  <2> QED BY <2>4, <2>5, <2>6, <2>7, <2>8, <2>9 DEF Wills
<1>8. CASE ChangeSession(c)
  <2>1. session[c] \in Conns
    BY <1>0, <1>8, Zenon DEF ChangeSession, Base, Known, HasSession, Running
  <2>2. \A s \in Conns : heap'[s].will = heap[s].will /\ heap'[s].delayed = heap[s].delayed
    BY <2>1, <1>8, ChangeWrites, Zenon DEF Base
  <2> QED BY <2>2, <1>0, <1>1, <1>8, Zenon DEF ChangeSession, Reading
<1>9. CASE MarkDisconnected(c)
  <2>1. \A s \in Conns : heap'[s].will = heap[s].will /\ heap'[s].delayed = heap[s].delayed
    BY <1>9, MarkWrites, Zenon DEF Base
  <2>2. /\ UNCHANGED <<session, published, will_task, latest, local>> /\ Others
        /\ pc[c] = "mark" /\ pc'[c] \in {"delete", "will"}
    BY <1>0, <1>9, Zenon DEF MarkDisconnected
  <2> QED BY <2>1, <2>2, <1>1, Zenon DEF Reading
<1>10. CASE Elapse(c)
  <2>1. \A s \in Conns : heap'[s].will = heap[s].will /\ heap'[s].delayed = heap[s].delayed
    BY <1>10, ElapseWrites, Zenon DEF Base
  <2>2. UNCHANGED <<pc, session, published, will_task, latest, local>> BY <1>10, Zenon DEF Elapse
  <2>3. Owned' BY <1>0, <1>a, <2>1, <2>2 DEF Wills, Owned
  <2>4. Copied' BY <1>c, <2>1, <2>2, Zenon DEF Wills, Copied
  <2>5. Waiting' BY <1>b, <2>1, <2>2, Zenon DEF Wills, Waiting
  <2>6. SentOnce' /\ Unsent' /\ Sent'
    BY <2>1, <2>2 DEF Wills, SentOnce, Unsent, Sent
  <2> QED BY <2>3, <2>4, <2>5, <2>6, Zenon DEF Wills
<1>11. CASE CheckCurrent(c) \/ CheckDisconnected(c)
  <2>1. /\ UNCHANGED <<pc, heap, session, published, latest, local>>
        /\ will_task[c].state # "none" /\ \A d \in Conns \ {c} : will_task'[d] = will_task[d]
    BY <1>0, <1>11, Zenon DEF CheckCurrent, CheckDisconnected, SetTask
  <2> QED BY <2>1, Zenon DEF Wills, SentOnce, Owned, Unsent, Waiting, Copied, Sent
<1>12. CASE ReadSession(c)
  <2>1. /\ session[c] \in Conns /\ c = latest
        /\ UNCHANGED <<heap, session, published, will_task, latest>> /\ Others
        /\ pc[c] = "read" /\ pc'[c] \in {"unsubscribe_all", "mark"}
    BY <1>0, <1>d, <1>12
      , Zenon DEF ReadSession, Base, Known, HasSession, Disconnecting, Idle, Gone
  <2>2. local'[c].delayed = heap[session[c]].delayed /\ local'[c].will = heap[session[c]].will
    BY <1>0, <1>12 DEF ReadSession, Locals
  <2>3. Copied' BY <1>c, <2>1, <2>2 DEF Wills, Copied, Reading
  <2>4. Owned' BY <1>0, <1>a, <2>1, Zenon DEF Wills, Owned
  <2>5. SentOnce' /\ Unsent' /\ Waiting' /\ Sent'
    BY <2>1, Zenon DEF Wills, SentOnce, Unsent, Waiting, Sent
  <2> QED BY <2>3, <2>4, <2>5, Zenon DEF Wills
<1>13. CASE PublishWill(c)
  <2>0. /\ session[c] \in Conns /\ c = latest /\ pc[c] = "will" /\ Others
        /\ UNCHANGED <<heap, session, local, latest>> /\ pc'[c] \in {"persist", "clear"}
    BY <1>0, <1>c, <1>13, Zenon DEF PublishWill, Reading
  <2>1. CASE UNCHANGED <<will_task, published>> /\ (pc'[c] = "persist" \/ ~ local[c].publish_will)
    BY <2>0, <2>1, <1>1, Zenon DEF Reading
  <2>2. CASE published' = published /\ pc'[c] = "persist" /\ will_task' # will_task
    <3>1. /\ local[c].delayed
          /\ \A d \in Conns \ {c} : will_task'[d] = will_task[d]
      BY <1>0, <1>13, <2>2, Zenon DEF PublishWill
    <3>2. Waiting' BY <2>0, <3>1 DEF Wills, Waiting, Copied, Reading
    <3>3. Owned' BY <1>0, <1>a, <2>0, Zenon DEF Wills, Owned
    <3>4. Copied' BY <2>0, <2>2, Zenon DEF Wills, Copied, Reading
    <3>5. SentOnce' /\ Unsent' /\ Sent'
      BY <2>0, <2>2, <3>1, Zenon DEF Wills, SentOnce, Unsent, Sent
    <3> QED BY <3>2, <3>3, <3>4, <3>5, Zenon DEF Wills
  <2>3. CASE local[c].publish_will /\ local[c].will # NoConn /\ ~ local[c].delayed
    <3> PICK w : w = local[c].will OBVIOUS
    <3>1. /\ w # NoConn /\ ~ local[c].delayed /\ published' = [published EXCEPT ![w] = @ + 1]
          /\ pc'[c] = "clear" /\ UNCHANGED will_task /\ local[c].publish_will
      BY <1>0, <1>13, <2>3, Zenon DEF PublishWill, Count
    <3>2. w = heap[session[c]].will /\ w \in Conns
      BY <1>a, <2>0, <3>1, Zenon DEF Wills, Copied, Reading
    <3>3. session[w] = session[c] /\ pc[w] \notin {"cleanup", "update"}
      BY <2>0, <3>1, <3>2 DEF Wills, Owned
    <3>4. \A s \in Conns : heap[s].will # NoConn => published[heap[s].will] # 1
      BY <2>0, Zenon DEF Wills, Sent
    <3>5. published[w] = 0
      <4>1. published[w] # 1 BY <2>0, <3>1, <3>2, <3>4, Zenon
      <4>2. published[w] <= 1 /\ published[w] \in Nat BY <1>0, <3>2, Zenon DEF Wills, SentOnce
      <4> QED BY <4>1, <4>2
    <3>6. published'[w] = 1 /\ \A d \in Conns \ {w} : published'[d] = published[d]
      BY <1>0, <3>1, <3>2, <3>5
    <3>7. SentOnce' BY <3>6 DEF Wills, SentOnce
    <3>8. Unsent' BY <1>0, <2>0, <3>1, <3>2, <3>3, <3>6 DEF Wills, Unsent
    <3>9. Owned' BY <1>0, <1>a, <2>0, <3>1, Zenon DEF Wills, Owned
    <3>10. Waiting' BY <2>0, <3>1, Zenon DEF Wills, Waiting
    <3>11. Copied' BY <2>0, <3>1 DEF Wills, Copied, Reading
    <3>12. Sent'
      <4>1. \A s \in Conns : heap[s].will = w => s = session[c]
        BY <3>1, <3>3, Zenon DEF Wills, Owned
      <4> QED BY <1>a, <2>0, <3>1, <3>4, <3>6, <4>1 DEF Sent
    <3> QED BY <3>7, <3>8, <3>9, <3>10, <3>11, <3>12, Zenon DEF Wills
  <2>4. \/ local[c].publish_will /\ local[c].will # NoConn /\ ~ local[c].delayed
        \/ published' = published /\ pc'[c] = "persist"
        \/ UNCHANGED <<published, will_task>> /\ ~ local[c].publish_will
    <3>1. Goto(c, "persist") => pc'[c] = "persist" BY <1>0, Zenon
    <3> HIDE DEF Goto
    <3> QED BY <1>13, <3>1, Zenon DEF PublishWill
  <2> QED BY <2>1, <2>2, <2>3, <2>4, Zenon
<1>14. CASE ClearWill(c)
  <2>1. /\ session[c] \in Conns /\ c = latest /\ pc[c] = "clear" /\ pc'[c] = "persist" /\ Others
        /\ UNCHANGED <<session, local, latest, will_task, published>>
    BY <1>0, <1>c, <1>14, Zenon DEF ClearWill
  <2>2. /\ \A s \in Conns \ {session[c]} : heap'[s] = heap[s]
        /\ heap'[session[c]].will = NoConn
        /\ heap'[session[c]].delayed = heap[session[c]].delayed
    BY <2>1, <1>14, WillTaken, Zenon DEF Base
  <2>3. SentOnce' /\ Unsent' BY <2>1, Zenon DEF Wills, SentOnce, Unsent
  <2>4. Owned' BY <1>0, <1>a, <2>1, <2>2 DEF Wills, Owned
  <2>5. Waiting' BY <1>b, <2>1, <2>2, Zenon DEF Wills, Waiting
  <2>6. Copied' BY <1>c, <2>1, <2>2 DEF Wills, Copied, Reading
  <2>7. Sent' BY <2>1, <2>2 DEF Wills, Sent
  <2> QED BY <2>3, <2>4, <2>5, <2>6, <2>7, Zenon DEF Wills
<1>15. CASE TakeWill(c)
  <2> PICK w : w = heap[session[c]].will OBVIOUS
  <2>1. /\ session[c] \in Conns /\ will_task[c].state # "none"
        /\ UNCHANGED <<pc, session, local, latest>>
        /\ \A d \in Conns \ {c} : will_task'[d] = will_task[d]
        /\ published' = IF w = NoConn THEN published ELSE [published EXCEPT ![w] = @ + 1]
    BY <1>b, <1>15 DEF TakeWill, SetTask, Count
  <2>2. /\ \A s \in Conns \ {session[c]} : heap'[s] = heap[s]
        /\ heap'[session[c]].will = NoConn
        /\ heap'[session[c]].delayed = heap[session[c]].delayed
    BY <2>1, <1>15, WillTaken, Zenon DEF Base
  <2>3. heap[session[c]].delayed BY <2>1, Zenon DEF Wills, Waiting
  <2>4. w # NoConn => w \in Conns /\ session[w] = session[c] /\ pc[w] \notin {"cleanup", "update"}
    BY <1>a, <2>1, Zenon DEF Wills, Owned
  <2>5. w # NoConn => published[w] = 0
    <3>1. w # NoConn => published[w] # 1
      <4> SUFFICES ASSUME w # NoConn, published[w] = 1 PROVE FALSE
        OBVIOUS
      <4>1. /\ latest \in Conns /\ pc[latest] = "clear" /\ local[latest].publish_will
            /\ session[latest] = session[c]
        BY <2>1, Zenon DEF Wills, Sent
      <4>2. ~ heap[session[latest]].delayed BY <4>1, Zenon DEF Wills, Copied
      <4> QED BY <2>3, <4>1, <4>2, Zenon
    <3>2. w # NoConn => published[w] <= 1 /\ published[w] \in Nat
      BY <1>0, <2>4, Zenon DEF Wills, SentOnce
    <3> QED BY <3>1, <3>2
  <2>6. \A d \in Conns : published'[d] = IF d = w THEN 1 ELSE published[d]
    BY <1>0, <2>1, <2>4, <2>5
  <2>7. SentOnce' BY <2>6 DEF Wills, SentOnce
  <2>8. Owned' BY <1>0, <1>a, <2>1, <2>2 DEF Wills, Owned
  <2>9. Unsent' BY <1>0, <2>1, <2>4, <2>6 DEF Wills, Unsent
  <2>a. \A s \in Conns : /\ heap'[s].delayed = heap[s].delayed
                         /\ s # session[c] => heap'[s].will = heap[s].will
    BY <2>2, Zenon
  <2>10. Waiting' BY <1>b, <2>1, <2>a, Zenon DEF Wills, Waiting
  <2>11. Copied' BY <1>c, <2>1, <2>3, <2>a, Zenon DEF Wills, Copied
  <2>12. Sent'
    <3>1. \A s \in Conns \ {session[c]} : heap[s].will # NoConn => heap[s].will # w
      BY <2>4, Zenon DEF Wills, Owned
    <3> QED BY <1>a, <2>1, <2>2, <2>6, <3>1 DEF Wills, Sent
  <2> QED BY <2>7, <2>8, <2>9, <2>10, <2>11, <2>12, Zenon DEF Wills
<1> QED
  BY <1>2, <1>3, <1>5, <1>6, <1>7, <1>8, <1>9, <1>10, <1>11, <1>12, <1>13, <1>14, <1>15, Zenon
     DEF handle_connect, handle_disconnect, delayed_will

\* A task has the packet it received.
LEMMA AskedStep ==
  ASSUME Asked, [Next]_vars
  PROVE  Asked'
<1>1. packet' = packet \/ \E c \in Conns, p \in Connects : packet' = [packet EXCEPT ![c] = p]
  <2> USE DEF shared
  <2>1. ASSUME NEW c \in Conns, handle_connect(c)
        PROVE  packet' = packet \/ \E p \in Connects : packet' = [packet EXCEPT ![c] = p]
    BY <2>1, Zenon DEF handle_connect, CheckLimit, Takeover, get_or_create, CreateNew, ClearSubscriptions,
       UpdateSession, Register, SendConnack
  <2>2. ASSUME NEW c \in Conns, run_connected(c) \/ ChangeSession(c) PROVE packet' = packet
    BY <2>2, Zenon DEF run_connected, ChangeStore, StartDisconnect, TakenOver, Fails, Leave, ChangeSession
  <2>3. ASSUME NEW c \in Conns, handle_disconnect(c) PROVE packet' = packet
    BY <2>3, Zenon DEF handle_disconnect, RemoveConnection, ReadSession, UnsubscribeAll, MarkDisconnected,
       DeleteSession, PublishWill, ClearWill, Persist
  <2>4. ASSUME NEW c \in Conns, delayed_will(c) \/ Elapse(c) PROVE packet' = packet
    BY <2>4, Zenon DEF delayed_will, CheckCurrent, CheckDisconnected, TakeWill, Elapse
  <2>5. cleanup_expired \/ UNCHANGED vars => packet' = packet
    BY Zenon DEF cleanup_expired, vars
  <2> QED BY <2>1, <2>2, <2>3, <2>4, <2>5, Zenon DEF Next
<1> QED BY <1>1, Zenon DEF Asked

\* A will goes out at most once, though a delayed task, handle_disconnect and a later
\* connection find it in the same object (disconnect.rs:61-147, connect.rs:276): what
\* handle_disconnect publishes itself belongs to an object without a delay, for which
\* no task waits, and is cleared before the client is back; what a task takes is taken
\* under the lock that it is published under.
THEOREM WillsGoOutOnce == ASSUME Orderly, DelaysPositive PROVE Spec => []WillAtMostOnce
<1>1. Init => Asked /\ Wills
  <2> SUFFICES ASSUME Init PROVE Asked /\ Wills
    OBVIOUS
  <2> USE LifecycleConstants DEF Init
  <2>1. Asked BY Zenon DEF Asked
  <2>2. SentOnce /\ Owned /\ Unsent /\ Sent
    BY DEF SentOnce, Owned, Unsent, Sent, NewSession
  <2>3. Waiting /\ Copied
    BY Zenon DEF Waiting, Copied, Reading, NoTask
  <2> QED BY <2>1, <2>2, <2>3, Zenon DEF Wills
<1>2. Base /\ Asked /\ Wills /\ [Next]_vars => Asked' /\ Wills'
  <2> SUFFICES ASSUME Base, Asked, Wills, [Next]_vars PROVE Asked' /\ Wills'
    OBVIOUS
  <2>1. Asked' BY AskedStep, Zenon
  <2>2. ASSUME NEW c \in Conns,
               \/ handle_connect(c) \/ run_connected(c) \/ ChangeSession(c)
               \/ handle_disconnect(c) \/ delayed_will(c) \/ Elapse(c)
        PROVE  Wills'
    BY <2>2, WillsStep, Zenon
  <2>3. CASE cleanup_expired \/ UNCHANGED vars
    <3>1. UNCHANGED <<pc, heap, session, local, will_task, published, latest>>
      BY <2>3, Zenon DEF cleanup_expired, vars
    <3>2. SentOnce' /\ Owned' /\ Unsent' /\ Sent'
      BY <3>1, Zenon DEF Wills, SentOnce, Owned, Unsent, Sent
    <3>3. Waiting' /\ Copied' BY <3>1, Zenon DEF Wills, Waiting, Copied, Mine
    <3> QED BY <2>1, <3>2, <3>3, Zenon DEF Wills
  <2> QED BY <2>1, <2>2, <2>3, Zenon DEF Next
<1>3. (AllTold => Asked /\ Wills) /\ (AllTold => Base) /\ [Next]_vars => (AllTold => Asked /\ Wills)'
  BY <1>2, ToldBefore, Zenon
<1>4. Spec => [](AllTold => Base) BY BaseAlways, Zenon
<1>5. (AllTold => Asked /\ Wills) => WillAtMostOnce BY Zenon DEF Wills, SentOnce, WillAtMostOnce
<1> QED BY <1>1, <1>3, <1>4, <1>5, PTL DEF Spec

-----------------------------------------------------------------------------
\* What session, subscription store and locals have to do with each other, by where
\* the last connection is.
Story ==
  latest \in Conns =>
    /\ packet[latest].clean_start => pc[latest] # "create"
    /\ packet[latest].clean_start /\ pc[latest] \in {"update", "register", "connack", "running"} =>
         (Mine(latest).subscribed <=> subscriptions)
    /\ pc[latest] = "cleanup" => ~ Mine(latest).subscribed
    /\ pc[latest] = "subscribe" => subscriptions
    /\ pc[latest] = "unsubscribe" => ~ subscriptions
    /\ pc[latest] = "unsubscribe_all" => Mine(latest).clean_start
    /\ pc[latest] \in Reading /\ local[latest].will = NoConn => Mine(latest).will = NoConn
    /\ pc[latest] \in {"persist", "closed"} /\ will_task[latest].state = "none" =>
         Mine(latest).will = NoConn

Ended == \A s \in Conns : heap[s].clean_start => heap[s].expiry = "zero"

\* Where messages for a subscribed session are not found.
Unrouted == sessions # NoConn /\ heap[sessions].subscribed /\ ~ subscriptions

\* It is so only while a subscription or the session is being removed.
Routed ==
  Unrouted =>
    /\ latest \in Conns
    /\ \/ pc[latest] \in {"unsubscribe", "delete"}
       \/ pc[latest] = "mark" /\ Mine(latest).clean_start

Mirror == Story /\ Ended /\ Routed /\ StoredIsCurrent

\* Steps of the last connection.
LEMMA MirrorLast ==
  ASSUME Base, CleanEnds, Asked, Mirror, NEW c \in Conns, c = latest,
         \/ Takeover(c) \/ get_or_create(c) \/ CreateNew(c) \/ ClearSubscriptions(c)
         \/ UpdateSession(c) \/ Register(c) \/ SendConnack(c)
         \/ ChangeStore(c) \/ StartDisconnect(c) \/ Leave(c) \/ ChangeSession(c)
         \/ handle_disconnect(c)
  PROVE  Mirror'
<1> USE DEF At, shared, Goto, Mine
<1>0. /\ NoConn \notin Conns /\ pc \in [Conns -> Labels] /\ session \in [Conns -> NoneOr(Conns)]
      /\ sessions \in NoneOr(Conns) /\ heap \in [Conns -> SessionObjects]
      /\ local \in [Conns -> Locals] /\ DOMAIN will_task = Conns
  BY LifecycleConstants, Zenon DEF Base, Typed
<1> USE DEF NoneOr
<1>a. pc[c] \in HasSession => session[c] \in Conns BY <1>0, Zenon DEF Base, Known
<1>b. pc[c] \in Attached => sessions = session[c] /\ session[c] \in Conns
  BY <1>a, Zenon DEF Base, InStore, Attached, HasSession, Disconnecting
<1>c. pc[c] \notin {"unsubscribe", "delete", "mark"} => ~ Unrouted
  BY Zenon DEF Mirror, Routed
<1>1. ASSUME Story', Ended', Routed', latest' = c, pc'[c] # "closed"
      PROVE  Mirror'
  BY <1>1, Zenon DEF Mirror, StoredIsCurrent
<1>2. ASSUME UNCHANGED <<heap, sessions, subscriptions>>, pc[c] \notin {"unsubscribe", "delete", "mark"}
      PROVE  Ended' /\ Routed'
  BY <1>c, <1>2, Zenon DEF Mirror, Ended, Routed, Unrouted
<1>3. CASE Takeover(c) \/ Register(c) \/ SendConnack(c) \/ StartDisconnect(c) \/ Leave(c) \/ RemoveConnection(c)
  <2>1. /\ UNCHANGED <<heap, sessions, session, subscriptions, packet, latest>>
        /\ pc[c] \notin {"unsubscribe", "delete", "mark"}
    BY <1>3, Zenon DEF Takeover, Register, SendConnack, StartDisconnect, Leave, RemoveConnection
  <2>2. /\ pc'[c] \in {"session", "connack", "running", "dead", "remove", "read"}
        /\ pc'[c] \in {"connack", "running"} => pc[c] \in {"register", "connack"}
    BY <1>0, <1>3, Zenon DEF Takeover, Register, SendConnack, StartDisconnect, Leave, RemoveConnection
  <2>3. Story' BY <2>1, <2>2, Zenon DEF Mirror, Story, Reading
  <2> QED BY <2>1, <2>2, <2>3, <1>1, <1>2, Zenon
<1>4. ASSUME Create(c), UNCHANGED <<packet, subscriptions, latest>>,
             \/ pc'[c] = "cleanup"
             \/ pc'[c] = "update" /\ ~ packet[c].clean_start
      PROVE  Mirror'
  <2>1. /\ heap'[c] = NewSession /\ \A s \in Conns \ {c} : heap'[s] = heap[s]
        /\ session'[c] = c /\ sessions' = c
    BY <1>0, <1>4, Zenon DEF Create
  <2>2. Story' BY <1>4, <2>1 DEF Story, NewSession, Reading
  <2>3. Ended' BY <2>1 DEF Mirror, Ended, NewSession
  <2>4. Routed' BY <2>1 DEF Routed, Unrouted, NewSession
  <2> QED BY <1>4, <2>2, <2>3, <2>4, <1>1, Zenon
<1>5. CASE get_or_create(c)
  <2>1. CASE packet[c].clean_start
    BY <1>0, <1>4, <1>5, <2>1, Zenon DEF get_or_create
  <2>2. CASE ~ packet[c].clean_start /\ Goto(c, "create")
    <3>1. /\ UNCHANGED <<heap, sessions, session, subscriptions, packet, latest>>
          /\ pc[c] = "session" /\ pc'[c] = "create"
      BY <1>0, <1>5, <2>2, Zenon DEF get_or_create
    <3>2. Story' BY <2>2, <3>1, Zenon DEF Story, Reading
    <3> QED BY <3>1, <3>2, <1>1, <1>2, Zenon
  <2>3. CASE ~ packet[c].clean_start /\ ~ Goto(c, "create")
    <3>1. /\ sessions \in Conns /\ session' = [session EXCEPT ![c] = sessions]
          /\ heap' = [heap EXCEPT ![sessions].state = "Connected", ![sessions].disconnected_at = 0]
          /\ UNCHANGED <<packet, sessions, subscriptions, latest>>
          /\ pc[c] = "session" /\ pc'[c] = "update"
      BY <1>0, <1>5, <2>3, Zenon DEF get_or_create
    <3>2. \A s \in Conns : /\ heap'[s].subscribed = heap[s].subscribed
                           /\ heap'[s].clean_start = heap[s].clean_start
                           /\ heap'[s].expiry = heap[s].expiry
      BY <3>1, ResumeWrites, Zenon DEF Base
    <3>3. Story' BY <2>3, <3>1, Zenon DEF Story, Reading
    <3>4. Ended' BY <3>2, Zenon DEF Mirror, Ended
    <3>5. Routed' BY <1>c, <3>1, <3>2, Zenon DEF Routed, Unrouted
    <3> QED BY <3>1, <3>3, <3>4, <3>5, <1>1, Zenon
  <2> QED BY <2>1, <2>2, <2>3, Zenon
<1>6. CASE CreateNew(c)
  <2>1. ~ packet[c].clean_start BY <1>6, Zenon DEF CreateNew, Mirror, Story
  <2> QED BY <2>1, <1>0, <1>4, <1>6, Zenon DEF CreateNew
<1>7. CASE ClearSubscriptions(c)
  <2>1. /\ UNCHANGED <<heap, sessions, session, packet, latest>> /\ ~ subscriptions'
        /\ pc[c] = "cleanup" /\ pc'[c] = "update"
    BY <1>0, <1>7, Zenon DEF ClearSubscriptions
  <2>2. ~ heap[session[c]].subscribed /\ sessions = session[c]
    BY <1>b, <2>1, Zenon DEF Mirror, Story, Attached
  <2>3. Story' BY <2>1, <2>2, Zenon DEF Story, Reading
  <2>4. Ended' BY <2>1, Zenon DEF Mirror, Ended
  <2>5. Routed' BY <2>1, <2>2, Zenon DEF Routed, Unrouted
  <2> QED BY <2>1, <2>3, <2>4, <2>5, <1>1, Zenon
<1>8. CASE UpdateSession(c)
  <2>1. /\ UNCHANGED <<sessions, session, subscriptions, packet, latest>>
        /\ pc[c] = "update" /\ pc'[c] = "register" /\ session[c] \in Conns /\ sessions = session[c]
    BY <1>0, <1>b, <1>8, Zenon DEF UpdateSession, Attached
  <2>2. /\ \A s \in Conns \ {session[c]} : heap'[s] = heap[s]
        /\ heap'[session[c]].subscribed = heap[session[c]].subscribed
        /\ heap'[session[c]].clean_start = packet[c].clean_start
        /\ heap'[session[c]].expiry = packet[c].expiry
    BY <1>8, <2>1, UpdateWrites, Zenon DEF Base
  <2>3. packet[c].clean_start => packet[c].expiry = "zero"
    BY DEF Asked, CleanEnds, NoPacket
  <2>4. Story' BY <2>1, <2>2, Zenon DEF Mirror, Story, Reading
  <2>5. Ended' BY <2>1, <2>2, <2>3, Zenon DEF Mirror, Ended
  <2>6. Routed' BY <1>c, <2>1, <2>2, Zenon DEF Routed, Unrouted
  <2> QED BY <2>1, <2>4, <2>5, <2>6, <1>1, Zenon
<1>9. CASE ChangeStore(c)
  <2>1. /\ UNCHANGED <<heap, sessions, session, packet, latest>>
        /\ \/ pc'[c] = "subscribe" /\ subscriptions'
           \/ pc'[c] = "unsubscribe" /\ ~ subscriptions'
    BY <1>0, <1>9, Zenon DEF ChangeStore
  <2>2. Story' BY <2>1, Zenon DEF Story, Reading
  <2>3. Ended' BY <2>1, Zenon DEF Mirror, Ended
  <2>4. Routed' BY <2>1, Zenon DEF Routed, Unrouted
  <2> QED BY <2>1, <2>2, <2>3, <2>4, <1>1, Zenon
<1>10. CASE ChangeSession(c)
  <2>1. /\ UNCHANGED <<sessions, session, subscriptions, packet, latest>>
        /\ pc[c] \in {"subscribe", "unsubscribe"} /\ pc'[c] = "running"
        /\ session[c] \in Conns /\ sessions = session[c]
    BY <1>0, <1>b, <1>10, Zenon DEF ChangeSession, Attached, Running
  <2>2. /\ \A s \in Conns \ {session[c]} : heap'[s] = heap[s]
        /\ heap'[session[c]].subscribed <=> pc[c] = "subscribe"
        /\ heap'[session[c]].clean_start = heap[session[c]].clean_start
        /\ heap'[session[c]].expiry = heap[session[c]].expiry
    BY <1>10, <2>1, ChangeWrites, Zenon DEF Base
  <2>3. subscriptions <=> pc[c] = "subscribe"
    BY <2>1, Zenon DEF Mirror, Story
  <2>4. Story' BY <2>1, <2>2, <2>3, Zenon DEF Story, Reading
  <2>5. Ended' BY <2>1, <2>2, Zenon DEF Mirror, Ended
  <2>6. Routed' BY <2>1, <2>2, <2>3, Zenon DEF Routed, Unrouted
  <2> QED BY <2>1, <2>4, <2>5, <2>6, <1>1, Zenon
<1>11. CASE ReadSession(c)
  <2>1. /\ UNCHANGED <<heap, sessions, session, subscriptions, packet, latest>>
        /\ pc[c] = "read" /\ pc'[c] \in {"unsubscribe_all", "mark"}
        /\ pc'[c] = "unsubscribe_all" => heap[session[c]].clean_start
    BY <1>0, <1>11, Zenon DEF ReadSession
  <2>2. local'[c].will = heap[session[c]].will BY <1>0, <1>11 DEF ReadSession, Locals
  <2>3. Story' BY <2>1, <2>2, Zenon DEF Story
  <2> QED BY <2>1, <2>3, <1>1, <1>2, Zenon
<1>12. CASE UnsubscribeAll(c)
  <2>1. /\ UNCHANGED <<heap, sessions, session, packet, latest, local>>
        /\ pc[c] = "unsubscribe_all" /\ pc'[c] = "mark"
    BY <1>0, <1>12, Zenon DEF UnsubscribeAll
  <2>2. Story' BY <2>1, Zenon DEF Mirror, Story, Reading
  <2>3. Ended' BY <2>1, Zenon DEF Mirror, Ended
  <2>4. Routed' BY <2>1, Zenon DEF Mirror, Story, Routed
  <2> QED BY <2>1, <2>2, <2>3, <2>4, <1>1, Zenon
<1>13. CASE MarkDisconnected(c)
  <2>1. /\ UNCHANGED <<sessions, session, subscriptions, packet, latest, local>>
        /\ pc[c] = "mark" /\ pc'[c] \in {"delete", "will"}
        /\ session[c] \in Conns /\ sessions = session[c]
        /\ heap[session[c]].expiry = "zero" => pc'[c] = "delete"
    BY <1>0, <1>b, <1>13, Zenon DEF MarkDisconnected, Attached
  <2>2. \A s \in Conns : /\ heap'[s].subscribed = heap[s].subscribed
                         /\ heap'[s].clean_start = heap[s].clean_start
                         /\ heap'[s].expiry = heap[s].expiry /\ heap'[s].will = heap[s].will
    BY <1>13, MarkWrites, Zenon DEF Base
  <2>3. Story' BY <2>1, <2>2, Zenon DEF Mirror, Story, Reading
  <2>4. Ended' BY <2>2, Zenon DEF Mirror, Ended
  <2>5. Routed' BY <2>1, <2>2, Zenon DEF Mirror, Ended, Routed, Unrouted
  <2> QED BY <2>1, <2>3, <2>4, <2>5, <1>1, Zenon
<1>14. CASE DeleteSession(c)
  <2>1. /\ UNCHANGED <<heap, session, packet, latest, local>>
        /\ sessions' = NoConn /\ pc[c] = "delete" /\ pc'[c] = "will"
    BY <1>0, <1>14, Zenon DEF DeleteSession
  <2>2. Story' BY <2>1, Zenon DEF Mirror, Story, Reading
  <2>3. Ended' BY <2>1, Zenon DEF Mirror, Ended
  <2>4. Routed' BY <2>1, Zenon DEF Routed, Unrouted
  <2> QED BY <2>1, <2>2, <2>3, <2>4, <1>1, Zenon
<1>15. CASE PublishWill(c)
  <2>1. /\ UNCHANGED <<heap, sessions, session, subscriptions, packet, latest, local>> /\ pc[c] = "will"
    BY <1>15, Zenon DEF PublishWill
  <2>2. /\ pc'[c] \in {"persist", "clear"}
        /\ pc'[c] = "persist" => local[c].will = NoConn \/ will_task'[c].state = "sleeping"
    BY <1>0, <1>15 DEF PublishWill
  <2>3. Story' BY <2>1, <2>2, Zenon DEF Mirror, Story, Reading
  <2> QED BY <2>1, <2>2, <2>3, <1>1, <1>2, Zenon
<1>16. CASE ClearWill(c)
  <2>1. /\ UNCHANGED <<sessions, session, subscriptions, packet, latest>>
        /\ pc[c] = "clear" /\ pc'[c] = "persist" /\ session[c] \in Conns
    BY <1>0, <1>a, <1>16, Zenon DEF ClearWill, HasSession, Disconnecting
  <2>2. /\ \A s \in Conns \ {session[c]} : heap'[s] = heap[s]
        /\ heap'[session[c]].will = NoConn
        /\ heap'[session[c]].subscribed = heap[session[c]].subscribed
        /\ heap'[session[c]].clean_start = heap[session[c]].clean_start
        /\ heap'[session[c]].expiry = heap[session[c]].expiry
    BY <1>16, <2>1, WillTaken, Zenon DEF Base
  <2>3. Story' BY <2>1, <2>2, Zenon DEF Story, Reading
  <2>a. \A s \in Conns : heap'[s].clean_start = heap[s].clean_start /\ heap'[s].expiry = heap[s].expiry
    BY <2>2, Zenon
  <2>4. Ended' BY <2>a, Zenon DEF Mirror, Ended
  <2>5. Routed' BY <1>0, <1>c, <2>1, <2>2, Zenon DEF Routed, Unrouted
  <2> QED BY <2>1, <2>3, <2>4, <2>5, <1>1, Zenon
<1>17. CASE Persist(c)
  <2>1. /\ UNCHANGED <<heap, sessions, session, subscriptions, packet, latest, will_task>>
        /\ pc[c] = "persist" /\ pc'[c] = "closed"
    BY <1>0, <1>17, Zenon DEF Persist
  <2>2. Story' BY <2>1, Zenon DEF Mirror, Story, Reading
  <2>3. Ended' /\ Routed' BY <2>1, <1>2, Zenon
  <2>4. StoredIsCurrent'
    <3> SUFFICES stored' = IF heap[session[c]].clean_start \/ heap[session[c]].expiry = "zero"
                           THEN NotStored
                           ELSE [subscribed |-> heap[session[c]].subscribed,
                                 will |-> IF will_task[c].state = "none" THEN heap[session[c]].will
                                          ELSE stored'.will]
      BY <2>1, Zenon DEF StoredIsCurrent
    <3>1. stored' = IF ~ heap[session[c]].clean_start /\ heap[session[c]].expiry # "zero"
                    THEN [subscribed |-> heap[session[c]].subscribed, will |-> heap[session[c]].will]
                    ELSE NotStored
      BY <1>17, Zenon DEF Persist
    <3> QED BY <3>1, Zenon
  <2> QED BY <2>2, <2>3, <2>4, Zenon DEF Mirror
<1> QED
  BY <1>3, <1>5, <1>6, <1>7, <1>8, <1>9, <1>10, <1>11, <1>12, <1>13, <1>14, <1>15, <1>16, <1>17, Zenon
     DEF handle_disconnect

\* What else may happen leaves the story of the last connection as it is: a new
\* CONNECT, which begins one, the end of a connection that is not the last, the tasks
\* of delayed wills, which may take a will that is not persisted, and time.
LEMMA MirrorOther ==
  ASSUME Orderly, Base, Mirror, NEW c \in Conns,
         CheckLimit(c) \/ (Leave(c) /\ c # latest) \/ delayed_will(c) \/ Elapse(c)
  PROVE  Mirror'
<1> USE DEF At, shared, Goto, Mine
<1>0. /\ NoConn \notin Conns /\ pc \in [Conns -> Labels] /\ session \in [Conns -> NoneOr(Conns)]
      /\ sessions \in NoneOr(Conns) /\ heap \in [Conns -> SessionObjects]
      /\ latest \in NoneOr(Conns) /\ packet \in [Conns -> ConnectPackets] /\ DOMAIN will_task = Conns
  BY LifecycleConstants, Zenon DEF Base, Typed
<1> USE DEF NoneOr
<1>1. ASSUME UNCHANGED <<heap, sessions, session, subscriptions, stored, local, will_task, latest>>,
             \A d \in Conns \ {c} : pc'[d] = pc[d] /\ packet'[d] = packet[d], c # latest
      PROVE  Mirror'
  <2>1. latest \in Conns => pc'[latest] = pc[latest] /\ packet'[latest] = packet[latest]
    BY <1>1, Zenon
  <2>2. Story' BY <1>1, <2>1, Zenon DEF Mirror, Story
  <2>3. Ended' BY <1>1, Zenon DEF Mirror, Ended
  <2>4. Routed' BY <1>1, <2>1, Zenon DEF Mirror, Routed, Unrouted
  <2>5. StoredIsCurrent' BY <1>1, <2>1, Zenon DEF Mirror, StoredIsCurrent
  <2> QED BY <2>2, <2>3, <2>4, <2>5, Zenon DEF Mirror
<1>2. CASE CheckLimit(c)
  <2>1. /\ UNCHANGED <<heap, sessions, session, subscriptions, stored, local, will_task>>
        /\ \A d \in Conns \ {c} : pc'[d] = pc[d] /\ packet'[d] = packet[d]
        /\ pc[c] = "new"
    BY <1>0, <1>2 DEF CheckLimit
  <2>a. c # latest BY <2>1, Zenon DEF Base, Core, Unheard
  <2>2. CASE latest' = latest BY <1>1, <2>1, <2>a, <2>2, Zenon
  <2>3. CASE latest' = c /\ pc'[c] = "takeover"
    <3>1. Story' BY <2>3, Zenon DEF Story, Reading
    <3>2. StoredIsCurrent' BY <2>3, Zenon DEF StoredIsCurrent
    <3>3. Ended' BY <2>1, Zenon DEF Mirror, Ended
    <3>4. latest \in Conns => pc[latest] \in {"new", "running"} \cup Gone
      BY <1>2, <2>a, Zenon DEF CheckLimit, Serial, Orderly
    <3>5. ~ Unrouted BY <3>4, Zenon DEF Mirror, Routed, Gone
    <3>6. Routed' BY <2>1, <3>5, Zenon DEF Routed, Unrouted
    <3> QED BY <3>1, <3>2, <3>3, <3>6, Zenon DEF Mirror
  <2>4. latest' = latest \/ (latest' = c /\ pc'[c] = "takeover")
    BY <1>0, <1>2, Zenon DEF CheckLimit
  <2> QED BY <2>2, <2>3, <2>4, Zenon
<1>3. CASE Leave(c) /\ c # latest
  <2>1. /\ UNCHANGED <<heap, sessions, session, subscriptions, stored, local, will_task, latest>>
        /\ \A d \in Conns \ {c} : pc'[d] = pc[d] /\ packet'[d] = packet[d]
    BY <1>0, <1>3, Zenon DEF Leave
  <2> QED BY <2>1, <1>1, <1>3, Zenon
<1>4. ASSUME UNCHANGED <<pc, packet, sessions, session, subscriptions, stored, local, latest>>,
             \A d \in Conns : will_task'[d].state = "none" <=> will_task[d].state = "none",
             \A s \in Conns : /\ heap'[s].subscribed = heap[s].subscribed
                              /\ heap'[s].clean_start = heap[s].clean_start
                              /\ heap'[s].expiry = heap[s].expiry
                              /\ heap'[s].will \in {heap[s].will, NoConn}
      PROVE  Mirror'
  <2>1. \A d \in Conns : pc[d] \in HasSession => session[d] \in Conns
    BY <1>0, Zenon DEF Base, Known
  <2>2. Story'
    BY <1>4, <2>1, Zenon DEF Mirror, Story, Reading, HasSession, Running, Disconnecting
  <2>3. Ended' BY <1>4, Zenon DEF Mirror, Ended
  <2>4. Routed'
    BY <1>0, <1>4, <2>1, Zenon DEF Mirror, Routed, Unrouted, HasSession, Disconnecting
  <2>5. StoredIsCurrent'
    <3> SUFFICES ASSUME NEW d \in Conns, pc[d] = "closed", latest = d
                 PROVE  stored = IF heap'[session[d]].clean_start \/ heap'[session[d]].expiry = "zero"
                                 THEN NotStored
                                 ELSE [subscribed |-> heap'[session[d]].subscribed,
                                       will |-> IF will_task'[d].state = "none"
                                                THEN heap'[session[d]].will ELSE stored.will]
      BY <1>4, Zenon DEF StoredIsCurrent
    <3>1. stored = IF heap[session[d]].clean_start \/ heap[session[d]].expiry = "zero"
                   THEN NotStored
                   ELSE [subscribed |-> heap[session[d]].subscribed,
                         will |-> IF will_task[d].state = "none"
                                  THEN heap[session[d]].will ELSE stored.will]
      BY Zenon DEF Mirror, StoredIsCurrent
    <3>2. session[d] \in Conns BY <2>1, Zenon DEF HasSession
    <3>3. will_task[d].state = "none" => heap'[session[d]].will = heap[session[d]].will
      BY <1>4, <3>2, Zenon DEF Mirror, Story
    <3> QED BY <1>4, <3>1, <3>2, <3>3, Zenon
  <2> QED BY <2>2, <2>3, <2>4, <2>5 DEF Mirror
<1>5. CASE CheckCurrent(c) \/ CheckDisconnected(c)
  <2>1. UNCHANGED <<pc, packet, sessions, session, subscriptions, stored, local, latest, heap>>
    BY <1>5, Zenon DEF CheckCurrent, CheckDisconnected
  <2>2. \A d \in Conns : will_task'[d].state = "none" <=> will_task[d].state = "none"
    <3>1. PICK x \in {"current", "take", "done"} : SetTask(c, x) /\ will_task[c].state # "none"
      BY <1>5, Zenon DEF CheckCurrent, CheckDisconnected
    <3> QED BY <1>0, <3>1 DEF SetTask
  <2> QED BY <1>4, <2>1, <2>2, Zenon
<1>6. CASE TakeWill(c)
  <2>1. UNCHANGED <<pc, packet, sessions, session, subscriptions, stored, local, latest>>
    BY <1>6, Zenon DEF TakeWill
  <2>2. \A d \in Conns : will_task'[d].state = "none" <=> will_task[d].state = "none"
    BY <1>0, <1>6 DEF TakeWill, SetTask
  <2>3. session[c] \in Conns BY <1>0, <1>6, Zenon DEF TakeWill, Base, Known
  <2> QED BY <1>4, <1>6, <2>1, <2>2, <2>3, WillTaken, Zenon DEF Base
<1>7. CASE Elapse(c)
  <2>1. UNCHANGED <<pc, packet, sessions, session, subscriptions, stored, local, latest, will_task>>
    BY <1>7, Zenon DEF Elapse
  <2> QED BY <1>4, <1>7, <2>1, ElapseWrites, Zenon DEF Base
<1> QED BY <1>2, <1>3, <1>5, <1>6, <1>7, Zenon DEF delayed_will

\* Session, subscription store and persisted session agree whenever the client is not
\* just connecting or leaving: every step that changes one of them is followed, in
\* the same task and before the client can come back, by the step that changes the
\* other (connect.rs:233, subscribe.rs, disconnect.rs:41, disconnect.rs:214-233).
THEOREM SessionIsMirrored == ASSUME Orderly, CleanEnds PROVE Spec => []SessionMirrored
<1>1. Init => Asked /\ Mirror
  <2> SUFFICES ASSUME Init PROVE Asked /\ Mirror
    OBVIOUS
  <2> USE LifecycleConstants DEF Init
  <2>1. Asked BY DEF Asked
  <2>2. Story /\ Ended /\ Routed
    BY Zenon DEF Story, Ended, Routed, Unrouted, NewSession
  <2>3. StoredIsCurrent BY Zenon DEF StoredIsCurrent, At
  <2> QED BY <2>1, <2>2, <2>3, Zenon DEF Mirror
<1>2. Base /\ Asked /\ Mirror /\ [Next]_vars => Asked' /\ Mirror'
  <2> SUFFICES ASSUME Base, Asked, Mirror, [Next]_vars PROVE Asked' /\ Mirror'
    OBVIOUS
  <2>1. Asked' BY AskedStep, Zenon
  <2>2. ASSUME NEW c \in Conns,
               \/ handle_connect(c) \/ run_connected(c) \/ ChangeSession(c)
               \/ handle_disconnect(c) \/ delayed_will(c) \/ Elapse(c)
        PROVE  Mirror'
    <3>1. CASE c = latest
      BY <2>2, <3>1, MirrorLast, MirrorOther, Zenon
         DEF handle_connect, run_connected, TakenOver, Fails
    <3>2. CASE c # latest
      <4>1. pc[c] \in Idle /\ ~ (pc[c] = "running" /\ Quiet(c))
        BY <3>2, LastActs, Zenon DEF Base
      <4>2. ~ \/ Takeover(c) \/ get_or_create(c) \/ CreateNew(c) \/ ClearSubscriptions(c)
              \/ UpdateSession(c) \/ Register(c) \/ SendConnack(c)
        BY <4>1, Zenon DEF Takeover, get_or_create, CreateNew, ClearSubscriptions, UpdateSession, Register,
           SendConnack, At, Idle, Gone
      <4>3. ~ (ChangeSession(c) \/ handle_disconnect(c))
        BY <4>1, Zenon DEF ChangeSession, handle_disconnect, RemoveConnection, ReadSession, UnsubscribeAll,
           MarkDisconnected, DeleteSession, PublishWill, ClearWill, Persist, At, Idle, Gone
      <4>4. ~ (ChangeStore(c) \/ StartDisconnect(c))
        BY <4>1, Zenon DEF ChangeStore, StartDisconnect, At
      <4> QED
        BY <2>2, <3>2, <4>2, <4>3, <4>4, MirrorOther, Zenon
           DEF handle_connect, run_connected, TakenOver, Fails
    <3> QED BY <3>1, <3>2, Zenon
  <2>3. CASE cleanup_expired \/ UNCHANGED vars
    <3>1. /\ UNCHANGED <<pc, packet, heap, session, subscriptions, stored, local, will_task, latest>>
          /\ sessions' \in {sessions, NoConn}
      BY <2>3, Zenon DEF cleanup_expired, vars, shared
    <3>2. Story' BY <3>1, Zenon DEF Mirror, Story, Mine
    <3>3. Ended' /\ Routed' BY <3>1, Zenon DEF Mirror, Ended, Routed, Unrouted, Mine
    <3>4. StoredIsCurrent' BY <3>1, Zenon DEF Mirror, StoredIsCurrent, Mine, At
    <3> QED BY <2>1, <3>2, <3>3, <3>4, Zenon DEF Mirror
  <2> QED BY <2>1, <2>2, <2>3, Zenon DEF Next
<1>3. (AllTold => Asked /\ Mirror) /\ (AllTold => Base) /\ [Next]_vars => (AllTold => Asked /\ Mirror)'
  BY <1>2, ToldBefore, Zenon
<1>4. (AllTold => Asked /\ Mirror) /\ (AllTold => Base) => SessionMirrored
  <2> SUFFICES ASSUME Base, Mirror PROVE SubscribedIsRouted /\ CleanStartIsClean /\ StoredIsCurrent
    BY Zenon DEF SessionMirrored
  <2>1. SubscribedIsRouted
    BY Zenon DEF Mirror, Routed, Unrouted, SubscribedIsRouted, Gone
  <2>2. CleanStartIsClean
    <3> SUFFICES ASSUME NEW c \in Conns, pc[c] = "running", latest = c, packet[c].clean_start
                 PROVE  subscriptions = Mine(c).subscribed
      BY Zenon DEF CleanStartIsClean, At
    <3>1. session[c] \in Conns
      BY Zenon DEF Base, Known, Typed, NoneOr, HasSession, Running
    <3>2. Mine(c).subscribed \in BOOLEAN /\ subscriptions \in BOOLEAN
      BY <3>1, Zenon DEF Base, Typed, SessionObjects, Mine
    <3>3. Mine(c).subscribed <=> subscriptions BY Zenon DEF Mirror, Story
    <3> QED BY <3>2, <3>3, Zenon
  <2> QED BY <2>1, <2>2, Zenon DEF Mirror
<1>5. Spec => [](AllTold => Base) BY BaseAlways, Zenon
<1> QED BY <1>1, <1>3, <1>4, <1>5, PTL DEF Spec
====
