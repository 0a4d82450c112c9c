------------------------ MODULE ConnectionLifecycle ------------------------
(***************************************************************************)
(* How a connection comes and goes: handle_connect, the exits of           *)
(* run_connected, handle_disconnect with its delayed will task             *)
(* (src/src/broker/connection/{connect,mod,disconnect,subscribe}.rs), and  *)
(* the session store (src/src/session/mod.rs).                             *)
(*                                                                         *)
(* A connection task is identified by a member of Conns.  It shares with   *)
(* the others three maps, connections, sessions and the subscription       *)
(* store, and the Session objects, each behind a lock of its own: a step   *)
(* is one access to one of them.  A Session object is named after the task *)
(* that created it.  All tasks belong to one client identifier; the rest   *)
(* of the maps is seen only through connections.len().  Subscriptions are  *)
(* reduced to one filter.                                                  *)
(***************************************************************************)
EXTENDS Integers, FiniteSets

CONSTANTS
  Conns,           \* connection tasks
  NoConn,
  Connects,        \* the CONNECT packets, see ConnectPackets
  MayBeFull,       \* other clients may have used up max_connections
  ChannelsMayFill, \* try_send may find the channel full
  ConcurrentConnects, \* see Serial
  LateEvents          \* see Quiet

\* session_expiry_interval as assigned by handle_connect: delete at once, some
\* time, 0xFFFFFFFF.
Expiries == {"zero", "finite", "never"}

\* will_delay_interval: the property is missing, is 0, or is positive.
Delays == {"absent", "zero", "positive"}

ConnectPackets ==
  [clean_start : BOOLEAN, expiry : Expiries, will : BOOLEAN, delay : Delays]

ASSUME LifecycleConstants ==
  /\ NoConn \notin Conns
  /\ Connects \subseteq ConnectPackets
  /\ {MayBeFull, ChannelsMayFill, ConcurrentConnects, LateEvents} \subseteq BOOLEAN

VARIABLES
  pc,            \* task -> where it is
  packet,        \* task -> the CONNECT it received
  connections,   \* the client's entry: the task that owns the sender, or NoConn
  sessions,      \* the client's entry: a Session object, or NoConn
  heap,          \* Session object -> its fields
  session,       \* task -> the object it works on, or NoConn
  inbox,         \* task -> what takeovers did to its channel, see Takeover
  subscriptions, \* the client has its subscription in the subscription store
  stored,        \* the session last handed to persistence, or NotStored
  local,         \* task -> what handle_disconnect keeps in its locals
  will_task,     \* task -> its delayed will task
  published,     \* history: task -> how often the will of its CONNECT went out
  latest,        \* history: the task that accepted the last CONNECT
  clock          \* Instant::now() at the last disconnection

shared == <<connections, sessions, subscriptions, stored>>
vars == <<pc, packet, shared, heap, session, inbox, local, will_task,
          published, latest, clock>>

Connecting == {"takeover", "session", "create", "cleanup", "update",
               "register", "connack"}
Running == {"running", "subscribe", "unsubscribe"}
Disconnecting == {"remove", "read", "unsubscribe_all", "mark", "delete",
                  "will", "clear", "persist"}
\* "closed" after handle_disconnect, "dead" without it.
Gone == {"closed", "dead", "rejected"}
Labels == {"new"} \cup Connecting \cup Running \cup Disconnecting \cup Gone

NewSession ==
  [state |-> "Connected", clean_start |-> TRUE, expiry |-> "zero",
   elapsed |-> FALSE, subscribed |-> FALSE, will |-> NoConn,
   delayed |-> FALSE, disconnected_at |-> 0]

NotStored == [subscribed |-> FALSE, will |-> NoConn]

NewLocal == [publish_will |-> FALSE, clean_start |-> FALSE, will |-> NoConn,
             delayed |-> FALSE]

is_expired(s) ==
  /\ s.state = "Disconnected"
  /\ s.expiry = "zero" \/ (s.expiry = "finite" /\ s.elapsed)

Goto(c, label) == pc' = [pc EXCEPT ![c] = label]
At(c, label) == pc[c] = label
Mine(c) == heap[session[c]]

\* Unless ConcurrentConnects, a client starts one handshake at a time, and not
\* while a packet or the end of its old connection is being handled.
Serial(c) ==
  ConcurrentConnects
  \/ \A d \in Conns \ {c} : pc[d] \in {"new", "running"} \cup Gone

\* A Disconnect is in the task's channel; some takeover found a channel full.
Told(c) == "sent" \in inbox[c]
AllTold == \A c \in Conns : "full" \notin inbox[c]

\* Unless LateEvents, nothing more arrives on a connection once the client has
\* begun another handshake.
Quiet(c) ==
  LateEvents
  \/ (~ Told(c) /\ \A d \in Conns \ {c} : pc[d] \notin Connecting)

-----------------------------------------------------------------------------
(* handle_connect *)

\* CONNECT is read and authenticated, then max_connections is checked.
CheckLimit(c) ==
  /\ At(c, "new") /\ Serial(c)
  /\ packet' \in {[packet EXCEPT ![c] = p] : p \in Connects}
  /\ \/ /\ latest' = c
        /\ Goto(c, "takeover")
     \/ /\ connections = NoConn /\ MayBeFull
        /\ Goto(c, "rejected")
        /\ UNCHANGED latest
  /\ UNCHANGED <<shared, heap, session, inbox, local, will_task, published,
                 clock>>

\* Mutant: the old task is not told.
TakeoverSilent(c) ==
  /\ At(c, "takeover")
  /\ Goto(c, "session")
  /\ UNCHANGED <<packet, shared, heap, session, inbox, local, will_task,
                 published, latest, clock>>

Signal(result) ==
  inbox' = [d \in Conns |-> IF d = connections THEN inbox[d] \cup {result} ELSE inbox[d]]

\* The task whose sender is in the map is sent a Disconnect with try_send; the
\* result, that its channel is full, is ignored (and remembered here as history).
Takeover(c) ==
  /\ At(c, "takeover")
  /\ Goto(c, "session")
  /\ Signal("sent") \/ (ChannelsMayFill /\ Signal("full"))
  /\ UNCHANGED <<packet, shared, heap, session, local, will_task, published,
                 latest, clock>>

Create(c) ==
  /\ heap' = [heap EXCEPT ![c] = NewSession]
  /\ sessions' = c
  /\ session' = [session EXCEPT ![c] = c]

get_or_create(c) ==
  LET s == sessions
      resumable == IF s = NoConn THEN FALSE ELSE ~ is_expired(heap[s])
  IN  /\ At(c, "session")
      /\ \/ /\ packet[c].clean_start
            /\ Create(c)
            /\ Goto(c, "cleanup")
         \/ /\ ~ packet[c].clean_start
            /\ resumable
            /\ heap' = [heap EXCEPT ![s].state = "Connected",
                                    ![s].disconnected_at = 0]
            /\ session' = [session EXCEPT ![c] = s]
            /\ Goto(c, "update")
            /\ UNCHANGED sessions
         \/ /\ ~ packet[c].clean_start
            /\ ~ resumable
            /\ Goto(c, "create")
            /\ UNCHANGED <<heap, sessions, session>>
      /\ UNCHANGED <<packet, connections, subscriptions, stored, inbox, local,
                     will_task, published, latest, clock>>

\* The guard on the map's entry has been released when the new object goes in.
CreateNew(c) ==
  /\ At(c, "create")
  /\ Create(c)
  /\ Goto(c, "update")
  /\ UNCHANGED <<packet, connections, subscriptions, stored, inbox, local,
                 will_task, published, latest, clock>>

ClearSubscriptions(c) ==
  /\ At(c, "cleanup")
  /\ subscriptions' = FALSE
  /\ Goto(c, "update")
  /\ UNCHANGED <<packet, connections, sessions, stored, heap, session, inbox,
                 local, will_task, published, latest, clock>>

\* A CONNECT without a will leaves the will of the object as it is, one without
\* a delay the delay.
UpdateSession(c) ==
  LET p == packet[c]
      s == Mine(c)
  IN  /\ At(c, "update")
      /\ heap' = [heap EXCEPT ![session[c]] =
                    [s EXCEPT !.clean_start = p.clean_start,
                              !.expiry = p.expiry,
                              !.will = IF p.will THEN c ELSE s.will,
                              !.delayed = IF p.will /\ p.delay # "absent"
                                          THEN p.delay = "positive" ELSE s.delayed]]
      /\ Goto(c, "register")
      /\ UNCHANGED <<packet, shared, session, inbox, local, will_task,
                     published, latest, clock>>

\* Mutant: an entry that is there already is kept.
RegisterIfVacant(c) ==
  /\ At(c, "register")
  /\ connections' = IF connections = NoConn THEN c ELSE connections
  /\ Goto(c, "connack")
  /\ UNCHANGED <<packet, sessions, subscriptions, stored, heap, session, inbox,
                 local, will_task, published, latest, clock>>

Register(c) ==
  /\ At(c, "register")
  /\ connections' = c
  /\ Goto(c, "connack")
  /\ UNCHANGED <<packet, sessions, subscriptions, stored, heap, session, inbox,
                 local, will_task, published, latest, clock>>

\* CONNACK, queued and retained messages are written; a write error or the 30 s
\* timeout around handle_connect ends the task.
SendConnack(c) ==
  /\ At(c, "connack")
  /\ Goto(c, "running") \/ Goto(c, "dead")
  /\ UNCHANGED <<packet, shared, heap, session, inbox, local, will_task,
                 published, latest, clock>>

-----------------------------------------------------------------------------
(* run_connected *)

\* SUBSCRIBE and UNSUBSCRIBE change the store first, the session second.
ChangeStore(c) ==
  /\ At(c, "running") /\ Quiet(c)
  /\ \/ /\ subscriptions' = TRUE
        /\ Goto(c, "subscribe")
     \/ /\ subscriptions' = FALSE
        /\ Goto(c, "unsubscribe")
  /\ UNCHANGED <<packet, connections, sessions, stored, heap, session, inbox,
                 local, will_task, published, latest, clock>>

ChangeSession(c) ==
  /\ pc[c] \in {"subscribe", "unsubscribe"}
  /\ heap' = [heap EXCEPT ![session[c]].subscribed = At(c, "subscribe")]
  /\ Goto(c, "running")
  /\ UNCHANGED <<packet, shared, session, inbox, local, will_task, published, latest, clock>>

\* handle_disconnect starts: with the will on end of file, a failed handler or
\* a keep-alive timeout, without it on a DISCONNECT of the client.
StartDisconnect(c) ==
  /\ At(c, "running") /\ Quiet(c)
  /\ \E with_will \in BOOLEAN :
       local' = [local EXCEPT ![c] = [NewLocal EXCEPT !.publish_will = with_will]]
  /\ Goto(c, "remove")
  /\ UNCHANGED <<packet, shared, heap, session, inbox, will_task, published, latest, clock>>

\* The Disconnect of a takeover ends the task without handle_disconnect, and so
\* does an error passed on with `?' (malformed packet, failed write of an
\* outgoing one).
Leave(c) ==
  /\ At(c, "running")
  /\ Goto(c, "dead")
  /\ UNCHANGED <<packet, shared, heap, session, inbox, local, will_task,
                 published, latest, clock>>

TakenOver(c) == Told(c) /\ Leave(c)

Fails(c) == Quiet(c) /\ Leave(c)

-----------------------------------------------------------------------------
(* handle_disconnect *)

RemoveConnection(c) ==
  /\ At(c, "remove")
  /\ connections' = NoConn
  /\ Goto(c, "read")
  /\ UNCHANGED <<packet, sessions, subscriptions, stored, heap, session, inbox,
                 local, will_task, published, latest, clock>>

\* Mutant: subscriptions are removed whatever clean_start says.
ReadSessionAlways(c) ==
  /\ At(c, "read")
  /\ local' = [local EXCEPT ![c].clean_start = Mine(c).clean_start,
                            ![c].will = Mine(c).will,
                            ![c].delayed = Mine(c).delayed]
  /\ Goto(c, "unsubscribe_all")
  /\ UNCHANGED <<packet, shared, heap, session, inbox, will_task, published,
                 latest, clock>>

ReadSession(c) ==
  /\ At(c, "read")
  /\ local' = [local EXCEPT ![c].clean_start = Mine(c).clean_start,
                            ![c].will = Mine(c).will,
                            ![c].delayed = Mine(c).delayed]
  /\ Goto(c, IF Mine(c).clean_start THEN "unsubscribe_all" ELSE "mark")
  /\ UNCHANGED <<packet, shared, heap, session, inbox, will_task, published, latest, clock>>

UnsubscribeAll(c) ==
  /\ At(c, "unsubscribe_all")
  /\ subscriptions' = FALSE
  /\ Goto(c, "mark")
  /\ UNCHANGED <<packet, connections, sessions, stored, heap, session, inbox,
                 local, will_task, published, latest, clock>>

\* SessionStore::disconnect looks the client's session up again.
MarkDisconnected(c) ==
  LET s == sessions
  IN  /\ At(c, "mark")
      /\ clock' = clock + 1
      /\ IF s = NoConn
         THEN Goto(c, "will") /\ UNCHANGED heap
         ELSE /\ heap' = [heap EXCEPT ![s].state = "Disconnected",
                                      ![s].elapsed = FALSE,
                                      ![s].disconnected_at = clock']
              /\ Goto(c, IF heap[s].expiry = "zero" THEN "delete" ELSE "will")
      /\ UNCHANGED <<packet, shared, session, inbox, local, will_task,
                     published, latest>>

DeleteSession(c) ==
  /\ At(c, "delete")
  /\ sessions' = NoConn
  /\ Goto(c, "will")
  /\ UNCHANGED <<packet, connections, subscriptions, stored, heap, session,
                 inbox, local, will_task, published, latest, clock>>

Count(will) == [published EXCEPT ![will] = @ + 1]

\* The will read before goes out, now or by a task that sleeps first; without
\* publish_will the will of the object is dropped.
PublishWill(c) ==
  LET l == local[c]
  IN  /\ At(c, "will")
      /\ \/ /\ l.publish_will /\ l.will = NoConn
            /\ Goto(c, "persist")
            /\ UNCHANGED <<will_task, published>>
         \/ /\ l.publish_will /\ l.will # NoConn /\ l.delayed
            /\ will_task' = [will_task EXCEPT ![c] =
                 [state |-> "sleeping", disconnected_at |-> Mine(c).disconnected_at]]
            /\ Goto(c, "persist")
            /\ UNCHANGED published
         \/ /\ l.publish_will /\ l.will # NoConn /\ ~ l.delayed
            /\ published' = Count(l.will)
            /\ Goto(c, "clear")
            /\ UNCHANGED will_task
         \/ /\ ~ l.publish_will
            /\ Goto(c, "clear")
            /\ UNCHANGED <<will_task, published>>
      /\ UNCHANGED <<packet, shared, heap, session, inbox, local, latest, clock>>

\* Mutant: a published or dropped will stays in the session.
ClearWillNot(c) ==
  /\ At(c, "clear")
  /\ Goto(c, "persist")
  /\ UNCHANGED <<packet, shared, heap, session, inbox, local, will_task,
                 published, latest, clock>>

ClearWill(c) ==
  /\ At(c, "clear")
  /\ heap' = [heap EXCEPT ![session[c]].will = NoConn]
  /\ Goto(c, "persist")
  /\ UNCHANGED <<packet, shared, session, inbox, local, will_task, published, latest, clock>>

\* SetSession or DeleteSession goes to the persistence writer.
Persist(c) ==
  LET keep == ~ Mine(c).clean_start /\ Mine(c).expiry # "zero"
  IN  /\ At(c, "persist")
      /\ stored' = IF keep THEN [subscribed |-> Mine(c).subscribed,
                                 will |-> Mine(c).will]
                   ELSE NotStored
      /\ Goto(c, "closed")
      /\ UNCHANGED <<packet, connections, sessions, subscriptions, heap,
                     session, inbox, local, will_task, published, latest, clock>>

-----------------------------------------------------------------------------
(* The delayed will task, and time. *)

SetTask(c, state) == will_task' = [will_task EXCEPT ![c].state = state]

\* After the sleep: is the object still the client's session?
CheckCurrent(c) ==
  /\ will_task[c].state = "sleeping"
  /\ SetTask(c, IF sessions = session[c]
                THEN "current" ELSE "done")
  /\ UNCHANGED <<pc, packet, shared, heap, session, inbox, local, published, latest, clock>>

\* Mutant: the time of disconnection was captured before it was set.
CheckDisconnectedUnset(c) ==
  /\ will_task[c].state = "current"
  /\ SetTask(c, IF /\ Mine(c).state = "Disconnected"
                   /\ Mine(c).will # NoConn
                   /\ Mine(c).disconnected_at = 0
                THEN "take" ELSE "done")
  /\ UNCHANGED <<pc, packet, shared, heap, session, inbox, local, published,
                 latest, clock>>

\* Is it disconnected since the same disconnection, with a will?
CheckDisconnected(c) ==
  /\ will_task[c].state = "current"
  /\ SetTask(c, IF /\ Mine(c).state = "Disconnected"
                   /\ Mine(c).will # NoConn
                   /\ Mine(c).disconnected_at = will_task[c].disconnected_at
                THEN "take" ELSE "done")
  /\ UNCHANGED <<pc, packet, shared, heap, session, inbox, local, published, latest, clock>>

TakeWill(c) ==
  /\ will_task[c].state = "take"
  /\ heap' = [heap EXCEPT ![session[c]].will = NoConn]
  /\ published' = IF Mine(c).will = NoConn THEN published
                  ELSE Count(Mine(c).will)
  /\ SetTask(c, "done")
  /\ UNCHANGED <<pc, packet, shared, session, inbox, local, latest, clock>>

\* A finite session_expiry_interval runs out.
Elapse(s) ==
  /\ heap[s].state = "Disconnected" /\ heap[s].expiry = "finite"
  /\ ~ heap[s].elapsed
  /\ heap' = [heap EXCEPT ![s].elapsed = TRUE]
  /\ UNCHANGED <<pc, packet, shared, session, inbox, local, will_task,
                 published, latest, clock>>

\* The periodic task, one entry of the map.
cleanup_expired ==
  /\ sessions # NoConn
  /\ is_expired(heap[sessions])
  /\ sessions' = NoConn
  /\ UNCHANGED <<pc, packet, connections, subscriptions, stored, heap, session,
                 inbox, local, will_task, published, latest, clock>>

-----------------------------------------------------------------------------
NoPacket == [clean_start |-> TRUE, expiry |-> "zero", will |-> FALSE,
             delay |-> "absent"]
NoTask == [state |-> "none", disconnected_at |-> 0]

Init ==
  /\ pc = [c \in Conns |-> "new"]
  /\ packet = [c \in Conns |-> NoPacket]
  /\ connections = NoConn
  /\ sessions = NoConn
  /\ heap = [c \in Conns |-> NewSession]
  /\ session = [c \in Conns |-> NoConn]
  /\ inbox = [c \in Conns |-> {}]
  /\ subscriptions = FALSE
  /\ stored = NotStored
  /\ local = [c \in Conns |-> NewLocal]
  /\ will_task = [c \in Conns |-> NoTask]
  /\ published = [c \in Conns |-> 0]
  /\ latest = NoConn
  /\ clock = 0

handle_connect(c) ==
  \/ CheckLimit(c) \/ Takeover(c) \/ get_or_create(c) \/ CreateNew(c)
  \/ ClearSubscriptions(c) \/ UpdateSession(c) \/ Register(c) \/ SendConnack(c)

run_connected(c) ==
  ChangeStore(c) \/ StartDisconnect(c) \/ TakenOver(c) \/ Fails(c)

handle_disconnect(c) ==
  \/ RemoveConnection(c) \/ ReadSession(c) \/ UnsubscribeAll(c)
  \/ MarkDisconnected(c) \/ DeleteSession(c) \/ PublishWill(c) \/ ClearWill(c)
  \/ Persist(c)

delayed_will(c) == CheckCurrent(c) \/ CheckDisconnected(c) \/ TakeWill(c)

Next ==
  \/ \E c \in Conns :
       \/ handle_connect(c) \/ run_connected(c) \/ ChangeSession(c)
       \/ handle_disconnect(c) \/ delayed_will(c) \/ Elapse(c)
  \/ cleanup_expired

Spec == Init /\ [][Next]_vars

\* Tasks that can go on do: the runtime starves none, and sleeps end.  Whether
\* clients connect, subscribe or go is up to them.
FairSpec ==
  /\ Spec
  /\ \A c \in Conns :
       /\ WF_vars(~ At(c, "new") /\ handle_connect(c))
       /\ WF_vars(TakenOver(c)) /\ WF_vars(ChangeSession(c))
       /\ WF_vars(handle_disconnect(c)) /\ WF_vars(delayed_will(c))

-----------------------------------------------------------------------------
\* The connection a client opened last is the one messages go to: it is in
\* "Active connections (client_id -> connection handle)" (broker/mod.rs:213), and
\* its Session is the one in the store and marked Connected, so that it is neither
\* expired nor replaced, whatever became of earlier connections.  Once a takeover
\* has found the channel of the old connection full there are two connections, and
\* the old one removes the new one's entry when it ends: see TakenOverEnds.
Registered ==
  AllTold =>
    \A c \in Conns :
      pc[c] \in Running /\ latest = c =>
        /\ connections = c
        /\ sessions = session[c]
        /\ Mine(c).state = "Connected"

\* A will goes out once at most, though the object that holds it survives
\* reconnections, a delayed task and handle_disconnect may both find it, and a
\* CONNECT without a will leaves the old one in place (connect.rs:276).  Not so for
\* a reconnection with an explicit delay of 0 between a task's check and its take:
\* the task takes the new will, and handle_disconnect publishes it as well.  Nor for
\* two connections that work on one session after a takeover found a full channel.
WillAtMostOnce == AllTold => \A c \in Conns : published[c] <= 1

\* What a resumed session says it is subscribed to is in the subscription store
\* whenever the client is not just connecting or leaving: messages for it are
\* found (connect.rs:233, disconnect.rs:41).  Of a CONNECT with Clean Start and a
\* session_expiry_interval this is not true: handle_disconnect then empties the
\* store and keeps the session.
SubscribedIsRouted ==
  /\ \A c \in Conns : pc[c] \in {"new", "running"} \cup Gone
  /\ sessions # NoConn
  => (heap[sessions].subscribed => subscriptions)

\* A connection that began with Clean Start is routed nothing but what it has
\* subscribed to itself, though sessions that expire or end with an error leave
\* their subscriptions in the store (session/mod.rs:474, connect.rs:233).
CleanStartIsClean ==
  \A c \in Conns :
    At(c, "running") /\ latest = c /\ packet[c].clean_start =>
      subscriptions = Mine(c).subscribed

\* After a connection is closed, and until the client comes back, persistence
\* has what the session has: its subscriptions, and no will that DISCONNECT
\* deleted (disconnect.rs:214-233).
StoredIsCurrent ==
  \A c \in Conns :
    /\ At(c, "closed")
    /\ latest = c
    => stored =
         IF Mine(c).clean_start \/ Mine(c).expiry = "zero" THEN NotStored
         ELSE [subscribed |-> Mine(c).subscribed,
               will |-> IF will_task[c].state = "none" THEN Mine(c).will
                        ELSE stored.will]

\* Session, subscription store and persisted session tell the same story, though
\* each is changed under a lock of its own, step by step in handle_connect,
\* handle_subscribe, handle_disconnect and cleanup_expired; as long as a client that
\* came back had its old connection told to leave.
SessionMirrored ==
  AllTold => SubscribedIsRouted /\ CleanStartIsClean /\ StoredIsCurrent

\* A connection that has been taken over ends, without a word from its client,
\* unless its channel was full when the takeover tried to send it the Disconnect:
\* that result is ignored (connect.rs:216), and the old connection then stays for as
\* long as its client and its keep-alive let it, although "the Server MUST
\* disconnect the existing Client" (docs/mqtt-rfc/v3.1.1/05.01-connect.md:255).
TakenOverEnds ==
  \A c \in Conns :
    pc[c] \in Running /\ latest # c ~> pc[c] \in Gone \/ "full" \in inbox[c]

\* The connection is over, and not because its client sent a DISCONNECT.
EndedWithout(c) == At(c, "dead") \/ (At(c, "closed") /\ local[c].publish_will)

\* What becomes of the will of a connection that ended without DISCONNECT.  After
\* end of file, a failed handler or a keep-alive timeout it goes out; a delayed one
\* goes out unless the client comes back or the session is gone before
\* (disconnect.rs:73-99).  After a malformed packet, a failed write or a takeover,
\* where run_connected returns without handle_disconnect (mod.rs:221, mod.rs:262),
\* it does not, although it should on an "I/O error" and when the "Server closes
\* Network Connection because of a protocol error"
\* (docs/mqtt-rfc/v3.1.1/05.01-connect.md:128-134): it stays in the session, for the
\* next connection to take over.
WillGoesOut ==
  \A c \in Conns :
    EndedWithout(c) /\ packet[c].will /\ AllTold
      ~> \/ published[c] > 0
         \/ At(c, "closed") /\ local[c].delayed /\ (latest # c \/ sessions # session[c])
         \/ At(c, "dead") /\ (latest # c \/ (sessions = session[c] /\ Mine(c).will = c))
         \/ ~ AllTold
=============================================================================
