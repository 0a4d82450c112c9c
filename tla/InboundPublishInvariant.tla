---------------------- MODULE InboundPublishInvariant ----------------------
(***************************************************************************)
(* The inductive invariant of InboundPublish for a publisher whose         *)
(* connections do not overlap, and its preservation by the steps of the    *)
(* broker's connection task.                                               *)
(*                                                                         *)
(* RoutedAsAnswered is not inductive.  A routed message must not be        *)
(* stored again, so the argument has to know that no PUBLISH of it is      *)
(* under way; and a PUBREL names only an id, so it has to know which       *)
(* message is stored under that id.  Both follow from one picture: on the  *)
(* present connection, every message that waits for an acknowledgement has *)
(* at most one token, which is its packet on the way to the broker, the    *)
(* handler that has not answered yet, or the answer on the way back.       *)
(***************************************************************************)
EXTENDS InboundPublish, TLAPS

\* The publisher's connections do not overlap.
Sequential == ~ Overlap

queue == to_broker[conn]
handler == task[conn]

Handlers ==
  [step : {"insert", "respond", "retain", "route"},
   type : {"PUBACK", "PUBREC", "PUBCOMP"}, id : PacketIds,
   msg : Messages \cup {NoMsg}, ok : BOOLEAN]

Shape ==
  /\ conn \in Conns /\ up \in BOOLEAN /\ (~ up => conn < MaxConnections)
  /\ to_broker \in [Conns -> Seq(PacketType)]
  /\ to_client \in Seq(AnswerType)
  /\ \A i \in DOMAIN to_client : to_client[i].type = "PUBCOMP" => to_client[i].ok
  /\ task \in [Conns -> Handlers \cup {Idle, Gone}]
  /\ DOMAIN inflight_incoming \subseteq PacketIds
  /\ \A id \in DOMAIN inflight_incoming : inflight_incoming[id] \in Messages
  /\ sent \in [Messages -> {"new", "published", "released", "done", "refused"}]
  /\ ids \in [Messages -> PacketIds \cup {0}]
  /\ routed \in [Messages -> Nat]

\* Only the task of the present connection is at work.
OneTask ==
  /\ \A c \in Conns : c < conn => task[c] = Gone
  /\ \A c \in Conns : c > conn => task[c] = Idle /\ to_broker[c] = <<>>
  /\ ~ up => to_client = <<>>

\* What a handler has in its hands, by its step and by the packet it answers with.
Handling ==
  handler \in Handlers =>
    /\ handler.type # "PUBCOMP" => handler.msg \in Messages
    /\ handler.type = "PUBACK" => Qos[handler.msg] = 1
    /\ handler.type = "PUBREC" => Qos[handler.msg] \in {0, 2}
    /\ handler.type = "PUBREC" /\ handler.step \in {"insert", "respond", "route"} =>
         (Qos[handler.msg] = 2 <=> handler.step # "route")
    /\ handler.type = "PUBCOMP" =>
         /\ handler.step \in {"respond", "route"} /\ handler.ok
         /\ handler.msg \in Messages => Qos[handler.msg] = 2
         /\ handler.step = "route" => handler.msg \in Messages
    /\ handler.step = "insert" => handler.type = "PUBREC" /\ handler.ok

\* The state in which the publisher waits for an answer of this type.
Awaits(type) == IF type = "PUBCOMP" THEN "released" ELSE "published"

\* Tokens.
InQueue(id) == \E i \in DOMAIN queue : Qos[queue[i].msg] > 0 /\ queue[i].id = id
InHandler(id) ==
  handler \in Handlers /\ handler.step \in {"insert", "respond"} /\ handler.id = id
InAnswers(id) == \E i \in DOMAIN to_client : to_client[i].id = id

Tokens ==
  /\ \A i \in DOMAIN queue : Qos[queue[i].msg] > 0 =>
       /\ ids[queue[i].msg] = queue[i].id
       /\ sent[queue[i].msg] =
            IF queue[i].type = "PUBLISH" THEN "published" ELSE "released"
  /\ \A i \in DOMAIN queue : queue[i].type = "PUBREL" => Qos[queue[i].msg] = 2
  /\ handler \in Handlers /\ handler.step \in {"insert", "respond"} =>
       \E m \in Messages :
         /\ ids[m] = handler.id /\ sent[m] = Awaits(handler.type)
         /\ handler.type # "PUBCOMP" => m = handler.msg
  /\ \A i \in DOMAIN to_client :
       \E m \in Messages :
         /\ ids[m] = to_client[i].id /\ sent[m] = Awaits(to_client[i].type)
         /\ to_client[i].type = "PUBREC" => Qos[m] = 2

OneToken ==
  /\ \A i, j \in DOMAIN queue :
       Qos[queue[i].msg] > 0 /\ Qos[queue[j].msg] > 0 /\ queue[i].id = queue[j].id
       => i = j
  /\ \A i, j \in DOMAIN to_client : to_client[i].id = to_client[j].id => i = j
  /\ \A id \in PacketIds :
       /\ ~ (InQueue(id) /\ InHandler(id))
       /\ ~ (InQueue(id) /\ InAnswers(id))
       /\ ~ (InHandler(id) /\ InAnswers(id))

\* A waiting message has an id, and the id is its own.
IdsUnique ==
  /\ \A m \in Messages :
       /\ sent[m] \in Wait => ids[m] \in PacketIds
       /\ sent[m] = "released" => Qos[m] = 2
  /\ \A m, n \in Messages :
       sent[m] \in Wait /\ sent[n] \in Wait /\ ids[m] = ids[n] => m = n

\* The message was taken out of the session, and is about to be routed.
Taken(m) ==
  /\ handler \in Handlers /\ handler.type = "PUBCOMP" /\ handler.msg = m

Exactly ==
  /\ \A id \in DOMAIN inflight_incoming :
       LET m == inflight_incoming[id]
       IN  /\ ids[m] = id /\ Qos[m] = 2 /\ sent[m] # "new"
           /\ routed[m] = 0 /\ ~ Taken(m)
  /\ \A m \in Messages : Qos[m] = 2 =>
       /\ routed[m] > 0 \/ Taken(m) => sent[m] \in {"released", "done"}
       /\ Taken(m) => routed[m] = 0
       /\ routed[m] <= 1

\* With MQTT 5 a PUBREC without error means that the message is stored, and stays
\* so until its PUBREL; without, the publisher never hears of a refusal.
Refusals ==
  /\ V5 =>
       /\ handler \in Handlers /\ handler.step = "respond"
            /\ handler.type = "PUBREC" /\ handler.ok =>
            /\ handler.id \in DOMAIN inflight_incoming
            /\ inflight_incoming[handler.id] = handler.msg
       /\ \A i \in DOMAIN to_client :
            to_client[i].type = "PUBREC" /\ to_client[i].ok =>
              /\ to_client[i].id \in DOMAIN inflight_incoming
              /\ sent[inflight_incoming[to_client[i].id]] = "published"
       /\ \A m \in Messages :
            sent[m] = "released" /\ ids[m] \in DOMAIN inflight_incoming =>
              inflight_incoming[ids[m]] = m
  /\ ~ V5 =>
       /\ \A i \in DOMAIN to_client : to_client[i].ok
       /\ \A m \in Messages : sent[m] # "refused"

\* A QoS 1 message is being routed.
Routing(m) ==
  \/ routed[m] > 0
  \/ /\ handler \in Handlers /\ handler.step \in {"retain", "route"}
     /\ handler.msg = m

\* Its publisher has the PUBACK, or the PUBACK is on the way.
Puback(m) ==
  \/ sent[m] = "done"
  \/ /\ sent[m] = "published"
     /\ \E i \in DOMAIN to_client :
          to_client[i].type = "PUBACK" /\ to_client[i].id = ids[m]

Acks ==
  /\ handler \in Handlers /\ handler.type = "PUBACK" /\ handler.msg \notin Denied =>
       handler.ok
  /\ \A m \in Messages \ Denied : Qos[m] = 1 /\ Puback(m) => Routing(m)

IInv ==
  /\ Shape /\ OneTask /\ Handling /\ Tokens /\ OneToken /\ IdsUnique
  /\ Exactly /\ Refusals

USE InboundConstants DEF Messages, Conns, PacketIds

-----------------------------------------------------------------------------
(* Sequences *)

\* What is left of a queue once its first packet is read.
LEMMA TailOf ==
  ASSUME NEW S, NEW s \in Seq(S), s # <<>>
  PROVE  /\ 1 \in DOMAIN s /\ Head(s) = s[1] /\ Head(s) \in S
         /\ Tail(s) \in Seq(S)
         /\ \A i \in DOMAIN Tail(s) :
              /\ i + 1 \in DOMAIN s /\ i + 1 # 1 /\ i \in Int
              /\ Tail(s)[i] = s[i + 1]
  OBVIOUS

\* A queue one packet longer.
LEMMA AppendOf ==
  ASSUME NEW S, NEW s \in Seq(S), NEW x \in S
  PROVE  /\ Append(s, x) \in Seq(S)
         /\ \A i \in DOMAIN Append(s, x) :
              \/ i \in DOMAIN s /\ Append(s, x)[i] = s[i]
              \/ i = Len(s) + 1 /\ Append(s, x)[i] = x
  OBVIOUS

-----------------------------------------------------------------------------
(* Steps of the broker *)

\* A step of a task is one of the present connection's.
LEMMA OnlyPresent ==
  ASSUME Shape, OneTask, NEW c \in Conns,
         HandlePacket(c) \/ RespondFails(c) \/ TaskEnds(c)
  PROVE  c = conn
<1>1. c < conn => task[c] = Gone
  BY DEF OneTask
<1>2. c > conn => task[c] = Idle /\ to_broker[c] = <<>>
  BY DEF OneTask
<1>3. CASE c < conn
  BY <1>1, <1>3 DEF Gone, Idle, Shape, HandlePacket, handle_publish, Insert,
     handle_pubrel, Respond, StoreRetained, route_message, RespondFails, TaskEnds
<1>4. CASE c > conn
  BY <1>2, <1>4 DEF Gone, Idle, Shape, HandlePacket, handle_publish, Insert,
     handle_pubrel, Respond, StoreRetained, route_message, RespondFails, TaskEnds
<1> QED
  BY <1>3, <1>4 DEF Shape

\* Idle and Gone are no handlers.
LEMMA NoHandler == Idle \notin Handlers /\ Gone \notin Handlers
  BY DEF Idle, Gone, Handlers

\* A task whose step has a name of a handler's is in a handler.
LEMMA InAHandler ==
  ASSUME Shape, handler.step \notin {"idle", "gone"}
  PROVE  handler \in Handlers
  BY DEF Shape, handler, Idle, Gone

\* A step on the present connection leaves the others alone.
LEMMA StillOneTask ==
  ASSUME IInv, conn' = conn,
         \A c \in Conns : c # conn => task'[c] = task[c] /\ to_broker'[c] = to_broker[c],
         ~ up' => to_client' = <<>>
  PROVE  OneTask'
<1>1. conn \in Int /\ \A c \in Conns : c \in Int
  BY DEF IInv, Shape
<1>2. ASSUME NEW c \in Conns, c < conn
      PROVE  task'[c] = Gone
  BY <1>1, <1>2 DEF IInv, OneTask
<1>3. ASSUME NEW c \in Conns, c > conn
      PROVE  task'[c] = Idle /\ to_broker'[c] = <<>>
  BY <1>1, <1>3 DEF IInv, OneTask
<1> QED
  BY <1>2, <1>3 DEF OneTask

\* The task gives up its handler, or ends, and changes nothing else.
LEMMA Rests ==
  ASSUME IInv, NEW t \in {Idle, Gone}, Become(conn, t),
         UNCHANGED <<publisher, wire, inflight_incoming, routed>>
  PROVE  IInv'
<1>1. /\ queue' = queue /\ handler' = t /\ handler' \notin Handlers
      /\ \A c \in Conns : c # conn => task'[c] = task[c]
      /\ task' \in [Conns -> Handlers \cup {Idle, Gone}]
  BY NoHandler DEF IInv, Shape, Become, queue, handler, publisher, wire
<1>2. Shape' /\ Handling'
  BY <1>1 DEF IInv, Shape, Handling, publisher, wire
<1>8. OneTask'
  BY <1>1, StillOneTask DEF IInv, OneTask, publisher, wire
<1>3. Tokens'
  BY <1>1 DEF IInv, Tokens, Awaits, publisher, wire
<1>4. OneToken'
  BY <1>1 DEF IInv, OneToken, InQueue, InHandler, InAnswers, wire
<1>5. IdsUnique'
  BY DEF IInv, IdsUnique, publisher
<1>6. Exactly'
  BY <1>1 DEF IInv, Exactly, Taken, publisher
<1>7. Refusals'
  BY <1>1 DEF IInv, Refusals, publisher, wire
<1> QED
  BY <1>2, <1>3, <1>4, <1>5, <1>6, <1>7, <1>8 DEF IInv

\* StoreRetained: a QoS 2 message waits for its PUBREL, another goes on.
LEMMA RetainKeeps ==
  ASSUME IInv, StoreRetained(conn)
  PROVE  IInv'
<1> DEFINE t == [handler EXCEPT !.step = "route"]
<1>1. handler \in Handlers /\ handler.step = "retain"
  BY InAHandler DEF IInv, StoreRetained, handler
<1>2. CASE Qos[handler.msg] = 2
  BY <1>2, Rests DEF StoreRetained, handler
<1>3. CASE Qos[handler.msg] # 2
  <2>1. /\ t \in Handlers /\ t.step = "route" /\ t.type = handler.type
        /\ t.id = handler.id /\ t.msg = handler.msg /\ t.ok = handler.ok
    BY <1>1 DEF Handlers
  <2>2. Become(conn, t)
    BY <1>3 DEF StoreRetained, Step, handler
  <2>3. /\ queue' = queue /\ handler' = t
        /\ \A c \in Conns : c # conn => task'[c] = task[c]
        /\ task' \in [Conns -> Handlers \cup {Idle, Gone}]
    BY <2>1, <2>2 DEF IInv, Shape, Become, queue, handler, StoreRetained, publisher, wire
  <2>4. UNCHANGED <<publisher, wire, inflight_incoming, routed>>
    BY DEF StoreRetained
  <2>5. /\ handler.type # "PUBCOMP" /\ handler.msg \in Messages
        /\ handler.type = "PUBACK" => Qos[handler.msg] = 1
        /\ handler.type = "PUBREC" => Qos[handler.msg] = 0
    BY <1>1, <1>3 DEF IInv, Handling
  <2> HIDE DEF t
  <2>6. Shape'
    BY Zenon, <2>3, <2>4 DEF IInv, Shape, publisher, wire
  <2>12. OneTask'
    BY <2>3, <2>4, StillOneTask DEF IInv, OneTask, publisher, wire
  <2>7. Handling'
    BY <2>1, <2>3, <2>5 DEF Handling
  <2>8. Tokens' /\ IdsUnique'
    BY <2>1, <2>3, <2>4 DEF IInv, Tokens, Awaits, IdsUnique, publisher, wire
  <2>9. OneToken'
    BY <2>1, <2>3, <2>4 DEF IInv, OneToken, InQueue, InHandler, InAnswers, wire
  <2>10. Exactly'
    BY <2>1, <2>3, <2>4, <2>5 DEF IInv, Exactly, Taken, publisher
  <2>11. Refusals'
    BY <2>1, <2>3, <2>4 DEF IInv, Refusals, publisher, wire
  <2> QED
    BY <2>6, <2>7, <2>8, <2>9, <2>10, <2>11, <2>12 DEF IInv
<1> QED
  BY <1>2, <1>3

\* route_message: the message was taken, and is not any more.
LEMMA RouteKeeps ==
  ASSUME IInv, route_message(conn)
  PROVE  IInv'
<1>1. handler \in Handlers /\ handler.step = "route"
  BY InAHandler DEF IInv, route_message, handler
<1>2. /\ queue' = queue /\ handler' = Idle /\ handler' \notin Handlers
      /\ \A c \in Conns : c # conn => task'[c] = task[c]
      /\ task' \in [Conns -> Handlers \cup {Idle, Gone}]
  BY NoHandler DEF IInv, Shape, Become, queue, handler, publisher, wire, route_message
<1>3. handler.msg \in Messages /\ (Qos[handler.msg] = 2 => Taken(handler.msg))
  BY <1>1 DEF IInv, Handling, Taken, Handlers
<1>4. /\ UNCHANGED <<publisher, wire, inflight_incoming>>
      /\ routed' = [routed EXCEPT ![handler.msg] = @ + 1]
  BY DEF route_message, handler
<1>5. Shape' /\ Handling'
  <2>1. routed \in [Messages -> Nat]
    BY DEF IInv, Shape
  <2>2. routed' \in [Messages -> Nat]
    BY <1>3, <1>4, <2>1
  <2> QED
    BY <2>2, <1>2, <1>4, Zenon DEF IInv, Shape, Handling, publisher, wire
<1>10. OneTask'
  BY <1>2, <1>4, StillOneTask DEF IInv, OneTask, publisher, wire
<1>6. Tokens' /\ IdsUnique'
  BY <1>2, <1>4 DEF IInv, Tokens, Awaits, IdsUnique, publisher, wire
<1>7. OneToken'
  BY <1>2, <1>4 DEF IInv, OneToken, InQueue, InHandler, InAnswers, wire
<1>8. Exactly'
  <2>1. \A m \in Messages : ~ Taken(m)'
    BY <1>2 DEF Taken
  <2>2. \A m \in Messages :
          routed'[m] = IF m = handler.msg THEN routed[m] + 1 ELSE routed[m]
    BY <1>3, <1>4 DEF IInv, Shape
  <2>3. ASSUME NEW id \in DOMAIN inflight_incoming
        PROVE  LET m == inflight_incoming[id]
               IN  /\ m \in Messages /\ ids[m] = id /\ Qos[m] = 2 /\ sent[m] # "new"
                   /\ routed'[m] = 0
    <3>1. LET m == inflight_incoming[id]
          IN  /\ m \in Messages /\ ids[m] = id /\ Qos[m] = 2 /\ sent[m] # "new"
              /\ routed[m] = 0 /\ ~ Taken(m)
      BY DEF IInv, Exactly, Shape
    <3> QED
      BY <3>1, <2>2, <1>3
  <2>4. ASSUME NEW m \in Messages, Qos[m] = 2
        PROVE  /\ routed'[m] > 0 => sent[m] \in {"released", "done"}
               /\ routed'[m] <= 1
    <3>1. /\ routed[m] \in Nat /\ routed[m] <= 1 /\ (Taken(m) => routed[m] = 0)
          /\ routed[m] > 0 \/ Taken(m) => sent[m] \in {"released", "done"}
      BY <2>4 DEF IInv, Exactly, Shape
    <3> QED
      BY <3>1, <2>2, <2>4, <1>3
  <2> QED
    BY <2>1, <2>3, <2>4, <1>4 DEF Exactly, publisher
<1>9. Refusals'
  BY <1>2, <1>4 DEF IInv, Refusals, publisher, wire
<1> QED
  BY <1>5, <1>6, <1>7, <1>8, <1>9, <1>10 DEF IInv

\* Insert: the message goes under its own id, where no other waiting message is.
LEMMA InsertKeeps ==
  ASSUME IInv, Insert(conn)
  PROVE  IInv'
<1> DEFINE t == [handler EXCEPT !.step = "respond"]
           m == handler.msg
           id == handler.id
<1>1. handler \in Handlers /\ handler.step = "insert"
  BY InAHandler DEF IInv, Insert, handler
<1>2. handler.type = "PUBREC" /\ handler.ok /\ m \in Messages /\ Qos[m] = 2 /\ id \in PacketIds
  BY <1>1 DEF IInv, Handling, Handlers
<1>3. ids[m] = id /\ sent[m] = "published"
  BY <1>1, <1>2 DEF IInv, Tokens, Awaits
<1>4. /\ t \in Handlers /\ t.step = "respond" /\ t.type = "PUBREC"
      /\ t.id = id /\ t.msg = m /\ t.ok
  BY <1>1, <1>2 DEF Handlers
<1>5. Become(conn, t)
  BY DEF Insert, Step, handler
<1>6. /\ queue' = queue /\ handler' = t
      /\ \A c \in Conns : c # conn => task'[c] = task[c]
      /\ task' \in [Conns -> Handlers \cup {Idle, Gone}]
  BY <1>4, <1>5 DEF IInv, Shape, Become, queue, handler, Insert, publisher, wire
<1>7. /\ UNCHANGED <<publisher, wire, routed>>
      /\ DOMAIN inflight_incoming' = DOMAIN inflight_incoming \cup {id}
      /\ inflight_incoming'[id] = m
      /\ \A i \in DOMAIN inflight_incoming : i # id =>
           inflight_incoming'[i] = inflight_incoming[i]
  BY DEF Insert, handler
<1> HIDE DEF t
<1>8. Shape'
  <2>1. DOMAIN inflight_incoming' \subseteq PacketIds
    BY Zenon, <1>2, <1>7 DEF IInv, Shape
  <2>2. \A i \in DOMAIN inflight_incoming' : inflight_incoming'[i] \in Messages
    BY <1>2, <1>7 DEF IInv, Shape
  <2> QED
    BY Zenon, <2>1, <2>2, <1>6, <1>7 DEF IInv, Shape, publisher, wire
<1>9. OneTask'
  BY <1>6, <1>7, StillOneTask DEF IInv, OneTask, publisher, wire
<1>10. Handling'
  BY <1>2, <1>4, <1>6 DEF Handling
<1>11. Tokens' /\ IdsUnique'
  BY <1>1, <1>2, <1>3, <1>4, <1>6, <1>7
     DEF IInv, Tokens, Awaits, IdsUnique, publisher, wire
<1>12. OneToken'
  BY <1>1, <1>4, <1>6, <1>7 DEF IInv, OneToken, InQueue, InHandler, InAnswers, wire
<1>13. Exactly'
  <2>1. \A n \in Messages : ~ Taken(n)'
    BY <1>4, <1>6 DEF Taken
  <2>2. routed[m] = 0
    <3>1. routed[m] \in Nat
      BY <1>2 DEF IInv, Shape
    <3>2. routed[m] > 0 => sent[m] \in {"released", "done"}
      BY <1>2 DEF IInv, Exactly
    <3> QED
      BY <3>1, <3>2, <1>3
  <2>3. ASSUME NEW i \in DOMAIN inflight_incoming'
        PROVE  LET n == inflight_incoming'[i]
               IN  /\ n \in Messages /\ ids[n] = i /\ Qos[n] = 2 /\ sent[n] # "new"
                   /\ routed[n] = 0
    <3>1. \A j \in DOMAIN inflight_incoming :
            LET n == inflight_incoming[j]
            IN  /\ n \in Messages /\ ids[n] = j /\ Qos[n] = 2 /\ sent[n] # "new"
                /\ routed[n] = 0
      BY Zenon DEF IInv, Exactly, Shape
    <3> QED
      BY <3>1, <2>2, <1>2, <1>3, <1>7
  <2> QED
    BY <2>1, <2>3, <1>7 DEF IInv, Exactly, publisher
<1>14. Refusals'
  <2>1. ASSUME NEW i \in DOMAIN to_client PROVE to_client[i].id # id
    <3>1. InHandler(id) /\ InAnswers(to_client[i].id)
      BY <1>1 DEF InHandler, InAnswers
    <3> QED
      BY <3>1, <1>2 DEF IInv, OneToken
  <2>2. ASSUME NEW n \in Messages, sent[n] = "released" PROVE ids[n] # id
    BY <2>2, <1>2, <1>3 DEF IInv, IdsUnique, Wait
  <2>3. ASSUME V5, NEW i \in DOMAIN to_client,
               to_client[i].type = "PUBREC", to_client[i].ok
        PROVE  /\ to_client[i].id \in DOMAIN inflight_incoming'
               /\ sent[inflight_incoming'[to_client[i].id]] = "published"
    BY <2>1, <2>3, <1>7 DEF IInv, Refusals
  <2>4. ASSUME V5, NEW n \in Messages, sent[n] = "released",
               ids[n] \in DOMAIN inflight_incoming'
        PROVE  inflight_incoming'[ids[n]] = n
    BY <2>2, <2>4, <1>7 DEF IInv, Refusals
  <2>5. ~ V5 => /\ \A i \in DOMAIN to_client : to_client[i].ok
                /\ \A n \in Messages : sent[n] # "refused"
    BY DEF IInv, Refusals
  <2> QED
    BY <2>3, <2>4, <2>5, <1>4, <1>6, <1>7 DEF Refusals, publisher, wire
<1> QED
  BY <1>8, <1>9, <1>10, <1>11, <1>12, <1>13, <1>14 DEF IInv

\* Reading a packet takes its token out of the queue, and no other.
LEMMA ReadPacket ==
  ASSUME IInv, queue # <<>>, queue' = Tail(queue), UNCHANGED <<sent, ids>>,
         NEW p, p = Head(queue)
  PROVE  /\ p \in PacketType /\ Tail(queue) \in Seq(PacketType)
         /\ Qos[p.msg] > 0 =>
              /\ InQueue(p.id) /\ ~ InQueue(p.id)'
              /\ ids[p.msg] = p.id
              /\ sent[p.msg] = IF p.type = "PUBLISH" THEN "published" ELSE "released"
         /\ p.type = "PUBREL" => Qos[p.msg] = 2
         /\ \A x \in PacketIds : InQueue(x)' => InQueue(x)
         /\ \A i \in DOMAIN queue' : Qos[queue'[i].msg] > 0 =>
              /\ ids'[queue'[i].msg] = queue'[i].id
              /\ sent'[queue'[i].msg] =
                   IF queue'[i].type = "PUBLISH" THEN "published" ELSE "released"
         /\ \A i \in DOMAIN queue' : queue'[i].type = "PUBREL" => Qos[queue'[i].msg] = 2
         /\ \A i, j \in DOMAIN queue' :
              Qos[queue'[i].msg] > 0 /\ Qos[queue'[j].msg] > 0
                /\ queue'[i].id = queue'[j].id => i = j
<1>1. queue \in Seq(PacketType)
  BY DEF IInv, Shape, queue
<1>2. /\ 1 \in DOMAIN queue /\ p = queue[1] /\ p \in PacketType
      /\ Tail(queue) \in Seq(PacketType)
      /\ \A i \in DOMAIN queue' :
           i + 1 \in DOMAIN queue /\ i + 1 # 1 /\ i \in Int /\ queue'[i] = queue[i + 1]
  BY <1>1, TailOf
<1>3. ASSUME Qos[p.msg] > 0
      PROVE  /\ InQueue(p.id) /\ ~ InQueue(p.id)' /\ ids[p.msg] = p.id
             /\ sent[p.msg] = IF p.type = "PUBLISH" THEN "published" ELSE "released"
  <2>1. \A i \in DOMAIN queue' : Qos[queue'[i].msg] > 0 => queue'[i].id # p.id
    BY <1>2, <1>3 DEF IInv, OneToken
  <2>2. InQueue(p.id) /\ ~ InQueue(p.id)'
    BY <2>1, <1>2, <1>3 DEF InQueue
  <2> QED
    BY <2>2, <1>2, <1>3 DEF IInv, Tokens
<1>4. \A x \in PacketIds : InQueue(x)' => InQueue(x)
  BY <1>2 DEF InQueue
<1>5. \A i \in DOMAIN queue' : Qos[queue'[i].msg] > 0 =>
        /\ ids'[queue'[i].msg] = queue'[i].id
        /\ sent'[queue'[i].msg] =
             IF queue'[i].type = "PUBLISH" THEN "published" ELSE "released"
  BY <1>2 DEF IInv, Tokens
<1>6. /\ p.type = "PUBREL" => Qos[p.msg] = 2
      /\ \A i \in DOMAIN queue' : queue'[i].type = "PUBREL" => Qos[queue'[i].msg] = 2
  BY <1>2 DEF IInv, Tokens
<1>7. \A i, j \in DOMAIN queue' :
        Qos[queue'[i].msg] > 0 /\ Qos[queue'[j].msg] > 0 /\ queue'[i].id = queue'[j].id
        => i = j
  <2> TAKE i, j \in DOMAIN queue'
  <2>1. /\ i + 1 \in DOMAIN queue /\ j + 1 \in DOMAIN queue /\ i \in Int /\ j \in Int
        /\ queue'[i] = queue[i + 1] /\ queue'[j] = queue[j + 1]
    BY <1>2
  <2>2. Qos[queue[i + 1].msg] > 0 /\ Qos[queue[j + 1].msg] > 0
          /\ queue[i + 1].id = queue[j + 1].id => i + 1 = j + 1
    BY <2>1 DEF IInv, OneToken
  <2> QED
    BY <2>1, <2>2
<1> QED
  BY <1>2, <1>3, <1>4, <1>5, <1>6, <1>7

\* handle_pubrel: the stored message, if there is one, is the one the PUBREL is for
\* (MQTT 5), or at least one whose PUBLISH is not sent again.
LEMMA PubrelStep ==
  ASSUME IInv, handle_pubrel(conn)
  PROVE  IInv'
<1>0. PICK p : p = Head(queue)
  OBVIOUS
<1> DEFINE id == p.id
           stored == id \in DOMAIN inflight_incoming
           m == IF stored THEN inflight_incoming[id] ELSE NoMsg
           t == Handler("respond", "PUBCOMP", id, m, TRUE)
<1>1. queue \in Seq(PacketType) /\ queue # <<>> /\ p.type = "PUBREL" /\ handler = Idle
  BY <1>0 DEF IInv, Shape, handle_pubrel, queue, handler
<1>2. queue' = Tail(queue) /\ UNCHANGED <<sent, ids>>
  BY DEF IInv, Shape, handle_pubrel, queue, publisher
<1>3. /\ id \in PacketIds /\ p.msg \in Messages /\ Qos[p.msg] = 2
      /\ ids[p.msg] = id /\ sent[p.msg] = "released"
      /\ Tail(queue) \in Seq(PacketType) /\ InQueue(id) /\ ~ InQueue(id)'
  BY SMTT(20), <1>0, <1>1, <1>2, ReadPacket DEF PacketType
<1>4. m \in Messages \cup {NoMsg} /\ (m \in Messages => stored)
  BY Zenon DEF IInv, Shape
<1>5. /\ t \in Handlers /\ t.step = "respond" /\ t.type = "PUBCOMP"
      /\ t.id = id /\ t.msg = m /\ t.ok
  BY <1>3, <1>4 DEF Handlers, Handler
<1>6. /\ UNCHANGED <<publisher, to_client, routed>>
      /\ to_broker' = [to_broker EXCEPT ![conn] = Tail(queue)]
      /\ Become(conn, t)
      /\ DOMAIN inflight_incoming' = DOMAIN inflight_incoming \ {id}
      /\ \A i \in DOMAIN inflight_incoming : i # id =>
           inflight_incoming'[i] = inflight_incoming[i]
  BY <1>0, Zenon DEF handle_pubrel, Take, queue
<1> HIDE DEF t
<1>7. /\ queue' = Tail(queue) /\ handler' = t
      /\ \A c \in Conns : c # conn => task'[c] = task[c] /\ to_broker'[c] = to_broker[c]
      /\ task' \in [Conns -> Handlers \cup {Idle, Gone}]
      /\ to_broker' \in [Conns -> Seq(PacketType)]
  BY Zenon, <1>3, <1>5, <1>6 DEF IInv, Shape, Become, queue, handler, publisher
<1>8. Shape'
  <2>1. DOMAIN inflight_incoming' \subseteq PacketIds
    BY Zenon, <1>6 DEF IInv, Shape
  <2>2. \A i \in DOMAIN inflight_incoming' : inflight_incoming'[i] \in Messages
    BY Zenon, <1>6 DEF IInv, Shape
  <2> QED
    BY Zenon, <2>1, <2>2, <1>6, <1>7 DEF IInv, Shape, publisher
<1>9. OneTask'
  BY Zenon, <1>6, <1>7, StillOneTask DEF IInv, OneTask, publisher
<1>10. m \in Messages => /\ ids[m] = id /\ Qos[m] = 2 /\ routed[m] = 0
                         /\ sent[m] \in {"released", "done"}
  <2> SUFFICES ASSUME m \in Messages
               PROVE  /\ ids[m] = id /\ Qos[m] = 2 /\ routed[m] = 0
                      /\ sent[m] \in {"released", "done"}
    OBVIOUS
  <2>1. stored /\ m = inflight_incoming[id]
    BY <1>4
  <2>2. ids[m] = id /\ Qos[m] = 2 /\ routed[m] = 0 /\ sent[m] # "new"
    BY <2>1 DEF IInv, Exactly
  <2>3. sent[m] # "published"
    BY Zenon, <2>2, <1>3 DEF IInv, IdsUnique, Wait
  <2>4. sent[m] # "refused"
    BY Zenon, <2>1, <1>3 DEF IInv, Refusals
  <2>5. sent[m] \in {"new", "published", "released", "done", "refused"}
    BY Zenon DEF IInv, Shape
  <2> QED
    BY Zenon, <2>2, <2>3, <2>4, <2>5
<1>11. Handling'
  BY <1>5, <1>7, <1>10 DEF Handling
<1>12. Tokens' /\ IdsUnique'
  <2>1. IdsUnique'
    BY Zenon, <1>6 DEF IInv, IdsUnique, publisher
  <2>2. \A i \in DOMAIN queue' : Qos[queue'[i].msg] > 0 =>
          /\ ids'[queue'[i].msg] = queue'[i].id
          /\ sent'[queue'[i].msg] =
               IF queue'[i].type = "PUBLISH" THEN "published" ELSE "released"
    BY Zenon, <1>0, <1>1, <1>2, ReadPacket
  <2>3. \A i \in DOMAIN queue' : queue'[i].type = "PUBREL" => Qos[queue'[i].msg] = 2
    BY Zenon, <1>0, <1>1, <1>2, ReadPacket
  <2>4. \E n \in Messages : ids'[n] = t.id /\ sent'[n] = Awaits(t.type)
    BY <1>2, <1>3, <1>5 DEF Awaits
  <2>5. \A i \in DOMAIN to_client' :
          \E n \in Messages :
            /\ ids'[n] = to_client'[i].id /\ sent'[n] = Awaits(to_client'[i].type)
            /\ to_client'[i].type = "PUBREC" => Qos[n] = 2
    BY <1>6 DEF IInv, Tokens, publisher
  <2> QED
    BY <2>1, <2>2, <2>3, <2>4, <2>5, <1>5, <1>7, Zenon DEF Tokens
<1>13. OneToken'
  <2>1. /\ \A x \in PacketIds : InQueue(x)' => InQueue(x)
        /\ \A i, j \in DOMAIN queue' :
             Qos[queue'[i].msg] > 0 /\ Qos[queue'[j].msg] > 0
               /\ queue'[i].id = queue'[j].id => i = j
    BY <1>0, <1>1, <1>2, ReadPacket
  <2>2. \A x \in PacketIds : InHandler(x)' => x = id
    BY <1>5, <1>7 DEF InHandler
  <2>3. \A x \in PacketIds : InAnswers(x)' <=> InAnswers(x)
    BY <1>6 DEF InAnswers
  <2>4. /\ \A x \in PacketIds : ~ (InQueue(x) /\ InAnswers(x))
        /\ \A i, j \in DOMAIN to_client : to_client[i].id = to_client[j].id => i = j
    BY DEF IInv, OneToken
  <2>5. \A x \in PacketIds :
          /\ ~ (InQueue(x)' /\ InHandler(x)')
          /\ ~ (InQueue(x)' /\ InAnswers(x)')
          /\ ~ (InHandler(x)' /\ InAnswers(x)')
    BY <2>1, <2>2, <2>3, <2>4, <1>3
  <2> QED
    BY Zenon, <2>1, <2>4, <2>5, <1>6 DEF OneToken
<1>14. Exactly'
  <2>1. \A n \in Messages : Taken(n)' <=> n = m
    BY <1>5, <1>7 DEF Taken
  <2>2. ASSUME NEW i \in DOMAIN inflight_incoming'
        PROVE  LET n == inflight_incoming'[i]
               IN  /\ n \in Messages /\ ids[n] = i /\ Qos[n] = 2 /\ sent[n] # "new"
                   /\ routed[n] = 0 /\ n # m
    <3>1. i \in DOMAIN inflight_incoming /\ i # id
          /\ inflight_incoming'[i] = inflight_incoming[i]
      BY Zenon, <1>6
    <3>2. LET n == inflight_incoming[i]
          IN  /\ n \in Messages /\ ids[n] = i /\ Qos[n] = 2 /\ sent[n] # "new"
              /\ routed[n] = 0
      BY Zenon, <3>1 DEF IInv, Exactly, Shape
    <3> QED
      BY <3>1, <3>2, <1>10
  <2>3. \A n \in Messages : Qos[n] = 2 =>
          /\ routed[n] > 0 => sent[n] \in {"released", "done"}
          /\ routed[n] <= 1
    BY Zenon DEF IInv, Exactly
  <2> HIDE DEF m
  <2> QED
    BY <2>1, <2>2, <2>3, <1>6, <1>10 DEF Exactly, publisher
<1>15. Refusals'
  <2>1. ASSUME NEW i \in DOMAIN to_client PROVE to_client[i].id # id
    <3>1. InQueue(id) /\ InAnswers(to_client[i].id)
      BY <1>3 DEF InAnswers
    <3> QED
      BY Zenon, <3>1, <1>3 DEF IInv, OneToken
  <2>2. ASSUME V5, NEW i \in DOMAIN to_client,
               to_client[i].type = "PUBREC", to_client[i].ok
        PROVE  /\ to_client[i].id \in DOMAIN inflight_incoming'
               /\ sent[inflight_incoming'[to_client[i].id]] = "published"
    BY Zenon, <2>1, <2>2, <1>6 DEF IInv, Refusals
  <2>3. ASSUME V5, NEW n \in Messages, sent[n] = "released",
               ids[n] \in DOMAIN inflight_incoming'
        PROVE  inflight_incoming'[ids[n]] = n
    BY <2>3, <1>6 DEF IInv, Refusals
  <2>4. ~ V5 => /\ \A i \in DOMAIN to_client : to_client[i].ok
                /\ \A n \in Messages : sent[n] # "refused"
    BY DEF IInv, Refusals
  <2> QED
    BY Zenon, <2>2, <2>3, <2>4, <1>5, <1>6, <1>7 DEF Refusals, publisher
<1> QED
  BY <1>8, <1>9, <1>11, <1>12, <1>13, <1>14, <1>15 DEF IInv

\* handle_publish: the handler takes over the token of the packet.
LEMMA PublishStep ==
  ASSUME IInv, handle_publish(conn)
  PROVE  IInv'
<1>0. PICK p : p = Head(queue)
  OBVIOUS
<1>1. queue # <<>> /\ p.type = "PUBLISH" /\ handler = Idle
  BY <1>0 DEF handle_publish, queue, handler
<1>2. queue' = Tail(queue) /\ UNCHANGED <<sent, ids>>
  BY DEF IInv, Shape, handle_publish, queue, publisher
<1>3. /\ p \in PacketType /\ Tail(queue) \in Seq(PacketType)
      /\ Qos[p.msg] > 0 => /\ InQueue(p.id) /\ ~ InQueue(p.id)'
                           /\ ids[p.msg] = p.id /\ sent[p.msg] = "published"
  BY Zenon, <1>0, <1>1, <1>2, ReadPacket
<1>4. p.id \in PacketIds /\ p.msg \in Messages /\ Qos[p.msg] \in 0 .. 2
  BY <1>3 DEF PacketType
<1>5. PICK t : /\ Become(conn, t)
               /\ \/ t = Idle
                  \/ /\ t \in Handlers /\ t.id = p.id /\ t.msg = p.msg
                     /\ t.type = IF Qos[p.msg] = 1 THEN "PUBACK" ELSE "PUBREC"
                     /\ \/ t.step = "retain" /\ Qos[p.msg] = 0
                        \/ t.step = "respond" /\ Qos[p.msg] = 1
                        \/ t.step = "respond" /\ Qos[p.msg] = 2 /\ ~ t.ok
                        \/ t.step = "insert" /\ Qos[p.msg] = 2 /\ t.ok
  <2> DEFINE a == IF Qos[p.msg] = 1 THEN "PUBACK" ELSE "PUBREC"
             h(step, ok) == Handler(step, a, p.id, p.msg, ok)
  <2>1. Publish(conn, p)
    BY <1>0 DEF handle_publish, queue
  <2>2. \/ Become(conn, Idle)
        \/ Become(conn, h("retain", TRUE)) /\ Qos[p.msg] = 0
        \/ Become(conn, h("respond", TRUE)) /\ Qos[p.msg] = 1
        \/ Become(conn, h("respond", FALSE)) /\ Qos[p.msg] \in {1, 2}
        \/ Become(conn, h("insert", TRUE)) /\ Qos[p.msg] = 2
    <3>1. CASE p.msg \in Denied /\ Qos[p.msg] = 0
      BY <2>1, <3>1, Zenon DEF Publish
    <3>2. CASE p.msg \in Denied /\ Qos[p.msg] # 0
      <4>1. Become(conn, h("respond", FALSE))
        BY <2>1, <3>2, Zenon DEF Publish
      <4>2. Qos[p.msg] \in {1, 2}
        BY <1>4, <3>2
      <4> QED
        BY <4>1, <4>2, Zenon
    <3>3. CASE p.msg \notin Denied
      BY <2>1, <1>4, <3>3, Zenon DEF Publish, Become
    <3> QED
      BY <3>1, <3>2, <3>3, Zenon
  <2>3. \A step \in {"insert", "respond", "retain"}, ok \in BOOLEAN :
          /\ h(step, ok) \in Handlers /\ h(step, ok).id = p.id /\ h(step, ok).msg = p.msg
          /\ h(step, ok).type = a /\ h(step, ok).step = step /\ h(step, ok).ok = ok
    BY <1>4 DEF Handler, Handlers
  <2> HIDE DEF h
  <2> QED
    BY <2>2, <2>3, Zenon
<1>6. /\ UNCHANGED <<publisher, to_client, inflight_incoming, routed>>
      /\ to_broker' = [to_broker EXCEPT ![conn] = Tail(queue)]
  BY DEF handle_publish, queue
<1>7. /\ handler' = t
      /\ \A c \in Conns : c # conn => task'[c] = task[c] /\ to_broker'[c] = to_broker[c]
      /\ task' \in [Conns -> Handlers \cup {Idle, Gone}]
      /\ to_broker' \in [Conns -> Seq(PacketType)]
  BY Zenon, <1>3, <1>5, <1>6 DEF IInv, Shape, Become, handler, publisher
<1>8. t = Idle => t \notin Handlers
  BY NoHandler
<1>9. Shape'
  BY Zenon, <1>6, <1>7 DEF IInv, Shape, publisher
<1>10. OneTask'
  BY <1>6, <1>7, StillOneTask DEF IInv, OneTask, publisher
<1>11. Handling'
  BY SMTT(20), <1>4, <1>5, <1>7, <1>8 DEF Handling
<1>12. Tokens' /\ IdsUnique'
  <2>1. IdsUnique'
    BY <1>6 DEF IInv, IdsUnique, publisher
  <2>2. \A i \in DOMAIN queue' : Qos[queue'[i].msg] > 0 =>
          /\ ids'[queue'[i].msg] = queue'[i].id
          /\ sent'[queue'[i].msg] =
               IF queue'[i].type = "PUBLISH" THEN "published" ELSE "released"
    BY Zenon, <1>0, <1>1, <1>2, ReadPacket
  <2>3. \A i \in DOMAIN queue' : queue'[i].type = "PUBREL" => Qos[queue'[i].msg] = 2
    BY Zenon, <1>0, <1>1, <1>2, ReadPacket
  <2>4. t \in Handlers /\ t.step \in {"insert", "respond"} =>
          /\ ids'[p.msg] = t.id /\ sent'[p.msg] = Awaits(t.type) /\ p.msg = t.msg
    BY <1>2, <1>3, <1>4, <1>5, <1>8 DEF Awaits
  <2>5. \A i \in DOMAIN to_client' :
          \E n \in Messages :
            /\ ids'[n] = to_client'[i].id /\ sent'[n] = Awaits(to_client'[i].type)
            /\ to_client'[i].type = "PUBREC" => Qos[n] = 2
    BY <1>6 DEF IInv, Tokens, publisher
  <2> QED
    BY <2>1, <2>2, <2>3, <2>4, <2>5, <1>4, <1>7, Zenon DEF Tokens
<1>13. OneToken'
  <2>1. /\ \A x \in PacketIds : InQueue(x)' => InQueue(x)
        /\ \A i, j \in DOMAIN queue' :
             Qos[queue'[i].msg] > 0 /\ Qos[queue'[j].msg] > 0
               /\ queue'[i].id = queue'[j].id => i = j
    BY Zenon, <1>0, <1>1, <1>2, ReadPacket
  <2>2. \A x \in PacketIds : InHandler(x)' => x = p.id /\ Qos[p.msg] > 0
    BY <1>5, <1>7, <1>8 DEF InHandler
  <2>3. \A x \in PacketIds : InAnswers(x)' <=> InAnswers(x)
    BY <1>6 DEF InAnswers
  <2>4. /\ \A x \in PacketIds : ~ (InQueue(x) /\ InAnswers(x))
        /\ \A i, j \in DOMAIN to_client : to_client[i].id = to_client[j].id => i = j
    BY DEF IInv, OneToken
  <2>5. \A x \in PacketIds :
          /\ ~ (InQueue(x)' /\ InHandler(x)')
          /\ ~ (InQueue(x)' /\ InAnswers(x)')
          /\ ~ (InHandler(x)' /\ InAnswers(x)')
    BY <2>1, <2>2, <2>3, <2>4, <1>3
  <2> QED
    BY Zenon, <2>1, <2>4, <2>5, <1>6 DEF OneToken
<1>14. Exactly'
  <2>1. \A n \in Messages : ~ Taken(n)'
    BY <1>5, <1>7, <1>8 DEF Taken
  <2> QED
    BY Zenon, <2>1, <1>6 DEF IInv, Exactly, Shape, publisher
<1>15. Refusals'
  <2>1. ~ (handler' \in Handlers /\ handler'.step = "respond"
             /\ handler'.type = "PUBREC" /\ handler'.ok)
    BY Zenon, <1>5, <1>7, <1>8
  <2> QED
    BY Zenon, <2>1, <1>6 DEF IInv, Refusals, publisher
<1> QED
  BY <1>9, <1>10, <1>11, <1>12, <1>13, <1>14, <1>15 DEF IInv

\* Respond: the token of the handler goes to its answer, if there is a connection.
LEMMA RespondStep ==
  ASSUME IInv, Respond(conn)
  PROVE  IInv'
<1> DEFINE e == Encode(handler)
           t == AfterWrite(handler)
<1>1. handler \in Handlers /\ handler.step = "respond"
  BY InAHandler DEF IInv, Respond, handler
<1>2. /\ handler.id \in PacketIds /\ handler.type \in {"PUBACK", "PUBREC", "PUBCOMP"}
      /\ handler.msg \in Messages \cup {NoMsg} /\ handler.ok \in BOOLEAN
      /\ handler.type # "PUBCOMP" => handler.msg \in Messages
      /\ handler.type = "PUBREC" => Qos[handler.msg] = 2
  BY <1>1 DEF IInv, Handling, Handlers
<1>3. PICK w \in Messages :
        /\ ids[w] = handler.id /\ sent[w] = Awaits(handler.type)
        /\ handler.type # "PUBCOMP" => w = handler.msg
  BY <1>1 DEF IInv, Tokens
<1>4. /\ e \in AnswerType /\ e.type = handler.type /\ e.id = handler.id
      /\ (V5 => e.ok = handler.ok) /\ (~ V5 => e.ok = TRUE)
  <2>1. CASE V5
    <3>1. e = [type |-> handler.type, id |-> handler.id, ok |-> handler.ok]
      BY <2>1 DEF Encode
    <3> QED
      BY <2>1, <3>1, <1>2 DEF AnswerType
  <2>2. CASE ~ V5
    <3>1. e = [type |-> handler.type, id |-> handler.id, ok |-> TRUE]
      BY <2>2 DEF Encode
    <3>2. e.type = handler.type /\ e.id = handler.id /\ e.ok = TRUE
      BY <3>1
    <3>3. e \in AnswerType
      BY <3>1, <1>2 DEF AnswerType
    <3> QED
      BY <2>2, <3>2, <3>3
  <2> QED
    BY <2>1, <2>2, Zenon
<1>5. \/ t = Idle
      \/ /\ t \in Handlers /\ t.type = handler.type /\ t.id = handler.id
         /\ t.msg = handler.msg /\ t.ok = handler.ok
         /\ t.step = IF t.type = "PUBCOMP" THEN "route" ELSE "retain"
         /\ t.type = "PUBCOMP" => t.msg \in Messages
  <2>2. CASE ~ handler.ok
    BY <2>2 DEF AfterWrite
  <2>3. CASE handler.ok /\ handler.type \in {"PUBACK", "PUBREC"}
    <3>1. AfterWrite(handler) = [handler EXCEPT !.step = "retain"]
      BY <2>3 DEF AfterWrite
    <3>2. /\ t \in Handlers /\ t.step = "retain" /\ t.type = handler.type
          /\ t.id = handler.id /\ t.msg = handler.msg /\ t.ok = handler.ok
      BY <3>1, <1>1 DEF Handlers
    <3> HIDE DEF t
    <3> QED
      BY <3>2, <2>3
  <2>4. CASE handler.ok /\ handler.type = "PUBCOMP" /\ handler.msg # NoMsg
    <3>1. AfterWrite(handler) = [handler EXCEPT !.step = "route"]
      BY <2>4 DEF AfterWrite
    <3>2. /\ t \in Handlers /\ t.step = "route" /\ t.type = handler.type
          /\ t.id = handler.id /\ t.msg = handler.msg /\ t.ok = handler.ok
      BY <3>1, <1>1 DEF Handlers
    <3> HIDE DEF t
    <3> QED
      BY <3>2, <2>4, <1>2
  <2>5. CASE handler.ok /\ handler.type = "PUBCOMP" /\ handler.msg = NoMsg
    <3>1. AfterWrite(handler) = Idle
      BY <2>5 DEF AfterWrite
    <3> QED
      BY <3>1
  <2> QED
    BY Zenon, <2>2, <2>3, <2>4, <2>5, <1>2
<1>6. /\ UNCHANGED <<publisher, to_broker, inflight_incoming, routed>>
      /\ Become(conn, t)
      /\ to_client' = IF up THEN Append(to_client, e) ELSE to_client
  BY DEF Respond, handler
<1> HIDE DEF e, t
<1>7. /\ queue' = queue /\ handler' = t
      /\ \A c \in Conns : c # conn => task'[c] = task[c]
      /\ task' \in [Conns -> Handlers \cup {Idle, Gone}]
  BY <1>5, <1>6 DEF IInv, Shape, Become, queue, handler, publisher
<1>8. t = Idle => t \notin Handlers
  BY NoHandler
<1>9. /\ to_client' \in Seq(AnswerType)
      /\ \A i \in DOMAIN to_client' :
           \/ i \in DOMAIN to_client /\ to_client'[i] = to_client[i]
           \/ i = Len(to_client) + 1 /\ to_client'[i] = e
  <2>1. to_client \in Seq(AnswerType)
    BY DEF IInv, Shape
  <2>2. CASE up
    BY <2>1, <2>2, <1>4, <1>6, AppendOf
  <2>3. CASE ~ up
    BY <2>1, <2>3, <1>6
  <2> QED
    BY <2>2, <2>3
<1>10. Shape'
  <2>1. handler.type = "PUBCOMP" => handler.ok
    BY <1>1 DEF IInv, Handling
  <2>2. e.type = "PUBCOMP" => e.ok
    BY <2>1, <1>4
  <2>3. \A i \in DOMAIN to_client' : to_client'[i].type = "PUBCOMP" => to_client'[i].ok
    BY <2>2, <1>9, Zenon DEF IInv, Shape
  <2> QED
    BY <2>3, <1>6, <1>7, <1>9, Zenon DEF IInv, Shape, publisher
<1>11. OneTask'
  BY <1>6, <1>7, StillOneTask DEF IInv, OneTask, publisher
<1>12. Handling'
  <2>1. /\ handler.type = "PUBACK" => Qos[handler.msg] = 1
        /\ handler.type = "PUBCOMP" =>
             handler.ok /\ (handler.msg \in Messages => Qos[handler.msg] = 2)
    BY <1>1 DEF IInv, Handling
  <2> QED
    BY Zenon, <2>1, <1>2, <1>5, <1>7, <1>8 DEF Handling
<1>13. Tokens'
  <2>1. \A i \in DOMAIN to_client' :
          \E n \in Messages :
            /\ ids[n] = to_client'[i].id /\ sent[n] = Awaits(to_client'[i].type)
            /\ to_client'[i].type = "PUBREC" => Qos[n] = 2
    BY SMTT(20), <1>2, <1>3, <1>4, <1>9 DEF IInv, Tokens
  <2>2. ~ (handler' \in Handlers /\ handler'.step \in {"insert", "respond"})
    BY <1>5, <1>7, <1>8
  <2> QED
    BY SMTT(20), <2>1, <2>2, <1>6, <1>7 DEF IInv, Tokens, publisher
<1>14. IdsUnique'
  BY <1>6 DEF IInv, IdsUnique, publisher
<1>15. OneToken'
  <2>1. \A x \in PacketIds : (InQueue(x)' <=> InQueue(x)) /\ ~ InHandler(x)'
    BY <1>5, <1>7, <1>8 DEF InQueue, InHandler
  <2>2. InHandler(handler.id)
    BY <1>1 DEF InHandler
  <2>3. \A i \in DOMAIN to_client : to_client[i].id # handler.id
    BY <2>2, <1>2 DEF IInv, OneToken, InAnswers
  <2>4. \A x \in PacketIds : InAnswers(x)' => InAnswers(x) \/ x = handler.id
    BY <1>4, <1>9 DEF InAnswers
  <2>5. \A i, j \in DOMAIN to_client' : to_client'[i].id = to_client'[j].id => i = j
    BY <2>3, <1>4, <1>9 DEF IInv, OneToken
  <2>6. \A x \in PacketIds : ~ (InQueue(x)' /\ InAnswers(x)')
    BY <2>1, <2>2, <2>4 DEF IInv, OneToken
  <2>7. \A i, j \in DOMAIN queue' :
          Qos[queue'[i].msg] > 0 /\ Qos[queue'[j].msg] > 0 /\ queue'[i].id = queue'[j].id
          => i = j
    BY <1>7 DEF IInv, OneToken
  <2> QED
    BY <2>1, <2>5, <2>6, <2>7 DEF OneToken
<1>16. Exactly'
  <2>1. \A n \in Messages : Taken(n)' => Taken(n)
    BY <1>1, <1>5, <1>7, <1>8 DEF Taken
  <2> QED
    BY SMTT(20), <2>1, <1>6 DEF IInv, Exactly, Shape, publisher
<1>17. Refusals'
  <2>1. ~ (handler' \in Handlers /\ handler'.step = "respond")
    BY <1>5, <1>7, <1>8
  <2>2. V5 /\ handler.type = "PUBREC" /\ handler.ok =>
          /\ handler.id \in DOMAIN inflight_incoming
          /\ sent[inflight_incoming[handler.id]] = "published"
    <3>1. V5 /\ handler.type = "PUBREC" /\ handler.ok =>
            /\ handler.id \in DOMAIN inflight_incoming
            /\ inflight_incoming[handler.id] = handler.msg
      BY <1>1, Zenon DEF IInv, Refusals
    <3>2. handler.type = "PUBREC" => sent[handler.msg] = "published"
      BY <1>3, Zenon DEF Awaits
    <3> QED
      BY <3>1, <3>2, Zenon
  <2>3. ASSUME V5, NEW i \in DOMAIN to_client',
               to_client'[i].type = "PUBREC", to_client'[i].ok
        PROVE  /\ to_client'[i].id \in DOMAIN inflight_incoming
               /\ sent[inflight_incoming[to_client'[i].id]] = "published"
    BY SMTT(20), <2>2, <2>3, <1>4, <1>9 DEF IInv, Refusals
  <2>4. ~ V5 => \A i \in DOMAIN to_client' : to_client'[i].ok
    BY <1>4, <1>9 DEF IInv, Refusals
  <2> QED
    BY Zenon, <2>1, <2>3, <2>4, <1>6 DEF IInv, Refusals, publisher
<1> QED
  BY <1>10, <1>11, <1>12, <1>13, <1>14, <1>15, <1>16, <1>17 DEF IInv
=============================================================================
