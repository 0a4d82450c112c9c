------------------------ MODULE InboundPublishProofs ------------------------
(***************************************************************************)
(* Proofs about InboundPublish for a publisher whose connections do not    *)
(* overlap: any number of messages, packet ids and connections, any limit. *)
(* Here the steps of the publisher and its network keep the invariant; an  *)
(* added layer, Acks, says what a QoS 1 answer has meant; both together    *)
(* give RoutedAsAnswered.                                                  *)
(***************************************************************************)
EXTENDS InboundPublishInvariant

USE InboundConstants DEF Messages, Conns, PacketIds

-----------------------------------------------------------------------------
(* Steps of the publisher and its network *)

\* The packets of the queue.
LEMMA QueueTyped ==
  ASSUME IInv, NEW i \in DOMAIN queue
  PROVE  queue[i].msg \in Messages /\ queue[i].id \in PacketIds
<1>1. queue \in Seq(PacketType)
  BY DEF IInv, Shape, queue
<1>2. queue[i] \in PacketType
  BY <1>1
<1> QED
  BY <1>2 DEF PacketType

\* The id of a token is in use.
LEMMA TokenInUse ==
  ASSUME IInv, NEW x \in PacketIds, InQueue(x) \/ InHandler(x) \/ InAnswers(x)
  PROVE  x \in IdsInUse
<1>1. \E w \in Messages : sent[w] \in Wait /\ ids[w] = x
  <2>1. CASE InQueue(x)
    <3>1. PICK i \in DOMAIN queue : Qos[queue[i].msg] > 0 /\ queue[i].id = x
      BY <2>1 DEF InQueue
    <3>2. queue[i].msg \in Messages
      BY QueueTyped
    <3> QED
      BY <3>1, <3>2 DEF IInv, Tokens, Wait
  <2>2. CASE InHandler(x)
    BY <2>2 DEF IInv, Tokens, InHandler, Awaits, Wait
  <2>3. CASE InAnswers(x)
    BY <2>3 DEF IInv, Tokens, InAnswers, Awaits, Wait
  <2> QED
    BY <2>1, <2>2, <2>3
<1> QED
  BY <1>1 DEF IdsInUse

\* PublishNext: the new message gets an id without a token.
LEMMA PublishNextStep ==
  ASSUME IInv, PublishNext
  PROVE  IInv'
<1>1. PICK m \in Messages, id \in PacketIds \ IdsInUse :
        /\ up
        /\ \A n \in Messages : sent[n] = "new" <=> n >= m
        /\ ids' = [ids EXCEPT ![m] = id]
        /\ sent' = [sent EXCEPT ![m] = IF Qos[m] = 0 THEN "done" ELSE "published"]
        /\ Send([type |-> "PUBLISH", id |-> id, msg |-> m])
        /\ UNCHANGED <<conn, up, to_client, task, inflight_incoming, retained, routed>>
  BY Zenon DEF PublishNext
<1> DEFINE p == [type |-> "PUBLISH", id |-> id, msg |-> m]
<1>2. sent[m] = "new"
  BY <1>1
<1>3. /\ ids'[m] = id /\ sent'[m] = IF Qos[m] = 0 THEN "done" ELSE "published"
      /\ \A n \in Messages : n # m => ids'[n] = ids[n] /\ sent'[n] = sent[n]
      /\ ids' \in [Messages -> PacketIds \cup {0}]
      /\ sent' \in [Messages -> {"new", "published", "released", "done", "refused"}]
  BY <1>1 DEF IInv, Shape
<1>4. p \in PacketType /\ p.type = "PUBLISH" /\ p.id = id /\ p.msg = m
  BY DEF PacketType
<1>5. /\ queue' = Append(queue, p) /\ handler' = handler
      /\ \A c \in Conns : c # conn => task'[c] = task[c] /\ to_broker'[c] = to_broker[c]
      /\ to_broker' \in [Conns -> Seq(PacketType)]
  BY Zenon, <1>1, <1>4, AppendOf DEF IInv, Shape, Send, queue, handler
<1>6. \A i \in DOMAIN queue' :
        \/ i \in DOMAIN queue /\ queue'[i] = queue[i]
        \/ i = Len(queue) + 1 /\ queue'[i] = p
  <2>1. queue \in Seq(PacketType)
    BY DEF IInv, Shape, queue
  <2> QED
    BY <2>1, <1>4, <1>5, AppendOf
<1> HIDE DEF p
<1>7. ~ InQueue(id) /\ ~ InHandler(id) /\ ~ InAnswers(id)
  BY TokenInUse
<1>8. Shape'
  BY <1>1, <1>3, <1>5, Zenon DEF IInv, Shape
<1>9. OneTask'
  BY Zenon, <1>1, <1>5, StillOneTask DEF IInv, OneTask
<1>10. Handling'
  BY <1>5 DEF IInv, Handling
<1>11. \A n \in Messages : sent[n] \in Wait =>
         n # m /\ ids'[n] = ids[n] /\ sent'[n] = sent[n]
  BY <1>2, <1>3 DEF Wait
<1>12. Tokens'
  <2>1. ASSUME NEW i \in DOMAIN queue', Qos[queue'[i].msg] > 0
        PROVE  /\ ids'[queue'[i].msg] = queue'[i].id
               /\ sent'[queue'[i].msg] =
                    IF queue'[i].type = "PUBLISH" THEN "published" ELSE "released"
    <3>1. CASE i \in DOMAIN queue /\ queue'[i] = queue[i]
      <4>1. /\ queue[i].msg \in Messages
            /\ ids[queue[i].msg] = queue[i].id
            /\ sent[queue[i].msg] =
                 IF queue[i].type = "PUBLISH" THEN "published" ELSE "released"
        BY <2>1, <3>1, QueueTyped DEF IInv, Tokens
      <4> QED
        BY <4>1, <3>1, <1>11 DEF Wait
    <3>2. CASE queue'[i] = p
      BY <2>1, <3>2, <1>3, <1>4
    <3> QED
      BY <3>1, <3>2, <1>6
  <2>2. \A i \in DOMAIN queue' : queue'[i].type = "PUBREL" => Qos[queue'[i].msg] = 2
    BY <1>4, <1>6 DEF IInv, Tokens
  <2>3. ASSUME handler \in Handlers, handler.step \in {"insert", "respond"}
        PROVE  \E n \in Messages :
                 /\ ids'[n] = handler.id /\ sent'[n] = Awaits(handler.type)
                 /\ handler.type # "PUBCOMP" => n = handler.msg
    <3>1. PICK n \in Messages :
            /\ ids[n] = handler.id /\ sent[n] = Awaits(handler.type)
            /\ handler.type # "PUBCOMP" => n = handler.msg
      BY <2>3 DEF IInv, Tokens
    <3> QED
      BY <3>1, <1>11 DEF Awaits, Wait
  <2>4. ASSUME NEW i \in DOMAIN to_client
        PROVE  \E n \in Messages :
                 /\ ids'[n] = to_client[i].id /\ sent'[n] = Awaits(to_client[i].type)
                 /\ to_client[i].type = "PUBREC" => Qos[n] = 2
    <3>1. PICK n \in Messages :
            /\ ids[n] = to_client[i].id /\ sent[n] = Awaits(to_client[i].type)
            /\ to_client[i].type = "PUBREC" => Qos[n] = 2
      BY DEF IInv, Tokens
    <3> QED
      BY <3>1, <1>11 DEF Awaits, Wait
  <2>5. handler' = handler /\ to_client' = to_client
    BY <1>1, <1>5
  <2> QED
    BY <2>1, <2>2, <2>3, <2>4, <2>5 DEF Tokens
<1>13. OneToken'
  <2>1. \A x \in PacketIds :
          /\ InQueue(x)' => InQueue(x) \/ x = id
          /\ InHandler(x)' <=> InHandler(x)
          /\ InAnswers(x)' <=> InAnswers(x)
    BY Zenon, <1>1, <1>4, <1>5, <1>6 DEF InQueue, InHandler, InAnswers
  <2>2. \A i \in DOMAIN queue : Qos[queue[i].msg] > 0 => queue[i].id # id
    BY <1>7 DEF InQueue
  <2>3. \A i, j \in DOMAIN queue' :
          Qos[queue'[i].msg] > 0 /\ Qos[queue'[j].msg] > 0 /\ queue'[i].id = queue'[j].id
          => i = j
    BY <2>2, <1>4, <1>6 DEF IInv, OneToken
  <2>4. \A x \in PacketIds :
          /\ ~ (InQueue(x)' /\ InHandler(x)')
          /\ ~ (InQueue(x)' /\ InAnswers(x)')
          /\ ~ (InHandler(x)' /\ InAnswers(x)')
    BY <2>1, <1>7 DEF IInv, OneToken
  <2>5. \A i, j \in DOMAIN to_client : to_client[i].id = to_client[j].id => i = j
    BY DEF IInv, OneToken
  <2> QED
    BY <2>3, <2>4, <2>5, <1>1 DEF OneToken
<1>14. IdsUnique'
  <2>1. \A n \in Messages : sent[n] \in Wait => ids[n] \in IdsInUse
    BY DEF IdsInUse
  <2>2. \A n \in Messages : sent'[n] \in Wait => n = m \/ (sent[n] \in Wait /\ ids'[n] # id)
    BY <2>1, <1>3
  <2> QED
    BY SMTT(20), <2>2, <1>3 DEF IInv, IdsUnique, Wait
<1>15. Exactly'
  <2>1. \A n \in Messages : Taken(n)' <=> Taken(n)
    BY <1>5 DEF Taken
  <2>2. ASSUME NEW i \in DOMAIN inflight_incoming
        PROVE  LET n == inflight_incoming[i]
               IN  /\ n \in Messages /\ ids'[n] = i /\ Qos[n] = 2 /\ sent'[n] # "new"
                   /\ routed[n] = 0 /\ ~ Taken(n)
    <3>1. LET n == inflight_incoming[i]
          IN  /\ n \in Messages /\ ids[n] = i /\ Qos[n] = 2 /\ sent[n] # "new"
              /\ routed[n] = 0 /\ ~ Taken(n)
      BY DEF IInv, Exactly, Shape
    <3> QED
      BY <3>1, <1>2, <1>3
  <2>3. ASSUME NEW n \in Messages, Qos[n] = 2
        PROVE  /\ routed[n] > 0 \/ Taken(n) => sent'[n] \in {"released", "done"}
               /\ Taken(n) => routed[n] = 0
               /\ routed[n] <= 1
    <3>1. /\ routed[n] > 0 \/ Taken(n) => sent[n] \in {"released", "done"}
          /\ Taken(n) => routed[n] = 0
          /\ routed[n] <= 1
      BY <2>3 DEF IInv, Exactly
    <3> QED
      BY <3>1, <1>2, <1>3
  <2> QED
    BY <2>1, <2>2, <2>3, <1>1 DEF Exactly
<1>16. Refusals'
  <2>1. ASSUME V5, NEW i \in DOMAIN to_client,
               to_client[i].type = "PUBREC", to_client[i].ok
        PROVE  /\ to_client[i].id \in DOMAIN inflight_incoming
               /\ sent'[inflight_incoming[to_client[i].id]] = "published"
    <3>1. /\ to_client[i].id \in DOMAIN inflight_incoming
          /\ sent[inflight_incoming[to_client[i].id]] = "published"
          /\ inflight_incoming[to_client[i].id] \in Messages
      BY Zenon, <2>1 DEF IInv, Refusals, Shape
    <3> QED
      BY <3>1, <1>11 DEF Wait
  <2>2. ASSUME V5, NEW n \in Messages, sent'[n] = "released",
               ids'[n] \in DOMAIN inflight_incoming
        PROVE  inflight_incoming[ids'[n]] = n
    BY <2>2, <1>3 DEF IInv, Refusals
  <2>3. ~ V5 => /\ \A i \in DOMAIN to_client : to_client[i].ok
                /\ \A n \in Messages : sent'[n] # "refused"
    BY <1>3 DEF IInv, Refusals
  <2>4. V5 /\ handler \in Handlers /\ handler.step = "respond"
          /\ handler.type = "PUBREC" /\ handler.ok =>
          /\ handler.id \in DOMAIN inflight_incoming
          /\ inflight_incoming[handler.id] = handler.msg
    BY DEF IInv, Refusals
  <2> QED
    BY <2>1, <2>2, <2>3, <2>4, <1>1, <1>5 DEF Refusals
<1> QED
  BY <1>8, <1>9, <1>10, <1>12, <1>13, <1>14, <1>15, <1>16 DEF IInv

\* Receive: the answer is for the message that waits for one of its type.  Its token
\* is spent, or goes to the PUBREL.
LEMMA ReceiveStep ==
  ASSUME IInv, Receive
  PROVE  IInv'
<1>0. PICK p : p = Head(to_client)
  OBVIOUS
<1>1. PICK m \in Messages :
        /\ sent[m] \in Wait /\ ids[m] = p.id
        /\ sent' = [sent EXCEPT ![m] = CASE ~ p.ok -> "refused"
                                         [] p.ok /\ p.type = "PUBREC" -> "released"
                                         [] OTHER -> "done"]
        /\ IF p.ok /\ p.type = "PUBREC"
           THEN Send([type |-> "PUBREL", id |-> p.id, msg |-> m])
           ELSE UNCHANGED to_broker
  BY <1>0, Zenon DEF Receive
<1> DEFINE q == [type |-> "PUBREL", id |-> p.id, msg |-> m]
           release == p.ok /\ p.type = "PUBREC"
<1>2. /\ to_client # <<>> /\ to_client' = Tail(to_client)
      /\ UNCHANGED <<conn, up, ids, task, inflight_incoming, routed>>
  BY DEF Receive
<1>3. /\ p \in AnswerType /\ p = to_client[1] /\ 1 \in DOMAIN to_client
      /\ to_client' \in Seq(AnswerType)
      /\ \A i \in DOMAIN to_client' :
           /\ i + 1 \in DOMAIN to_client /\ i + 1 # 1 /\ i \in Int
           /\ to_client'[i] = to_client[i + 1]
  <2>1. to_client \in Seq(AnswerType)
    BY DEF IInv, Shape
  <2> QED
    BY <2>1, <1>0, <1>2, TailOf
<1>4. p.id \in PacketIds /\ p.type \in {"PUBACK", "PUBREC", "PUBCOMP"} /\ p.ok \in BOOLEAN
  BY <1>3 DEF AnswerType
<1>5. sent[m] = Awaits(p.type) /\ (p.type = "PUBREC" => Qos[m] = 2)
  <2>0. p = to_client[1] /\ 1 \in DOMAIN to_client
    BY <1>3
  <2>1. PICK w \in Messages : /\ ids[w] = p.id /\ sent[w] = Awaits(p.type)
                              /\ p.type = "PUBREC" => Qos[w] = 2
    BY <2>0 DEF IInv, Tokens
  <2>2. w = m
    BY <2>1, <1>1 DEF IInv, IdsUnique, Awaits, Wait
  <2> QED
    BY <2>1, <2>2
<1>6. p.type = "PUBCOMP" => p.ok
  BY <1>3 DEF IInv, Shape
<1>7. /\ sent'[m] \in {"refused", "released", "done"}
      /\ sent'[m] = "released" <=> release
      /\ sent'[m] = "refused" <=> ~ p.ok
      /\ \A n \in Messages : n # m => sent'[n] = sent[n]
      /\ sent' \in [Messages -> {"new", "published", "released", "done", "refused"}]
  <2> DEFINE v == CASE ~ p.ok -> "refused"
                    [] p.ok /\ p.type = "PUBREC" -> "released"
                    [] OTHER -> "done"
  <2>1. /\ v \in {"refused", "released", "done"}
        /\ v = "released" <=> release
        /\ v = "refused" <=> ~ p.ok
    <3>1. CASE ~ p.ok
      BY <3>1
    <3>2. CASE release
      BY <3>2
    <3>3. CASE p.ok /\ ~ release
      BY <3>3
    <3> QED
      BY <3>1, <3>2, <3>3
  <2>2. sent' = [sent EXCEPT ![m] = v]
    BY <1>1
  <2> HIDE DEF v
  <2> QED
    BY <2>1, <2>2 DEF IInv, Shape
<1>8. q \in PacketType /\ q.type = "PUBREL" /\ q.id = p.id /\ q.msg = m
  BY <1>4 DEF PacketType
<1>9. /\ queue' = IF release THEN Append(queue, q) ELSE queue
      /\ handler' = handler
      /\ \A c \in Conns : c # conn => task'[c] = task[c] /\ to_broker'[c] = to_broker[c]
      /\ to_broker' \in [Conns -> Seq(PacketType)]
  <2>1. CASE release
    <3>1. queue \in Seq(PacketType)
      BY DEF IInv, Shape, queue
    <3>2. Append(queue, q) \in Seq(PacketType)
      BY <3>1, <1>8, AppendOf
    <3>3. Send(q)
      BY <2>1, <1>1
    <3> HIDE DEF q
    <3>4. to_broker' = [to_broker EXCEPT ![conn] = Append(queue, q)]
      BY <3>3 DEF Send, queue
    <3> QED
      BY <2>1, <3>2, <3>4, <1>2 DEF IInv, Shape, queue, handler
  <2>2. CASE ~ release
    BY <2>2, <1>1, <1>2 DEF IInv, Shape, queue, handler
  <2> QED
    BY <2>1, <2>2, Zenon
<1>10. \A i \in DOMAIN queue' :
         \/ i \in DOMAIN queue /\ queue'[i] = queue[i]
         \/ release /\ i = Len(queue) + 1 /\ queue'[i] = q
  <2>1. queue \in Seq(PacketType)
    BY DEF IInv, Shape, queue
  <2>2. CASE release
    BY <2>1, <2>2, <1>8, <1>9, AppendOf
  <2>3. CASE ~ release
    BY <2>3, <1>9
  <2> QED
    BY <2>2, <2>3
<1> HIDE DEF q, release
<1>11. /\ ~ InQueue(p.id) /\ ~ InHandler(p.id)
       /\ \A i \in DOMAIN to_client' : to_client'[i].id # p.id
  <2>1. InAnswers(p.id)
    BY <1>3 DEF InAnswers
  <2>2. \A i \in DOMAIN to_client' : to_client'[i].id # p.id
    BY <1>3 DEF IInv, OneToken
  <2> QED
    BY <2>1, <2>2, <1>4 DEF IInv, OneToken
<1>12. Shape'
  <2>1. \A i \in DOMAIN to_client' : to_client'[i].type = "PUBCOMP" => to_client'[i].ok
    BY Zenon, <1>3 DEF IInv, Shape
  <2>2. to_client' \in Seq(AnswerType)
    BY <1>3
  <2>3. sent' \in [Messages -> {"new", "published", "released", "done", "refused"}]
    BY <1>7
  <2>4. to_broker' \in [Conns -> Seq(PacketType)]
    BY <1>9
  <2> QED
    BY <2>1, <2>2, <2>3, <2>4, <1>2 DEF IInv, Shape
<1>13. OneTask'
  <2>1. up
    BY <1>2 DEF IInv, OneTask
  <2> QED
    BY <2>1, <1>2, <1>9, StillOneTask
<1>14. Handling'
  BY <1>9 DEF IInv, Handling
<1>15. \A n \in Messages : ids[n] # p.id => sent'[n] = sent[n]
  BY <1>1, <1>7
<1>16. Tokens'
  <2>1. ASSUME NEW i \in DOMAIN queue', Qos[queue'[i].msg] > 0
        PROVE  /\ ids'[queue'[i].msg] = queue'[i].id
               /\ sent'[queue'[i].msg] =
                    IF queue'[i].type = "PUBLISH" THEN "published" ELSE "released"
    <3>1. CASE i \in DOMAIN queue /\ queue'[i] = queue[i]
      <4>1. /\ queue[i].msg \in Messages
            /\ ids[queue[i].msg] = queue[i].id
            /\ sent[queue[i].msg] =
                 IF queue[i].type = "PUBLISH" THEN "published" ELSE "released"
        BY Zenon, <2>1, <3>1, QueueTyped DEF IInv, Tokens
      <4>2. queue[i].id # p.id
        BY <2>1, <3>1, <1>11 DEF InQueue
      <4> QED
        BY Zenon, <4>1, <4>2, <3>1, <1>2, <1>15
    <3>2. CASE release /\ queue'[i] = q
      BY <3>2, <1>1, <1>2, <1>7, <1>8
    <3> QED
      BY <3>1, <3>2, <1>10
  <2>2. \A i \in DOMAIN queue' : queue'[i].type = "PUBREL" => Qos[queue'[i].msg] = 2
    BY SMTT(20), <1>5, <1>8, <1>10 DEF IInv, Tokens, release
  <2>3. ASSUME handler \in Handlers, handler.step \in {"insert", "respond"}
        PROVE  \E n \in Messages :
                 /\ ids'[n] = handler.id /\ sent'[n] = Awaits(handler.type)
                 /\ handler.type # "PUBCOMP" => n = handler.msg
    <3>1. PICK n \in Messages :
            /\ ids[n] = handler.id /\ sent[n] = Awaits(handler.type)
            /\ handler.type # "PUBCOMP" => n = handler.msg
      BY <2>3 DEF IInv, Tokens
    <3>2. handler.id # p.id
      BY <2>3, <1>11 DEF InHandler
    <3> QED
      BY Zenon, <3>1, <3>2, <1>2, <1>15
  <2>4. ASSUME NEW i \in DOMAIN to_client'
        PROVE  \E n \in Messages :
                 /\ ids'[n] = to_client'[i].id /\ sent'[n] = Awaits(to_client'[i].type)
                 /\ to_client'[i].type = "PUBREC" => Qos[n] = 2
    <3>1. PICK n \in Messages :
            /\ ids[n] = to_client'[i].id /\ sent[n] = Awaits(to_client'[i].type)
            /\ to_client'[i].type = "PUBREC" => Qos[n] = 2
      <4>1. i + 1 \in DOMAIN to_client /\ to_client'[i] = to_client[i + 1]
        BY <1>3
      <4> QED
        BY <4>1 DEF IInv, Tokens
    <3> QED
      BY <3>1, <1>2, <1>11, <1>15
  <2>5. handler' = handler
    BY <1>9
  <2> QED
    BY <2>1, <2>2, <2>3, <2>4, <2>5 DEF Tokens
<1>17. OneToken'
  <2>1. \A x \in PacketIds :
          /\ InQueue(x)' => InQueue(x) \/ x = p.id
          /\ InHandler(x)' <=> InHandler(x)
    BY <1>8, <1>9, <1>10 DEF InQueue, InHandler
  <2>2. \A x \in PacketIds : InAnswers(x)' => InAnswers(x) /\ x # p.id
    BY <1>3, <1>11 DEF InAnswers
  <2>3. \A i \in DOMAIN queue : Qos[queue[i].msg] > 0 => queue[i].id # p.id
    BY <1>11 DEF InQueue
  <2>4. \A i, j \in DOMAIN queue' :
          Qos[queue'[i].msg] > 0 /\ Qos[queue'[j].msg] > 0 /\ queue'[i].id = queue'[j].id
          => i = j
    BY <2>3, <1>8, <1>10 DEF IInv, OneToken
  <2>5. \A x \in PacketIds :
          /\ ~ (InQueue(x)' /\ InHandler(x)')
          /\ ~ (InQueue(x)' /\ InAnswers(x)')
          /\ ~ (InHandler(x)' /\ InAnswers(x)')
    BY <2>1, <2>2, <1>11 DEF IInv, OneToken
  <2>6. \A i, j \in DOMAIN to_client' : to_client'[i].id = to_client'[j].id => i = j
    <3> TAKE i, j \in DOMAIN to_client'
    <3>1. /\ i + 1 \in DOMAIN to_client /\ j + 1 \in DOMAIN to_client
          /\ i \in Int /\ j \in Int
          /\ to_client'[i] = to_client[i + 1] /\ to_client'[j] = to_client[j + 1]
      BY <1>3
    <3>2. to_client[i + 1].id = to_client[j + 1].id => i + 1 = j + 1
      BY <3>1 DEF IInv, OneToken
    <3> QED
      BY <3>1, <3>2
  <2> QED
    BY <2>4, <2>5, <2>6 DEF OneToken
<1>18. IdsUnique'
  <2>1. \A n \in Messages : sent'[n] \in Wait => sent[n] \in Wait
    BY <1>1, <1>7 DEF Wait
  <2>2. \A n \in Messages : sent'[n] = "released" => Qos[n] = 2
    BY <1>5, <1>7 DEF IInv, IdsUnique, release
  <2> QED
    BY <2>1, <2>2, <1>2 DEF IInv, IdsUnique
<1>19. Exactly'
  <2>1. \A n \in Messages : Taken(n)' <=> Taken(n)
    BY <1>9 DEF Taken
  <2>2. \A n \in Messages : sent[n] # "new" => sent'[n] # "new"
    BY <1>7
  <2>3. ASSUME NEW n \in Messages, sent[n] \in {"released", "done"}
        PROVE  sent'[n] \in {"released", "done"}
    BY <2>3, <1>5, <1>6, <1>7 DEF Awaits
  <2> QED
    BY SMTT(20), <2>1, <2>2, <2>3, <1>2 DEF IInv, Exactly, Shape
<1>20. Refusals'
  <2>1. ASSUME V5, NEW i \in DOMAIN to_client',
               to_client'[i].type = "PUBREC", to_client'[i].ok
        PROVE  /\ to_client'[i].id \in DOMAIN inflight_incoming
               /\ sent'[inflight_incoming[to_client'[i].id]] = "published"
    <3>1. /\ to_client'[i].id \in DOMAIN inflight_incoming
          /\ sent[inflight_incoming[to_client'[i].id]] = "published"
      BY <2>1, <1>3 DEF IInv, Refusals
    <3>2. LET n == inflight_incoming[to_client'[i].id]
          IN  n \in Messages /\ ids[n] = to_client'[i].id
      BY <3>1 DEF IInv, Exactly, Shape
    <3> QED
      BY <3>1, <3>2, <1>11, <1>15
  <2>2. ASSUME V5, NEW n \in Messages, sent'[n] = "released",
               ids[n] \in DOMAIN inflight_incoming
        PROVE  inflight_incoming[ids[n]] = n
    <3>1. CASE n # m
      BY <2>2, <3>1, <1>7 DEF IInv, Refusals
    <3>2. CASE n = m
      <4>1. p.ok /\ p.type = "PUBREC"
        BY <2>2, <3>2, <1>7 DEF release
      <4>2. LET k == inflight_incoming[p.id]
            IN  k \in Messages /\ ids[k] = p.id /\ sent[k] = "published"
        <5>1. p = to_client[1] /\ 1 \in DOMAIN to_client
          BY <1>3
        <5>2. p.id \in DOMAIN inflight_incoming /\ sent[inflight_incoming[p.id]] = "published"
          BY <5>1, <4>1, <2>2 DEF IInv, Refusals
        <5> QED
          BY Zenon, <5>2 DEF IInv, Exactly, Shape
      <4> QED
        BY <4>2, <3>2, <1>1 DEF IInv, IdsUnique, Wait
    <3> QED
      BY <3>1, <3>2
  <2>3. ~ V5 => /\ \A i \in DOMAIN to_client' : to_client'[i].ok
                /\ \A n \in Messages : sent'[n] # "refused"
    <3> SUFFICES ASSUME ~ V5
                 PROVE  /\ \A i \in DOMAIN to_client' : to_client'[i].ok
                        /\ \A n \in Messages : sent'[n] # "refused"
      OBVIOUS
    <3>1. /\ \A i \in DOMAIN to_client : to_client[i].ok
          /\ \A n \in Messages : sent[n] # "refused"
      BY DEF IInv, Refusals
    <3>2. \A i \in DOMAIN to_client' : to_client'[i].ok
      BY <3>1, <1>3
    <3>3. p.ok
      BY <3>1, <1>3
    <3> QED
      BY <3>1, <3>2, <3>3, <1>7
  <2>4. V5 /\ handler \in Handlers /\ handler.step = "respond"
          /\ handler.type = "PUBREC" /\ handler.ok =>
          /\ handler.id \in DOMAIN inflight_incoming
          /\ inflight_incoming[handler.id] = handler.msg
    BY DEF IInv, Refusals
  <2> QED
    BY <2>1, <2>2, <2>3, <2>4, <1>2, <1>9 DEF Refusals
<1> QED
  BY <1>12, <1>13, <1>14, <1>16, <1>17, <1>18, <1>19, <1>20 DEF IInv

\* Break: the answers are lost, and their tokens with them.
LEMMA BreakStep ==
  ASSUME IInv, Break
  PROVE  IInv'
<1>1. /\ conn < MaxConnections /\ up' = FALSE /\ to_client' = <<>>
      /\ UNCHANGED <<conn, sent, ids, to_broker, task, inflight_incoming, routed>>
  BY DEF Break
<1>2. queue' = queue /\ handler' = handler
  BY <1>1 DEF queue, handler
<1>9. to_client' \in Seq(AnswerType) /\ DOMAIN to_client' = {}
  BY <1>1
<1>3. Shape' /\ Handling' /\ IdsUnique'
  <2>1. up' \in BOOLEAN /\ (~ up' => conn' < MaxConnections)
    <3>1. up' \in BOOLEAN
      BY <1>1, Zenon
    <3>2. conn' < MaxConnections
      BY <1>1
    <3> QED
      BY <3>1, <3>2, Zenon
  <2>2. \A i \in DOMAIN to_client' : to_client'[i].type = "PUBCOMP" => to_client'[i].ok
    BY <1>9
  <2>3. Shape'
    BY Zenon, <2>1, <2>2, <1>1, <1>9 DEF IInv, Shape
  <2> QED
    BY <2>3, <1>1, <1>2 DEF IInv, Handling, IdsUnique
<1>4. OneTask'
  BY <1>1, StillOneTask
<1>5. Tokens'
  BY SMTT(20), <1>1, <1>2 DEF IInv, Tokens
<1>6. OneToken'
  <2>1. \A x \in PacketIds : /\ InQueue(x)' <=> InQueue(x)
                             /\ InHandler(x)' <=> InHandler(x)
                             /\ ~ InAnswers(x)'
    BY <1>2, <1>9 DEF InQueue, InHandler, InAnswers
  <2> QED
    BY <2>1, <1>2, <1>9 DEF IInv, OneToken
<1>7. Exactly'
  BY <1>1, <1>2 DEF IInv, Exactly, Taken
<1>8. Refusals'
  BY <1>1, <1>2 DEF IInv, Refusals
<1> QED
  BY <1>3, <1>4, <1>5, <1>6, <1>7, <1>8 DEF IInv

\* What is resent: one packet for every waiting message.
LEMMA Resent ==
  ASSUME IInv,
         NEW pending \in Ascending({m \in Messages : sent[m] \in Wait}),
         NEW s, s = [i \in DOMAIN pending |-> Packet(pending[i])]
  PROVE  /\ s \in Seq(PacketType)
         /\ \A i \in DOMAIN s :
              /\ s[i].msg \in Messages /\ ids[s[i].msg] = s[i].id
              /\ sent[s[i].msg] = IF s[i].type = "PUBLISH" THEN "published" ELSE "released"
              /\ s[i].type = "PUBREL" => Qos[s[i].msg] = 2
         /\ \A i, j \in DOMAIN s : s[i].id = s[j].id => i = j
<1> DEFINE S == {m \in Messages : sent[m] \in Wait}
<1>1. PICK k \in 0 .. N : pending \in [1 .. k -> S]
  BY DEF Ascending
<1>2. /\ pending \in [1 .. k -> S]
      /\ \A i, j \in 1 .. k : i < j => pending[i] < pending[j]
  BY <1>1 DEF Ascending
<1>3. ASSUME NEW i \in 1 .. k
      PROVE  /\ s[i] \in PacketType
             /\ s[i].msg = pending[i] /\ s[i].msg \in Messages /\ sent[s[i].msg] \in Wait
             /\ ids[s[i].msg] = s[i].id
             /\ sent[s[i].msg] = IF s[i].type = "PUBLISH" THEN "published" ELSE "released"
             /\ s[i].type = "PUBREL" => Qos[s[i].msg] = 2
  <2>1. pending[i] \in Messages /\ sent[pending[i]] \in Wait
    BY <1>2
  <2>2. s[i] = Packet(pending[i])
    BY <1>2
  <2>3. /\ ids[pending[i]] \in PacketIds
        /\ sent[pending[i]] = "released" => Qos[pending[i]] = 2
    BY <2>1 DEF IInv, IdsUnique
  <2>4. CASE sent[pending[i]] = "released"
    <3>1. s[i] = [type |-> "PUBREL", id |-> ids[pending[i]], msg |-> pending[i]]
      BY <2>2, <2>4, Zenon DEF Packet
    <3>2. s[i] \in PacketType
      BY <3>1, <2>1, <2>3 DEF PacketType
    <3>3. s[i].type = "PUBREL" /\ s[i].id = ids[pending[i]] /\ s[i].msg = pending[i]
      BY <3>1
    <3> QED
      BY <3>2, <3>3, <2>1, <2>3, <2>4, Zenon
  <2>5. CASE sent[pending[i]] = "published"
    <3>1. s[i] = [type |-> "PUBLISH", id |-> ids[pending[i]], msg |-> pending[i]]
      BY <2>2, <2>5 DEF Packet
    <3>2. s[i] \in PacketType
      BY <3>1, <2>1, <2>3 DEF PacketType
    <3>3. s[i].type = "PUBLISH" /\ s[i].id = ids[pending[i]] /\ s[i].msg = pending[i]
      BY <3>1
    <3> QED
      BY <3>2, <3>3, <2>1, <2>3, <2>5
  <2> QED
    BY <2>1, <2>4, <2>5, Zenon DEF Wait
<1>4. DOMAIN s = 1 .. k
  BY <1>2
<1>5. s \in Seq(PacketType)
  <2>1. s \in [1 .. k -> PacketType]
    BY <1>3, <1>2
  <2> QED
    BY <2>1, <1>1
<1>6. ASSUME NEW i \in 1 .. k, NEW j \in 1 .. k, s[i].id = s[j].id
      PROVE  i = j
  <2>1. /\ s[i].msg = pending[i] /\ s[i].msg \in Messages /\ sent[s[i].msg] \in Wait
        /\ ids[s[i].msg] = s[i].id
    BY <1>3
  <2>2. /\ s[j].msg = pending[j] /\ s[j].msg \in Messages /\ sent[s[j].msg] \in Wait
        /\ ids[s[j].msg] = s[j].id
    BY Zenon, <1>3
  <2>3. s[i].msg = s[j].msg
    BY Zenon, <2>1, <2>2, <1>6 DEF IInv, IdsUnique
  <2>4. pending[i] = pending[j] /\ pending[i] \in Int
    BY <2>1, <2>2, <2>3
  <2>5. ~ (i < j) /\ ~ (j < i)
    BY <2>4, <1>2
  <2> QED
    BY <2>5, <1>1
<1> QED
  BY <1>3, <1>4, <1>5, <1>6

\* Reconnect: the tokens of the old connection are gone, and every waiting message
\* gets one on the new one.
LEMMA ReconnectStep ==
  ASSUME Sequential, IInv, Reconnect
  PROVE  IInv'
<1>1. PICK pending \in Ascending({m \in Messages : sent[m] \in Wait}) :
        to_broker' = [to_broker EXCEPT ![conn + 1] =
                        [i \in DOMAIN pending |-> Packet(pending[i])]]
  BY Zenon DEF Reconnect
<1>2. PICK s : s = [i \in DOMAIN pending |-> Packet(pending[i])]
  BY Zenon
<1>3. /\ s \in Seq(PacketType)
      /\ \A i \in DOMAIN s :
           /\ s[i].msg \in Messages /\ ids[s[i].msg] = s[i].id
           /\ sent[s[i].msg] = IF s[i].type = "PUBLISH" THEN "published" ELSE "released"
           /\ s[i].type = "PUBREL" => Qos[s[i].msg] = 2
      /\ \A i, j \in DOMAIN s : s[i].id = s[j].id => i = j
  BY <1>2, Resent
<1>4. /\ ~ up /\ task[conn] = Gone /\ up' = TRUE /\ conn' = conn + 1
      /\ UNCHANGED <<sent, ids, to_client, task, inflight_incoming, routed>>
      /\ to_broker' = [to_broker EXCEPT ![conn + 1] = s]
  <2>1. to_broker' = [to_broker EXCEPT ![conn + 1] = s]
    BY <1>1, <1>2, Zenon
  <2>2. ~ up /\ up' = TRUE /\ conn' = conn + 1
    BY Zenon DEF Reconnect
  <2>3. task[conn] = Gone
    BY Zenon DEF Reconnect, Sequential
  <2>4. UNCHANGED <<sent, ids, to_client, task, inflight_incoming, retained, routed>>
    BY Zenon DEF Reconnect
  <2> QED
    BY <2>1, <2>2, <2>3, <2>4
<1>5. conn \in Conns /\ conn + 1 \in Conns /\ conn + 1 > conn /\ to_client = <<>>
  BY <1>4 DEF IInv, Shape, OneTask
<1>6. /\ queue' = s /\ handler' = Idle /\ handler' \notin Handlers /\ handler \notin Handlers
      /\ to_broker' \in [Conns -> Seq(PacketType)]
  <2>1. task[conn + 1] = Idle
    BY <1>5 DEF IInv, OneTask
  <2>2. handler' = Idle /\ handler = Gone
    BY <2>1, <1>4 DEF handler
  <2>3. queue' = s /\ to_broker' \in [Conns -> Seq(PacketType)]
    BY <1>3, <1>4, <1>5 DEF IInv, Shape, queue
  <2> QED
    BY <2>2, <2>3, NoHandler
<1>7. Shape'
  BY Zenon, <1>4, <1>5, <1>6 DEF IInv, Shape
<1>8. OneTask'
  <2>1. ASSUME NEW c \in Conns, c < conn + 1 PROVE task[c] = Gone
    <3>1. c < conn \/ c = conn
      BY <2>1, <1>5
    <3> QED
      BY <3>1, <1>4 DEF IInv, OneTask
  <2>2. ASSUME NEW c \in Conns, c > conn + 1
        PROVE  task[c] = Idle /\ to_broker'[c] = <<>>
    <3>1. c > conn /\ c # conn + 1
      BY <2>2, <1>5
    <3>2. task[c] = Idle /\ to_broker[c] = <<>>
      BY <3>1 DEF IInv, OneTask
    <3>3. to_broker'[c] = to_broker[c]
      BY Zenon, <3>1, <1>4 DEF IInv, Shape
    <3> QED
      BY <3>2, <3>3
  <2> QED
    BY <2>1, <2>2, <1>4 DEF OneTask
<1>9. Handling' /\ IdsUnique'
  BY <1>4, <1>6 DEF IInv, Handling, IdsUnique
<1>10. Tokens'
  BY <1>3, <1>4, <1>5, <1>6 DEF Tokens
<1>11. OneToken'
  BY SMTT(20), <1>3, <1>4, <1>5, <1>6 DEF OneToken, InHandler, InAnswers
<1>12. Exactly'
  BY Zenon, <1>4, <1>6 DEF IInv, Exactly, Taken
<1>13. Refusals'
  BY <1>4, <1>5, <1>6 DEF IInv, Refusals
<1> QED
  BY <1>7, <1>8, <1>9, <1>10, <1>11, <1>12, <1>13 DEF IInv

-----------------------------------------------------------------------------
(* The theorems *)

\* The first connection of a publisher without messages under way.
LEMMA Initially == Init => IInv
<1> SUFFICES ASSUME Init PROVE IInv
  OBVIOUS
<1>1. queue = <<>> /\ handler = Idle /\ handler \notin Handlers /\ to_client = <<>>
  BY NoHandler DEF Init, queue, handler
<1>2. Shape
  BY DEF Init, Shape
<1>3. OneTask
  BY DEF Init, OneTask
<1>4. Handling /\ Tokens
  BY <1>1 DEF Handling, Tokens
<1>5. OneToken
  BY <1>1 DEF OneToken, InQueue, InHandler, InAnswers
<1>6. IdsUnique
  BY DEF Init, IdsUnique, Wait
<1>7. Exactly
  BY <1>1 DEF Init, Exactly, Taken
<1>8. Refusals
  BY <1>1 DEF Init, Refusals
<1> QED
  BY <1>2, <1>3, <1>4, <1>5, <1>6, <1>7, <1>8 DEF IInv

\* Every step keeps the tokens.
LEMMA StepKeeps ==
  ASSUME Sequential, IInv, [Next]_vars
  PROVE  IInv'
<1>1. ASSUME NEW c \in Conns, HandlePacket(c) \/ RespondFails(c) \/ TaskEnds(c)
      PROVE  IInv'
  <2>1. c = conn
    BY <1>1, OnlyPresent DEF IInv
  <2>2. CASE handle_publish(c)
    BY <2>1, <2>2, PublishStep
  <2>3. CASE Insert(c)
    BY <2>1, <2>3, InsertKeeps
  <2>4. CASE handle_pubrel(c)
    BY <2>1, <2>4, PubrelStep
  <2>5. CASE Respond(c)
    BY <2>1, <2>5, RespondStep
  <2>6. CASE StoreRetained(c)
    BY <2>1, <2>6, RetainKeeps
  <2>7. CASE route_message(c)
    BY <2>1, <2>7, RouteKeeps
  <2>8. CASE RespondFails(c)
    BY <2>1, <2>8, Rests DEF RespondFails
  <2>9. CASE TaskEnds(c)
    BY <2>1, <2>9, Rests DEF TaskEnds
  <2> QED
    BY <1>1, <2>2, <2>3, <2>4, <2>5, <2>6, <2>7, <2>8, <2>9 DEF HandlePacket
<1>2. CASE PublishNext
  BY <1>2, PublishNextStep
<1>3. CASE Receive
  BY <1>3, ReceiveStep
<1>4. CASE Break
  BY <1>4, BreakStep
<1>5. CASE Reconnect
  BY <1>5, ReconnectStep
<1>6. CASE UNCHANGED vars
  <2>1. /\ UNCHANGED <<conn, up, to_broker, to_client, task, inflight_incoming,
                       sent, ids, routed>>
        /\ queue' = queue /\ handler' = handler
    BY <1>6 DEF vars, publisher, wire, queue, handler
  <2>2. Shape' /\ Handling' /\ IdsUnique'
    BY Zenon, <2>1 DEF IInv, Shape, Handling, IdsUnique
  <2>3. OneTask'
    BY <2>1 DEF IInv, OneTask
  <2>4. Tokens'
    BY <2>1 DEF IInv, Tokens
  <2>5. OneToken'
    BY <2>1 DEF IInv, OneToken, InQueue, InHandler, InAnswers
  <2>6. Exactly' /\ Refusals'
    BY SMTT(20), <2>1 DEF IInv, Exactly, Taken, Refusals
  <2> QED
    BY <2>2, <2>3, <2>4, <2>5, <2>6 DEF IInv
<1> QED
  BY <1>1, <1>2, <1>3, <1>4, <1>5, <1>6 DEF Next

-----------------------------------------------------------------------------
(* PUBACK *)

\* A step keeps Acks if it gives the publisher no new PUBACK, gives up no message
\* that is being routed, and takes up no message it refuses without reason.
LEMMA AcksFrom ==
  ASSUME Acks,
         \A m \in Messages \ Denied : Qos[m] = 1 /\ Puback(m)' =>
           (Puback(m) /\ (Routing(m) => Routing(m)')) \/ Routing(m)',
         handler' \in Handlers /\ handler'.type = "PUBACK" /\ handler'.msg \notin Denied
           => handler'.ok
  PROVE  Acks'
  BY DEF Acks

\* handle_publish refuses a QoS 1 message only if it is denied.
LEMMA AcksPublish ==
  ASSUME IInv, Acks, handle_publish(conn)
  PROVE  Acks'
<1>1. /\ handler = Idle /\ handler \notin Handlers
      /\ UNCHANGED <<sent, ids, to_client, routed>>
  BY NoHandler DEF handle_publish, publisher, handler
<1>2. PICK p : p = Head(to_broker[conn])
  OBVIOUS
<1>3. ASSUME NEW t, Become(conn, t)
      PROVE  handler' = t
  BY <1>3 DEF Become, handler, IInv, Shape, handle_publish, publisher
<1>4. handler' \in Handlers /\ handler'.type = "PUBACK" /\ handler'.msg \notin Denied
        => handler'.ok
  <2> DEFINE h(step, a, ok) == Handler(step, a, p.id, p.msg, ok)
  <2>1. Publish(conn, p)
    BY <1>2 DEF handle_publish
  <2>2. \/ handler' = Idle
        \/ \E step : handler' = h(step, "PUBREC", TRUE) \/ handler' = h(step, "PUBREC", FALSE)
        \/ handler' = h("respond", "PUBACK", TRUE)
        \/ handler' = h("respond", "PUBACK", FALSE) /\ p.msg \in Denied
    <3>1. CASE p.msg \in Denied
      BY <2>1, <3>1, <1>3, Zenon DEF Publish
    <3>2. CASE p.msg \notin Denied
      <4> DEFINE a == IF Qos[p.msg] = 1 THEN "PUBACK" ELSE "PUBREC"
      <4>1. \/ Qos[p.msg] = 0 /\ Become(conn, h("retain", a, TRUE))
            \/ Qos[p.msg] = 1 /\ Become(conn, h("respond", a, TRUE))
            \/ Qos[p.msg] = 2 /\ Become(conn, h("respond", a, FALSE))
            \/ Qos[p.msg] = 2 /\ Become(conn, h("insert", a, TRUE))
        BY <2>1, <3>2, Zenon DEF Publish
      <4>2. Qos[p.msg] \in {0, 2} => a = "PUBREC"
        OBVIOUS
      <4> QED
        BY <4>1, <4>2, <1>3, Zenon
    <3> QED
      BY <3>1, <3>2, Zenon
  <2> QED
    BY <2>2, NoHandler DEF Handler
<1>5. \A m \in Messages : (Puback(m)' <=> Puback(m)) /\ (Routing(m) => Routing(m)')
  BY <1>1 DEF Puback, Routing
<1> QED
  BY <1>4, <1>5, AcksFrom

\* A QoS 2 exchange and the end of a task concern no PUBACK.
LEMMA AcksOther ==
  ASSUME IInv, Acks,
         Insert(conn) \/ handle_pubrel(conn) \/ RespondFails(conn) \/ TaskEnds(conn)
  PROVE  Acks'
<1>1. UNCHANGED <<sent, ids, to_client, routed>>
  BY DEF Insert, handle_pubrel, RespondFails, TaskEnds, publisher, wire
<1>2. ~ (handler \in Handlers /\ handler.step \in {"retain", "route"})
  BY NoHandler DEF Insert, handle_pubrel, RespondFails, TaskEnds, handler
<1>3. ~ (handler' \in Handlers /\ handler'.type = "PUBACK")
  <2>0. ASSUME NEW t, Become(conn, t)
        PROVE  handler' = t
    BY Zenon, <2>0 DEF Become, handler, IInv, Shape, Insert, handle_pubrel, RespondFails,
       TaskEnds, publisher
  <2>1. CASE Insert(conn)
    <3>1. handler \in Handlers /\ handler.step = "insert"
      BY Zenon, <2>1, InAHandler DEF IInv, Insert, handler
    <3>2. handler.type = "PUBREC"
      BY <3>1 DEF IInv, Handling
    <3>3. handler' = [handler EXCEPT !.step = "respond"]
      BY <2>0, <2>1 DEF Insert, Step, handler
    <3>4. handler'.type = handler.type
      BY <3>1, <3>3 DEF Handlers
    <3> QED
      BY <3>2, <3>4
  <2>2. CASE handle_pubrel(conn)
    <3>1. \E id, m : handler' = Handler("respond", "PUBCOMP", id, m, TRUE)
      BY <2>0, <2>2, Zenon DEF handle_pubrel, Take
    <3> QED
      BY <3>1 DEF Handler
  <2>3. CASE RespondFails(conn) \/ TaskEnds(conn)
    BY <2>0, <2>3, NoHandler DEF RespondFails, TaskEnds
  <2> QED
    BY <2>1, <2>2, <2>3
<1>4. \A m \in Messages : (Puback(m)' <=> Puback(m)) /\ (Routing(m) => Routing(m)')
  BY SMTT(20), <1>1, <1>2 DEF Puback, Routing
<1> QED
  BY <1>3, <1>4, AcksFrom

\* StoreRetained and route_message go on with the message.
LEMMA AcksRoute ==
  ASSUME IInv, Acks, StoreRetained(conn) \/ route_message(conn)
  PROVE  Acks'
<1>1. UNCHANGED <<sent, ids, to_client>> /\ handler \in Handlers
  BY InAHandler DEF StoreRetained, route_message, publisher, wire, handler, IInv
<1>2. \A m \in Messages : Puback(m)' <=> Puback(m)
  BY <1>1 DEF Puback
<1>0. ASSUME NEW t, Become(conn, t)
      PROVE  handler' = t
  BY <1>0 DEF Become, handler, IInv, Shape, StoreRetained, route_message, publisher
<1>3. CASE StoreRetained(conn)
  <2>1. /\ handler.step = "retain" /\ routed' = routed
        /\ handler' = IF Qos[handler.msg] = 2 THEN Idle ELSE [handler EXCEPT !.step = "route"]
    BY <1>3, <1>0 DEF StoreRetained, Step, handler
  <2>2. CASE Qos[handler.msg] = 2
    <3>1. handler' \notin Handlers
      BY <2>1, <2>2, NoHandler
    <3>2. \A m \in Messages : Qos[m] = 1 => (Routing(m) => Routing(m)')
      BY <2>1, <2>2 DEF Routing
    <3> QED
      BY <3>1, <3>2, <1>2, AcksFrom
  <2>3. CASE Qos[handler.msg] # 2
    <3>1. /\ handler' \in Handlers /\ handler'.step = "route" /\ handler'.msg = handler.msg
          /\ handler'.type = handler.type /\ handler'.ok = handler.ok
      BY <2>1, <2>3, <1>1 DEF Handlers
    <3>2. \A m \in Messages : Routing(m) => Routing(m)'
      BY <2>1, <3>1 DEF Routing
    <3> QED
      BY <3>1, <3>2, <1>1, <1>2, AcksFrom DEF Acks
  <2> QED
    BY <2>2, <2>3
<1>4. CASE route_message(conn)
  <2>1. /\ handler.step = "route" /\ handler' \notin Handlers
        /\ routed' = [routed EXCEPT ![handler.msg] = @ + 1]
    BY <1>4, <1>0, NoHandler DEF route_message, handler
  <2>2. \A m \in Messages : routed[m] \in Nat /\ routed'[m] =
          IF m = handler.msg THEN routed[m] + 1 ELSE routed[m]
    BY Zenon, <2>1 DEF IInv, Shape
  <2>3. \A m \in Messages : Routing(m) => Routing(m)'
    BY <2>2 DEF Routing
  <2> QED
    BY <2>1, <2>3, <1>2, AcksFrom
<1> QED
  BY <1>3, <1>4

\* Respond: a PUBACK without error is followed by the routing of its message.
LEMMA AcksRespond ==
  ASSUME IInv, Acks, Respond(conn)
  PROVE  Acks'
<1>1. handler \in Handlers /\ handler.step = "respond"
  BY InAHandler DEF IInv, Respond, handler
<1>2. handler.ok \in BOOLEAN /\ handler.type \in {"PUBACK", "PUBREC", "PUBCOMP"}
  BY <1>1 DEF Handlers
<1>3. PICK e : e = Encode(handler)
  OBVIOUS
<1>4. e.type = handler.type /\ e.id = handler.id
  BY <1>3 DEF Encode
<1>5. /\ UNCHANGED <<conn, sent, ids, routed>> /\ handler' = AfterWrite(handler)
      /\ to_client' = IF up THEN Append(to_client, e) ELSE to_client
  BY <1>3 DEF IInv, Shape, Respond, Become, handler, publisher
<1>6. \A i \in DOMAIN to_client' :
        (i \in DOMAIN to_client /\ to_client'[i] = to_client[i]) \/ to_client'[i] = e
  <2>1. to_client \in Seq(AnswerType)
    BY DEF IInv, Shape
  <2> QED
    BY <2>1, <1>5
<1>7. handler.type = "PUBACK" /\ handler.ok =>
        /\ handler' \in Handlers /\ handler'.step = "retain"
        /\ handler'.msg = handler.msg
  <2>1. ASSUME handler.type = "PUBACK", handler.ok
        PROVE  AfterWrite(handler) = [handler EXCEPT !.step = "retain"]
    BY <2>1 DEF AfterWrite
  <2> QED
    BY <2>1, <1>1, <1>5 DEF Handlers
<1>8. handler' \in Handlers => handler'.ok
  <2>1. CASE ~ handler.ok
    BY <2>1, <1>5, NoHandler DEF AfterWrite
  <2>2. CASE handler.ok = TRUE
    <3>1. \/ AfterWrite(handler) = Idle
          \/ \E step : AfterWrite(handler) = [handler EXCEPT !.step = step]
      BY <2>2, <1>2, Zenon DEF AfterWrite
    <3> QED
      BY <3>1, <2>2, <1>1, <1>5, NoHandler DEF Handlers
  <2> QED
    BY <2>1, <2>2, <1>2, Zenon
<1>9. ASSUME NEW m \in Messages \ Denied, Qos[m] = 1, Puback(m)'
      PROVE  (Puback(m) /\ (Routing(m) => Routing(m)')) \/ Routing(m)'
  <2>1. Routing(m) => Routing(m)'
    BY <1>1, <1>5 DEF Routing
  <2>2. CASE Puback(m)
    BY <2>1, <2>2
  <2>3. CASE ~ Puback(m)
    <3>1. /\ sent[m] = "published" /\ e.type = "PUBACK" /\ e.id = ids[m]
      BY <2>3, <1>5, <1>6, <1>9 DEF Puback
    <3>2. PICK w \in Messages : ids[w] = handler.id /\ sent[w] = "published" /\ w = handler.msg
      BY <3>1, <1>1, <1>4 DEF IInv, Tokens, Awaits
    <3>3. w = m
      BY <3>1, <3>2, <1>4, Zenon DEF IInv, IdsUnique, Wait
    <3>4. handler.ok
      BY <3>1, <3>2, <3>3, <1>1, <1>4 DEF Acks
    <3> QED
      BY <3>1, <3>2, <3>3, <3>4, <1>4, <1>7 DEF Routing
  <2> QED
    BY <2>2, <2>3
<1> QED
  BY <1>8, <1>9, AcksFrom

\* Receive: only a PUBACK makes a QoS 1 message done.
LEMMA AcksReceive ==
  ASSUME IInv, Acks, Receive
  PROVE  Acks'
<1>0. PICK p : p = Head(to_client)
  OBVIOUS
<1>1. PICK n \in Messages :
        /\ sent[n] \in Wait /\ ids[n] = p.id
        /\ \E v : v \in {"refused", "released", "done"} /\ sent' = [sent EXCEPT ![n] = v]
  <2>1. PICK n \in Messages :
        /\ sent[n] \in Wait /\ ids[n] = p.id
        /\ sent' = [sent EXCEPT ![n] = CASE ~ p.ok -> "refused"
                                         [] p.ok /\ p.type = "PUBREC" -> "released"
                                         [] OTHER -> "done"]
    BY <1>0, Zenon DEF Receive
  <2> DEFINE v == CASE ~ p.ok -> "refused"
                    [] p.ok /\ p.type = "PUBREC" -> "released"
                    [] OTHER -> "done"
  <2>2. v \in {"refused", "released", "done"}
    OBVIOUS
  <2> HIDE DEF v
  <2>3. sent' = [sent EXCEPT ![n] = v]
    BY <2>1 DEF v
  <2> QED
    BY <2>1, <2>2, <2>3, Zenon
<1>2. /\ UNCHANGED <<conn, ids, routed>> /\ handler' = handler
      /\ to_client # <<>> /\ to_client' = Tail(to_client)
  BY DEF Receive, handler
<1>3. /\ p \in AnswerType /\ p = to_client[1] /\ 1 \in DOMAIN to_client
      /\ \A i \in DOMAIN to_client' :
           i + 1 \in DOMAIN to_client /\ to_client'[i] = to_client[i + 1]
  <2>1. to_client \in Seq(AnswerType)
    BY DEF IInv, Shape
  <2> QED
    BY <2>1, <1>0, <1>2, TailOf
<1>4. ASSUME Qos[n] = 1
      PROVE  sent[n] = "published" /\ p.type = "PUBACK"
  <2>1. PICK w \in Messages : /\ ids[w] = p.id /\ sent[w] = Awaits(p.type)
                              /\ p.type = "PUBREC" => Qos[w] = 2
    BY <1>3 DEF IInv, Tokens
  <2>2. w = n
    BY <2>1, <1>1 DEF IInv, IdsUnique, Awaits, Wait
  <2>3. p.type \in {"PUBACK", "PUBREC", "PUBCOMP"}
    BY <1>3 DEF AnswerType
  <2>4. sent[n] # "released"
    BY <1>4 DEF IInv, IdsUnique
  <2> QED
    BY <2>1, <2>2, <2>3, <2>4, <1>4 DEF Awaits
<1>5. ASSUME NEW m \in Messages, Qos[m] = 1, Puback(m)'
      PROVE  Puback(m)
  <2>1. CASE m = n
    BY Zenon, <2>1, <1>1, <1>3, <1>4, <1>5 DEF Puback
  <2>2. CASE m # n
    <3>1. sent'[m] = sent[m]
      BY <2>2, <1>1 DEF IInv, Shape
    <3> QED
      BY SMTT(20), <3>1, <1>2, <1>3, <1>5 DEF Puback
  <2> QED
    BY <2>1, <2>2
<1>6. \A m \in Messages : Routing(m)' <=> Routing(m)
  BY <1>2 DEF Routing
<1> QED
  BY <1>2, <1>5, <1>6 DEF Acks

\* PublishNext takes an id under which no answer is on its way.
LEMMA AcksPublishNext ==
  ASSUME IInv, Acks, PublishNext
  PROVE  Acks'
<1>1. PICK n \in Messages, id \in PacketIds \ IdsInUse :
        /\ \A k \in Messages : sent[k] = "new" <=> k >= n
        /\ ids' = [ids EXCEPT ![n] = id]
        /\ sent' = [sent EXCEPT ![n] = IF Qos[n] = 0 THEN "done" ELSE "published"]
  BY Zenon DEF PublishNext
<1>2. UNCHANGED <<conn, to_client, routed>> /\ handler' = handler
  BY DEF PublishNext, handler
<1>3. \A i \in DOMAIN to_client : to_client[i].id # id
  <2>1. ASSUME NEW i \in DOMAIN to_client
        PROVE  to_client[i].id \in IdsInUse
    <3>1. PICK w \in Messages :
            ids[w] = to_client[i].id /\ sent[w] = Awaits(to_client[i].type)
      BY DEF IInv, Tokens
    <3>2. sent[w] \in Wait
      BY <3>1 DEF Awaits, Wait
    <3> QED
      BY <3>1, <3>2 DEF IdsInUse
  <2> QED
    BY <2>1
<1>4. ASSUME NEW m \in Messages, Qos[m] = 1, Puback(m)'
      PROVE  Puback(m)
  <2>1. CASE m = n
    <3>1. sent'[m] = "published" /\ ids'[m] = id
      BY <2>1, <1>1, <1>4 DEF IInv, Shape
    <3> QED
      BY <3>1, <1>2, <1>3, <1>4 DEF Puback
  <2>2. CASE m # n
    <3>1. sent'[m] = sent[m] /\ ids'[m] = ids[m]
      BY <2>2, <1>1 DEF IInv, Shape
    <3> QED
      BY <3>1, <1>2, <1>4 DEF Puback
  <2> QED
    BY <2>1, <2>2
<1>5. \A m \in Messages : Routing(m)' <=> Routing(m)
  BY <1>2 DEF Routing
<1> QED
  BY <1>2, <1>4, <1>5 DEF Acks

\* Break takes answers away; the new connection finds the old task gone.
LEMMA AcksReconnect ==
  ASSUME Sequential, IInv, Acks, Break \/ Reconnect
  PROVE  Acks'
<1>1. UNCHANGED <<sent, ids, routed, task>> /\ (to_client' = to_client \/ to_client' = <<>>)
  BY DEF Break, Reconnect
<1>2. DOMAIN <<>> = {}
  OBVIOUS
<1>3. \A m \in Messages : Puback(m)' => Puback(m)
  BY <1>1, <1>2 DEF Puback
<1>4. CASE Break
  <2>1. handler' = handler
    BY <1>4 DEF Break, handler
  <2> QED
    BY <2>1, <1>1, <1>3 DEF Acks, Routing
<1>5. CASE Reconnect
  <2>1. handler \notin Handlers
    BY <1>5, NoHandler DEF Reconnect, Sequential, handler
  <2>2. conn' \in Conns /\ conn' > conn /\ handler' = task[conn']
    BY SMTT(20), <1>1, <1>5 DEF Reconnect, IInv, Shape, handler
  <2>3. handler' \notin Handlers
    BY <2>2, NoHandler DEF IInv, OneTask
  <2>4. \A m \in Messages : Routing(m) => Routing(m)'
    BY <2>1, <1>1 DEF Routing
  <2> QED
    BY <2>3, <2>4, <1>3, AcksFrom
<1> QED
  BY <1>4, <1>5

\* Every step keeps the promise of a PUBACK.
LEMMA AcksKept ==
  ASSUME Sequential, IInv, Acks, [Next]_vars
  PROVE  Acks'
<1>1. ASSUME NEW c \in Conns, HandlePacket(c) \/ RespondFails(c) \/ TaskEnds(c)
      PROVE  Acks'
  <2>1. c = conn
    BY <1>1, OnlyPresent DEF IInv
  <2> QED
    BY <1>1, <2>1, AcksPublish, AcksOther, AcksRoute, AcksRespond DEF HandlePacket
<1>2. CASE UNCHANGED vars
  <2>1. UNCHANGED <<sent, ids, routed, to_client>> /\ handler' = handler
    BY <1>2 DEF vars, publisher, wire, handler
  <2> QED
    BY <2>1 DEF Acks, Puback, Routing
<1> QED
  BY <1>1, <1>2, AcksPublishNext, AcksReceive, AcksReconnect DEF Next

-----------------------------------------------------------------------------
\* Whatever is sent again, whichever ids are used again and wherever connections
\* break: handle_publish and handle_pubrel route a QoS 2 message at most once and
\* never after they refused it, and a QoS 1 message once its PUBACK is written, as
\* long as the connections of the publisher do not overlap.
THEOREM RoutesAsAnswered ==
  ASSUME Sequential
  PROVE  Spec => []RoutedAsAnswered
<1>1. Init => IInv /\ Acks
  <2>1. Init => Acks
    <3> SUFFICES ASSUME Init PROVE Acks
      OBVIOUS
    <3>1. handler \notin Handlers /\ to_client = <<>> /\ DOMAIN to_client = {}
      BY NoHandler DEF Init, handler
    <3>2. \A m \in Messages : ~ Puback(m)
      BY <3>1 DEF Init, Puback
    <3> QED
      BY <3>1, <3>2 DEF Acks
  <2> QED
    BY <2>1, Initially
<1>2. IInv /\ Acks /\ [Next]_vars => IInv' /\ Acks'
  BY StepKeeps, AcksKept
<1>3. IInv /\ Acks => RoutedAsAnswered
  <2> SUFFICES ASSUME IInv, Acks, NEW m \in Messages
               PROVE  /\ Qos[m] = 2 => routed[m] <= IF sent[m] = "refused" THEN 0 ELSE 1
                      /\ Qos[m] = 1 /\ sent[m] = "done" /\ m \notin Denied =>
                           \/ routed[m] > 0
                           \/ \E c \in Conns :
                                task[c].step \in {"retain", "route"} /\ task[c].msg = m
    BY DEF RoutedAsAnswered
  <2>1. Qos[m] = 2 => routed[m] <= IF sent[m] = "refused" THEN 0 ELSE 1
    <3>1. Qos[m] = 2 => routed[m] <= 1 /\ (routed[m] > 0 => sent[m] \in {"released", "done"})
      BY DEF IInv, Exactly
    <3>2. routed[m] \in Nat
      BY Zenon DEF IInv, Shape
    <3> QED
      BY <3>1, <3>2
  <2>2. ASSUME Qos[m] = 1, sent[m] = "done", m \notin Denied
        PROVE  \/ routed[m] > 0
               \/ \E c \in Conns :
                    task[c].step \in {"retain", "route"} /\ task[c].msg = m
    <3>1. Routing(m)
      BY Zenon, <2>2 DEF Acks, Puback
    <3>2. conn \in Conns
      BY DEF IInv, Shape
    <3> QED
      BY <3>1, <3>2 DEF Routing, handler
  <2> QED
    BY <2>1, <2>2
<1> QED
  BY <1>1, <1>2, <1>3, PTL DEF Spec
=============================================================================
