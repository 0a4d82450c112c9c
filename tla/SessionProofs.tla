---------------------------- MODULE SessionProofs ----------------------------
(***************************************************************************)
(* Flow control of the session, for any number of messages, any limits and *)
(* any history of acknowledgements, retries, reconnections and failures.   *)
(*                                                                         *)
(* NoQuotaLeak alone is not inductive.  When a message is tracked, one unit *)
(* of quota goes and one entry comes only if next_packet_id hands out an id *)
(* that is not in flight already: that such an id exists follows from       *)
(* IdsSuffice, and that the search finds it from the order of the search.   *)
(***************************************************************************)
EXTENDS Session, FiniteSetTheorems, WellFoundedInduction, TLAPS

\* The part of the type invariant the argument needs.
Shape ==
  /\ DOMAIN inflight_outgoing \subseteq PacketIds
  /\ send_quota \in 0 .. receive_maximum
  /\ next_packet_id \in PacketIds

IInv == Shape /\ NoQuotaLeak

-----------------------------------------------------------------------------
\* A set of natural numbers that is not empty has a least element.
LEMMA LeastNatural ==
  ASSUME NEW T \in SUBSET Nat, T # {}
  PROVE  \E m \in T : \A k \in T : m <= k
<1> DEFINE R == StrictSubsetOrdering(Nat)
           U == {1 .. k : k \in T}
<1>1. IsWellFoundedOn(R, FiniteSubsetsOf(Nat))
  BY FS_StrictSubsetOrderingWellFounded, Zenon
<1>2. \A k \in T : 1 .. k \in FiniteSubsetsOf(Nat)
  BY FS_Interval DEF FiniteSubsetsOf
<1>3. U \subseteq FiniteSubsetsOf(Nat) /\ U # {}
  BY <1>2, Zenon
<1>4. \E x \in U : \A y \in U : ~ (<<y, x>> \in R)
  <2> HIDE DEF R, U
  <2> QED BY <1>1, <1>3, WFMin, Zenon
<1>5. PICK m \in T : \A k \in T : ~ (<<1 .. k, 1 .. m>> \in R)
  BY <1>4, Zenon
<1>6. ASSUME NEW k \in T, k < m PROVE FALSE
  <2>1. 1 .. k \subseteq 1 .. m /\ 1 .. k # 1 .. m
    BY <1>6
  <2>2. 1 .. k \subseteq Nat /\ 1 .. m \subseteq Nat
    OBVIOUS
  <2> QED BY <2>1, <2>2, <1>5, Zenon DEF StrictSubsetOrdering
<1> QED BY <1>6

\* The sets of packet ids the session deals with are finite.
LEMMA IdSetsFinite ==
  /\ IsFiniteSet(PacketIds) /\ Cardinality(PacketIds) = MaxPacketId
  /\ \A S \in SUBSET PacketIds : IsFiniteSet(S) /\ Cardinality(S) \in Nat
<1>1. IsFiniteSet(PacketIds) /\ Cardinality(PacketIds) = MaxPacketId
  BY FS_Interval, SessionConstants DEF PacketIds
<1> QED BY <1>1, FS_Subset, FS_CardinalityType

\* While fewer than max_inflight + |Incoming| + 1 ids are in use, the loop of
\* next_packet_id (session/mod.rs:208-223) ends with an id that is not.
LEMMA FreeIdIsFree ==
  ASSUME Shape, Cardinality(DOMAIN inflight_outgoing) <= max_inflight
  PROVE  FreeId \in PacketIds \ Used
<1> DEFINE D == DOMAIN inflight_outgoing
           Free == PacketIds \ Used
           Dist(id) == (id - next_packet_id) % MaxPacketId
<1>1. IsFiniteSet(D) /\ Cardinality(D) \in Nat
  BY IdSetsFinite DEF Shape
<1>2. IsFiniteSet(Incoming) /\ Cardinality(Incoming) \in Nat
  BY IdSetsFinite, SessionConstants
<1>3. IsFiniteSet(Used) /\ Cardinality(Used) < MaxPacketId
  <2>1. IsFiniteSet(D \cap Incoming) /\ Cardinality(D \cap Incoming) \in Nat
    BY IdSetsFinite, SessionConstants
  <2>2. /\ IsFiniteSet(D \cup Incoming)
        /\ Cardinality(D \cup Incoming) =
             Cardinality(D) + Cardinality(Incoming) - Cardinality(D \cap Incoming)
    BY <1>1, <1>2, FS_Union
  <2> QED
    BY <1>1, <1>2, <2>1, <2>2, IdsSuffice, SessionConstants DEF Used
<1>4. Free # {}
  <2>1. SUFFICES ASSUME PacketIds \subseteq Used PROVE FALSE
    OBVIOUS
  <2>2. Cardinality(PacketIds) <= Cardinality(Used)
    BY <2>1, <1>3, FS_Subset
  <2>3. Cardinality(Used) \in Nat
    BY <1>3, FS_CardinalityType
  <2> QED BY <2>2, <2>3, <1>3, IdSetsFinite, SessionConstants
<1>5. \A id \in PacketIds : Dist(id) \in Nat
  <2>1. MaxPacketId \in Nat /\ MaxPacketId > 0 /\ next_packet_id \in Int
    BY SessionConstants DEF PacketIds, Shape
  <2>2. PacketIds \subseteq Int
    BY DEF PacketIds
  <2> QED BY <2>1, <2>2
<1>6. PICK id \in Free : \A other \in Free : Dist(id) <= Dist(other)
  <2> DEFINE T == {Dist(i) : i \in Free}
  <2>1. T \in SUBSET Nat /\ T # {}
    BY <1>4, <1>5
  <2> HIDE DEF Dist
  <2>2. PICK m \in T : \A k \in T : m <= k
    <3> HIDE DEF T
    <3> QED BY <2>1, LeastNatural
  <2> QED BY <2>2
<1> QED BY <1>6 DEF FreeId
\* Tracking a message under a fresh id keeps quota and window in step, and so
\* does queueing it (connection/mod.rs:320-366, connect.rs:391-428).
LEMMA AcceptPreserves ==
  ASSUME IInv, NEW m, Accept(m)
  PROVE  IInv'
<1> DEFINE D == DOMAIN inflight_outgoing
<1>1. CASE UNCHANGED <<inflight_outgoing, send_quota, next_packet_id>>
  BY <1>1 DEF IInv, Shape, NoQuotaLeak
<1>2. CASE /\ MayTrack
           /\ D' = D \cup {FreeId}
           /\ send_quota' = send_quota - 1
           /\ next_packet_id' = After(FreeId)
  <2>1. FreeId \in PacketIds /\ FreeId \notin D
    BY FreeIdIsFree DEF IInv, NoQuotaLeak, Used
  <2>2. IsFiniteSet(D) /\ Cardinality(D) \in Nat
    BY IdSetsFinite DEF IInv, Shape
  <2>3. Cardinality(D') = Cardinality(D) + 1
    BY <1>2, <2>1, <2>2, FS_AddElement
  <2>4. next_packet_id' \in PacketIds
    <3>1. FreeId \in 1 .. MaxPacketId
      BY <2>1 DEF PacketIds
    <3>2. FreeId % MaxPacketId \in 0 .. MaxPacketId - 1
      BY <3>1, SessionConstants
    <3> QED BY <1>2, <3>2, SessionConstants DEF After, PacketIds
  <2>5. Shape'
    BY <1>2, <2>1, <2>4, SessionConstants DEF IInv, Shape, MayTrack
  <2>6. NoQuotaLeak'
    <3>1. Cardinality(D) < max_inflight
      BY <1>2 DEF MayTrack
    <3> QED
      BY <1>2, <2>2, <2>3, <3>1, SessionConstants
      DEF IInv, Shape, NoQuotaLeak
  <2> QED BY <2>5, <2>6 DEF IInv
<1> QED
  BY <1>1, <1>2 DEF Accept, Track, Queue, WithInflight, session

\* An acknowledgement, whether of a message in flight, of one acknowledged
\* before or of a retained one, loses no quota (qos.rs:19-28, 84-93).
LEMMA AckPreserves ==
  ASSUME IInv, NEW type, handle_puback(type)
  PROVE  IInv'
<1> DEFINE D == DOMAIN inflight_outgoing
           id == Head(to_broker).id
<1>1. /\ D' = D \ {id}
      /\ send_quota' = IncrementQuota
      /\ next_packet_id' = next_packet_id
  BY DEF handle_puback, WithoutInflight
<1>2. IsFiniteSet(D) /\ Cardinality(D) \in Nat
  BY IdSetsFinite DEF IInv, Shape
<1>3. Cardinality(D') = IF id \in D THEN Cardinality(D) - 1 ELSE Cardinality(D)
  BY <1>1, <1>2, FS_RemoveElement, Zenon
<1>4. Cardinality(D') \in Nat
  BY <1>1, IdSetsFinite DEF IInv, Shape
<1>5. Shape'
  BY <1>1, SessionConstants DEF IInv, Shape, IncrementQuota
<1>6. NoQuotaLeak'
  BY <1>1, <1>2, <1>3, <1>4, SessionConstants
  DEF IInv, Shape, NoQuotaLeak, IncrementQuota
<1> QED BY <1>5, <1>6 DEF IInv

\* What the other handlers do to the session changes neither the set of ids in
\* flight nor the quota, except that a CONNECT may refill the quota.
LEMMA KeepPreserves ==
  ASSUME IInv,
         DOMAIN inflight_outgoing' = DOMAIN inflight_outgoing,
         send_quota' \in {send_quota, receive_maximum},
         next_packet_id' \in PacketIds
  PROVE  IInv'
<1>1. Cardinality(DOMAIN inflight_outgoing) \in Nat
  BY IdSetsFinite DEF IInv, Shape
<1> QED
  BY <1>1, SessionConstants DEF IInv, Shape, NoQuotaLeak

\* A retained message takes the next id and leaves a valid counter
\* (subscribe.rs:260-263).
LEMMA RetainedPreserves ==
  ASSUME IInv, NEW m \in RetainedMsgs, send_retained_message(m)
  PROVE  IInv'
<1>1. FreeId \in 1 .. MaxPacketId
  BY FreeIdIsFree DEF IInv, NoQuotaLeak, PacketIds
<1>2. FreeId % MaxPacketId \in 0 .. MaxPacketId - 1
  BY <1>1, SessionConstants
<1>3. After(FreeId) \in PacketIds
  BY <1>2, SessionConstants DEF After, PacketIds
<1> QED
  BY <1>3, KeepPreserves, Zenon DEF send_retained_message, IInv, Shape

\* Every step of the subscriber's session preserves the invariant.
LEMMA NextIInv == IInv /\ [Next]_vars => IInv'
<1> SUFFICES ASSUME IInv, [Next]_vars PROVE IInv'
  OBVIOUS
<1>1. CASE UNCHANGED session
  BY <1>1, KeepPreserves DEF session, IInv, Shape
<1>2. CASE UNCHANGED <<inflight_outgoing, send_quota, next_packet_id>>
  BY <1>2, KeepPreserves DEF IInv, Shape
<1>3. CASE Routing
  BY <1>1, <1>2, <1>3
  DEF Routing, RouteToConnection, RouteToClosed, RouteToSession, QueueRouted
<1>4. CASE handle_outgoing_packet
  BY <1>4, AcceptPreserves DEF handle_outgoing_packet, Outgoing
<1>5. CASE Acks
  <2>1. CASE handle_pubrec
    BY <2>1, KeepPreserves DEF handle_pubrec, IInv, Shape
  <2> QED BY <1>5, <2>1, AckPreserves DEF Acks
<1>6. CASE retry_unacked_messages \/ handle_subscribe
  BY <1>1, <1>6 DEF retry_unacked_messages, handle_subscribe
<1>7. CASE handle_connect
  BY <1>7, KeepPreserves DEF handle_connect, IInv, Shape
<1>8. CASE drain_pending_messages \/ cleanup_expired_messages
  BY <1>2, <1>8 DEF drain_pending_messages, cleanup_expired_messages
<1>9. CASE Loops
  <2>1. CASE send_pending_message
    BY <2>1, AcceptPreserves DEF send_pending_message, Outgoing
  <2>2. CASE resend_inflight_messages \/ EndOfLoop
    BY <1>1, <2>2 DEF resend_inflight_messages, EndOfLoop
  <2>3. CASE \E id \in PacketIds : ResendOne(id)
    BY <1>1, <2>3 DEF ResendOne
  <2> QED BY <1>9, <2>1, <2>2, <2>3, RetainedPreserves DEF Loops
<1>10. CASE handle_disconnect \/ WriteFails
  BY <1>1, <1>10 DEF handle_disconnect, WriteFails
<1>11. CASE OutgoingFails \/ PendingFails
  BY <1>11, AcceptPreserves DEF OutgoingFails, PendingFails, PublishFails
<1>12. CASE Break \/ ClientReceives
  BY <1>1, <1>12 DEF Break, ClientReceives
<1>13. CASE UNCHANGED vars
  BY <1>1, <1>13 DEF vars
<1> QED
  BY <1>3, <1>4, <1>5, <1>6, <1>7, <1>8, <1>9, <1>10, <1>11, <1>12, <1>13
  DEF Next

\* A new session (session/mod.rs:172-205) satisfies the invariant.
LEMMA InitIInv == Init => IInv
<1> SUFFICES ASSUME Init PROVE IInv
  OBVIOUS
<1>1. DOMAIN inflight_outgoing = {}
  BY DEF Init
<1>2. Cardinality(DOMAIN inflight_outgoing) = 0
  BY <1>1, FS_EmptySet
<1>3. MaxPacketId > 0
  <2>1. IsFiniteSet(Incoming) /\ Cardinality(Incoming) \in Nat
    BY IdSetsFinite, SessionConstants
  <2> QED BY <2>1, IdsSuffice, SessionConstants
<1> QED
  BY <1>1, <1>2, <1>3, SessionConstants
  DEF Init, IInv, Shape, NoQuotaLeak, PacketIds

\* The window never exceeds max_inflight, and the quota that is missing is held
\* by messages in flight: whatever acknowledgements, retries, reconnections and
\* failed writes a session sees, a client that acknowledges everything gets its
\* whole Receive Maximum back (session/mod.rs:373-387 and its callers).
THEOREM FlowControl == Spec => []NoQuotaLeak
<1>1. IInv => NoQuotaLeak
  BY DEF IInv
<1> QED BY InitIInv, NextIInv, <1>1, PTL DEF Spec
=============================================================================
