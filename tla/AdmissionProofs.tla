--------------------------- MODULE AdmissionProofs ---------------------------
(***************************************************************************)
(* The connection limit of an address, for any number of accept tasks and  *)
(* addresses, any limits and any interleaving with clean-up, bans and      *)
(* clock.                                                                  *)
(*                                                                         *)
(* Neither CountIsLive nor LimitOvershoot is inductive.  Only addresses    *)
(* under the limits may get an entry, which Places says place by place;    *)
(* and a socket that has passed the check counts already before it is      *)
(* recorded, which is what Headroom adds.                                  *)
(***************************************************************************)
EXTENDS Admission, FiniteSetTheorems, TLAPS

Recording(a) == At({"record"}, a)

Count(a) == IF a \in DOMAIN ip_state THEN ip_state[a].connection_count ELSE 0

\* Whose socket a task can have in its hands, by where it is in the code.
Places ==
  \A t \in Tasks :
    /\ pc[t] \in {"proxy", "check"} => ip[t] \in Ips
    /\ pc[t] \in {"bans", "unban", "consult", "leave", "add", "reset", "restart", "ban"} =>
         ip[t] \in Limited
    /\ pc[t] \in {"record", "live"} => ip[t] \in Limited \cup (Ips \cap AllowedIps)

\* Connections and sockets that are about to become one.
Headroom ==
  max_connections_per_ip > 0 =>
    \A a \in Limited :
      Cardinality(Live(a)) + Cardinality(Recording(a)) <= max_connections_per_ip - 1 + peak[a]

IInv == TypeOK /\ Places /\ CountIsLive /\ Headroom

-----------------------------------------------------------------------------
\* Entries are made with every field in its range, and a refill keeps the
\* tokens below the burst (flapping/mod.rs:110-174).
LEMMA StatesTyped ==
  ASSUME TypeOK, NEW a, NEW at \in Nat
  PROVE  Entry(a, at) \in IpState /\ Refilled(Entry(a, at), at) \in IpState
<1>1. NewState(at) \in IpState
  BY AdmissionAssumption DEF TypeOK, NewState, IpState
<1>2. Entry(a, at) \in IpState
  BY <1>1 DEF TypeOK, Entry
<1>3. ASSUME NEW s \in IpState PROVE Refilled(s, at) \in IpState
  <2> DEFINE elapsed == Monus(at, s.last_refill)
             add == (elapsed * rate_limit) \div SECOND
  <2>1. elapsed \in Nat
    BY DEF Monus, IpState
  <2>2. elapsed * rate_limit \in Nat
    BY <2>1, AdmissionAssumption
  <2>3. add \in Nat
    <3> HIDE DEF elapsed
    <3> QED BY <2>2, AdmissionAssumption
  <2>4. Min(s.tokens + add, rate_burst) \in 0..rate_burst
    <3> HIDE DEF add
    <3> QED BY <2>3, AdmissionAssumption DEF Min, IpState
  <2>5. CASE add = 0
    BY <2>5 DEF Refilled
  <2>6. CASE add # 0
    <3>1. Refilled(s, at) =
            [s EXCEPT !.last_refill = at, !.tokens = Min(@ + add, rate_burst)]
      BY <2>6 DEF Refilled
    <3> HIDE DEF add
    <3> QED BY <3>1, <2>4, Zenon DEF IpState
  <2> QED BY <2>5, <2>6
<1> QED BY <1>2, <1>3

\* A task's step to another place leaves the other tasks where they are.
LEMMA OthersStay ==
  ASSUME TypeOK, NEW t \in Tasks, NEW place \in Place, Goto(t, place) \/ GotoAt(t, place)
  PROVE  /\ pc' \in [Tasks -> Place] /\ ip' \in [Tasks -> Ips \cup {NoIp}]
         /\ clock' = clock => now' \in [Tasks -> Nat]
         /\ pc'[t] = place
         /\ place # "idle" => ip' = ip
         /\ \A u \in Tasks \ {t} : pc'[u] = pc[u] /\ ip'[u] = ip[u]
BY DEF TypeOK, Goto, GotoAt

-----------------------------------------------------------------------------
\* Every function of the detector keeps the types, and the accept loops bring
\* only sockets of addresses under the limits to it (flapping/mod.rs:337-349).
LEMMA TypeStep ==
  ASSUME TypeOK, Places, [Next]_vars
  PROVE  TypeOK' /\ Places'
<1>1. CASE UNCHANGED vars
  BY <1>1 DEF TypeOK, Places, vars
<1>2. ASSUME NEW t \in Tasks, NEW a \in Ips, Accept(t, a) PROVE TypeOK' /\ Places'
  BY <1>2 DEF TypeOK, Places, Accept, detector, Place
<1>3. ASSUME NEW t \in Tasks, Proxy(t) PROVE TypeOK' /\ Places'
  <2>1. UNCHANGED <<clock, ip_state, temp_bans, peak>> BY <1>3 DEF Proxy, detector, history
  <2>2. PICK place \in {"check", "idle"} : Goto(t, place) BY <1>3 DEF Proxy
  <2> QED BY <1>3, <2>1, <2>2, OthersStay DEF TypeOK, Places, Place, Proxy
<1>4. ASSUME NEW t \in Tasks, Check(t) PROVE TypeOK' /\ Places'
  <2>1. UNCHANGED <<clock, ip_state, temp_bans, peak>> BY <1>4 DEF Check, detector, history
  <2>2. pc[t] = "check" /\ ip[t] \in Ips BY <1>4 DEF Check, Places
  <2>3. PICK place \in {"record", "idle", "bans"} :
          /\ GotoAt(t, place)
          /\ place = "record" => ip[t] \in AllowedIps
          /\ place = "bans" => ip[t] \in Limited
    BY <1>4, <2>2 DEF Check, Limited
  <2> QED BY <2>1, <2>2, <2>3, OthersStay DEF TypeOK, Places, Place
<1>5. ASSUME NEW t \in Tasks, TempBanned(t) PROVE TypeOK' /\ Places'
  <2>1. UNCHANGED <<clock, ip_state, temp_bans, peak>> BY <1>5 DEF TempBanned, detector, history
  <2>2. PICK place \in {"consult", "idle", "unban"} : Goto(t, place) BY <1>5 DEF TempBanned
  <2> QED BY <1>5, <2>1, <2>2, OthersStay DEF TypeOK, Places, Place, TempBanned
<1>6. ASSUME NEW t \in Tasks, RemoveBan(t) PROVE TypeOK' /\ Places'
  <2>1. UNCHANGED <<clock, ip_state, peak>> BY <1>6 DEF RemoveBan
  <2>2. Goto(t, "consult") BY <1>6 DEF RemoveBan
  <2> QED BY <1>6, <2>1, <2>2, OthersStay DEF TypeOK, Places, Place, RemoveBan, WithoutBan
<1>7. ASSUME NEW t \in Tasks, Consult(t) PROVE TypeOK' /\ Places'
  <2> DEFINE a == ip[t]
             s == Refilled(Entry(a, now[t]), now[t])
  <2>1. pc[t] = "consult" /\ a \in Limited BY <1>7 DEF Consult, Places
  <2>2. s \in IpState /\ s.tokens \in 0..rate_burst BY StatesTyped DEF TypeOK, IpState
  <2>3. PICK place \in {"record", "idle"} : Goto(t, place) BY <1>7 DEF Consult
  <2>4. PICK r \in IpState : ip_state' = WithState(a, r)
    <3>1. s.tokens > 0 => [s EXCEPT !.tokens = @ - 1] \in IpState
      <4> HIDE DEF s
      <4> QED BY <2>2, AdmissionAssumption DEF IpState
    <3> QED BY <1>7, <2>2, <3>1 DEF Consult
  <2>5. \A b \in DOMAIN ip_state' : ip_state'[b] \in IpState
    BY <2>4 DEF WithState, TypeOK
  <2>6. DOMAIN ip_state' \subseteq Limited BY <2>1, <2>4 DEF WithState, TypeOK
  <2>7. peak' \in [Ips -> Nat]
    <3>1. Cardinality(At({"record"}, a)) \in Nat
      BY AdmissionAssumption, FS_Subset, FS_CardinalityType DEF At
    <3>2. PICK n \in {peak[a], Cardinality(At({"record"}, a)) + 1} :
            peak' = [peak EXCEPT ![a] = n]
      BY <1>7, Zenon DEF Consult
    <3>3. a \in Ips BY <2>1 DEF Limited
    <3> QED BY <3>1, <3>2, <3>3 DEF TypeOK
  <2>8. UNCHANGED <<clock, temp_bans>> BY <1>7 DEF Consult
  <2> HIDE DEF s
  <2> QED BY <2>1, <2>3, <2>5, <2>6, <2>7, <2>8, OthersStay DEF TypeOK, Places, Place
<1>8. ASSUME NEW t \in Tasks, record_connection(t) PROVE TypeOK' /\ Places'
  <2> DEFINE a == ip[t]
  <2>1. pc[t] = "record" /\ a \in Limited \cup (Ips \cap AllowedIps)
    BY <1>8 DEF record_connection, Places
  <2>2. Goto(t, "live") /\ UNCHANGED <<clock, temp_bans, peak>> BY <1>8 DEF record_connection
  <2>3. DOMAIN ip_state' \subseteq Limited /\ \A b \in DOMAIN ip_state' : ip_state'[b] \in IpState
    <3>1. CASE a \in AllowedIps BY <1>8, <3>1 DEF record_connection, TypeOK
    <3>2. CASE a \notin AllowedIps
      <4>1. PICK at \in now[t]..clock :
              ip_state' = WithState(a, [Entry(a, at) EXCEPT !.connection_count = @ + 1])
        BY <1>8, <3>2 DEF record_connection
      <4>2. at \in Nat BY DEF TypeOK
      <4>3. [Entry(a, at) EXCEPT !.connection_count = @ + 1] \in IpState
        BY <4>2, StatesTyped DEF IpState
      <4> QED BY <2>1, <3>2, <4>1, <4>3 DEF WithState, TypeOK
    <3> QED BY <3>1, <3>2
  <2> QED BY <2>1, <2>2, <2>3, OthersStay DEF TypeOK, Places, Place
<1>9. ASSUME NEW t \in Tasks, Ends(t) PROVE TypeOK' /\ Places'
  <2>1. pc[t] = "live" /\ UNCHANGED <<clock, ip_state, temp_bans, peak>> BY <1>9 DEF Ends, detector
  <2>2. PICK place \in {"leave", "idle"} :
          GotoAt(t, place) /\ (place = "leave" => ip[t] \notin AllowedIps)
    BY <1>9 DEF Ends
  <2> QED BY <2>1, <2>2, OthersStay DEF TypeOK, Places, Place
<1>10. ASSUME NEW t \in Tasks, Leave(t) PROVE TypeOK' /\ Places'
  <2>1. pc[t] = "leave" /\ UNCHANGED <<clock, temp_bans, peak>> BY <1>10 DEF Leave, history
  <2>2. PICK place \in {"add", "reset", "idle"} : Goto(t, place) BY <1>10 DEF Leave
  <2>3. DOMAIN ip_state' \subseteq Limited /\ \A b \in DOMAIN ip_state' : ip_state'[b] \in IpState
    BY <1>10 DEF Leave, TypeOK, IpState, Monus
  <2> QED BY <2>1, <2>2, <2>3, OthersStay DEF TypeOK, Places, Place
<1>11. ASSUME NEW t \in Tasks, StoreWindow(t) \/ StoreCount(t) \/ AddCount(t)
       PROVE TypeOK' /\ Places'
  <2>1. pc[t] \in {"reset", "restart", "add"} /\ UNCHANGED <<clock, temp_bans, peak>>
    BY <1>11 DEF StoreWindow, StoreCount, AddCount, history
  <2>2. PICK place \in {"restart", "ban", "idle"} : Goto(t, place)
    BY <1>11 DEF StoreWindow, StoreCount, AddCount
  <2>3. DOMAIN ip_state' \subseteq Limited /\ \A b \in DOMAIN ip_state' : ip_state'[b] \in IpState
    BY <1>11 DEF StoreWindow, StoreCount, AddCount, TypeOK, IpState
  <2> QED BY <2>1, <2>2, <2>3, OthersStay DEF TypeOK, Places, Place
<1>12. ASSUME NEW t \in Tasks, Ban(t) PROVE TypeOK' /\ Places'
  <2>1. pc[t] = "ban" /\ UNCHANGED <<clock, ip_state, peak>> BY <1>12 DEF Ban
  <2>2. Goto(t, "idle") BY <1>12 DEF Ban
  <2>3. now[t] + ban_time \in Nat BY AdmissionAssumption DEF TypeOK
  <2> QED BY <1>12, <2>1, <2>2, <2>3, OthersStay DEF TypeOK, Places, Place, Ban, SetBan
<1>13. ASSUME NEW a \in Limited, ban_ip(a) \/ unban_ip(a) PROVE TypeOK' /\ Places'
  BY <1>13, AdmissionAssumption DEF TypeOK, Places, ban_ip, unban_ip, SetBan, WithoutBan
<1>14. CASE cleanup
  BY <1>14 DEF TypeOK, Places, cleanup, history, StaleStates, ExpiredBans
<1>15. CASE Tick
  BY <1>15 DEF TypeOK, Places, Tick, detector, history
<1> QED
  BY <1>1, <1>2, <1>3, <1>4, <1>5, <1>6, <1>7, <1>8, <1>9, <1>10, <1>11, <1>12, <1>13,
     <1>14, <1>15 DEF Next, Step

-----------------------------------------------------------------------------
\* Connections and sockets past the check can be counted.
LEMMA TasksFinite ==
  \A a : /\ IsFiniteSet(Live(a)) /\ Cardinality(Live(a)) \in Nat
         /\ IsFiniteSet(Recording(a)) /\ Cardinality(Recording(a)) \in Nat
BY AdmissionAssumption, FS_Subset, FS_CardinalityType DEF Live, Recording, At

\* A step that moves no connection, no socket past the check and no count.
LEMMA Quiet ==
  ASSUME IInv,
         \A a \in Limited : /\ Live(a)' = Live(a) /\ Recording(a)' = Recording(a)
                            /\ Count(a)' = Count(a) /\ peak'[a] = peak[a]
  PROVE  CountIsLive' /\ Headroom'
<1>1. \A a \in Limited : Cardinality(Live(a)) = Count(a)
  BY DEF IInv, CountIsLive, Count
<1>2. \A a \in Limited : Cardinality(Live(a)') = Count(a)'
  BY <1>1
<1>3. CountIsLive'
  BY <1>2 DEF CountIsLive, Count
<1>4. Headroom'
  BY DEF IInv, Headroom
<1> QED BY <1>3, <1>4

\* A check that is passed: the count is below the limit, and the sockets between
\* check and record are counted by peak (flapping/mod.rs:351-388).
LEMMA ConsultStep ==
  ASSUME IInv, NEW t \in Tasks, Consult(t)
  PROVE  CountIsLive' /\ Headroom'
<1> PICK a : a = ip[t] OBVIOUS
<1> DEFINE s == Refilled(Entry(ip[t], now[t]), now[t])
           pending == Cardinality(At({"record"}, a)) + 1
<1>1. pc[t] = "consult" /\ a \in Limited /\ a \in Ips
  BY DEF Consult, IInv, Places, Limited
<1>2. s \in IpState /\ s.connection_count = Count(a)
  <2>1. s \in IpState
    BY StatesTyped DEF IInv, TypeOK
  <2>2. Entry(a, now[t]) \in IpState /\ Entry(a, now[t]).connection_count = Count(a)
    BY Zenon, StatesTyped DEF IInv, TypeOK, Entry, Count, NewState
  <2>3. \A e \in IpState : Refilled(e, now[t]).connection_count = e.connection_count
    <3> TAKE e \in IpState
    <3> DEFINE add == (Monus(now[t], e.last_refill) * rate_limit) \div SECOND
               m == Min(e.tokens + add, rate_burst)
    <3>1. CASE add = 0 BY <3>1 DEF Refilled
    <3>2. CASE add # 0
      <4>1. Refilled(e, now[t]) = [e EXCEPT !.last_refill = now[t], !.tokens = m]
        BY <3>2 DEF Refilled
      <4> HIDE DEF m
      <4> QED BY <4>1 DEF IpState
    <3> QED BY <3>1, <3>2
  <2> HIDE DEF s
  <2> QED BY <2>1, <2>2, <2>3 DEF s
<1>3. PICK r : r.connection_count = Count(a) /\ ip_state' = WithState(a, r)
  <2>1. [s EXCEPT !.tokens = @ - 1].connection_count = Count(a)
    <3> HIDE DEF s
    <3> QED BY <1>2 DEF IpState
  <2> QED BY <1>2, <2>1, Zenon DEF Consult
<1>4. \A b \in Limited : Count(b)' = Count(b)
  BY <1>3 DEF Count, WithState
<1>5. CASE Goto(t, "idle") /\ peak' = [peak EXCEPT ![a] = peak[a]]
  <2>1. \A b \in Limited : Live(b)' = Live(b) /\ Recording(b)' = Recording(b)
    BY <1>1, <1>5, OthersStay DEF Live, Recording, At, Place, IInv
  <2> QED BY <1>4, <1>5, <2>1, Quiet DEF IInv, TypeOK
<1>6. CASE /\ Goto(t, "record") /\ Room(s)
           /\ peak' = [peak EXCEPT ![a] = IF pending > peak[a] THEN pending ELSE peak[a]]
  <2>1. \A b \in Limited : Live(b)' = Live(b)
    BY <1>1, <1>6, OthersStay DEF Live, At, Place, IInv
  <2>2. \A b \in Limited : Recording(b)' = IF b = a THEN Recording(b) \cup {t} ELSE Recording(b)
    BY <1>1, <1>6, OthersStay DEF Recording, At, Place, IInv
  <2>3. CountIsLive'
    BY <1>4, <2>1 DEF CountIsLive, Count, IInv
  <2>4. ASSUME max_connections_per_ip > 0, NEW b \in Limited
        PROVE  (Cardinality(Live(b)) + Cardinality(Recording(b)) <=
                  max_connections_per_ip - 1 + peak[b])'
    <3>1. CASE b # a
      BY Zenon, <2>1, <2>2, <2>4, <3>1, <1>6 DEF Headroom, IInv, TypeOK, Limited
    <3>2. CASE b = a
      <4>1. t \notin Recording(a)
        BY <1>1 DEF Recording, At
      <4>2. Cardinality(Recording(a)') = pending /\ pending \in Nat
        <5>1. Recording(a)' = Recording(a) \cup {t} BY <1>1, <2>2
        <5>2. pending = Cardinality(Recording(a)) + 1 BY DEF Recording
        <5>3. Cardinality(Recording(a) \cup {t}) = Cardinality(Recording(a)) + 1
          BY <4>1, TasksFinite, FS_AddElement, Zenon
        <5>4. Cardinality(Recording(a)) \in Nat BY TasksFinite
        <5> HIDE DEF pending
        <5> QED BY <5>1, <5>2, <5>3, <5>4
      <4>3. Cardinality(Live(a)') < max_connections_per_ip
        <5>1. Count(a) < max_connections_per_ip
          <6> HIDE DEF s
          <6> QED BY <1>2, <1>6, <2>4, AdmissionAssumption DEF Room
        <5>2. Cardinality(Live(a)) = Count(a) BY <1>1 DEF CountIsLive, Count, IInv
        <5> QED BY <5>1, <5>2, <2>1, <1>1
      <4>4. peak'[a] >= pending /\ peak'[a] \in Nat
        BY <1>1, <1>6, <4>2 DEF IInv, TypeOK
      <4>5. Cardinality(Live(a)') \in Nat
        BY <2>1, <1>1, TasksFinite
      <4> HIDE DEF pending
      <4> QED BY <3>2, <4>2, <4>3, <4>4, <4>5, AdmissionAssumption
    <3> QED BY <3>1, <3>2
  <2> QED BY <2>3, <2>4 DEF Headroom
<1> QED BY <1>5, <1>6, Zenon DEF Consult

\* A socket that is recorded becomes a connection, and the entry counts it
\* (flapping/mod.rs:391-402).
LEMMA RecordStep ==
  ASSUME IInv, NEW t \in Tasks, record_connection(t)
  PROVE  CountIsLive' /\ Headroom'
<1> PICK a : a = ip[t] OBVIOUS
<1>1. pc[t] = "record" /\ Goto(t, "live") /\ peak' = peak
  BY DEF record_connection
<1>2. \A b \in Limited :
        /\ Live(b)' = IF b = a THEN Live(b) \cup {t} ELSE Live(b)
        /\ Recording(b)' = IF b = a THEN Recording(b) \ {t} ELSE Recording(b)
  BY <1>1, OthersStay DEF Live, Recording, At, Place, IInv
<1>3. \A b \in Limited : Count(b)' = IF b = a THEN Count(b) + 1 ELSE Count(b)
  <2>1. CASE a \in AllowedIps
    BY <2>1 DEF record_connection, Count, Limited
  <2>2. CASE a \notin AllowedIps
    <3>1. PICK at \in now[t]..clock :
            ip_state' = WithState(a, [Entry(a, at) EXCEPT !.connection_count = @ + 1])
      BY <2>2 DEF record_connection
    <3>2. Entry(a, at) \in IpState /\ Entry(a, at).connection_count = Count(a)
      BY SMTT(20), StatesTyped DEF IInv, TypeOK, Entry, Count, NewState
    <3> DEFINE e == Entry(a, at)
               r == [e EXCEPT !.connection_count = @ + 1]
    <3>3. r.connection_count = Count(a) + 1
      <4> HIDE DEF e
      <4> QED BY <3>2 DEF e, IpState
    <3> HIDE DEF r
    <3> QED BY <3>1, <3>3 DEF Count, WithState, r
  <2> QED BY <2>1, <2>2
<1>4. t \in Recording(a) /\ t \notin Live(a)
  BY <1>1 DEF Recording, Live, At
<1>5. \A b \in Limited :
        /\ Cardinality(Live(b)') = IF b = a THEN Cardinality(Live(b)) + 1 ELSE Cardinality(Live(b))
        /\ Cardinality(Recording(b)') =
             IF b = a THEN Cardinality(Recording(b)) - 1 ELSE Cardinality(Recording(b))
  <2>1. /\ Cardinality(Live(a) \cup {t}) = Cardinality(Live(a)) + 1
        /\ Cardinality(Recording(a) \ {t}) = Cardinality(Recording(a)) - 1
    BY <1>4, TasksFinite, FS_AddElement, FS_RemoveElement, Zenon
  <2> QED BY Zenon, <1>2, <2>1
<1>6. CountIsLive'
  BY <1>3, <1>5 DEF CountIsLive, Count, IInv
<1>7. \A b \in Limited : Cardinality(Live(b)) \in Nat /\ Cardinality(Recording(b)) \in Nat
  BY TasksFinite
<1>8. Headroom'
  BY <1>1, <1>5, <1>7 DEF Headroom, IInv
<1> QED BY <1>6, <1>8

\* A connection that is written off was counted, so the guard against underflow
\* does not bite (flapping/mod.rs:405-419).
LEMMA LeaveStep ==
  ASSUME IInv, NEW t \in Tasks, Leave(t)
  PROVE  CountIsLive' /\ Headroom'
<1> PICK a : a = ip[t] OBVIOUS
<1>1. pc[t] = "leave" /\ a \in Limited /\ peak' = peak
  BY DEF Leave, history, IInv, Places
<1>2. PICK place \in {"add", "reset", "idle"} : Goto(t, place)
  BY DEF Leave
<1>3. \A b \in Limited :
        /\ Live(b)' = IF b = a THEN Live(b) \ {t} ELSE Live(b)
        /\ Recording(b)' = Recording(b)
  BY <1>1, <1>2, OthersStay DEF Live, Recording, At, Place, IInv
<1>4. t \in Live(a)
  BY <1>1 DEF Live, At
<1>5. \A b \in Limited :
        Cardinality(Live(b)') = IF b = a THEN Cardinality(Live(b)) - 1 ELSE Cardinality(Live(b))
  <2>1. Cardinality(Live(a) \ {t}) = Cardinality(Live(a)) - 1
    BY <1>4, TasksFinite, FS_RemoveElement, Zenon
  <2> QED BY <1>3, <2>1
<1>6. \A b \in Limited : Cardinality(Live(b)) \in Nat /\ Cardinality(Recording(b)) \in Nat
  BY TasksFinite
<1>7. Cardinality(Live(a)) = Count(a) /\ Cardinality(Live(a)) # 0
  <2>1. Cardinality(Live(a)) # 0
    BY <1>4, TasksFinite, FS_EmptySet
  <2> QED BY <1>1, <2>1 DEF IInv, CountIsLive, Count
<1>8. a \in DOMAIN ip_state /\ ip_state[a] \in IpState
  BY <1>7 DEF Count, IInv, TypeOK
<1>9. \A b \in Limited : Count(b)' = IF b = a THEN Count(b) - 1 ELSE Count(b)
  BY <1>1, <1>6, <1>7, <1>8 DEF Leave, Count, Monus, IpState, IInv, TypeOK
<1>10. CountIsLive'
  BY <1>5, <1>9 DEF CountIsLive, Count, IInv
<1>11. Headroom'
  <2>1. \A b \in Limited : peak[b] \in Nat BY DEF IInv, TypeOK, Limited
  <2> QED BY <1>1, <1>3, <1>5, <1>6, <2>1, AdmissionAssumption DEF Headroom, IInv
<1> QED BY <1>10, <1>11

-----------------------------------------------------------------------------
\* Only Consult, record_connection and Leave move a connection or a count: the
\* clean-up task removes entries that count nobody (flapping/mod.rs:469-478).
LEMMA InductiveStep ==
  ASSUME IInv, [Next]_vars
  PROVE  IInv'
<1>1. TypeOK' /\ Places'
  BY TypeStep DEF IInv
<1> SUFFICES CountIsLive' /\ Headroom'
  BY <1>1 DEF IInv
<1>2. CASE UNCHANGED <<pc, ip, ip_state, peak>>
  BY <1>2, Quiet DEF Live, Recording, At, Count
<1>3. ASSUME NEW t \in Tasks, NEW place \in Place, Goto(t, place) \/ GotoAt(t, place),
             UNCHANGED peak, \A a \in Limited : Count(a)' = Count(a),
             place = "record" => ip[t] \notin Limited,
             place # "live", pc[t] \notin {"leave", "record"},
             pc[t] = "live" /\ ip[t] \in Limited <=> place = "leave"
      PROVE  CountIsLive' /\ Headroom'
  <2>1. \A a \in Limited : Live(a)' = Live(a) /\ Recording(a)' = Recording(a)
    BY <1>3, OthersStay DEF Live, Recording, At, Place, IInv
  <2> QED BY <1>3, <2>1, Quiet
<1>4. ASSUME NEW t \in Tasks, NEW b \in Ips, Accept(t, b) PROVE CountIsLive' /\ Headroom'
  <2>1. UNCHANGED <<ip_state, peak>> BY <1>4 DEF Accept, detector
  <2>2. \A a \in Limited : Live(a)' = Live(a) /\ Recording(a)' = Recording(a)
    BY <1>4 DEF Accept, Live, Recording, At, IInv, TypeOK
  <2> QED BY <2>1, <2>2, Quiet DEF Count
<1>5. ASSUME NEW t \in Tasks, Proxy(t) \/ TempBanned(t) \/ RemoveBan(t) \/ Ban(t)
      PROVE CountIsLive' /\ Headroom'
  <2>1. /\ pc[t] \in {"proxy", "bans", "unban", "ban"}
        /\ UNCHANGED <<ip_state, peak>>
    BY <1>5 DEF Proxy, TempBanned, RemoveBan, Ban, detector, history
  <2>2. PICK place \in {"check", "idle", "consult", "unban"} : Goto(t, place)
    BY <1>5 DEF Proxy, TempBanned, RemoveBan, Ban
  <2> QED BY <2>1, <2>2, <1>3 DEF Count, Place
<1>6. ASSUME NEW t \in Tasks, Check(t) PROVE CountIsLive' /\ Headroom'
  <2>1. pc[t] = "check" /\ UNCHANGED <<ip_state, peak>> BY <1>6 DEF Check, detector, history
  <2>2. PICK place \in {"record", "idle", "bans"} :
          GotoAt(t, place) /\ (place = "record" => ip[t] \notin Limited)
    BY <1>6 DEF Check, Limited
  <2> QED BY <2>1, <2>2, <1>3 DEF Count, Place
<1>7. ASSUME NEW t \in Tasks, Ends(t) PROVE CountIsLive' /\ Headroom'
  <2>1. /\ pc[t] = "live" /\ UNCHANGED <<ip_state, peak>>
        /\ GotoAt(t, IF ip[t] \in AllowedIps THEN "idle" ELSE "leave")
    BY <1>7 DEF Ends, detector
  <2>2. ip[t] \in Limited <=> ip[t] \notin AllowedIps
    BY <2>1 DEF IInv, Places, Limited
  <2>3. PICK place \in {"idle", "leave"} :
          GotoAt(t, place) /\ (place = "leave" <=> ip[t] \in Limited)
    BY <2>1, <2>2
  <2> QED BY <2>1, <2>3, <1>3 DEF Count, Place
<1>8. ASSUME NEW t \in Tasks, StoreWindow(t) \/ StoreCount(t) \/ AddCount(t)
      PROVE CountIsLive' /\ Headroom'
  <2>1. pc[t] \in {"reset", "restart", "add"} /\ UNCHANGED peak
    BY <1>8 DEF StoreWindow, StoreCount, AddCount, history
  <2>2. PICK place \in {"restart", "ban", "idle"} : Goto(t, place)
    BY <1>8 DEF StoreWindow, StoreCount, AddCount
  <2>3. \A a \in Limited : Count(a)' = Count(a)
    BY <1>8 DEF StoreWindow, StoreCount, AddCount, Count, IInv, TypeOK, IpState
  <2> QED BY <2>1, <2>2, <2>3, <1>3 DEF Place
<1>9. CASE cleanup
  <2>1. UNCHANGED <<pc, ip, peak>> BY <1>9 DEF cleanup, history
  <2>2. \A a \in Limited : Count(a)' = Count(a)
    BY <1>9 DEF cleanup, StaleStates, Count
  <2> QED BY <2>1, <2>2, Quiet DEF Live, Recording, At
<1>10. CASE UNCHANGED vars \/ Tick \/ \E a \in Limited : ban_ip(a) \/ unban_ip(a)
  BY <1>10, <1>2 DEF vars, Tick, ban_ip, unban_ip, detector, history
<1> QED
  BY <1>4, <1>5, <1>6, <1>7, <1>8, <1>9, <1>10, ConsultStep, RecordStep, LeaveStep DEF Next, Step

\* Initially there are no tasks with a socket and no entries.
LEMMA InductiveInit == Init => IInv
<1> SUFFICES ASSUME Init PROVE IInv
  OBVIOUS
<1>1. TypeOK /\ Places
  BY AdmissionAssumption DEF Init, TypeOK, Places, Place
<1>2. \A a : Live(a) = {} /\ Recording(a) = {}
  BY DEF Init, Live, Recording, At
<1>3. CountIsLive
  BY <1>2, FS_EmptySet, Zenon DEF Init, CountIsLive
<1>4. \A a \in Limited : peak[a] = 0
  BY DEF Init, Limited
<1>5. Headroom
  <2>1. \A a \in Limited : Cardinality(Live(a)) = 0 /\ Cardinality(Recording(a)) = 0
    BY <1>2, FS_EmptySet
  <2> QED BY <2>1, <1>4, AdmissionAssumption DEF Headroom
<1> QED BY <1>1, <1>3, <1>5 DEF IInv

\* connection_count of an address is the number of its connections that were
\* recorded and not written off, whatever tasks, bans and clean-up interleave.
THEOREM CountExact == Spec => []CountIsLive
<1>1. IInv /\ [Next]_vars => IInv'
  BY InductiveStep
<1>2. IInv => CountIsLive
  BY DEF IInv
<1> QED BY InductiveInit, <1>1, <1>2, PTL DEF Spec

\* max_connections_per_ip is exceeded by at most the sockets that were between
\* check_connection and record_connection at once, less one.
THEOREM OvershootBounded == Spec => []LimitOvershoot
<1>1. IInv /\ [Next]_vars => IInv'
  BY InductiveStep
<1>2. IInv => LimitOvershoot
  <2> SUFFICES ASSUME IInv, max_connections_per_ip > 0, NEW a \in Limited
               PROVE  Cardinality(Live(a)) <= max_connections_per_ip - 1 + peak[a]
    BY DEF LimitOvershoot
  <2>1. peak[a] \in Nat BY DEF IInv, TypeOK, Limited
  <2> QED BY <2>1, TasksFinite, AdmissionAssumption DEF IInv, Headroom
<1> QED BY InductiveInit, <1>1, <1>2, PTL DEF Spec

-----------------------------------------------------------------------------
\* Where the TCP loop has a socket that it has not handed to a task yet.
Accepting == {"proxy", "check", "bans", "unban", "consult", "record"}

\* Without the WebSocket and TLS loops, one socket at a time is on that way.
OneAccepts ==
  TcpTasks = Tasks =>
    /\ \A t, u \in Tasks : pc[t] \in Accepting /\ pc[u] \in Accepting => t = u
    /\ \A a \in Ips : peak[a] <= 1

\* The TCP loop awaits check and record before it accepts again
\* (broker/mod.rs:1107-1160).
LEMMA OneAcceptsStep ==
  ASSUME IInv, OneAccepts, [Next]_vars
  PROVE  OneAccepts'
<1> SUFFICES ASSUME TcpTasks = Tasks
             PROVE  /\ \A t, u \in Tasks : pc'[t] \in Accepting /\ pc'[u] \in Accepting => t = u
                    /\ \A a \in Ips : peak'[a] <= 1
  BY DEF OneAccepts
<1>1. /\ \A t, u \in Tasks : pc[t] \in Accepting /\ pc[u] \in Accepting => t = u
      /\ \A a \in Ips : peak[a] <= 1
  BY DEF OneAccepts
<1>2. ASSUME NEW t \in Tasks, NEW a \in Ips, Accept(t, a)
      PROVE  peak' = peak /\ \A u \in Tasks : pc'[u] \in Accepting => u = t
  BY <1>2 DEF Accept, Accepting, IInv, TypeOK
<1>3. ASSUME NEW t \in Tasks, Step(t) \/ Ends(t)
      PROVE  \A u \in Tasks : pc'[u] \in Accepting => pc[u] \in Accepting
  <2>1. PICK place : pc' = [pc EXCEPT ![t] = place] /\ (place \in Accepting => pc[t] \in Accepting)
    <3>1. CASE Proxy(t) BY <3>1 DEF Proxy, Goto, Accepting
    <3>2. CASE Check(t)
      <4>1. pc[t] \in Accepting BY <3>2 DEF Check, Accepting
      <4> QED BY <3>2, <4>1, Zenon DEF Check, GotoAt
    <3>3. CASE TempBanned(t) BY <3>3, Zenon DEF TempBanned, Goto, Accepting
    <3>4. CASE RemoveBan(t) BY <3>4, Zenon DEF RemoveBan, Goto, Accepting
    <3>5. CASE Consult(t)
      <4>1. pc[t] \in Accepting BY <3>5 DEF Consult, Accepting
      <4>2. PICK place \in {"record", "idle"} : Goto(t, place) BY <3>5 DEF Consult
      <4> QED BY <4>1, <4>2, Zenon DEF Goto
    <3>6. CASE record_connection(t) BY <3>6, Zenon DEF record_connection, Goto, Accepting
    <3>7. CASE Ends(t)
      <4>1. PICK place \in {"leave", "idle"} : GotoAt(t, place) BY <3>7 DEF Ends
      <4> QED BY <4>1, Zenon DEF GotoAt, Accepting
    <3>8. CASE Leave(t)
      <4>1. PICK place \in {"add", "reset", "idle"} : Goto(t, place) BY <3>8 DEF Leave
      <4> QED BY <4>1, Zenon DEF Goto, Accepting
    <3>9. CASE StoreWindow(t) \/ StoreCount(t) \/ AddCount(t) \/ Ban(t)
      <4>1. PICK place \in {"restart", "ban", "idle"} : Goto(t, place)
        BY <3>9 DEF StoreWindow, StoreCount, AddCount, Ban
      <4> QED BY <4>1, Zenon DEF Goto, Accepting
    <3> QED BY <1>3, <3>1, <3>2, <3>3, <3>4, <3>5, <3>6, <3>7, <3>8, <3>9 DEF Step
  <2> QED BY <2>1 DEF IInv, TypeOK
<1>4. ASSUME NEW t \in Tasks, Consult(t) PROVE \A a \in Ips : peak'[a] <= 1
  <2>1. At({"record"}, ip[t]) = {}
    BY <1>1, <1>4 DEF Consult, At, Accepting
  <2>2. Cardinality(At({"record"}, ip[t])) + 1 = 1
    BY <2>1, FS_EmptySet
  <2>3. PICK n \in {peak[ip[t]], Cardinality(At({"record"}, ip[t])) + 1} :
          peak' = [peak EXCEPT ![ip[t]] = n]
    BY <1>4, Zenon DEF Consult
  <2>4. ip[t] \in Ips
    BY <1>4 DEF Consult, IInv, Places, Limited
  <2> QED BY <1>1, <2>2, <2>3, <2>4 DEF IInv, TypeOK
<1>5. ASSUME NEW t \in Tasks, Step(t) \/ Ends(t), ~ Consult(t) PROVE peak' = peak
  BY Zenon, <1>5 DEF Step, Ends, Proxy, Check, TempBanned, RemoveBan, record_connection, Leave,
     StoreWindow, StoreCount, AddCount, Ban, history
<1>6. CASE UNCHANGED <<pc, peak>>
  BY <1>1, <1>6
<1>7. CASE UNCHANGED vars \/ cleanup \/ Tick \/ \E a \in Limited : ban_ip(a) \/ unban_ip(a)
  BY Zenon, <1>6, <1>7 DEF vars, cleanup, Tick, ban_ip, unban_ip, history
<1> QED BY Zenon, <1>1, <1>2, <1>3, <1>4, <1>5, <1>7 DEF Next

\* A broker that listens on TCP only never has more than max_connections_per_ip
\* connections of an address.
THEOREM TcpKeepsLimit ==
  Spec => [](TcpTasks = Tasks /\ max_connections_per_ip > 0 =>
               \A a \in Limited : Cardinality(Live(a)) <= max_connections_per_ip)
<1> DEFINE J == IInv /\ OneAccepts
           Kept == TcpTasks = Tasks /\ max_connections_per_ip > 0 =>
                     \A a \in Limited : Cardinality(Live(a)) <= max_connections_per_ip
<1>1. Init => J
  BY InductiveInit DEF Init, OneAccepts, Accepting
<1>2. J /\ [Next]_vars => J'
  BY InductiveStep, OneAcceptsStep
<1>3. J => Kept
  <2> SUFFICES ASSUME J, TcpTasks = Tasks, max_connections_per_ip > 0, NEW a \in Limited
               PROVE  Cardinality(Live(a)) <= max_connections_per_ip
    OBVIOUS
  <2>1. peak[a] \in Nat /\ peak[a] <= 1
    BY DEF IInv, TypeOK, Limited, OneAccepts
  <2> QED BY <2>1, TasksFinite, AdmissionAssumption DEF IInv, Headroom
<1> QED BY <1>1, <1>2, <1>3, PTL DEF Spec
-----------------------------------------------------------------------------
(* Times: what the rate limit and the bans rest on.                        *)

\* What the histories of refills and bans hold; and nobody has a clock value of
\* the future.
Times ==
  /\ bucket \in [Ips -> [since : Nat, passed : Nat]]
  /\ ban \in [Ips -> [since : Nat, until : Nat, lifted : BOOLEAN]]
  /\ \A t \in Tasks : now[t] <= clock
  /\ \A a \in DOMAIN ip_state :
       ip_state[a].last_refill <= clock /\ ip_state[a].window_start <= clock

\* A refill changes tokens and time of the refill only, and sets it to a time that
\* the task has read.
LEMMA RefillFields ==
  ASSUME NEW s \in IpState, NEW at \in Nat
  PROVE  LET r == Refilled(s, at)
         IN  /\ r.last_refill \in {s.last_refill, at}
             /\ r.connection_count = s.connection_count
             /\ r.disconnect_count = s.disconnect_count
             /\ r.window_start = s.window_start
<1> DEFINE add == (Monus(at, s.last_refill) * rate_limit) \div SECOND
<1>1. CASE add = 0 BY <1>1 DEF Refilled
<1>2. CASE add # 0
  <2>1. Refilled(s, at) = [s EXCEPT !.last_refill = at, !.tokens = Min(@ + add, rate_burst)]
    BY <1>2 DEF Refilled
  <2> HIDE DEF add
  <2> QED BY <2>1 DEF IpState
<1> QED BY <1>1, <1>2

\* Whatever a task does next, its clock value is one it has read.
LEMMA ClockRead ==
  ASSUME TypeOK, Times, NEW t \in Tasks, NEW place,
         Goto(t, place) \/ GotoAt(t, place), clock' = clock
  PROVE  \A u \in Tasks : now'[u] <= clock'
BY DEF TypeOK, Times, Goto, GotoAt

\* What check_connection leaves in the entry r, when it has found e in the map, or
\* has made it.
CheckLeaves(t, e, b, r, passed) ==
  /\ ip_state' = WithState(ip[t], r)
  /\ bucket' = [b EXCEPT ![ip[t]].passed = passed]
  /\ r.last_refill = Refilled(e, now[t]).last_refill
  /\ r.window_start = e.window_start
  /\ r.disconnect_count = e.disconnect_count
  /\ rate_limit > 0 => passed + r.tokens <= b[ip[t]].passed + Refilled(e, now[t]).tokens

\* Of a new entry check_connection leaves the burst, of an old one what a refill
\* makes of it, less the token it takes (flapping/mod.rs:353-388).
LEMMA Consulted ==
  ASSUME IInv, Times, NEW t \in Tasks, Consult(t), NEW a, a = ip[t],
         NEW e, e = Entry(a, now[t]), NEW b, b = Buckets(a, now[t])
  PROVE  /\ e \in IpState /\ b \in [Ips -> [since : Nat, passed : Nat]]
         /\ \E r \in IpState, passed \in Nat : CheckLeaves(t, e, b, r, passed)
<1> DEFINE s == Refilled(e, now[t])
           token == rate_limit > 0 /\ s.tokens > 0
           passes == (rate_limit = 0 \/ token) /\ Room(s)
           r == IF token THEN [s EXCEPT !.tokens = @ - 1] ELSE s
           passed == IF passes THEN b[a].passed + 1 ELSE b[a].passed
<1>1. now[t] \in Nat /\ a \in Limited /\ a \in Ips
  BY DEF Consult, IInv, TypeOK, Places, Limited
<1>2. e \in IpState /\ s \in IpState
  BY <1>1, StatesTyped DEF IInv
<1>3. b \in [Ips -> [since : Nat, passed : Nat]]
  BY <1>1 DEF Times, Buckets, NewBucket
<1>4. ip_state' = WithState(a, r)
  BY DEF Consult
<1>5. bucket' = [b EXCEPT ![a].passed = passed]
  <2>1. bucket' = [b EXCEPT ![a].passed = IF passes THEN @ + 1 ELSE @]
    BY DEF Consult
  <2> HIDE DEF passes
  <2> QED BY <2>1
<1>6. /\ s.window_start = e.window_start /\ s.disconnect_count = e.disconnect_count
  BY <1>1, <1>2, RefillFields
<1>7. /\ r \in IpState /\ r.last_refill = s.last_refill
      /\ r.window_start = s.window_start /\ r.disconnect_count = s.disconnect_count
      /\ r.tokens = IF token THEN s.tokens - 1 ELSE s.tokens
  <2> HIDE DEF s
  <2> QED BY <1>2, AdmissionAssumption DEF IpState
<1>8. b[a].passed \in Nat
  BY <1>1, <1>3
<1>9. passed \in Nat
  <2> HIDE DEF passes
  <2> QED BY <1>8
<1>10. rate_limit > 0 => passed + r.tokens <= b[a].passed + s.tokens
  <2>1. passes /\ rate_limit > 0 => token
    BY AdmissionAssumption
  <2>2. s.tokens \in Nat
    <3> HIDE DEF s
    <3> QED BY <1>2, AdmissionAssumption DEF IpState
  <2> HIDE DEF s, passes, token, r
  <2> QED BY <1>7, <1>8, <2>1, <2>2
<1> HIDE DEF s, token, passes, r, passed
<1> QED
  BY <1>2, <1>3, <1>4, <1>5, <1>6, <1>7, <1>9, <1>10, Zenon DEF s, CheckLeaves

\* record_connection changes the count of an entry, which it may have to make.
LEMMA Recorded ==
  ASSUME IInv, Times, NEW t \in Tasks, record_connection(t)
  PROVE  \/ UNCHANGED <<ip_state, bucket>>
         \/ \E at \in Nat, r \in IpState :
              LET e == Entry(ip[t], at)
              IN  /\ ip[t] \in Limited /\ at <= clock
                  /\ ip_state' = WithState(ip[t], r)
                  /\ bucket' = Buckets(ip[t], at)
                  /\ r.last_refill = e.last_refill /\ r.window_start = e.window_start
                  /\ r.disconnect_count = e.disconnect_count /\ r.tokens = e.tokens
<1>1. CASE ip[t] \in AllowedIps
  BY <1>1 DEF record_connection
<1>2. CASE ip[t] \notin AllowedIps
  <2>1. PICK at \in now[t] .. clock :
          /\ ip_state' = WithState(ip[t], [Entry(ip[t], at) EXCEPT !.connection_count = @ + 1])
          /\ bucket' = Buckets(ip[t], at)
    BY <1>2 DEF record_connection
  <2>2. at \in Nat /\ at <= clock
    BY DEF IInv, TypeOK
  <2>3. ip[t] \in Limited
    BY <1>2 DEF record_connection, IInv, Places
  <2> DEFINE e == Entry(ip[t], at)
             r == [e EXCEPT !.connection_count = @ + 1]
  <2>4. e \in IpState
    BY <2>2, StatesTyped DEF IInv
  <2>5. /\ r \in IpState /\ r.last_refill = e.last_refill /\ r.window_start = e.window_start
        /\ r.disconnect_count = e.disconnect_count /\ r.tokens = e.tokens
    <3> HIDE DEF e
    <3> QED BY <2>4 DEF IpState
  <2> HIDE DEF r
  <2> QED BY Zenon, <2>1, <2>2, <2>3, <2>5 DEF r
<1> QED BY Zenon, <1>1, <1>2

\* The rest of a disconnection does not touch the tokens, and writes clock values
\* that the task has read.
LEMMA Disconnected ==
  ASSUME IInv, Times, NEW t \in Tasks,
         Leave(t) \/ StoreWindow(t) \/ StoreCount(t) \/ AddCount(t)
  PROVE  /\ DOMAIN ip_state' = DOMAIN ip_state
         /\ \A a \in DOMAIN ip_state :
              /\ ip_state'[a].last_refill = ip_state[a].last_refill
              /\ ip_state'[a].tokens = ip_state[a].tokens
              /\ ip_state'[a].window_start \in {ip_state[a].window_start, now[t]}
<1>1. \A a \in DOMAIN ip_state : ip_state[a] \in IpState
  BY Zenon DEF IInv, TypeOK
<1>2. CASE Leave(t) BY <1>1, <1>2 DEF Leave, IpState
<1>3. CASE StoreWindow(t) BY <1>1, <1>3 DEF StoreWindow, IpState
<1>4. CASE StoreCount(t) BY <1>1, <1>4 DEF StoreCount, IpState
<1>5. CASE AddCount(t) BY <1>1, <1>5 DEF AddCount, IpState
<1> QED BY Zenon, <1>2, <1>3, <1>4, <1>5

\* Every step keeps the histories in their ranges and reads the clock, never more.
LEMMA TimesStep ==
  ASSUME IInv, Times, [Next]_vars
  PROVE  Times'
<1> DEFINE Read == \A t \in Tasks : now'[t] <= clock'
           Past == \A a \in DOMAIN ip_state' :
                     ip_state'[a].last_refill <= clock' /\ ip_state'[a].window_start <= clock'
           Bans == ban' \in [Ips -> [since : Nat, until : Nat, lifted : BOOLEAN]]
           Refills == bucket' \in [Ips -> [since : Nat, passed : Nat]]
<1> SUFFICES Read /\ Past /\ Bans /\ Refills
  BY DEF Times
<1>1. clock \in Nat /\ clock' \in Nat /\ clock <= clock'
  <2>1. clock' = clock \/ Tick
    BY Zenon, Zenon DEF Next, Step, vars, Accept, Proxy, Check, TempBanned, RemoveBan, Consult,
       record_connection, Ends, Leave, StoreWindow, StoreCount, AddCount, Ban, ban_ip, unban_ip,
       cleanup
  <2>2. clock \in Nat BY DEF IInv, TypeOK
  <2> QED BY <2>1, <2>2 DEF Tick
<1>2. /\ \A t \in Tasks : now[t] \in Nat /\ now[t] <= clock
      /\ \A a \in DOMAIN ip_state :
           /\ ip_state[a].last_refill \in Nat /\ ip_state[a].last_refill <= clock
           /\ ip_state[a].window_start \in Nat /\ ip_state[a].window_start <= clock
  BY DEF Times, IInv, TypeOK, IpState
<1>3. \A u \in Tasks : pc[u] \in {"bans", "unban", "consult", "ban"} => ip[u] \in Limited /\ ip[u] \in Ips
  BY DEF IInv, Places, Limited
<1>4. Read
  <2>1. CASE UNCHANGED now
    BY <2>1, <1>1, <1>2
  <2>2. ASSUME NEW t \in Tasks, Step(t) \/ Ends(t) PROVE Read
    <3>1. clock' = clock
      BY Zenon, <2>2 DEF Step, Ends, Proxy, Check, TempBanned, RemoveBan, Consult, record_connection,
         Leave, StoreWindow, StoreCount, AddCount, Ban
    <3>2. PICK place : Goto(t, place) \/ GotoAt(t, place)
      BY <2>2, Zenon DEF Step, Ends, Proxy, Check, TempBanned, RemoveBan, Consult,
         record_connection, Leave, StoreWindow, StoreCount, AddCount, Ban
    <3> QED BY <3>1, <3>2, ClockRead DEF IInv
  <2>3. CASE UNCHANGED vars \/ cleanup \/ Tick \/ (\E a \in Limited : ban_ip(a) \/ unban_ip(a))
               \/ (\E t \in Tasks, a \in Ips : Accept(t, a))
    BY <2>1, <2>3 DEF vars, cleanup, Tick, ban_ip, unban_ip, Accept
  <2> QED BY <2>2, <2>3, Zenon DEF Next
<1>5. Bans
  <2>1. CASE UNCHANGED ban
    BY <2>1 DEF Times
  <2>2. ASSUME NEW a \in Ips, Lifted(a) PROVE Bans
    BY Zenon, <2>2 DEF Lifted, Times
  <2>3. ASSUME NEW a \in Ips, NEW expiry \in Nat, SetBan(a, expiry) PROVE Bans
    BY Zenon, <2>3, <1>1 DEF SetBan, Times
  <2>4. ASSUME NEW t \in Tasks, RemoveBan(t) PROVE Bans
    BY <2>2, <2>4, <1>3 DEF RemoveBan
  <2>5. ASSUME NEW t \in Tasks, Ban(t) PROVE Bans
    <3>1. now[t] + ban_time \in Nat BY <1>2, AdmissionAssumption
    <3> QED BY Zenon, <2>3, <2>5, <3>1, <1>3 DEF Ban
  <2>6. ASSUME NEW a \in Limited, ban_ip(a) \/ unban_ip(a) PROVE Bans
    <3>1. clock + ban_time \in Nat /\ a \in Ips BY <1>1, AdmissionAssumption DEF Limited
    <3> QED BY <2>2, <2>3, <2>6, <3>1 DEF ban_ip, unban_ip
  <2>7. CASE (\E t \in Tasks : (Step(t) /\ ~RemoveBan(t) /\ ~Ban(t)) \/ Ends(t))
               \/ UNCHANGED vars \/ cleanup \/ Tick \/ (\E t \in Tasks, a \in Ips : Accept(t, a))
    BY <2>1, <2>7, Zenon DEF Step, vars, cleanup, Tick, Accept, Ends, Proxy, Check, TempBanned,
       Consult, record_connection, Leave, StoreWindow, StoreCount, AddCount, history
  <2> QED BY <2>4, <2>5, <2>6, <2>7, Zenon DEF Next
<1>6. Past /\ Refills
  <2>1. CASE UNCHANGED <<ip_state, bucket>>
    BY <2>1, <1>1, <1>2 DEF Times
  <2>2. ASSUME NEW t \in Tasks, Consult(t) PROVE Past /\ Refills
    <3> PICK a, e, b : a = ip[t] /\ e = Entry(a, now[t]) /\ b = Buckets(a, now[t])
      OBVIOUS
    <3>1. a \in Ips /\ clock' = clock BY <2>2, <1>3 DEF Consult
    <3>2. e \in IpState /\ b \in [Ips -> [since : Nat, passed : Nat]] /\ now[t] \in Nat
      BY Zenon, <2>2, <1>2, Consulted
    <3>3. PICK r \in IpState, passed \in Nat : CheckLeaves(t, e, b, r, passed)
      BY <2>2, Consulted, Zenon
    <3>4. e.last_refill <= clock /\ e.window_start <= clock
      BY Zenon, <1>2 DEF Entry, NewState
    <3>5. r.last_refill \in {e.last_refill, now[t]}
      BY <3>2, <3>3, RefillFields DEF CheckLeaves
    <3>6. r.last_refill <= clock /\ r.window_start <= clock
      BY <3>3, <3>4, <3>5, <1>2 DEF CheckLeaves
    <3>7. Past BY <3>1, <3>3, <3>6, <1>2 DEF WithState, CheckLeaves
    <3>8. Refills BY <3>1, <3>2, <3>3 DEF CheckLeaves
    <3> QED BY Zenon, <3>7, <3>8
  <2>3. ASSUME NEW t \in Tasks, record_connection(t) PROVE Past /\ Refills
    <3> PICK a : a = ip[t] OBVIOUS
    <3>1. CASE UNCHANGED <<ip_state, bucket>> BY <3>1, <2>1
    <3>2. CASE ~ UNCHANGED <<ip_state, bucket>>
      <4>1. PICK at \in Nat, r \in IpState :
              /\ a \in Limited /\ at <= clock /\ ip_state' = WithState(a, r)
              /\ bucket' = Buckets(a, at)
              /\ r.last_refill = Entry(a, at).last_refill /\ r.window_start = Entry(a, at).window_start
        BY Zenon, <2>3, <3>2, Recorded
      <4>2. Entry(a, at).last_refill <= clock /\ Entry(a, at).window_start <= clock
        BY Zenon, <1>2, <4>1 DEF Entry, NewState
      <4>3. clock' = clock BY <2>3 DEF record_connection
      <4>4. Past BY Zenon, <4>1, <4>2, <4>3, <1>2 DEF WithState
      <4>5. Refills BY Zenon, <4>1 DEF Buckets, NewBucket, Times
      <4> QED BY <4>4, <4>5
    <3> QED BY <3>1, <3>2
  <2>4. ASSUME NEW t \in Tasks, Leave(t) \/ StoreWindow(t) \/ StoreCount(t) \/ AddCount(t)
        PROVE  Past /\ Refills
    <3>1. bucket' = bucket BY <2>4 DEF Leave, StoreWindow, StoreCount, AddCount, history
    <3> QED BY SMTT(20), <2>4, <3>1, Disconnected, <1>1, <1>2 DEF Times
  <2>5. CASE cleanup
    <3>1. bucket' = bucket /\ \A a \in DOMAIN ip_state' : a \in DOMAIN ip_state /\ ip_state'[a] = ip_state[a]
      BY <2>5 DEF cleanup, history
    <3> QED BY SMTT(20), <3>1, <1>1, <1>2 DEF Times
  <2>6. CASE (\E t \in Tasks : Proxy(t) \/ Check(t) \/ TempBanned(t) \/ RemoveBan(t) \/ Ban(t) \/ Ends(t))
               \/ UNCHANGED vars \/ Tick \/ (\E a \in Limited : ban_ip(a) \/ unban_ip(a))
               \/ (\E t \in Tasks, a \in Ips : Accept(t, a))
    <3>1. UNCHANGED <<ip_state, bucket>>
      BY <2>6, Zenon DEF vars, Tick, ban_ip, unban_ip, Accept, Ends, Proxy, Check, TempBanned,
         RemoveBan, Ban, history, detector
    <3> QED BY <3>1, <2>1
  <2> QED BY <2>2, <2>3, <2>4, <2>5, <2>6, Zenon DEF Next, Step
<1> QED BY <1>4, <1>5, <1>6
=============================================================================
