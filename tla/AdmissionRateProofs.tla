------------------------- MODULE AdmissionRateProofs -------------------------
(***************************************************************************)
(* The rate limit and the bans of an address, for any number of accept     *)
(* tasks and addresses, any limits, any resolution of the clock and any    *)
(* interleaving.                                                           *)
(*                                                                         *)
(* RateBounded rests on Spent, an account of tokens that is exact at each  *)
(* refill; BannedStaysOut on Listed, where a ban is until it ends;         *)
(* BanDeserved on Windows, which says who works on an address's window and *)
(* which disconnections its count stands for.                              *)
(***************************************************************************)
EXTENDS AdmissionProofs

\* What an entry has let through and what it may still let through at once is
\* its burst and what had been added at the last refill.
Spent ==
  rate_limit > 0 =>
    \A a \in DOMAIN ip_state :
      LET s == ip_state[a]
      IN  /\ bucket[a].since <= s.last_refill
          /\ bucket[a].passed + s.tokens
               <= rate_burst + (rate_limit * (s.last_refill - bucket[a].since)) \div SECOND

\* A ban that was not lifted is in the list until it expires.
Listed ==
  \A a \in Limited :
    ~ban[a].lifted /\ clock < ban[a].until =>
      a \in DOMAIN temp_bans /\ temp_bans[a] = ban[a].until

-----------------------------------------------------------------------------
\* Whole numbers of tokens: what \div leaves out is less than the divisor
\* (try_consume_token divides milliseconds times rate by a second).
LEMMA DivisionBounds ==
  ASSUME NEW m \in Nat, NEW d \in Nat \ {0}
  PROVE  /\ m \div d \in Nat
         /\ d * (m \div d) <= m /\ m < d * (m \div d) + d
OBVIOUS

\* The quotient is the greatest number of tokens that the time pays for.
LEMMA DivisionGreatest ==
  ASSUME NEW m \in Nat, NEW d \in Nat \ {0}, NEW q \in Nat, d * q <= m
  PROVE  q <= m \div d
<1> PICK p \in Nat : p = m \div d BY DivisionBounds
<1>1. d * p <= m /\ m < d * p + d BY DivisionBounds
<1>2. SUFFICES ASSUME p + 1 <= q PROVE FALSE OBVIOUS
<1>3. d * (p + 1) <= d * q BY <1>2
<1>4. d * (p + 1) = d * p + d OBVIOUS
<1> QED BY <1>1, <1>3, <1>4

\* Two refills one after the other add no more than one over the whole time.
LEMMA DivisionAdds ==
  ASSUME NEW m \in Nat, NEW n \in Nat, NEW d \in Nat \ {0}
  PROVE  (m \div d) + (n \div d) <= (m + n) \div d
<1> PICK p \in Nat, q \in Nat : p = m \div d /\ q = n \div d BY DivisionBounds
<1>1. d * p <= m /\ d * q <= n BY DivisionBounds
<1>2. d * (p + q) = d * p + d * q OBVIOUS
<1>3. d * (p + q) <= m + n BY <1>1, <1>2
<1> QED BY <1>3, DivisionGreatest

\* More time never pays for fewer tokens.
LEMMA DivisionGrows ==
  ASSUME NEW m \in Nat, NEW n \in Nat, NEW d \in Nat \ {0}, m <= n
  PROVE  (m \div d) <= n \div d
BY DivisionBounds, DivisionGreatest

\* try_consume_token adds what the time since the last refill allows, whole
\* tokens only, and never more than the burst (flapping/mod.rs:139-190).
LEMMA RefillBounded ==
  ASSUME NEW s \in IpState, NEW at \in Nat, NEW since \in Nat, NEW passed \in Nat,
         since <= s.last_refill,
         passed + s.tokens <= rate_burst + (rate_limit * (s.last_refill - since)) \div SECOND
  PROVE  LET r == Refilled(s, at)
         IN  /\ since <= r.last_refill
             /\ passed + r.tokens <= rate_burst + (rate_limit * (r.last_refill - since)) \div SECOND
<1> DEFINE last == s.last_refill
           elapsed == Monus(at, last)
           add == (elapsed * rate_limit) \div SECOND
           r == Refilled(s, at)
<1>1. last \in Nat /\ s.tokens \in Nat /\ elapsed \in Nat
  BY AdmissionAssumption DEF IpState, Monus
<1>2. CASE add = 0
  BY <1>2 DEF Refilled
<1>3. CASE add # 0
  <2>1. elapsed # 0
    BY <1>3, DivisionBounds, AdmissionAssumption
  <2>2. at = last + elapsed
    BY <2>1, <1>1 DEF Monus
  <2>3. r = [s EXCEPT !.last_refill = at, !.tokens = Min(@ + add, rate_burst)]
    BY <1>3 DEF Refilled
  <2>4. add \in Nat
    <3>1. elapsed * rate_limit \in Nat BY <1>1, AdmissionAssumption
    <3> QED BY <3>1, DivisionBounds, AdmissionAssumption
  <2>5. r.last_refill = at /\ r.tokens = Min(s.tokens + add, rate_burst)
    <3> HIDE DEF add
    <3> QED BY <2>3 DEF IpState
  <2> HIDE DEF r, elapsed
  <2>6. r.tokens \in Nat /\ r.tokens <= s.tokens + add
    <3> HIDE DEF add
    <3> QED BY <2>4, <2>5, <1>1, AdmissionAssumption DEF Min
  <2> PICK early \in Nat, late \in Nat :
        /\ early = rate_limit * (last - since)
        /\ late = elapsed * rate_limit
        /\ early + late = rate_limit * (at - since)
    <3>1. last - since \in Nat BY <1>1
    <3>2. PICK e \in Nat : e = last - since BY <3>1
    <3>3. PICK l \in Nat : l = elapsed BY <1>1
    <3>4. /\ rate_limit * e \in Nat /\ l * rate_limit \in Nat
          /\ rate_limit * e + l * rate_limit = rate_limit * (e + l)
      BY AdmissionAssumption
    <3>5. at - since = e + l BY <3>2, <3>3, <2>2, <1>1
    <3> QED BY <3>2, <3>3, <3>4, <3>5
  <2>7. (early \div SECOND) + add <= (early + late) \div SECOND
    BY DivisionAdds, AdmissionAssumption
  <2>8. early \div SECOND \in Nat /\ (early + late) \div SECOND \in Nat
    BY DivisionBounds, AdmissionAssumption
  <2>9. passed + s.tokens <= rate_burst + (early \div SECOND)
    OBVIOUS
  <2>10. passed + r.tokens <= rate_burst + ((early + late) \div SECOND)
    <3> HIDE DEF add
    <3> QED BY <2>4, <2>6, <2>7, <2>8, <2>9, <1>1, AdmissionAssumption
  <2>11. since <= at BY <2>2, <1>1
  <2> QED BY <2>5, <2>10, <2>11 DEF r
<1> QED BY <1>2, <1>3

\* Tokens are added for time that has passed since the last refill and taken by
\* checks that pass, whatever old clock value a task refills with.
LEMMA SpentStep ==
  ASSUME IInv, Times, Spent, [Next]_vars
  PROVE  Spent'
<1> DEFINE Kept(s, b) ==
             /\ b.since <= s.last_refill
             /\ b.passed + s.tokens
                  <= rate_burst + (rate_limit * (s.last_refill - b.since)) \div SECOND
<1> SUFFICES ASSUME rate_limit > 0, NEW c \in DOMAIN ip_state'
             PROVE  Kept(ip_state'[c], bucket'[c])
  BY DEF Spent
<1>1. \A a \in DOMAIN ip_state : Kept(ip_state[a], bucket[a])
  BY DEF Spent
<1>2. /\ \A a \in DOMAIN ip_state : a \in Ips /\ ip_state[a] \in IpState
      /\ \A t \in Tasks : now[t] \in Nat
      /\ \A a \in Ips : bucket[a].since \in Nat /\ bucket[a].passed \in Nat
  BY DEF IInv, TypeOK, Limited, Times
<1>3. ASSUME NEW at \in Nat PROVE Kept(NewState(at), NewBucket(at))
  <2>1. NewState(at).last_refill = at /\ NewState(at).tokens = rate_burst
    BY DEF NewState
  <2>2. NewBucket(at).since = at /\ NewBucket(at).passed = 0
    BY DEF NewBucket
  <2>3. (rate_limit * (at - at)) \div SECOND \in Nat
    <3>1. rate_limit * (at - at) \in Nat BY AdmissionAssumption
    <3> QED BY <3>1, DivisionBounds, AdmissionAssumption
  <2> QED BY <2>1, <2>2, <2>3, AdmissionAssumption
<1>4. ASSUME NEW a \in Ips, NEW at \in Nat
      PROVE  Kept(Entry(a, at), Buckets(a, at)[a])
  <2>1. CASE a \in DOMAIN ip_state
    BY <2>1, <1>1 DEF Entry, Buckets
  <2>2. CASE a \notin DOMAIN ip_state
    <3>1. Entry(a, at) = NewState(at) BY <2>2 DEF Entry
    <3>2. Buckets(a, at)[a] = NewBucket(at) BY <2>2 DEF Buckets, Times
    <3> HIDE DEF Kept
    <3> QED BY <3>1, <3>2, <1>3
  <2> QED BY <2>1, <2>2
<1>5. ASSUME NEW a \in Ips, NEW at \in Nat, a # c, c \in DOMAIN ip_state
      PROVE  Kept(ip_state[c], Buckets(a, at)[c])
  <2>1. Buckets(a, at)[c] = bucket[c]
    BY <1>5, <1>2 DEF Buckets, Times
  <2> QED BY <2>1, <1>1, <1>5
<1>6. CASE /\ c \in DOMAIN ip_state /\ bucket' = bucket
           /\ ip_state'[c].tokens = ip_state[c].tokens
           /\ ip_state'[c].last_refill = ip_state[c].last_refill
  BY <1>1, <1>6
<1>7. ASSUME NEW t \in Tasks, Consult(t) PROVE Kept(ip_state'[c], bucket'[c])
  <2> PICK a, e, b : a = ip[t] /\ e = Entry(a, now[t]) /\ b = Buckets(a, now[t])
    OBVIOUS
  <2>1. a \in Ips BY <1>7 DEF Consult, IInv, Places, Limited
  <2>2. e \in IpState /\ b \in [Ips -> [since : Nat, passed : Nat]] /\ now[t] \in Nat
    BY <1>7, <1>2, Consulted
  <2>3. PICK r \in IpState, passed \in Nat : CheckLeaves(t, e, b, r, passed)
    BY <1>7, Consulted, Zenon
  <2>4. CASE c # a
    <3>1. ip_state'[c] = ip_state[c] /\ c \in DOMAIN ip_state
      BY <2>3, <2>4 DEF CheckLeaves, WithState
    <3>2. bucket'[c] = b[c]
      BY <2>1, <2>2, <2>3, <2>4, <3>1, <1>2 DEF CheckLeaves
    <3> HIDE DEF Kept
    <3> QED BY <3>1, <3>2, <2>1, <2>2, <2>4, <1>5
  <2>5. CASE c = a
    <3>1. ip_state'[c] = r
      BY <2>3, <2>5 DEF CheckLeaves, WithState
    <3>2. bucket'[c].since = b[a].since /\ bucket'[c].passed = passed
      BY <2>1, <2>2, <2>3, <2>5 DEF CheckLeaves
    <3>3. b[a].since \in Nat /\ b[a].passed \in Nat
      BY <2>1, <2>2
    <3> PICK s : s = Refilled(e, now[t]) OBVIOUS
    <3>4. Kept(e, b[a])
      <4> HIDE DEF Kept
      <4> QED BY <1>4, <2>1, <2>2
    <3>5. s \in IpState /\ b[a].since <= s.last_refill /\
          b[a].passed + s.tokens
            <= rate_burst + (rate_limit * (s.last_refill - b[a].since)) \div SECOND
      <4>1. s \in IpState BY <2>2, StatesTyped DEF IInv
      <4>2. /\ b[a].since <= s.last_refill
            /\ b[a].passed + s.tokens
                 <= rate_burst + (rate_limit * (s.last_refill - b[a].since)) \div SECOND
        BY Zenon, <2>2, <3>3, <3>4, RefillBounded
      <4> QED BY Zenon, <4>1, <4>2
    <3>6. r.last_refill = s.last_refill /\ passed + r.tokens <= b[a].passed + s.tokens
      BY <2>3 DEF CheckLeaves
    <3>7. (rate_limit * (s.last_refill - b[a].since)) \div SECOND \in Nat
      <4>1. s.last_refill - b[a].since \in Nat BY SMTT(20), <3>3, <3>5 DEF IpState
      <4>2. rate_limit * (s.last_refill - b[a].since) \in Nat BY <4>1, AdmissionAssumption
      <4> QED BY <4>2, DivisionBounds, AdmissionAssumption
    <3>8. r.tokens \in Nat /\ s.tokens \in Nat
      BY <3>5, AdmissionAssumption DEF IpState
    <3>9. Kept(r, [since |-> b[a].since, passed |-> passed])
      <4> PICK q \in Nat : q = (rate_limit * (s.last_refill - b[a].since)) \div SECOND BY <3>7
      <4>1. passed + r.tokens <= rate_burst + q
        BY SMTT(20), <3>3, <3>5, <3>6, <3>8, AdmissionAssumption
      <4> QED BY Zenon, <4>1, <3>5, <3>6
    <3> QED BY <3>1, <3>2, <3>9
  <2> QED BY <2>4, <2>5
<1>8. ASSUME NEW t \in Tasks, record_connection(t) PROVE Kept(ip_state'[c], bucket'[c])
  <2> PICK a : a = ip[t] OBVIOUS
  <2>1. CASE UNCHANGED <<ip_state, bucket>> BY <2>1, <1>1
  <2>2. CASE ~ UNCHANGED <<ip_state, bucket>>
    <3>1. PICK at \in Nat, r \in IpState :
            /\ a \in Limited /\ ip_state' = WithState(a, r) /\ bucket' = Buckets(a, at)
            /\ r.last_refill = Entry(a, at).last_refill /\ r.tokens = Entry(a, at).tokens
      BY <1>8, <2>2, Recorded
    <3>2. a \in Ips BY <3>1 DEF Limited
    <3>3. CASE c # a
      <4>1. ip_state'[c] = ip_state[c] /\ c \in DOMAIN ip_state
        BY <3>1, <3>3 DEF WithState
      <4> HIDE DEF Kept
      <4> QED BY <4>1, <3>1, <3>2, <3>3, <1>5
    <3>4. CASE c = a
      <4>1. ip_state'[c] = r BY <3>1, <3>4 DEF WithState
      <4>2. Kept(Entry(a, at), Buckets(a, at)[a])
        <5> HIDE DEF Kept
        <5> QED BY <1>4, <3>2
      <4> QED BY <4>1, <4>2, <3>1, <3>4
    <3> QED BY <3>3, <3>4
  <2> QED BY <2>1, <2>2
<1>9. ASSUME NEW t \in Tasks, Leave(t) \/ StoreWindow(t) \/ StoreCount(t) \/ AddCount(t)
      PROVE  Kept(ip_state'[c], bucket'[c])
  <2>1. bucket' = bucket BY <1>9 DEF Leave, StoreWindow, StoreCount, AddCount, history
  <2> HIDE DEF Kept
  <2> QED BY <2>1, <1>9, <1>6, Disconnected
<1>10. CASE cleanup
  <2>1. c \in DOMAIN ip_state /\ bucket' = bucket /\ ip_state'[c] = ip_state[c]
    BY <1>10 DEF cleanup, history
  <2> QED BY <2>1, <1>6
<1>11. CASE (\E t \in Tasks : Proxy(t) \/ Check(t) \/ TempBanned(t) \/ RemoveBan(t) \/ Ban(t) \/ Ends(t))
             \/ UNCHANGED vars \/ Tick \/ (\E a \in Limited : ban_ip(a) \/ unban_ip(a))
             \/ (\E t \in Tasks, a \in Ips : Accept(t, a))
  <2>1. UNCHANGED <<ip_state, bucket>>
    BY <1>11, Zenon DEF vars, Tick, ban_ip, unban_ip, Accept, Ends, Proxy, Check, TempBanned,
       RemoveBan, Ban, history, detector
  <2> HIDE DEF Kept
  <2> QED BY <2>1, <1>1
<1> HIDE DEF Kept
<1> QED BY <1>7, <1>8, <1>9, <1>10, <1>11, Zenon DEF Next, Step

\* The rate limit holds for every burst, rate and resolution of the clock: an
\* entry has let through no more than its burst and what was due since it was made.
THEOREM RateKept == Spec => []RateBounded
<1> DEFINE J == IInv /\ Times /\ Spent
<1>1. Init => J
  <2>1. Init => Times BY DEF Init, Times, NewBucket, NoBan
  <2>2. Init => Spent BY DEF Init, Spent
  <2> QED BY InductiveInit, <2>1, <2>2
<1>2. J /\ [Next]_vars => J'
  BY InductiveStep, TimesStep, SpentStep
<1>3. J => RateBounded
  <2> SUFFICES ASSUME J, rate_limit > 0, NEW a \in DOMAIN ip_state
               PROVE  bucket[a].passed
                        <= rate_burst + (rate_limit * Monus(clock, bucket[a].since)) \div SECOND
    BY DEF RateBounded
  <2> PICK last, tokens, since, passed :
        /\ last = ip_state[a].last_refill /\ tokens = ip_state[a].tokens
        /\ since = bucket[a].since /\ passed = bucket[a].passed
    OBVIOUS
  <2>1. a \in Ips /\ ip_state[a] \in IpState /\ clock \in Nat
    BY DEF IInv, TypeOK, Limited
  <2>2. /\ last \in Nat /\ tokens \in Nat /\ since \in Nat /\ passed \in Nat /\ last <= clock
    BY <2>1, AdmissionAssumption DEF Times, IpState
  <2>3. since <= last /\ passed + tokens <= rate_burst + (rate_limit * (last - since)) \div SECOND
    BY DEF Spent
  <2>4. Monus(clock, since) = clock - since
    BY <2>1, <2>2, <2>3 DEF Monus
  <2> PICK m \in Nat, n \in Nat : m = last - since /\ n = clock - since
    BY <2>1, <2>2, <2>3
  <2>5. rate_limit * m \in Nat /\ rate_limit * n \in Nat /\ rate_limit * m <= rate_limit * n
    <3>1. m <= n BY <2>1, <2>2
    <3> QED BY <3>1, AdmissionAssumption
  <2>6. (rate_limit * m) \div SECOND <= (rate_limit * n) \div SECOND
    BY <2>5, DivisionGrows, AdmissionAssumption
  <2>7. (rate_limit * m) \div SECOND \in Nat /\ (rate_limit * n) \div SECOND \in Nat
    BY <2>5, DivisionBounds, AdmissionAssumption
  <2> PICK p \in Nat, q \in Nat : /\ p = (rate_limit * m) \div SECOND
                                  /\ q = (rate_limit * n) \div SECOND
    BY <2>7
  <2>8. passed <= rate_burst + q
    BY <2>2, <2>3, <2>6, AdmissionAssumption
  <2> QED BY <2>4, <2>8
<1> QED BY <1>1, <1>2, <1>3, PTL DEF Spec

\* A ban leaves the list by being lifted or after its expiry, and a task that
\* finds none in it, or only an expired one, goes on (flapping/mod.rs:323-335, 426-467).
LEMMA BansStep ==
  ASSUME IInv, Times, Listed, BannedStaysOut, [Next]_vars
  PROVE  Listed' /\ BannedStaysOut'
<1> DEFINE In(a) == ~ban[a].lifted /\ clock < ban[a].until =>
                      a \in DOMAIN temp_bans /\ temp_bans[a] = ban[a].until
           Out(t) == pc[t] \in {"consult", "record"} /\ ip[t] \in Limited /\ ~ban[ip[t]].lifted =>
                       now[t] <= ban[ip[t]].since \/ clock >= ban[ip[t]].until
<1> SUFFICES (\A a \in Limited : In(a)') /\ (\A t \in Tasks : Out(t)')
  BY DEF Listed, BannedStaysOut
<1>1. (\A a \in Limited : In(a)) /\ (\A t \in Tasks : Out(t))
  BY DEF Listed, BannedStaysOut
<1>2. /\ \A a \in Limited :
           ban[a].since \in Nat /\ ban[a].until \in Nat /\ ban[a].lifted \in BOOLEAN /\ a \in Ips
      /\ \A t \in Tasks : now[t] \in Nat /\ now[t] <= clock
      /\ clock \in Nat
  BY DEF Times, IInv, TypeOK, Limited
<1>3. ASSUME NEW t \in Tasks, NEW place \in Place, Goto(t, place) \/ GotoAt(t, place),
             UNCHANGED <<clock, temp_bans, ban>>,
             place \in {"consult", "record"} /\ ip[t] \in Limited =>
               /\ Goto(t, place)
               /\ ~ban[ip[t]].lifted =>
                    now[t] <= ban[ip[t]].since \/ clock >= ban[ip[t]].until
      PROVE  (\A a \in Limited : In(a)') /\ (\A u \in Tasks : Out(u)')
  <2>1. \A a \in Limited : In(a)' BY <1>1, <1>3
  <2>2. ASSUME NEW u \in Tasks, u # t PROVE Out(u)'
    <3>1. pc'[u] = pc[u] /\ ip'[u] = ip[u] /\ now'[u] = now[u]
      BY <1>3, <2>2 DEF Goto, GotoAt, IInv, TypeOK
    <3> QED BY <3>1, <1>1, <1>3
  <2>3. Out(t)'
    <3>1. pc'[t] = place /\ (place # "idle" => ip'[t] = ip[t])
      BY <1>3, OthersStay DEF IInv
    <3>2. Goto(t, place) /\ place # "idle" => now'[t] = now[t]
      BY DEF Goto
    <3> QED BY <3>1, <3>2, <1>3
  <2> QED BY <2>1, <2>2, <2>3
<1>4. ASSUME NEW t \in Tasks, Proxy(t) \/ Leave(t) \/ StoreWindow(t) \/ StoreCount(t) \/ AddCount(t)
      PROVE  (\A a \in Limited : In(a)') /\ (\A u \in Tasks : Out(u)')
  <2>1. UNCHANGED <<clock, temp_bans, ban>>
    BY <1>4 DEF Proxy, Leave, StoreWindow, StoreCount, AddCount, detector, history
  <2>2. PICK place \in {"check", "idle", "reset", "add", "restart", "ban"} : Goto(t, place)
    BY <1>4 DEF Proxy, Leave, StoreWindow, StoreCount, AddCount
  <2> HIDE DEF In, Out
  <2> QED BY <2>1, <2>2, <1>3 DEF Place
<1>5. ASSUME NEW t \in Tasks, Check(t)
      PROVE  (\A a \in Limited : In(a)') /\ (\A u \in Tasks : Out(u)')
  <2>1. UNCHANGED <<clock, temp_bans, ban>> BY <1>5 DEF Check, detector, history
  <2>2. PICK place \in {"record", "idle", "bans"} :
          GotoAt(t, place) /\ (place = "record" => ip[t] \notin Limited)
    BY <1>5 DEF Check, Limited
  <2> HIDE DEF In, Out
  <2> QED BY <2>1, <2>2, <1>3 DEF Place
<1>6. ASSUME NEW t \in Tasks, Ends(t)
      PROVE  (\A a \in Limited : In(a)') /\ (\A u \in Tasks : Out(u)')
  <2>1. UNCHANGED <<clock, temp_bans, ban>> BY <1>6 DEF Ends, detector
  <2>2. PICK place \in {"idle", "leave"} : GotoAt(t, place) BY <1>6 DEF Ends
  <2> HIDE DEF In, Out
  <2> QED BY <2>1, <2>2, <1>3 DEF Place
<1>7. ASSUME NEW t \in Tasks, TempBanned(t)
      PROVE  (\A a \in Limited : In(a)') /\ (\A u \in Tasks : Out(u)')
  <2>1. UNCHANGED <<clock, temp_bans, ban>> BY <1>7 DEF TempBanned, detector, history
  <2>2. PICK place \in {"consult", "idle", "unban"} :
          Goto(t, place) /\ (place = "consult" => ip[t] \notin DOMAIN temp_bans)
    BY <1>7 DEF TempBanned
  <2>3. ip[t] \in Limited BY <1>7 DEF TempBanned, IInv, Places
  <2>4. place = "consult" /\ ~ban[ip[t]].lifted => clock >= ban[ip[t]].until
    BY <1>1, <1>2, <2>2, <2>3
  <2> HIDE DEF In, Out
  <2> QED BY <2>1, <2>2, <2>4, <1>3 DEF Place
<1>8. ASSUME NEW t \in Tasks, Consult(t) \/ record_connection(t)
      PROVE  (\A a \in Limited : In(a)') /\ (\A u \in Tasks : Out(u)')
  <2>1. UNCHANGED <<clock, temp_bans, ban>> BY <1>8 DEF Consult, record_connection
  <2>2. PICK place \in {"record", "idle", "live"} : Goto(t, place)
    BY <1>8 DEF Consult, record_connection
  <2>3. pc[t] \in {"consult", "record"} BY <1>8 DEF Consult, record_connection
  <2>4. ip[t] \in Limited /\ ~ban[ip[t]].lifted =>
          now[t] <= ban[ip[t]].since \/ clock >= ban[ip[t]].until
    BY <1>1, <2>3
  <2> HIDE DEF In, Out
  <2> QED BY <2>1, <2>2, <2>4, <1>3 DEF Place
<1>9. ASSUME NEW a \in Limited, temp_bans' = WithoutBan(a), Lifted(a), clock' = clock,
             \A u \in Tasks : /\ ip'[u] = ip[u] /\ now'[u] = now[u]
                              /\ pc'[u] # pc[u] => ip[u] = a
      PROVE  (\A b \in Limited : In(b)') /\ (\A u \in Tasks : Out(u)')
  <2>1. ban'[a].lifted /\ \A b \in Limited : b # a => ban'[b] = ban[b]
    BY <1>9, <1>2 DEF Lifted, Times
  <2>2. \A b \in Limited : b # a /\ b \in DOMAIN temp_bans =>
          b \in DOMAIN temp_bans' /\ temp_bans'[b] = temp_bans[b]
    BY <1>9 DEF WithoutBan
  <2>3. \A b \in Limited : In(b)' BY <2>1, <2>2, <1>1, <1>9
  <2>4. \A u \in Tasks : Out(u)' BY <2>1, <1>1, <1>9
  <2> QED BY <2>3, <2>4
<1>10. ASSUME NEW a \in Limited, NEW expiry \in Nat, SetBan(a, expiry), clock' = clock,
              \A u \in Tasks : pc'[u] \in {"consult", "record"} =>
                pc'[u] = pc[u] /\ ip'[u] = ip[u] /\ now'[u] = now[u]
       PROVE  (\A b \in Limited : In(b)') /\ (\A u \in Tasks : Out(u)')
  <2>1. /\ ban'[a].since = clock /\ ban'[a].until = expiry
        /\ \A b \in Limited : b # a => ban'[b] = ban[b]
    BY <1>10, <1>2 DEF SetBan, Times
  <2>2. /\ a \in DOMAIN temp_bans' /\ temp_bans'[a] = expiry
        /\ \A b \in Limited : b # a /\ b \in DOMAIN temp_bans =>
             b \in DOMAIN temp_bans' /\ temp_bans'[b] = temp_bans[b]
    BY <1>10 DEF SetBan
  <2>3. \A b \in Limited : In(b)' BY <2>1, <2>2, <1>1, <1>10
  <2>4. ASSUME NEW u \in Tasks PROVE Out(u)'
    <3>1. now[u] <= clock BY <1>2
    <3> QED BY <2>1, <3>1, <1>1, <1>10
  <2> QED BY <2>3, <2>4
<1>11. ASSUME NEW t \in Tasks, RemoveBan(t)
       PROVE  (\A a \in Limited : In(a)') /\ (\A u \in Tasks : Out(u)')
  <2>1. /\ Goto(t, "consult") /\ temp_bans' = WithoutBan(ip[t]) /\ Lifted(ip[t]) /\ clock' = clock
        /\ ip[t] \in Limited
    BY Zenon, <1>11 DEF RemoveBan, IInv, Places
  <2>2. \A u \in Tasks : ip'[u] = ip[u] /\ now'[u] = now[u] /\ (pc'[u] # pc[u] => ip[u] = ip[t])
    BY <2>1 DEF Goto, IInv, TypeOK
  <2> HIDE DEF In, Out
  <2> QED BY Zenon, <2>1, <2>2, <1>9
<1>12. ASSUME NEW t \in Tasks, Ban(t)
       PROVE  (\A a \in Limited : In(a)') /\ (\A u \in Tasks : Out(u)')
  <2>1. Goto(t, "idle") /\ SetBan(ip[t], now[t] + ban_time) /\ clock' = clock /\ ip[t] \in Limited
    BY <1>12 DEF Ban, IInv, Places
  <2>2. now[t] + ban_time \in Nat BY <1>2, AdmissionAssumption
  <2>3. \A u \in Tasks : pc'[u] \in {"consult", "record"} =>
          pc'[u] = pc[u] /\ ip'[u] = ip[u] /\ now'[u] = now[u]
    BY <2>1 DEF Goto, IInv, TypeOK
  <2> HIDE DEF In, Out
  <2> QED BY <2>1, <2>2, <2>3, <1>10
<1>13. ASSUME NEW a \in Limited, ban_ip(a)
       PROVE  (\A b \in Limited : In(b)') /\ (\A u \in Tasks : Out(u)')
  <2>1. clock + ban_time \in Nat BY <1>2, AdmissionAssumption
  <2>2. SetBan(a, clock + ban_time) /\ UNCHANGED <<pc, ip, now, clock>> BY <1>13 DEF ban_ip
  <2> HIDE DEF In, Out
  <2> QED BY <2>1, <2>2, <1>10
<1>14. ASSUME NEW a \in Limited, unban_ip(a)
       PROVE  (\A b \in Limited : In(b)') /\ (\A u \in Tasks : Out(u)')
  <2>1. temp_bans' = WithoutBan(a) /\ Lifted(a) /\ UNCHANGED <<pc, ip, now, clock>>
    BY <1>14 DEF unban_ip
  <2> HIDE DEF In, Out
  <2> QED BY <2>1, <1>9
<1>15. CASE cleanup
  <2>1. UNCHANGED <<pc, ip, now, clock, ban>> BY <1>15 DEF cleanup, history
  <2>2. \A a \in DOMAIN temp_bans : clock >= temp_bans[a] \/
          (a \in DOMAIN temp_bans' /\ temp_bans'[a] = temp_bans[a])
    BY <1>15 DEF cleanup, ExpiredBans
  <2>3. \A b \in Limited : In(b)' BY <2>1, <2>2, <1>1, <1>2
  <2>4. \A u \in Tasks : Out(u)' BY <2>1, <1>1
  <2> QED BY <2>3, <2>4
<1>16. CASE Tick
  <2>1. clock' = clock + 1 /\ UNCHANGED <<pc, ip, now, temp_bans, ban>>
    BY <1>16 DEF Tick, detector, history
  <2> QED BY <2>1, <1>1, <1>2
<1>17. ASSUME NEW t \in Tasks, NEW a \in Ips, Accept(t, a)
       PROVE  (\A b \in Limited : In(b)') /\ (\A u \in Tasks : Out(u)')
  <2>1. UNCHANGED <<now, clock, temp_bans, ban>> BY <1>17 DEF Accept, detector
  <2>2. \A u \in Tasks : pc'[u] \in {"consult", "record"} => pc'[u] = pc[u] /\ ip'[u] = ip[u]
    BY <1>17 DEF Accept, IInv, TypeOK
  <2> QED BY <2>1, <2>2, <1>1
<1>18. CASE UNCHANGED vars
  BY Zenon, <1>18, <1>1 DEF vars
<1> HIDE DEF In, Out
<1> QED
  BY <1>4, <1>5, <1>6, <1>7, <1>8, <1>11, <1>12, <1>13, <1>14, <1>15, <1>16, <1>17, <1>18, Zenon
     DEF Next, Step

\* No check that begins after a ban gets past the list before the ban's expiry,
\* unless somebody lifts it, for any number of tasks, addresses and bans.
THEOREM BansKept == Spec => []BannedStaysOut
<1> DEFINE J == IInv /\ Times /\ Listed /\ BannedStaysOut
<1>1. Init => J
  <2>1. Init => Times BY DEF Init, Times, NewBucket, NoBan
  <2>2. Init => Listed BY DEF Init, Listed, NoBan, Limited
  <2>3. Init => BannedStaysOut BY DEF Init, BannedStaysOut
  <2> QED BY InductiveInit, <2>1, <2>2, <2>3
<1>2. J /\ [Next]_vars => J'
  BY InductiveStep, TimesStep, BansStep
<1>3. J => BannedStaysOut OBVIOUS
<1> QED BY <1>1, <1>2, <1>3, PTL DEF Spec

-----------------------------------------------------------------------------
(* Bans for flapping.                                                      *)

\* Where record_disconnection has something to do.
Leaving == {"leave", "add", "reset", "restart", "ban"}

\* Of the disconnections counted at the times d, those since a window's start.
Since(d, start) == {i \in DOMAIN d : d[i] >= start}

\* The window of an address whose disconnections have never overlapped: one task
\* works on it, within the window when it counts, and the count is covered by
\* disconnections of the window except between its two stores.
Window(a) ==
  ~overlapped[a] =>
    /\ \A t, u \in Tasks :
         pc[t] \in Leaving /\ ip[t] = a /\ pc[u] \in Leaving /\ ip[u] = a => t = u
    /\ \A t \in Tasks : pc[t] \in {"add", "ban"} /\ ip[t] = a =>
         Monus(now[t], ip_state[a].window_start) < window_time
    /\ \A t \in Tasks : pc[t] = "ban" /\ ip[t] = a =>
         ip_state[a].disconnect_count >= max_count
    /\ a \in DOMAIN ip_state /\ (\A t \in Tasks : pc[t] = "restart" => ip[t] # a) =>
         ip_state[a].disconnect_count <= Cardinality(Since(drops[a], ip_state[a].window_start))

Windows ==
  /\ drops \in [Ips -> Seq(Nat)] /\ overlapped \in [Ips -> BOOLEAN]
  /\ \A t \in Tasks : pc[t] \in Leaving \ {"leave"} => ip[t] \in DOMAIN ip_state
  /\ \A a \in Limited : Window(a)

\* The disconnections since a time can be counted, and one more counts.
LEMMA SinceCounts ==
  ASSUME NEW d \in Seq(Nat), NEW start \in Nat
  PROVE  /\ IsFiniteSet(Since(d, start)) /\ Cardinality(Since(d, start)) \in Nat
         /\ \A at \in Nat : start <= at =>
              Cardinality(Since(Append(d, at), start)) = Cardinality(Since(d, start)) + 1
<1>1. Len(d) \in Nat /\ DOMAIN d = 1 .. Len(d)
  OBVIOUS
<1>2. IsFiniteSet(1 .. Len(d))
  BY <1>1, FS_Interval
<1>3. Since(d, start) \subseteq 1 .. Len(d)
  BY <1>1 DEF Since
<1>4. IsFiniteSet(Since(d, start)) /\ Cardinality(Since(d, start)) \in Nat
  BY <1>2, <1>3, FS_Subset, FS_CardinalityType
<1>5. ASSUME NEW at \in Nat, start <= at
      PROVE  Cardinality(Since(Append(d, at), start)) = Cardinality(Since(d, start)) + 1
  <2>1. /\ DOMAIN Append(d, at) = 1 .. (Len(d) + 1)
        /\ Append(d, at)[Len(d) + 1] = at
        /\ \A i \in 1 .. Len(d) : Append(d, at)[i] = d[i]
    BY <1>1
  <2>2. Since(Append(d, at), start) = Since(d, start) \cup {Len(d) + 1}
    <3> HIDE DEF Since
    <3>1. \A i : i \in 1 .. (Len(d) + 1) <=> i \in 1 .. Len(d) \/ i = Len(d) + 1
      BY <1>1
    <3> QED BY <2>1, <3>1, <1>1, <1>5 DEF Since
  <2>3. Len(d) + 1 \notin Since(d, start)
    BY <1>1, <1>3
  <2> QED BY <2>2, <2>3, <1>4, FS_AddElement, Zenon
<1> QED BY <1>4, <1>5

\* A step that leaves the disconnections of an address alone: its entry may have
\* been made, with nothing counted.
LEMMA WindowKept ==
  ASSUME IInv, Times, Windows, NEW a \in Limited,
         overlapped'[a] = overlapped[a], drops'[a] = drops[a],
         \A t \in Tasks : pc'[t] \in Leaving /\ ip'[t] = a =>
           pc'[t] = pc[t] /\ ip[t] = a /\ now'[t] = now[t],
         \A t \in Tasks : pc[t] = "restart" /\ ip[t] = a => pc'[t] = "restart" /\ ip'[t] = a,
         a \in DOMAIN ip_state' =>
           \/ /\ a \in DOMAIN ip_state
              /\ ip_state'[a].window_start = ip_state[a].window_start
              /\ ip_state'[a].disconnect_count = ip_state[a].disconnect_count
           \/ /\ a \notin DOMAIN ip_state
              /\ ip_state'[a].disconnect_count = 0 /\ ip_state'[a].window_start \in Nat,
         a \notin DOMAIN ip_state' => \A t \in Tasks : pc[t] \in Leaving \ {"leave"} => ip[t] # a
  PROVE  Window(a)'
<1> SUFFICES ASSUME ~overlapped[a]
             PROVE  /\ \A t, u \in Tasks :
                         pc'[t] \in Leaving /\ ip'[t] = a /\ pc'[u] \in Leaving /\ ip'[u] = a => t = u
                    /\ \A t \in Tasks : pc'[t] \in {"add", "ban"} /\ ip'[t] = a =>
                         Monus(now'[t], ip_state'[a].window_start) < window_time
                    /\ \A t \in Tasks : pc'[t] = "ban" /\ ip'[t] = a =>
                         ip_state'[a].disconnect_count >= max_count
                    /\ a \in DOMAIN ip_state' /\ (\A t \in Tasks : pc'[t] = "restart" => ip'[t] # a) =>
                         ip_state'[a].disconnect_count
                           <= Cardinality(Since(drops[a], ip_state'[a].window_start))
  BY Zenon DEF Window
<1>1. Window(a) /\ a \in Ips
  BY Zenon DEF Windows, Limited
<1>2. \A t \in Tasks : pc[t] \in Leaving \ {"leave"} => ip[t] \in DOMAIN ip_state
  BY DEF Windows
<1>3. ASSUME NEW t \in Tasks, NEW u \in Tasks, pc'[t] \in Leaving, ip'[t] = a,
             pc'[u] \in Leaving, ip'[u] = a
      PROVE  t = u
  <2>1. pc[t] \in Leaving /\ ip[t] = a /\ pc[u] \in Leaving /\ ip[u] = a
    BY <1>3
  <2> QED BY <1>1, <2>1, Zenon DEF Window
<1>4. ASSUME NEW t \in Tasks, pc'[t] \in {"add", "ban"}, ip'[t] = a
      PROVE  /\ pc'[t] = pc[t] /\ ip[t] = a /\ now'[t] = now[t]
             /\ ip_state'[a].window_start = ip_state[a].window_start
             /\ ip_state'[a].disconnect_count = ip_state[a].disconnect_count
  BY <1>2, <1>4 DEF Leaving
<1>5. \A t \in Tasks : pc'[t] \in {"add", "ban"} /\ ip'[t] = a =>
        Monus(now'[t], ip_state'[a].window_start) < window_time
  BY Zenon, <1>1, <1>4 DEF Window
<1>6. \A t \in Tasks : pc'[t] = "ban" /\ ip'[t] = a => ip_state'[a].disconnect_count >= max_count
  BY Zenon, <1>1, <1>4 DEF Window
<1>7. ASSUME a \in DOMAIN ip_state', \A t \in Tasks : pc'[t] = "restart" => ip'[t] # a
      PROVE  ip_state'[a].disconnect_count
               <= Cardinality(Since(drops[a], ip_state'[a].window_start))
  <2>1. CASE a \in DOMAIN ip_state
    <3>1. \A t \in Tasks : pc[t] = "restart" => ip[t] # a BY Zenon, <1>7
    <3> QED BY Zenon, <2>1, <3>1, <1>1, <1>7 DEF Window
  <2>2. CASE a \notin DOMAIN ip_state
    <3>1. drops[a] \in Seq(Nat) BY Zenon, <1>1 DEF Windows
    <3>2. ip_state'[a].disconnect_count = 0 /\ ip_state'[a].window_start \in Nat BY <2>2, <1>7
    <3>3. Cardinality(Since(drops[a], ip_state'[a].window_start)) \in Nat
      BY <3>1, <3>2, SinceCounts, Zenon
    <3> QED BY <3>2, <3>3
  <2> QED BY Zenon, <2>1, <2>2
<1>8. \A t, u \in Tasks :
        pc'[t] \in Leaving /\ ip'[t] = a /\ pc'[u] \in Leaving /\ ip'[u] = a => t = u
  BY <1>3
<1>9. a \in DOMAIN ip_state' /\ (\A t \in Tasks : pc'[t] = "restart" => ip'[t] # a) =>
        ip_state'[a].disconnect_count <= Cardinality(Since(drops[a], ip_state'[a].window_start))
  BY Zenon, <1>7
<1> QED BY <1>5, <1>6, <1>8, <1>9, Zenon

\* A task of the list moves; the others stay where they are.
LEMMA MovesOn ==
  ASSUME TypeOK, NEW t \in Tasks, NEW place, Goto(t, place) \/ GotoAt(t, place)
  PROVE  /\ pc'[t] = place /\ (place # "idle" => ip'[t] = ip[t])
         /\ \A u \in Tasks \ {t} : pc'[u] = pc[u] /\ ip'[u] = ip[u] /\ now'[u] = now[u]
<1>1. pc \in [Tasks -> Place] /\ ip \in [Tasks -> Ips \cup {NoIp}] /\ now \in [Tasks -> Nat]
  BY Zenon DEF TypeOK
<1>2. pc' = [pc EXCEPT ![t] = place]
  BY DEF Goto, GotoAt
<1>3. pc'[t] = place /\ \A u \in Tasks \ {t} : pc'[u] = pc[u]
  BY <1>1, <1>2
<1>4. CASE place = "idle"
  <2>1. ip' = [ip EXCEPT ![t] = NoIp] /\ now' = [now EXCEPT ![t] = 0]
    BY <1>4 DEF Goto, GotoAt
  <2> QED BY <1>1, <1>3, <1>4, <2>1
<1>5. CASE place # "idle"
  <2>1. ip' = ip /\ (now' = now \/ now' = [now EXCEPT ![t] = clock])
    BY <1>5 DEF Goto, GotoAt
  <2> QED BY <1>1, <1>3, <2>1
<1> QED BY Zenon, <1>4, <1>5

\* A step that counts no disconnection and takes no task into or out of the
\* restart of a window, except a last one, keeps every window.
LEMMA NoneCounted ==
  ASSUME IInv, Times, Windows, UNCHANGED <<drops, overlapped>>,
         \A u \in Tasks : pc'[u] \in Leaving => pc'[u] = pc[u] /\ ip'[u] = ip[u] /\ now'[u] = now[u],
         \A u \in Tasks : pc[u] = "restart" => pc'[u] = "restart" /\ ip'[u] = ip[u],
         \A a \in DOMAIN ip_state' :
           \/ /\ a \in DOMAIN ip_state
              /\ ip_state'[a].window_start = ip_state[a].window_start
              /\ ip_state'[a].disconnect_count = ip_state[a].disconnect_count
           \/ /\ a \notin DOMAIN ip_state
              /\ ip_state'[a].disconnect_count = 0 /\ ip_state'[a].window_start \in Nat,
         \/ DOMAIN ip_state \subseteq DOMAIN ip_state'
         \/ \A u \in Tasks : pc[u] \notin Leaving \ {"leave"}
  PROVE  Windows'
<1>1. \A u \in Tasks : pc[u] \in Leaving \ {"leave"} => ip[u] \in DOMAIN ip_state
  BY Zenon DEF Windows
<1>2. drops' \in [Ips -> Seq(Nat)] /\ overlapped' \in [Ips -> BOOLEAN]
  BY DEF Windows
<1>3. \A u \in Tasks : pc'[u] \in Leaving \ {"leave"} => ip'[u] \in DOMAIN ip_state'
  BY <1>1
<1>4. ASSUME NEW a \in Limited PROVE Window(a)'
  <2>1. a \notin DOMAIN ip_state' => \A u \in Tasks : pc[u] \in Leaving \ {"leave"} => ip[u] # a
    BY <1>1, Zenon
  <2>2. \A u \in Tasks : pc'[u] \in Leaving /\ ip'[u] = a =>
          pc'[u] = pc[u] /\ ip[u] = a /\ now'[u] = now[u]
    BY Zenon
  <2>3. \A u \in Tasks : pc[u] = "restart" /\ ip[u] = a => pc'[u] = "restart" /\ ip'[u] = a
    OBVIOUS
  <2> QED BY Zenon, <2>1, <2>2, <2>3, WindowKept
<1> QED BY <1>2, <1>3, <1>4 DEF Windows

\* Checks, recorded connections, bans and the clock leave the windows alone.
LEMMA NotLeaving ==
  ASSUME IInv, Times, Windows, [Next]_vars,
         \A t \in Tasks : ~Ends(t) /\ ~Leave(t) /\ ~StoreWindow(t) /\ ~StoreCount(t) /\ ~AddCount(t)
  PROVE  Windows'
<1>1. ASSUME NEW t \in Tasks, NEW place, Goto(t, place) \/ GotoAt(t, place),
             pc[t] # "restart", place \notin Leaving
      PROVE  /\ \A u \in Tasks : pc'[u] \in Leaving =>
                  pc'[u] = pc[u] /\ ip'[u] = ip[u] /\ now'[u] = now[u]
             /\ \A u \in Tasks : pc[u] = "restart" => pc'[u] = "restart" /\ ip'[u] = ip[u]
  <2>1. /\ pc'[t] = place
        /\ \A u \in Tasks \ {t} : pc'[u] = pc[u] /\ ip'[u] = ip[u] /\ now'[u] = now[u]
    BY <1>1, MovesOn, Zenon DEF IInv
  <2> QED BY <1>1, <2>1
<1>2. ASSUME UNCHANGED ip_state
      PROVE  /\ \A a \in DOMAIN ip_state' :
                  /\ a \in DOMAIN ip_state
                  /\ ip_state'[a].window_start = ip_state[a].window_start
                  /\ ip_state'[a].disconnect_count = ip_state[a].disconnect_count
             /\ DOMAIN ip_state \subseteq DOMAIN ip_state'
  BY <1>2
<1>3. ASSUME NEW a, NEW at \in Nat, NEW r, ip_state' = WithState(a, r),
             r.window_start = Entry(a, at).window_start,
             r.disconnect_count = Entry(a, at).disconnect_count
      PROVE  /\ \A b \in DOMAIN ip_state' :
                  \/ /\ b \in DOMAIN ip_state
                     /\ ip_state'[b].window_start = ip_state[b].window_start
                     /\ ip_state'[b].disconnect_count = ip_state[b].disconnect_count
                  \/ /\ b \notin DOMAIN ip_state
                     /\ ip_state'[b].disconnect_count = 0 /\ ip_state'[b].window_start \in Nat
             /\ DOMAIN ip_state \subseteq DOMAIN ip_state'
  BY Zenon, <1>3 DEF WithState, Entry, NewState
<1>4. ASSUME NEW t \in Tasks,
             Proxy(t) \/ Check(t) \/ TempBanned(t) \/ RemoveBan(t) \/ Ban(t)
      PROVE  Windows'
  <2>1. PICK place : /\ Goto(t, place) \/ GotoAt(t, place)
                     /\ pc[t] # "restart" /\ place \notin Leaving
    <3>1. CASE Proxy(t) BY <3>1 DEF Proxy, Leaving
    <3>2. CASE Check(t) BY <3>2 DEF Check, Leaving
    <3>3. CASE TempBanned(t) BY <3>3 DEF TempBanned, Leaving
    <3>4. CASE RemoveBan(t) BY <3>4 DEF RemoveBan, Leaving
    <3>5. CASE Ban(t) BY <3>5 DEF Ban, Leaving
    <3> QED BY <1>4, <3>1, <3>2, <3>3, <3>4, <3>5
  <2>2. UNCHANGED <<drops, overlapped, ip_state>>
    BY <1>4 DEF Proxy, Check, TempBanned, RemoveBan, Ban, history, detector
  <2> QED BY Zenon, <2>1, <2>2, <1>1, <1>2, NoneCounted
<1>5. ASSUME NEW t \in Tasks, Consult(t) PROVE Windows'
  <2> PICK a, e, b : a = ip[t] /\ e = Entry(a, now[t]) /\ b = Buckets(a, now[t])
    BY Zenon
  <2>1. PICK r \in IpState, passed \in Nat : CheckLeaves(t, e, b, r, passed)
    BY <1>5, Consulted, Zenon
  <2>2. now[t] \in Nat BY Zenon DEF IInv, TypeOK
  <2>3. PICK place : Goto(t, place) /\ pc[t] # "restart" /\ place \notin Leaving
    BY <1>5 DEF Consult, Leaving
  <2>4. UNCHANGED <<drops, overlapped>> BY <1>5 DEF Consult
  <2>5. /\ ip_state' = WithState(a, r) /\ r.window_start = Entry(a, now[t]).window_start
        /\ r.disconnect_count = Entry(a, now[t]).disconnect_count
    BY <2>1 DEF CheckLeaves
  <2> QED BY Zenon, <2>2, <2>3, <2>4, <2>5, <1>1, <1>3, NoneCounted
<1>6. ASSUME NEW t \in Tasks, record_connection(t) PROVE Windows'
  <2>1. Goto(t, "live") /\ pc[t] # "restart" /\ "live" \notin Leaving
    BY <1>6 DEF record_connection, Leaving
  <2>2. UNCHANGED <<drops, overlapped>> BY <1>6 DEF record_connection
  <2>3. CASE UNCHANGED <<ip_state, bucket>>
    BY Zenon, <2>1, <2>2, <2>3, <1>1, <1>2, NoneCounted
  <2>4. CASE ~ UNCHANGED <<ip_state, bucket>>
    <3> PICK a : a = ip[t] OBVIOUS
    <3>1. PICK at \in Nat, r \in IpState :
            /\ ip_state' = WithState(a, r) /\ r.window_start = Entry(a, at).window_start
            /\ r.disconnect_count = Entry(a, at).disconnect_count
      BY Zenon, <1>6, <2>4, Recorded
    <3> QED BY Zenon, <2>1, <2>2, <3>1, <1>1, <1>3, NoneCounted
  <2> QED BY <2>3, <2>4
<1>7. ASSUME NEW t \in Tasks, NEW a \in Ips, Accept(t, a) PROVE Windows'
  <2>1. /\ \A u \in Tasks : pc'[u] \in Leaving =>
             pc'[u] = pc[u] /\ ip'[u] = ip[u] /\ now'[u] = now[u]
        /\ \A u \in Tasks : pc[u] = "restart" => pc'[u] = "restart" /\ ip'[u] = ip[u]
    BY Zenon, <1>7 DEF Accept, Leaving, IInv, TypeOK
  <2>2. UNCHANGED <<drops, overlapped, ip_state>> BY <1>7 DEF Accept, detector
  <2> QED BY Zenon, <2>1, <2>2, <1>2, NoneCounted
<1>8. CASE cleanup
  <2>1. \A u \in Tasks : pc[u] \notin Leaving \ {"leave"}
    BY Zenon, <1>8 DEF cleanup, Inside, At, Leaving, IInv, Places, Limited
  <2>2. UNCHANGED <<drops, overlapped, pc, ip, now>> BY <1>8 DEF cleanup, history
  <2>3. \A a \in DOMAIN ip_state' : a \in DOMAIN ip_state /\ ip_state'[a] = ip_state[a]
    BY <1>8 DEF cleanup
  <2> QED BY Zenon, <2>1, <2>2, <2>3, NoneCounted
<1>9. CASE UNCHANGED vars \/ Tick \/ (\E a \in Limited : ban_ip(a) \/ unban_ip(a))
  <2>1. UNCHANGED <<drops, overlapped, pc, ip, now, ip_state>>
    BY <1>9, Zenon DEF vars, Tick, ban_ip, unban_ip, history, detector
  <2> QED BY Zenon, <2>1, <1>2, NoneCounted
<1> QED BY <1>4, <1>5, <1>6, <1>7, <1>8, <1>9, Zenon DEF Next, Step

\* Disconnections: the task that works on an address keeps its window, and the
\* windows of the other addresses do not move (flapping/mod.rs:194-209, 405-440).
LEMMA Counting ==
  ASSUME IInv, Times, Windows, NEW t \in Tasks,
         Ends(t) \/ Leave(t) \/ StoreWindow(t) \/ StoreCount(t) \/ AddCount(t)
  PROVE  Windows'
<1> PICK a : a = ip[t] OBVIOUS
<1>1. a \in Ips /\ (a \in Limited \/ (Ends(t) /\ a \in AllowedIps))
  BY DEF IInv, Places, Limited, Ends, Leave, StoreWindow, StoreCount, AddCount
<1>2. PICK place : Goto(t, place) \/ GotoAt(t, place)
  BY DEF Ends, Leave, StoreWindow, StoreCount, AddCount
<1>3. /\ pc'[t] = place /\ (place # "idle" => ip'[t] = a)
      /\ \A u \in Tasks \ {t} : pc'[u] = pc[u] /\ ip'[u] = ip[u] /\ now'[u] = now[u]
  BY <1>2, MovesOn DEF IInv
<1>4. DOMAIN ip_state' = DOMAIN ip_state
  BY Zenon, Disconnected DEF Ends, detector
<1>5. clock \in Nat /\ drops \in [Ips -> Seq(Nat)] /\ overlapped \in [Ips -> BOOLEAN]
  BY Zenon DEF IInv, TypeOK, Windows
<1>6. drops' \in [Ips -> Seq(Nat)] /\ overlapped' \in [Ips -> BOOLEAN]
  <2>1. drops' = drops \/ Dropped(a)
    BY DEF Ends, Leave, StoreWindow, StoreCount, AddCount, history
  <2>2. drops[a] \in Seq(Nat) BY <1>1, <1>5
  <2>3. Append(drops[a], clock) \in Seq(Nat) BY <1>5, <2>2
  <2>4. drops' \in [Ips -> Seq(Nat)] BY Zenon, <1>5, <2>1, <2>3 DEF Dropped
  <2>5. \/ overlapped' = overlapped
        \/ \E p \in BOOLEAN : overlapped' = [overlapped EXCEPT ![a] = p]
    <3>1. CASE Ends(t)
      <4>1. overlapped' = [overlapped EXCEPT ![a] = overlapped[a] \/
              At({"leave", "add", "reset", "restart", "ban"}, a) # {}]
        BY Zenon, <3>1 DEF Ends
      <4> QED BY <4>1, Zenon
    <3> QED BY <3>1 DEF Leave, StoreWindow, StoreCount, AddCount, history
  <2> QED BY Zenon, <1>5, <2>4, <2>5
<1>7. \A u \in Tasks : pc[u] \in Leaving \ {"leave"} => ip[u] \in DOMAIN ip_state
  BY DEF Windows
<1>8. place \in Leaving \ {"leave"} => a \in DOMAIN ip_state
  <2>1. CASE Ends(t) BY Zenon, <2>1, <1>3 DEF Ends, GotoAt, Leaving, IInv, TypeOK
  <2>2. CASE Leave(t) BY <2>2, <1>3 DEF Leave, Goto, Leaving, IInv, TypeOK
  <2>3. CASE StoreWindow(t) \/ StoreCount(t) \/ AddCount(t)
    BY <2>3, <1>7 DEF StoreWindow, StoreCount, AddCount, Leaving
  <2> QED BY Zenon, <2>1, <2>2, <2>3
<1>9. \A u \in Tasks : pc'[u] \in Leaving \ {"leave"} => ip'[u] \in DOMAIN ip_state'
  BY <1>3, <1>4, <1>7, <1>8 DEF Leaving
<1>10. ASSUME NEW b \in Limited, b # a PROVE Window(b)'
  <2>1. b \in Ips BY DEF Limited
  <2>2. overlapped'[b] = overlapped[b] /\ drops'[b] = drops[b]
    BY Zenon, <2>1, <1>5, <1>10 DEF Ends, Leave, StoreWindow, StoreCount, AddCount, history, Dropped
  <2>3. b \in DOMAIN ip_state => ip_state'[b] = ip_state[b]
    BY <1>10 DEF Ends, Leave, StoreWindow, StoreCount, AddCount, detector
  <2>4. \A u \in Tasks : pc'[u] \in Leaving /\ ip'[u] = b =>
          pc'[u] = pc[u] /\ ip[u] = b /\ now'[u] = now[u]
    BY Zenon, <1>3, <1>10 DEF Leaving
  <2>5. \A u \in Tasks : pc[u] = "restart" /\ ip[u] = b => pc'[u] = "restart" /\ ip'[u] = b
    BY Zenon, <1>3, <1>10
  <2>6. b \notin DOMAIN ip_state' => \A u \in Tasks : pc[u] \in Leaving \ {"leave"} => ip[u] # b
    BY <1>4, <1>7
  <2> QED BY Zenon, <2>2, <2>3, <2>4, <2>5, <2>6, <1>4, WindowKept
<1>11. ASSUME a \in Limited PROVE Window(a)'
  <2>1. Window(a) BY <1>11 DEF Windows
  <2>2. /\ now[t] \in Nat /\ now[t] <= clock
        /\ a \in DOMAIN ip_state => /\ ip_state[a] \in IpState
                                    /\ ip_state[a].window_start \in Nat
                                    /\ ip_state[a].disconnect_count \in Nat
                                    /\ ip_state[a].window_start <= clock
    BY Zenon DEF IInv, TypeOK, Times, IpState
  <2>3. drops[a] \in Seq(Nat) BY <1>1, <1>5
  <2>4. CASE Ends(t)
    <3>1. ip_state' = ip_state /\ drops' = drops /\ place \in {"leave"}
      BY Zenon, <2>4, <1>3, <1>11 DEF Ends, detector, GotoAt, IInv, TypeOK, Limited
    <3>2. ~overlapped'[a] => ~overlapped[a] /\ \A u \in Tasks : ~(pc[u] \in Leaving /\ ip[u] = a)
      <4>1. overlapped' = [overlapped EXCEPT ![a] = overlapped[a] \/ At(Leaving, a) # {}]
        BY Zenon, <2>4 DEF Ends, Leaving
      <4>2. overlapped'[a] = (overlapped[a] \/ At(Leaving, a) # {})
        BY <4>1, <1>1, <1>5, Zenon
      <4> QED BY Zenon, <4>2 DEF At
    <3> QED BY <3>1, <3>2, <2>1, <1>3 DEF Window, Leaving
  <2>5. CASE ~Ends(t)
    <3>1. overlapped' = overlapped /\ pc[t] \in Leaving
      BY <2>5 DEF Leave, StoreWindow, StoreCount, AddCount, history, Leaving
    <3> SUFFICES ASSUME ~overlapped[a] PROVE Window(a)'
      BY Zenon, <3>1 DEF Window
    <3>2. \A u \in Tasks : pc[u] \in Leaving /\ ip[u] = a => u = t
      BY <3>1, <2>1, Zenon DEF Window
    <3>3. \A u \in Tasks : pc'[u] \in Leaving /\ ip'[u] = a => u = t
      BY <3>2, <1>3
    <3>4. CASE Leave(t)
      <4>1. drops' = drops /\ \A u \in Tasks : pc[u] = "restart" => ip[u] # a
        BY <3>2, <3>4 DEF Leave, history, Leaving
      <4>2. a \in DOMAIN ip_state =>
              /\ ip_state'[a].window_start = ip_state[a].window_start
              /\ ip_state'[a].disconnect_count = ip_state[a].disconnect_count
        BY <2>2, <3>4 DEF Leave, IpState
      <4>3. place # "ban" /\ (place = "add" =>
              a \in DOMAIN ip_state /\ now'[t] = now[t]
                /\ ~WindowOver(ip_state[a], now[t]))
        BY <3>4, <1>3 DEF Leave, Goto, IInv, TypeOK
      <4>4. place = "add" => Monus(now'[t], ip_state'[a].window_start) < window_time
        <5> SUFFICES ASSUME place = "add" PROVE Monus(now[t], ip_state[a].window_start) < window_time
          BY <4>2, <4>3, Zenon
        <5>1. PICK m \in Nat, n \in Nat :
                m = now[t] /\ n = ip_state[a].window_start /\ ~(Monus(m, n) >= window_time)
          BY <4>3, <2>2, Zenon DEF WindowOver
        <5>2. Monus(m, n) < window_time
          BY <5>1, AdmissionAssumption DEF Monus
        <5> QED BY <5>1, <5>2, Zenon
      <4>5. a \in DOMAIN ip_state' =>
              ip_state'[a].disconnect_count <= Cardinality(Since(drops'[a], ip_state'[a].window_start))
        BY <4>1, <4>2, <2>1, <1>4, Zenon DEF Window
      <4>6. \A u \in Tasks : pc'[u] \in {"add", "ban"} /\ ip'[u] = a =>
              pc'[u] = "add" /\ Monus(now'[u], ip_state'[a].window_start) < window_time
        BY <4>3, <4>4, <3>3, <1>3, Zenon DEF Leaving
      <4>7. \A u \in Tasks : pc'[u] # "ban" \/ ip'[u] # a
        BY <4>6, Zenon
      <4> QED BY <4>5, <4>6, <4>7, <3>3, Zenon DEF Window
    <3>5. CASE StoreWindow(t)
      <4>1. place = "restart" BY <3>5, <1>3 DEF StoreWindow, Goto, IInv, TypeOK
      <4> QED BY Zenon, <4>1, <3>3, <1>3 DEF Window, Leaving
    <3>6. CASE StoreCount(t)
      <4>1. place = "idle" /\ a \in DOMAIN ip_state
        BY <3>6, <1>3, <1>7 DEF StoreCount, Goto, IInv, TypeOK, Leaving
      <4>2. ip_state'[a].window_start = ip_state[a].window_start /\ ip_state'[a].disconnect_count = 1
        BY <4>1, <2>2, <3>6 DEF StoreCount, IpState
      <4>3. drops'[a] = Append(drops[a], clock)
        BY <3>6, <1>1, <1>5 DEF StoreCount, Dropped
      <4>4. 1 <= Cardinality(Since(drops'[a], ip_state[a].window_start))
        <5>1. /\ Cardinality(Since(drops[a], ip_state[a].window_start)) \in Nat
              /\ Cardinality(Since(Append(drops[a], clock), ip_state[a].window_start))
                   = Cardinality(Since(drops[a], ip_state[a].window_start)) + 1
          BY <4>1, <2>2, <2>3, <1>5, SinceCounts, Zenon
        <5>2. PICK n \in Nat : Cardinality(Since(drops'[a], ip_state[a].window_start)) = n + 1
          BY <5>1, <4>3, Zenon
        <5>3. 1 <= n + 1 OBVIOUS
        <5> QED BY <5>2, <5>3, Zenon
      <4> QED BY Zenon, <4>1, <4>2, <4>4, <3>3, <1>3 DEF Window, Leaving
    <3>7. CASE AddCount(t)
      <4>1. a \in DOMAIN ip_state /\ pc[t] = "add"
        BY <3>7, <1>7 DEF AddCount, Leaving
      <4>2. /\ ip_state'[a].window_start = ip_state[a].window_start
            /\ ip_state'[a].disconnect_count = ip_state[a].disconnect_count + 1
        BY <4>1, <2>2, <3>7 DEF AddCount, IpState
      <4>3. drops'[a] = Append(drops[a], clock)
        BY <3>7, <1>1, <1>5 DEF AddCount, Dropped
      <4>4. ip_state[a].disconnect_count <= Cardinality(Since(drops[a], ip_state[a].window_start))
        BY Zenon, <4>1, <3>2, <2>1 DEF Window, Leaving
      <4>5. ip_state'[a].disconnect_count <= Cardinality(Since(drops'[a], ip_state[a].window_start))
        <5>1. /\ Cardinality(Since(drops[a], ip_state[a].window_start)) \in Nat
              /\ Cardinality(Since(Append(drops[a], clock), ip_state[a].window_start))
                   = Cardinality(Since(drops[a], ip_state[a].window_start)) + 1
          BY Zenon, <4>1, <2>2, <2>3, <1>5, SinceCounts, Zenon
        <5>2. PICK n \in Nat, m \in Nat :
                /\ ip_state[a].disconnect_count = m
                /\ Cardinality(Since(drops[a], ip_state[a].window_start)) = n
                /\ Cardinality(Since(drops'[a], ip_state[a].window_start)) = n + 1
          BY <5>1, <4>1, <4>3, <2>2, Zenon
        <5>3. m <= n BY <4>4, <5>2, Zenon
        <5>4. m + 1 <= n + 1 BY <5>3
        <5> QED BY <5>2, <5>4, <4>2, Zenon
      <4>6. place \in {"idle", "ban"} /\ (place = "ban" =>
              now'[t] = now[t] /\ ip_state[a].disconnect_count + 1 >= max_count)
        BY <3>7, <1>3 DEF AddCount, Goto, IInv, TypeOK
      <4>7. place = "ban" => Monus(now'[t], ip_state'[a].window_start) < window_time
        BY Zenon, <4>1, <4>2, <4>6, <2>1 DEF Window
      <4> QED BY Zenon, <4>2, <4>5, <4>6, <4>7, <3>3, <1>3 DEF Window, Leaving
    <3> QED BY <2>5, <3>4, <3>5, <3>6, <3>7
  <2> QED BY <2>4, <2>5
<1>12. \A b \in Limited : Window(b)'
  BY <1>10, <1>11, Zenon
<1> QED BY Zenon, <1>6, <1>9, <1>12 DEF Windows

\* Who is about to be banned has max_count disconnections in the window.
LEMMA WindowsDeserve ==
  ASSUME IInv, Windows
  PROVE  BanDeserved
<1> SUFFICES ASSUME NEW t \in Tasks, pc[t] = "ban", ~overlapped[ip[t]]
             PROVE  Cardinality({i \in DOMAIN drops[ip[t]] : now[t] - drops[ip[t]][i] < window_time})
                      >= max_count
  BY DEF BanDeserved
<1> PICK a, d, start, n :
      a = ip[t] /\ d = drops[a] /\ start = ip_state[a].window_start /\ n = now[t]
  OBVIOUS
<1> DEFINE D == {i \in DOMAIN d : n - d[i] < window_time}
<1>1. a \in Limited /\ a \in Ips BY DEF IInv, Places, Limited
<1>2. a \in DOMAIN ip_state BY Zenon DEF Windows, Leaving
<1>3. start \in Nat /\ n \in Nat /\ ip_state[a].disconnect_count \in Nat
  BY Zenon, <1>2 DEF IInv, TypeOK, IpState
<1>4. d \in Seq(Nat) BY <1>1 DEF Windows
<1>5. Window(a) BY <1>1 DEF Windows
<1>6. \A u \in Tasks : pc[u] = "restart" => ip[u] # a
  <2>1. \A u \in Tasks : pc[u] \in Leaving /\ ip[u] = a => u = t
    BY Zenon, <1>5 DEF Window, Leaving
  <2> QED BY Zenon, <2>1 DEF Leaving
<1>7. /\ Monus(n, start) < window_time /\ ip_state[a].disconnect_count >= max_count
      /\ ip_state[a].disconnect_count <= Cardinality(Since(d, start))
  BY Zenon, <1>2, <1>5, <1>6 DEF Window
<1>8. DOMAIN d = 1 .. Len(d) /\ Len(d) \in Nat /\ \A i \in DOMAIN d : d[i] \in Nat
  BY <1>4
<1>9. Since(d, start) \subseteq D
  <2> SUFFICES ASSUME NEW i \in DOMAIN d, d[i] >= start PROVE n - d[i] < window_time
    BY DEF Since
  <2>1. d[i] \in Nat BY <1>8
  <2> QED BY SMTT(20), <1>3, <1>7, <2>1, AdmissionAssumption DEF Monus
<1>10. IsFiniteSet(D)
  <2>1. IsFiniteSet(1 .. Len(d)) BY <1>8, FS_Interval
  <2> QED BY <1>8, <2>1, FS_Subset
<1> HIDE DEF D
<1>11. Cardinality(Since(d, start)) <= Cardinality(D) BY <1>9, <1>10, FS_Subset
<1>12. Cardinality(Since(d, start)) \in Nat /\ Cardinality(D) \in Nat
  BY Zenon, <1>3, <1>4, <1>10, SinceCounts, FS_CardinalityType
<1>13. Cardinality(D) >= max_count
  BY SMTT(20), <1>3, <1>7, <1>11, <1>12, AdmissionAssumption
<1> QED BY <1>13 DEF D

\* An address is banned for flapping only with max_count disconnections in the
\* window, whatever the tasks of other addresses do and whatever the cleanup task
\* removes, as long as its own disconnections are recorded one at a time
\* (flapping/mod.rs:194-209, 405-440).
THEOREM BansDeserved == Spec => []BanDeserved
<1> DEFINE J == IInv /\ Times /\ Windows
<1>1. Init => J
  <2>1. Init => Times BY DEF Init, Times, NewBucket, NoBan
  <2>2. Init => Windows BY DEF Init, Windows, Window, Leaving
  <2> QED BY InductiveInit, <2>1, <2>2
<1>2. J /\ [Next]_vars => J'
  BY InductiveStep, TimesStep, NotLeaving, Counting
<1>3. J => BanDeserved
  BY WindowsDeserve
<1> QED BY <1>1, <1>2, <1>3, PTL DEF Spec
=============================================================================
