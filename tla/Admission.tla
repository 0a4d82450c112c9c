------------------------------ MODULE Admission ------------------------------
(***************************************************************************)
(* Who may connect: the FlappingDetector of src/flapping/mod.rs, as the    *)
(* accept loops of src/broker/mod.rs use it from many tasks at once.       *)
(*                                                                         *)
(* The TCP loop checks and records one socket after the other; the         *)
(* WebSocket and TLS loops spawn a task per socket, and these overlap.     *)
(* check_connection and record_connection work on the entry of an address  *)
(* under DashMap's exclusive lock, record_disconnection under the shared   *)
(* one: several tasks can be inside it, and nobody else.  The ban list is  *)
(* a map of its own.                                                       *)
(***************************************************************************)
EXTENDS Integers, FiniteSets, Sequences

CONSTANTS
  Tasks,               \* tasks that handle an accepted socket
  TcpTasks,            \* those of the TCP loop, one of which accepts at a time
  Ips,                 \* client addresses
  NoIp,                \* no address: the task handles no socket
  AllowedIps,          \* allowed_ips and allowed_cidrs
  BannedIps,           \* banned_ips and banned_cidrs
  max_connections_per_ip,    \* 0: no limit
  rate_limit, rate_burst,    \* tokens per second, 0: no limit
  SECOND,              \* clock ticks per second
  max_count, window_time, ban_time,
  cleanup_interval,
  MaxClock,            \* bound: the clock stops there
  MaxCalls             \* bound: sockets accepted and bans set by hand in a behaviour

ASSUME AdmissionAssumption ==
  /\ IsFiniteSet(Tasks)
  /\ TcpTasks \subseteq Tasks
  /\ NoIp \notin Ips
  /\ max_connections_per_ip \in Nat
  /\ rate_limit \in Nat /\ rate_burst \in Nat /\ SECOND \in Nat \ {0}
  /\ max_count \in Nat /\ window_time \in Nat /\ ban_time \in Nat
  /\ cleanup_interval \in Nat

VARIABLES
  pc,          \* per task: what it does next
  ip,          \* per task: the address of its socket
  now,         \* per task: its now_ms
  clock,       \* milliseconds since start_time
  ip_state,    \* the entries of the addresses that have one
  temp_bans,   \* the expiry of each temporary ban
  calls,       \* history: sockets accepted and bans set by hand
  bucket,      \* history, per address: of its entry, the first refill time and the checks passed
  peak,        \* history, per address: most tasks ever between check and record
  drops,       \* history, per address: when its disconnections were counted
  overlapped,  \* history, per address: two disconnections were recorded at once
  ban          \* history, per address: the last ban

detector == <<ip_state, temp_bans>>
history == <<calls, bucket, peak, drops, overlapped, ban>>
vars == <<pc, ip, now, clock, ip_state, temp_bans, calls, bucket, peak, drops, overlapped, ban>>

Limited == Ips \ (AllowedIps \cup BannedIps)

At(places, a) == {t \in Tasks : pc[t] \in places /\ ip[t] = a}

(* Connections the detector has recorded and not yet written off. *)
Live(a) == At({"live", "leave"}, a)

(* Tasks that hold the entry's lock in shared mode, inside record_disconnection. *)
Inside(a) == At({"add", "reset", "restart", "ban"}, a)

Monus(m, n) == IF m >= n THEN m - n ELSE 0
Min(m, n) == IF m <= n THEN m ELSE n

NewBucket(at) == [since |-> at, passed |-> 0]

NoBan == [since |-> 0, until |-> 0, lifted |-> TRUE]

Init ==
  /\ pc = [t \in Tasks |-> "idle"]
  /\ ip = [t \in Tasks |-> NoIp]
  /\ now = [t \in Tasks |-> 0]
  /\ clock = 0
  /\ ip_state = [a \in {} |-> 0]
  /\ temp_bans = [a \in {} |-> 0]
  /\ calls = 0
  /\ bucket = [a \in Ips |-> NewBucket(0)]
  /\ peak = [a \in Ips |-> 0]
  /\ drops = [a \in Ips |-> <<>>]
  /\ overlapped = [a \in Ips |-> FALSE]
  /\ ban = [a \in Ips |-> NoBan]

(* The task goes on at place; one that returns takes its locals with it. *)
Goto(t, place) ==
  /\ pc' = [pc EXCEPT ![t] = place]
  /\ IF place = "idle" THEN ip' = [ip EXCEPT ![t] = NoIp] /\ now' = [now EXCEPT ![t] = 0]
     ELSE UNCHANGED <<ip, now>>

(* The same for the start of a function that reads the clock first. *)
GotoAt(t, place) ==
  /\ pc' = [pc EXCEPT ![t] = place]
  /\ IF place = "idle" THEN ip' = [ip EXCEPT ![t] = NoIp] /\ now' = [now EXCEPT ![t] = 0]
     ELSE UNCHANGED ip /\ now' = [now EXCEPT ![t] = clock]

-----------------------------------------------------------------------------
(* The accept loops *)

Accept(t, a) ==
  /\ pc[t] = "idle"
  /\ calls < MaxCalls
  /\ t \in TcpTasks => \A u \in TcpTasks : pc[u] \in {"idle", "live", "leave", "add", "reset", "restart", "ban"}
  /\ pc' = [pc EXCEPT ![t] = "proxy"]
  /\ ip' = [ip EXCEPT ![t] = a]
  /\ calls' = calls + 1
  /\ UNCHANGED <<now, clock, detector, bucket, peak, drops, overlapped, ban>>

(* parse_proxy_header answers the client's address, or fails in time. *)
Proxy(t) ==
  /\ pc[t] = "proxy"
  /\ Goto(t, "check") \/ Goto(t, "idle")
  /\ UNCHANGED <<clock, detector, history>>

-----------------------------------------------------------------------------
(* check_connection *)

Check(t) ==
  /\ pc[t] = "check"
  /\ GotoAt(t, CASE ip[t] \in AllowedIps -> "record"
                 [] ip[t] \in BannedIps \ AllowedIps -> "idle"
                 [] OTHER -> "bans")
  /\ UNCHANGED <<clock, detector, history>>

(* is_temp_banned: the entry it finds expired is removed in a second step. *)
TempBanned(t) ==
  /\ pc[t] = "bans"
  /\ Goto(t, IF ip[t] \notin DOMAIN temp_bans THEN "consult"
             ELSE IF now[t] < temp_bans[ip[t]] THEN "idle"
             ELSE "unban")
  /\ UNCHANGED <<clock, detector, history>>

Lifted(a) == ban' = [ban EXCEPT ![a].lifted = TRUE]

WithoutBan(a) == [b \in DOMAIN temp_bans \ {a} |-> temp_bans[b]]

RemoveBan(t) ==
  /\ pc[t] = "unban"
  /\ temp_bans' = WithoutBan(ip[t])
  /\ Lifted(ip[t])
  /\ Goto(t, "consult")
  /\ UNCHANGED <<clock, ip_state, calls, bucket, peak, drops, overlapped>>

(* IpState::new *)
NewState(at) ==
  [connection_count |-> 0, tokens |-> rate_burst, last_refill |-> at,
   disconnect_count |-> 0, window_start |-> at, first_seen |-> clock]

(* entry(ip).or_insert_with *)
Entry(a, at) == IF a \in DOMAIN ip_state THEN ip_state[a] ELSE NewState(at)

WithState(a, s) == [b \in DOMAIN ip_state \cup {a} |-> IF b = a THEN s ELSE ip_state[b]]

(* History: or_insert_with starts a new bucket. *)
Buckets(a, at) ==
  IF a \in DOMAIN ip_state THEN bucket ELSE [bucket EXCEPT ![a] = NewBucket(at)]

RefilledAgain(s, at) ==
  LET tokens_to_add == (Monus(at, s.last_refill) * rate_limit) \div SECOND
  IN  [s EXCEPT !.tokens = Min(@ + tokens_to_add, rate_burst)]

(* try_consume_token: the bucket as it is before the token is taken. *)
Refilled(s, at) ==
  LET tokens_to_add == (Monus(at, s.last_refill) * rate_limit) \div SECOND
  IN  IF tokens_to_add = 0 THEN s
      ELSE [s EXCEPT !.last_refill = at, !.tokens = Min(@ + tokens_to_add, rate_burst)]

(* Mutant: off by one. *)
RoomForOneMore(s) ==
  max_connections_per_ip = 0 \/ s.connection_count <= max_connections_per_ip

Room(s) == max_connections_per_ip = 0 \/ s.connection_count < max_connections_per_ip

(* The rest of check_connection, under the exclusive lock of the entry. *)
Consult(t) ==
  LET a == ip[t]
      s == Refilled(Entry(a, now[t]), now[t])
      token == rate_limit > 0 /\ s.tokens > 0
      passes == (rate_limit = 0 \/ token) /\ Room(s)
      pending == Cardinality(At({"record"}, a)) + 1
  IN  /\ pc[t] = "consult"
      /\ Inside(a) = {}
      /\ ip_state' = WithState(a, IF token THEN [s EXCEPT !.tokens = @ - 1] ELSE s)
      /\ Goto(t, IF passes THEN "record" ELSE "idle")
      /\ bucket' = [Buckets(a, now[t]) EXCEPT ![a].passed = IF passes THEN @ + 1 ELSE @]
      /\ peak' = [peak EXCEPT ![a] = IF passes /\ pending > @ THEN pending ELSE @]
      /\ UNCHANGED <<clock, temp_bans, calls, drops, overlapped, ban>>

(* at is its now_ms, read before it waits for the lock. *)
record_connection(t) ==
  LET a == ip[t]
  IN  /\ pc[t] = "record"
      /\ Goto(t, "live")
      /\ IF a \in AllowedIps THEN UNCHANGED <<ip_state, bucket>>
         ELSE /\ Inside(a) = {}
              /\ \E at \in now[t]..clock :
                   /\ ip_state' = WithState(a, [Entry(a, at) EXCEPT !.connection_count = @ + 1])
                   /\ bucket' = Buckets(a, at)
      /\ UNCHANGED <<clock, temp_bans, calls, peak, drops, overlapped, ban>>

-----------------------------------------------------------------------------
(* record_disconnection, after a failed handshake, at the end of the       *)
(* connection's task or at shutdown.                                       *)

Ends(t) ==
  LET a == ip[t]
  IN  /\ pc[t] = "live"
      /\ GotoAt(t, IF a \in AllowedIps THEN "idle" ELSE "leave")
      /\ overlapped' = [overlapped EXCEPT ![a] =
           @ \/ At({"leave", "add", "reset", "restart", "ban"}, a) # {}]
      /\ UNCHANGED <<clock, detector, calls, bucket, peak, drops, ban>>

(* Mutant: the window never ends. *)
WindowStays(s, at) == FALSE

(* record_disconnect: is this the first disconnection of a new window? *)
WindowOver(s, at) == Monus(at, s.window_start) >= window_time

(* The count goes down (not below zero), and the window is looked at. *)
Leave(t) ==
  LET a == ip[t]
      s == ip_state[a]
  IN  /\ pc[t] = "leave"
      /\ IF a \notin DOMAIN ip_state THEN Goto(t, "idle") /\ UNCHANGED ip_state
         ELSE /\ ip_state' = [ip_state EXCEPT ![a].connection_count = Monus(@, 1)]
              /\ Goto(t, IF WindowOver(s, now[t]) THEN "reset" ELSE "add")
      /\ UNCHANGED <<clock, temp_bans, history>>

Dropped(a) == drops' = [drops EXCEPT ![a] = Append(@, clock)]

(* A new window: two stores. *)
StoreWindow(t) ==
  /\ pc[t] = "reset"
  /\ ip_state' = [ip_state EXCEPT ![ip[t]].window_start = now[t]]
  /\ Goto(t, "restart")
  /\ UNCHANGED <<clock, temp_bans, history>>

StoreCount(t) ==
  /\ pc[t] = "restart"
  /\ ip_state' = [ip_state EXCEPT ![ip[t]].disconnect_count = 1]
  /\ Dropped(ip[t])
  /\ Goto(t, "idle")
  /\ UNCHANGED <<clock, temp_bans, calls, bucket, peak, overlapped, ban>>

(* The same window: one more. *)
AddCount(t) ==
  LET count == ip_state[ip[t]].disconnect_count + 1
  IN  /\ pc[t] = "add"
      /\ ip_state' = [ip_state EXCEPT ![ip[t]].disconnect_count = count]
      /\ Dropped(ip[t])
      /\ Goto(t, IF count >= max_count THEN "ban" ELSE "idle")
      /\ UNCHANGED <<clock, temp_bans, calls, bucket, peak, overlapped, ban>>

SetBan(a, expiry) ==
  /\ temp_bans' = [b \in DOMAIN temp_bans \cup {a} |-> IF b = a THEN expiry ELSE temp_bans[b]]
  /\ ban' = [ban EXCEPT ![a] = [since |-> clock, until |-> expiry, lifted |-> FALSE]]

Ban(t) ==
  /\ pc[t] = "ban"
  /\ SetBan(ip[t], now[t] + ban_time)
  /\ Goto(t, "idle")
  /\ UNCHANGED <<clock, ip_state, calls, bucket, peak, drops, overlapped>>

-----------------------------------------------------------------------------
(* Bans by hand, the cleanup task, time *)

ban_ip(a) ==
  /\ calls < MaxCalls
  /\ calls' = calls + 1
  /\ SetBan(a, clock + ban_time)
  /\ UNCHANGED <<pc, ip, now, clock, ip_state, bucket, peak, drops, overlapped>>

unban_ip(a) ==
  /\ a \in DOMAIN temp_bans
  /\ temp_bans' = WithoutBan(a)
  /\ Lifted(a)
  /\ UNCHANGED <<pc, ip, now, clock, ip_state, calls, bucket, peak, drops, overlapped>>

(* Mutants: cleanup drops every ban, and entries in use. *)
AllBans == DOMAIN temp_bans
OldStates == {a \in DOMAIN ip_state : clock - ip_state[a].first_seen > 2 * cleanup_interval}

ExpiredBans == {a \in DOMAIN temp_bans : clock >= temp_bans[a]}

(* Entries without connections; first_seen is when the entry was made. *)
StaleStates ==
  {a \in DOMAIN ip_state : /\ ip_state[a].connection_count = 0
                           /\ clock - ip_state[a].first_seen > 2 * cleanup_interval}

cleanup ==
  /\ ExpiredBans # {} \/ StaleStates # {}
  /\ \A a \in Ips : Inside(a) = {}
  /\ temp_bans' = [a \in DOMAIN temp_bans \ ExpiredBans |-> temp_bans[a]]
  /\ ip_state' = [a \in DOMAIN ip_state \ StaleStates |-> ip_state[a]]
  /\ UNCHANGED <<pc, ip, now, clock, history>>

Tick ==
  /\ clock < MaxClock
  /\ clock' = clock + 1
  /\ UNCHANGED <<pc, ip, now, detector, history>>

Step(t) ==
  \/ Proxy(t)
  \/ Check(t)
  \/ TempBanned(t)
  \/ RemoveBan(t)
  \/ Consult(t)
  \/ record_connection(t)
  \/ Leave(t)
  \/ StoreWindow(t)
  \/ StoreCount(t)
  \/ AddCount(t)
  \/ Ban(t)

Next ==
  \/ \E t \in Tasks, a \in Ips : Accept(t, a)
  \/ \E t \in Tasks : Step(t) \/ Ends(t)
  \/ \E a \in Limited : ban_ip(a) \/ unban_ip(a)
  \/ cleanup
  \/ Tick

Spec == Init /\ [][Next]_vars

-----------------------------------------------------------------------------
Place == {"idle", "proxy", "check", "bans", "unban", "consult", "record", "live",
          "leave", "add", "reset", "restart", "ban"}

IpState ==
  [connection_count : Nat, tokens : 0..rate_burst, last_refill : Nat,
   disconnect_count : Nat, window_start : Nat, first_seen : Nat]

TypeOK ==
  /\ pc \in [Tasks -> Place]
  /\ ip \in [Tasks -> Ips \cup {NoIp}]
  /\ now \in [Tasks -> Nat]
  /\ clock \in Nat
  /\ DOMAIN ip_state \subseteq Limited
  /\ \A a \in DOMAIN ip_state : ip_state[a] \in IpState
  /\ DOMAIN temp_bans \subseteq Limited
  /\ \A a \in DOMAIN temp_bans : temp_bans[a] \in Nat
  /\ peak \in [Ips -> Nat]

(* connection_count is the number of connections that were recorded and    *)
(* not written off, whatever the cleanup task removes between the check    *)
(* and the record: the count never meets the underflow that                *)
(* record_disconnection guards against, and no slot is lost.               *)
CountIsLive ==
  \A a \in Limited :
    Cardinality(Live(a)) = IF a \in DOMAIN ip_state THEN ip_state[a].connection_count ELSE 0

(* max_connections_per_ip is tested and the connection counted in two      *)
(* steps.  An address exceeds the limit by at most the number of its       *)
(* sockets that were ever between the two at once, less one: never, while  *)
(* only the TCP loop accepts.                                              *)
LimitOvershoot ==
  max_connections_per_ip > 0 =>
    \A a \in Limited : Cardinality(Live(a)) <= max_connections_per_ip - 1 + peak[a]

(* The rate limit: an entry lets through its burst and what has been       *)
(* refilled since, however its tasks overlap and whatever old clock values *)
(* they refill with.  (Cleanup drops an entry without connections two      *)
(* intervals after it was made, used or not, and a new one starts full.)   *)
RateBounded ==
  rate_limit > 0 =>
    \A a \in DOMAIN ip_state :
      bucket[a].passed <= rate_burst + (rate_limit * Monus(clock, bucket[a].since)) \div SECOND

(* A check that begins after a ban was set does not get past the ban list  *)
(* before the ban's expiry, unless the ban was lifted: by unban_ip, or by  *)
(* a task that removes it in place of an expired one.                      *)
BannedStaysOut ==
  \A t \in Tasks :
    pc[t] \in {"consult", "record"} /\ ip[t] \in Limited /\ ~ban[ip[t]].lifted =>
      now[t] <= ban[ip[t]].since \/ clock >= ban[ip[t]].until

(* An address that is about to be banned for flapping had max_count        *)
(* disconnections within the last window_time, unless two of its           *)
(* disconnections were ever recorded at the same time: the window's start  *)
(* and its count are stored one after the other.                           *)
BanDeserved ==
  \A t \in Tasks :
    pc[t] = "ban" /\ ~overlapped[ip[t]] =>
      LET d == drops[ip[t]]
      IN  Cardinality({i \in DOMAIN d : now[t] - d[i] < window_time}) >= max_count

=============================================================================
