----------------------------- MODULE Persistence -----------------------------
(***************************************************************************)
(* The persistence manager (src/src/persistence/mod.rs): tasks change      *)
(* their map and hand an operation to a channel; one writer task collects  *)
(* operations into batches and commits them to the backend.  The process   *)
(* may crash or shut down at any time; on restart the map is loaded from   *)
(* the backend (src/src/main.rs).                                          *)
(*                                                                         *)
(* A key is a topic of the retained messages; keys of the other three      *)
(* keyspaces behave alike on their way to the backend.  Values are         *)
(* numbered in the order in which they are published; a deletion is a      *)
(* value as well.                                                          *)
(***************************************************************************)
EXTENDS Naturals, Sequences

CONSTANTS
  Tasks,            \* tasks that publish
  Topics,           \* task -> the topics it publishes to
  Keys,
  Capacity,         \* of the channel, 10 000 in the code
  max_batch_size,
  MayFail,          \* batch_write may return an error
  MaxVersion,       \* bound: number of messages published
  MaxRestarts       \* bound: crashes and shutdowns

ASSUME PersistenceConstants ==
  /\ Topics \in [Tasks -> SUBSET Keys]
  /\ {Capacity, max_batch_size, MaxVersion, MaxRestarts} \subseteq Nat
  /\ max_batch_size > 0
  /\ MayFail \in BOOLEAN

VARIABLES
  retained,  \* the map in memory: topic -> version
  pending,   \* task -> the operation it is about to write, or NoOp
  channel,   \* of PersistenceOps
  batch,     \* of the writer
  writing,   \* the batch that is being committed
  writer,    \* "select", "exiting" (flushes for the last time) or "exited"
  shutdown,  \* the signal is in the shutdown channel
  store,     \* the backend: topic -> version
  version,   \* versions given out
  lost,      \* history: topics with an operation that was dropped
  restarts

manager == <<channel, batch, writing, writer, shutdown>>
vars == <<retained, pending, manager, store, version, lost, restarts>>

NoOp == [key |-> "none", version |-> 0]
Op(k, v) == [key |-> k, version |-> v]
KeysOf(ops) == {ops[i].key : i \in DOMAIN ops}

-----------------------------------------------------------------------------
(* The tasks *)

\* The map is changed first ...
SetRetained(t) ==
  \E k \in Topics[t] :
    /\ pending[t] = NoOp /\ version < MaxVersion
    /\ version' = version + 1
    /\ retained' = [retained EXCEPT ![k] = version']
    /\ pending' = [pending EXCEPT ![t] = Op(k, version')]
    /\ UNCHANGED <<manager, store, lost, restarts>>

\* ... and the operation is sent second, unless the channel is full or its
\* receiver gone.
write(t) ==
  LET fits == Len(channel) < Capacity /\ writer # "exited"
  IN  /\ pending[t] # NoOp
      /\ pending' = [pending EXCEPT ![t] = NoOp]
      /\ channel' = IF fits THEN Append(channel, pending[t]) ELSE channel
      /\ lost' = IF fits THEN lost ELSE lost \cup {pending[t].key}
      /\ UNCHANGED <<retained, batch, writing, writer, shutdown, store, version,
                     restarts>>

-----------------------------------------------------------------------------
(* writer_loop: one branch of its select, and the commit it awaits. *)

Selecting == writer = "select" /\ writing = <<>>

Push(b, op) == Append(b, op)

Receive ==
  /\ Selecting /\ channel # <<>>
  /\ channel' = Tail(channel)
  /\ LET b == Push(batch, Head(channel))
     IN  IF Len(b) >= max_batch_size
         THEN writing' = b /\ batch' = <<>>
         ELSE batch' = b /\ UNCHANGED writing
  /\ UNCHANGED <<retained, pending, writer, shutdown, store, version, lost,
                 restarts>>

\* Mutant: a batch waits until it is full.
TickWhenFull ==
  /\ Selecting /\ Len(batch) >= max_batch_size
  /\ writing' = batch /\ batch' = <<>>
  /\ UNCHANGED <<retained, pending, channel, writer, shutdown, store, version,
                 lost, restarts>>

Tick ==
  /\ Selecting /\ batch # <<>>
  /\ writing' = batch /\ batch' = <<>>
  /\ UNCHANGED <<retained, pending, channel, writer, shutdown, store, version,
                 lost, restarts>>

\* Mutant: the batch is dropped.
WriterShutdownDrops ==
  /\ Selecting /\ shutdown
  /\ writer' = "exiting"
  /\ batch' = <<>>
  /\ shutdown' = FALSE
  /\ UNCHANGED <<retained, pending, channel, writing, store, version, lost,
                 restarts>>

\* The batch is flushed; what the channel holds is not looked at.
WriterShutdown ==
  /\ Selecting /\ shutdown
  /\ writer' = "exiting"
  /\ writing' = batch /\ batch' = <<>>
  /\ shutdown' = FALSE
  /\ UNCHANGED <<retained, pending, channel, store, version, lost, restarts>>

Exit ==
  /\ writer = "exiting" /\ writing = <<>>
  /\ writer' = "exited"
  /\ channel' = <<>>
  /\ lost' = lost \cup KeysOf(channel)
  /\ UNCHANGED <<retained, pending, batch, writing, shutdown, store, version,
                 restarts>>

\* The abstract log: what is being committed, collected and on its way.
Log == INSTANCE DurableLog WITH
         log <- writing \o batch \o channel, Versions <- 1 .. MaxVersion

Apply(ops, s) == Log!Apply(ops, s)

\* Mutant: an earlier operation on a key wins.
CommitReversed ==
  /\ writing # <<>>
  /\ store' = Apply([i \in DOMAIN writing |-> writing[Len(writing) + 1 - i]], store)
  /\ writing' = <<>>
  /\ UNCHANGED <<retained, pending, channel, batch, writer, shutdown, version,
                 lost, restarts>>

\* A batch is atomic, and a later operation on a key wins.
batch_write ==
  /\ writing # <<>>
  /\ store' = Apply(writing, store)
  /\ writing' = <<>>
  /\ UNCHANGED <<retained, pending, channel, batch, writer, shutdown, version,
                 lost, restarts>>

\* An error is logged and the batch is gone.
BatchFails ==
  /\ writing # <<>> /\ MayFail
  /\ writing' = <<>>
  /\ lost' = lost \cup KeysOf(writing)
  /\ UNCHANGED <<retained, pending, channel, batch, writer, shutdown, store,
                 version, restarts>>

-----------------------------------------------------------------------------
(* The process *)

\* main sends the signal when the broker has stopped accepting.
Shutdown ==
  /\ writer = "select" /\ ~ shutdown /\ restarts < MaxRestarts
  /\ shutdown' = TRUE
  /\ UNCHANGED <<retained, pending, channel, batch, writing, writer, store,
                 version, lost, restarts>>

\* The process ends, by a crash or 500 ms after the signal; the next one loads
\* the retained messages.
Restart ==
  /\ restarts < MaxRestarts
  /\ restarts' = restarts + 1
  /\ retained' = store
  /\ pending' = [t \in Tasks |-> NoOp]
  /\ channel' = <<>> /\ batch' = <<>> /\ writing' = <<>>
  /\ writer' = "select" /\ shutdown' = FALSE
  /\ lost' = {}
  /\ UNCHANGED <<store, version>>

-----------------------------------------------------------------------------
Init ==
  /\ retained = [k \in Keys |-> 0]
  /\ pending = [t \in Tasks |-> NoOp]
  /\ channel = <<>> /\ batch = <<>> /\ writing = <<>>
  /\ writer = "select" /\ shutdown = FALSE
  /\ store = [k \in Keys |-> 0]
  /\ version = 0
  /\ lost = {}
  /\ restarts = 0

writer_loop == Receive \/ Tick \/ WriterShutdown \/ Exit \/ batch_write

Next ==
  \/ \E t \in Tasks : SetRetained(t) \/ write(t)
  \/ writer_loop \/ BatchFails \/ Shutdown \/ Restart

Spec == Init /\ [][Next]_vars

\* The tasks and the writer are scheduled and the interval ticks; a process that
\* was told to shut down is started again.
FairSpec ==
  /\ Spec
  /\ \A t \in Tasks : WF_vars(write(t))
  /\ WF_vars(writer_loop)
  /\ WF_vars(writer = "exited" /\ Restart)

-----------------------------------------------------------------------------
OpType == [key : Keys, version : 1 .. MaxVersion]

\* Operations reach the backend in the order in which write accepted them,
\* through the channel, the batch and the commit.
InOrder == Log!Spec

\* When all is written, the backend has what the map has: a restart changes
\* nothing.  What the writer has taken out of the channel survives a shutdown:
\* once it has exited, the backend lacks only what was still in the channel
\* (persistence/mod.rs:155-167).  Topics with a dropped operation are excepted, and
\* each topic has one publisher (publish.rs:261-268 changes the map before it
\* writes).
StoredIsRetained ==
  \A k \in Keys \ lost :
    /\ \A t \in Tasks : pending[t].key # k
    /\ channel \o batch \o writing = <<>> \/ writer = "exited"
    => store[k] = retained[k]

\* Without a crash every operation gets into the backend, though the batch is not
\* full: retained messages become durable (persistence/mod.rs:143-152).
BecomesDurable ==
  \A k \in Keys : \A v \in 1 .. MaxVersion :
    retained[k] = v ~> (store[k] >= v \/ k \in lost \/ restarts > 0)
=============================================================================
