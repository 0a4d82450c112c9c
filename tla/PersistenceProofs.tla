-------------------------- MODULE PersistenceProofs --------------------------
(***************************************************************************)
(* The persistence manager implements DurableLog, for any tasks, keys,     *)
(* batch size and channel, and any history of full channels, failed        *)
(* commits, shutdowns and crashes; and when each topic has one publisher,  *)
(* the backend catches up with the map.                                    *)
(*                                                                         *)
(* The abstract log is the batch being committed, then the batch that is   *)
(* collected, then the channel.  That the writer may drop the channel when *)
(* it exits without splitting the log rests on its last flush: a writer    *)
(* that has left its loop has an empty batch.  StoredIsRetained speaks of  *)
(* an empty log; the invariant says what the map holds while the log is    *)
(* not empty, which is what applying it to the backend would give.         *)
(***************************************************************************)
EXTENDS Persistence, SequenceTheorems, WellFoundedInduction, TLAPS

Shape ==
  /\ channel \in Seq(OpType) /\ batch \in Seq(OpType) /\ writing \in Seq(OpType)
  /\ pending \in [Tasks -> OpType \cup {NoOp}]
  /\ version \in Nat
  /\ writer # "select" => batch = <<>>

log == writing \o batch \o channel

-----------------------------------------------------------------------------
\* An operation is taken out of the channel and put into the batch at the other
\* end: their concatenation stays what it is.
LEMMA MoveHead ==
  ASSUME NEW S, NEW b \in Seq(S), NEW c \in Seq(S), c # <<>>
  PROVE  Append(b, Head(c)) \o Tail(c) = b \o c
<1> DEFINE l == Append(b, Head(c)) \o Tail(c)
           r == b \o c
<1>1. Head(c) \in S /\ Tail(c) \in Seq(S) /\ Len(Tail(c)) = Len(c) - 1
  BY HeadTailProperties
<1>2. /\ Append(b, Head(c)) \in Seq(S) /\ Len(Append(b, Head(c))) = Len(b) + 1
      /\ \A i \in 1 .. Len(b) : Append(b, Head(c))[i] = b[i]
      /\ Append(b, Head(c))[Len(b) + 1] = c[1]
  BY <1>1
<1>3. /\ l \in Seq(S) /\ Len(l) = Len(b) + 1 + Len(c) - 1
      /\ \A i \in 1 .. Len(b) + Len(c) :
           l[i] = IF i <= Len(b) + 1 THEN Append(b, Head(c))[i] ELSE Tail(c)[i - (Len(b) + 1)]
  BY <1>1, <1>2, ConcatProperties
<1>4. /\ r \in Seq(S) /\ Len(r) = Len(b) + Len(c)
      /\ \A i \in 1 .. Len(b) + Len(c) : r[i] = IF i <= Len(b) THEN b[i] ELSE c[i - Len(b)]
  BY ConcatProperties
<1>5. \A i \in 1 .. Len(Tail(c)) : Tail(c)[i] = c[i + 1]
  BY HeadTailProperties
<1>6. Len(b) \in Nat /\ Len(c) \in Nat
  BY LenProperties
<1>7. ASSUME NEW i \in 1 .. Len(l) PROVE l[i] = r[i]
  <2> HIDE DEF l, r
  <2>1. CASE i <= Len(b)
    <3>1. i \in 1 .. Len(b) /\ i \in 1 .. Len(b) + Len(c) /\ i <= Len(b) + 1
      BY <2>1, <1>3, <1>6, <1>7
    <3>2. l[i] = b[i] BY <3>1, <1>2, <1>3
    <3>3. r[i] = b[i] BY <2>1, <3>1, <1>4
    <3> QED BY <3>2, <3>3
  <2>2. CASE i = Len(b) + 1
    <3>1. l[i] = c[1] BY <2>2, <1>2, <1>3, <1>6, <1>7
    <3>2. r[i] = c[i - Len(b)] BY <2>2, <1>3, <1>4, <1>6, <1>7
    <3>3. i - Len(b) = 1 BY <2>2, <1>6
    <3> QED BY <3>1, <3>2, <3>3
  <2>3. CASE i > Len(b) + 1
    <3>1. i - (Len(b) + 1) \in 1 .. Len(Tail(c)) BY <2>3, <1>1, <1>3, <1>6, <1>7
    <3>2. l[i] = Tail(c)[i - (Len(b) + 1)] BY <2>3, <1>3, <1>6, <1>7
    <3>3. Tail(c)[i - (Len(b) + 1)] = c[i - (Len(b) + 1) + 1] BY <3>1, <1>5
    <3>4. i - (Len(b) + 1) + 1 = i - Len(b) BY <1>3, <1>6, <1>7
    <3>5. r[i] = c[i - Len(b)] BY <2>3, <1>3, <1>4, <1>6, <1>7
    <3> QED BY <3>2, <3>3, <3>4, <3>5, Zenon
  <2> QED BY <2>1, <2>2, <2>3, <1>3, <1>6, <1>7
<1>8. Len(l) = Len(r)
  BY <1>3, <1>4, <1>6
<1> HIDE DEF l, r
<1>9. l = r
  BY <1>3, <1>4, <1>7, <1>8, SeqEqual, Zenon
<1> QED BY <1>9 DEF l, r

\* The front of a log can be cut off.
LEMMA Prefix ==
  ASSUME NEW S, NEW s \in Seq(S), NEW t \in Seq(S), s # <<>>
  PROVE  /\ Len(s) \in DOMAIN (s \o t)
         /\ SubSeq(s \o t, 1, Len(s)) = s
         /\ SubSeq(s \o t, Len(s) + 1, Len(s \o t)) = t
<1>1. Len(s) \in Nat \ {0} /\ Len(t) \in Nat
  BY EmptySeq, LenProperties
<1>2. s \o t \in Seq(S) /\ Len(s \o t) = Len(s) + Len(t)
  BY ConcatProperties
<1>3. DOMAIN (s \o t) = 1 .. Len(s \o t)
  BY <1>2, LenProperties
<1>4. SubSeq(s \o t, 1, Len(s)) = s
  BY <1>1, SubSeqOfConcat1, SubSeqFull
<1>5. CASE t = <<>>
  <2>1. Len(t) = 0
    BY <1>5
  <2>2. SubSeq(s \o t, Len(s) + 1, Len(s \o t)) = <<>>
    BY <1>1, <1>2, <2>1, SubSeqEmpty
  <2> QED BY <1>1, <1>2, <1>3, <1>4, <1>5, <2>2
<1>6. CASE t # <<>>
  <2>1. Len(t) \in Nat \ {0}
    BY <1>6, EmptySeq
  <2>2. SubSeq(s \o t, Len(s) + 1, Len(s) + Len(t)) =
          SubSeq(t, Len(s) + 1 - Len(s), Len(s) + Len(t) - Len(s))
    BY <1>1, <2>1, SubSeqOfConcat2
  <2>3. Len(s) + 1 - Len(s) = 1 /\ Len(s) + Len(t) - Len(s) = Len(t)
    BY <1>1
  <2>4. SubSeq(t, 1, Len(t)) = t
    BY SubSeqFull
  <2> QED BY <1>1, <1>2, <1>3, <1>4, <2>2, <2>3, <2>4
<1> QED BY <1>5, <1>6

-----------------------------------------------------------------------------
\* The operations are well formed wherever they are, and a writer that has left
\* its loop has flushed its batch (persistence/mod.rs:155-167).
LEMMA ShapeInvariant == Spec => []Shape
<1>1. Init => Shape
  <2> SUFFICES ASSUME Init PROVE Shape OBVIOUS
  <2>1. <<>> \in Seq(OpType) BY EmptySeq
  <2> QED BY <2>1 DEF Init, Shape
<1>2. Shape /\ [Next]_vars => Shape'
  <2> SUFFICES ASSUME Shape, [Next]_vars PROVE Shape' OBVIOUS
  <2>e. <<>> \in Seq(OpType) BY EmptySeq
  <2>1. ASSUME NEW t \in Tasks, SetRetained(t) PROVE Shape'
    <3>1. PICK k \in Topics[t] :
            /\ version < MaxVersion /\ version' = version + 1
            /\ pending' = [pending EXCEPT ![t] = Op(k, version')]
            /\ UNCHANGED manager
      BY <2>1, Zenon DEF SetRetained
    <3>2. k \in Keys BY PersistenceConstants
    <3>3. version' \in 1 .. MaxVersion BY <3>1, PersistenceConstants DEF Shape
    <3>4. Op(k, version') \in OpType BY <3>2, <3>3 DEF Op, OpType
    <3> QED BY <3>1, <3>3, <3>4 DEF Shape, manager
  <2>2. ASSUME NEW t \in Tasks, write(t) PROVE Shape'
    <3>1. pending[t] \in OpType BY <2>2 DEF write, Shape
    <3>2. Append(channel, pending[t]) \in Seq(OpType) BY <3>1 DEF Shape
    <3> QED BY <2>2, <3>2 DEF write, Shape
  <2>3. CASE Receive
    <3>1. Head(channel) \in OpType /\ Tail(channel) \in Seq(OpType)
      BY <2>3, HeadTailProperties DEF Receive, Shape
    <3>2. Append(batch, Head(channel)) \in Seq(OpType) BY <3>1 DEF Shape
    <3> QED BY <2>3, <2>e, <3>1, <3>2, Zenon DEF Receive, Push, Selecting, Shape
  <2>4. CASE Tick \/ WriterShutdown
    BY <2>4, <2>e DEF Tick, WriterShutdown, Selecting, Shape
  <2>5. CASE Exit \/ batch_write \/ BatchFails
    BY <2>5, <2>e, Zenon DEF Exit, batch_write, BatchFails, Shape
  <2>6. CASE Shutdown \/ UNCHANGED vars
    BY <2>6 DEF Shutdown, vars, manager, Shape
  <2>7. CASE Restart
    BY <2>7, <2>e DEF Restart, Shape
  <2> QED BY <2>1, <2>2, <2>3, <2>4, <2>5, <2>6, <2>7 DEF Next, writer_loop
<1> QED BY <1>1, <1>2, PTL DEF Spec

\* A step that leaves the log and the backend alone is a stutter of DurableLog,
\* one that drops a front of the log loses it, and a commit applies it.
LEMMA AbstractSteps ==
  ASSUME NEW s \in Seq(OpType), NEW t \in Seq(OpType), s # <<>>, log = s \o t, log' = t,
         \/ store' = store
         \/ store' = Apply(s, store)
  PROVE  Log!Next
<1>1. /\ Len(s) \in DOMAIN log /\ SubSeq(log, 1, Len(s)) = s
      /\ SubSeq(log, Len(s) + 1, Len(log)) = log'
  BY Prefix
<1>2. CASE store' = store
  BY <1>1, <1>2, Zenon DEF Log!Next, Log!Lose, Log!Rest, log
<1>3. CASE store' = Apply(s, store)
  <2>1. Log!Apply(s, store) = Apply(s, store)
    BY DEF Apply
  <2>2. store' = Log!Apply(SubSeq(log, 1, Len(s)), store)
    BY <1>1, <1>3, <2>1, Zenon
  <2> QED BY <1>1, <2>2, Zenon DEF Log!Next, Log!Commit, Log!Rest, log
<1> QED BY <1>2, <1>3

\* What the steps do to the log: write appends to it, receiving and flushing leave
\* it alone, a commit takes its front, and the end of the writer or of the process
\* leaves nothing.
LEMMA LogSteps ==
  ASSUME Shape
  PROVE  /\ log \in Seq(OpType) /\ batch \o channel \in Seq(OpType)
         /\ log = writing \o (batch \o channel)
         /\ \A t \in Tasks : write(t) /\ channel' # channel => log' = Append(log, pending[t])
         /\ Receive \/ Tick \/ WriterShutdown => log' = log
         /\ batch_write \/ BatchFails => log' = batch \o channel
         /\ Exit \/ Restart => log' = <<>>
<1>e. <<>> \in Seq(OpType) /\ log \in Seq(OpType) /\ batch \o channel \in Seq(OpType)
  BY EmptySeq, ConcatProperties DEF Shape, log
<1>a. log = writing \o (batch \o channel)
  BY SMTT(20), ConcatAssociative DEF Shape, log
<1>1. ASSUME NEW t \in Tasks, write(t), channel' # channel
      PROVE  log' = Append(log, pending[t])
  <2>1. /\ pending[t] \in OpType /\ channel' = Append(channel, pending[t])
        /\ UNCHANGED <<batch, writing, store>>
    BY <1>1 DEF write, Shape
  <2> DEFINE front == writing \o batch
  <2>2. front \in Seq(OpType) BY ConcatProperties DEF Shape
  <2> HIDE DEF front
  <2>3. front \o Append(channel, pending[t]) = Append(front \o channel, pending[t])
    BY <2>1, <2>2 DEF Shape
  <2> QED BY <2>1, <2>3 DEF log, front
<1>2. ASSUME Receive PROVE log' = log
  <2>1. writing = <<>> /\ channel # <<>> BY <1>2 DEF Receive, Selecting
  <2> DEFINE b == Append(batch, Head(channel))
  <2>2. b \in Seq(OpType) /\ Tail(channel) \in Seq(OpType)
    BY <2>1, HeadTailProperties DEF Shape
  <2>3. b \o Tail(channel) = batch \o channel BY <2>1, MoveHead DEF Shape
  <2>4. \/ writing' = b /\ batch' = <<>> /\ channel' = Tail(channel)
        \/ writing' = <<>> /\ batch' = b /\ channel' = Tail(channel)
    BY <1>2, <2>1 DEF Receive, Push
  <2>5. b \o <<>> = b /\ <<>> \o b = b BY <2>2, ConcatEmptySeq
  <2>6. log = batch \o channel BY <1>a, <1>e, <2>1, ConcatEmptySeq
  <2> HIDE DEF b
  <2>7. log' = b \o Tail(channel) BY <2>4, <2>5, Zenon DEF log
  <2> QED BY <2>3, <2>6, <2>7
<1>3. ASSUME Tick \/ WriterShutdown PROVE log' = log
  <2>1. writing = <<>> /\ writing' = batch /\ batch' = <<>> /\ UNCHANGED <<channel, store>>
    BY <1>3 DEF Tick, WriterShutdown, Selecting
  <2>2. batch \o <<>> = batch /\ <<>> \o batch = batch BY ConcatEmptySeq DEF Shape
  <2> QED BY <2>1, <2>2 DEF log
<1>4. ASSUME batch_write \/ BatchFails PROVE log' = batch \o channel
  <2>1. writing' = <<>> /\ UNCHANGED <<batch, channel>>
    BY <1>4 DEF batch_write, BatchFails
  <2>2. <<>> \o batch = batch BY ConcatEmptySeq DEF Shape
  <2> QED BY <2>1, <2>2 DEF log
<1>5. ASSUME Exit \/ Restart PROVE log' = <<>>
  <2>1. writing' = <<>> /\ batch' = <<>> /\ channel' = <<>>
    BY <1>5 DEF Exit, Restart, Shape
  <2>2. log' = (<<>> \o <<>>) \o <<>> BY <2>1 DEF log
  <2> QED BY <2>2, <1>e, ConcatEmptySeq
<1> QED BY Zenon, <1>e, <1>a, <1>1, <1>2, <1>3, <1>4, <1>5

\* Every step of the tasks, the writer and the process is a step of the log.
LEMMA StepSimulation ==
  ASSUME Shape, [Next]_vars
  PROVE  [Log!Next]_<<log, store>>
<1>1. CASE UNCHANGED <<channel, batch, writing, store>>
  BY <1>1 DEF log
<1>2. ASSUME NEW t \in Tasks, write(t), channel' # channel PROVE Log!Next
  <2>1. pending[t] \in OpType /\ store' = store
    BY <1>2 DEF write, Shape
  <2>2. OpType = Log!Operations BY DEF OpType, Log!Operations
  <2> QED BY <1>2, <2>1, <2>2, LogSteps, Zenon DEF Log!Next, Log!Accept, log
<1>3. CASE Receive \/ Tick \/ WriterShutdown
  BY <1>3, LogSteps, Zenon DEF Receive, Tick, WriterShutdown
<1>4. CASE batch_write \/ BatchFails
  <2>1. writing # <<>> /\ (store' = store \/ store' = Apply(writing, store))
    BY <1>4 DEF batch_write, BatchFails
  <2> QED BY <1>4, <2>1, LogSteps, AbstractSteps, Zenon DEF Shape
<1>5. CASE Exit \/ Restart
  <2>1. log' = <<>> /\ store' = store
    BY <1>5, LogSteps, Zenon DEF Exit, Restart
  <2>2. log \in Seq(OpType) /\ <<>> \in Seq(OpType) /\ log = log \o <<>>
    BY LogSteps, EmptySeq, ConcatEmptySeq
  <2>3. CASE log = <<>> BY <2>1, <2>3
  <2>4. CASE log # <<>> BY <2>1, <2>2, <2>4, AbstractSteps, Zenon
  <2> QED BY <2>3, <2>4
<1>6. ASSUME NEW t \in Tasks, SetRetained(t) \/ (write(t) /\ channel' = channel)
      PROVE  UNCHANGED <<channel, batch, writing, store>>
  BY <1>6 DEF SetRetained, write, manager
<1>7. CASE Shutdown \/ UNCHANGED vars
  BY <1>7, <1>1 DEF Shutdown, vars, manager
<1> QED
  BY <1>1, <1>2, <1>3, <1>4, <1>5, <1>6, <1>7 DEF Next, writer_loop

\* Operations reach the backend in the order in which write accepted them, a run
\* of them at a time; a full channel, a failed commit, a shutdown or a crash
\* loses operations but never reorders or splits them.
THEOREM ImplementsLog == Spec => InOrder
<1>1. Init => Log!Init
  <2> SUFFICES ASSUME Init PROVE Log!Init OBVIOUS
  <2>1. <<>> \o <<>> = <<>> BY ConcatEmptySeq, EmptySeq
  <2> QED BY <2>1 DEF Init, Log!Init
<1>2. Shape /\ [Next]_vars => [Log!Next]_<<log, store>>
  BY StepSimulation
<1> QED BY <1>1, <1>2, ShapeInvariant, PTL DEF Spec, InOrder, Log!Spec, log
-----------------------------------------------------------------------------
(* What the backend will hold *)

On(ops, k) == Log!On(ops, k)
Last(ops, k) == Log!Last(ops, k)

\* A set of numbers has a least one.
LEMMA Least ==
  ASSUME NEW T, T \subseteq Nat, T # {}
  PROVE  \E x \in T : \A y \in T : x <= y
<1>1. PICK x \in T : \A y \in T : ~ (<<y, x>> \in OpToRel(<, Nat))
  BY NatLessThanWellFounded, WFMin, Zenon
<1>2. ASSUME NEW y \in T PROVE x <= y
  <2>1. x \in Nat /\ y \in Nat
    OBVIOUS
  <2>2. ~ (<<y, x>> \in OpToRel(<, Nat))
    BY <1>1, Zenon
  <2>3. ~ (y < x)
    BY <2>1, <2>2 DEF OpToRel
  <2> QED BY <2>1, <2>3
<1> QED BY <1>2

\* A key with operations has a last one.
LEMMA LastOn ==
  ASSUME NEW S, NEW ops \in Seq(S), NEW k, On(ops, k) # {}
  PROVE  Last(ops, k) \in On(ops, k) /\ \A j \in On(ops, k) : j <= Last(ops, k)
<1>1. PICK n \in Nat : On(ops, k) \subseteq 1 .. n
  BY LenProperties, Zenon DEF On, Log!On
<1> DEFINE T == {n - i : i \in On(ops, k)}
<1>2. T \subseteq Nat /\ T # {}
  BY <1>1
<1>3. PICK x \in T : \A y \in T : x <= y
  <2> HIDE DEF T
  <2> QED BY <1>2, Least, Zenon
<1>4. PICK i \in On(ops, k) : x = n - i
  OBVIOUS
<1>5. ASSUME NEW j \in On(ops, k) PROVE j <= i
  <2>1. n - j \in T
    OBVIOUS
  <2>2. n - i <= n - j
    BY <2>1, <1>3, <1>4
  <2> QED BY <2>2, <1>1
<1> QED
  BY <1>4, <1>5 DEF Last, Log!Last, On

\* Nothing else is the last one.
LEMMA LastIs ==
  ASSUME NEW S, NEW ops \in Seq(S), NEW k, NEW i \in On(ops, k), \A j \in On(ops, k) : j <= i
  PROVE  Last(ops, k) = i
<1>1. Last(ops, k) \in On(ops, k) /\ \A j \in On(ops, k) : j <= Last(ops, k)
  BY LastOn
<1>2. On(ops, k) \subseteq Nat
  BY LenProperties DEF On, Log!On
<1> QED
  BY <1>1, <1>2

\* Apply at a key.
LEMMA ApplyAt ==
  ASSUME NEW ops, NEW s, NEW k \in DOMAIN s
  PROVE  /\ DOMAIN Apply(ops, s) = DOMAIN s
         /\ On(ops, k) = {} => Apply(ops, s)[k] = s[k]
         /\ On(ops, k) # {} => Apply(ops, s)[k] = ops[Last(ops, k)].version
BY DEF Apply, Log!Apply, On, Last

\* Batches one after the other do what they do together.
LEMMA ApplyConcat ==
  ASSUME NEW S, NEW a \in Seq(S), NEW b \in Seq(S), NEW s, NEW k \in DOMAIN s
  PROVE  /\ Apply(a \o b, s)[k] = Apply(b, Apply(a, s))[k]
         /\ On(a, k) = {} => Apply(a \o b, s)[k] = Apply(b, s)[k]
<1> DEFINE c == a \o b
<1>1. /\ c \in Seq(S) /\ Len(c) = Len(a) + Len(b) /\ Len(a) \in Nat /\ Len(b) \in Nat
      /\ \A i \in 1 .. Len(a) : c[i] = a[i]
      /\ \A i \in 1 .. Len(b) : c[Len(a) + i] = b[i]
  <2>1. /\ c \in Seq(S) /\ Len(c) = Len(a) + Len(b) /\ Len(a) \in Nat /\ Len(b) \in Nat
        /\ \A i \in 1 .. Len(a) + Len(b) : c[i] = IF i <= Len(a) THEN a[i] ELSE b[i - Len(a)]
    BY ConcatProperties, LenProperties
  <2> HIDE DEF c
  <2>2. ASSUME NEW i \in 1 .. Len(b) PROVE c[Len(a) + i] = b[i]
    <3>1. Len(a) + i \in 1 .. Len(a) + Len(b) /\ ~ (Len(a) + i <= Len(a)) /\ Len(a) + i - Len(a) = i
      BY <2>1
    <3> QED BY <2>1, <3>1
  <2> QED BY <2>1, <2>2
<1>2. DOMAIN a = 1 .. Len(a) /\ DOMAIN b = 1 .. Len(b) /\ DOMAIN c = 1 .. Len(c)
  BY <1>1, LenProperties
<1> HIDE DEF c
<1>3. /\ \A i \in 1 .. Len(a) : i \in On(c, k) <=> i \in On(a, k)
      /\ \A i \in 1 .. Len(b) : Len(a) + i \in On(c, k) <=> i \in On(b, k)
      /\ \A i \in On(c, k) : i \in 1 .. Len(a) \/ i - Len(a) \in 1 .. Len(b)
  BY <1>1, <1>2 DEF On, Log!On
<1>4. On(a, k) \subseteq 1 .. Len(a) /\ On(b, k) \subseteq 1 .. Len(b) /\ On(c, k) \subseteq 1 .. Len(c)
  BY <1>2 DEF On, Log!On
<1>5. k \in DOMAIN Apply(a, s)
  BY ApplyAt
<1>6. CASE On(b, k) # {}
  <2>1. Last(b, k) \in On(b, k) /\ \A j \in On(b, k) : j <= Last(b, k)
    BY <1>6, LastOn
  <2>2. Len(a) + Last(b, k) \in On(c, k)
    BY <2>1, <1>3, <1>4
  <2>3. ASSUME NEW j \in On(c, k) PROVE j <= Len(a) + Last(b, k)
    <3>1. CASE j \in 1 .. Len(a)
      BY <3>1, <2>1, <1>1, <1>4
    <3>2. CASE j - Len(a) \in 1 .. Len(b)
      <4>1. j = Len(a) + (j - Len(a))
        BY <1>1, <1>4
      <4>2. j - Len(a) \in On(b, k)
        BY <3>2, <4>1, <1>3
      <4> QED BY <2>1, <4>2, <1>1, <1>4
    <3> QED BY <3>1, <3>2, <1>3
  <2>4. Last(c, k) = Len(a) + Last(b, k)
    BY <2>2, <2>3, <1>1, LastIs
  <2>5. c[Last(c, k)] = b[Last(b, k)]
    BY <2>1, <2>4, <1>1, <1>4
  <2>6. Apply(c, s)[k] = c[Last(c, k)].version
    BY <2>2, ApplyAt
  <2>7. /\ Apply(b, Apply(a, s))[k] = b[Last(b, k)].version
        /\ Apply(b, s)[k] = b[Last(b, k)].version
    BY <1>5, <1>6, ApplyAt
  <2> QED BY <2>5, <2>6, <2>7 DEF c
<1>7. CASE On(b, k) = {} /\ On(a, k) # {}
  <2>1. Last(a, k) \in On(a, k) /\ \A j \in On(a, k) : j <= Last(a, k)
    BY <1>7, LastOn
  <2>2. Last(a, k) \in On(c, k)
    BY <2>1, <1>3, <1>4
  <2>3. ASSUME NEW j \in On(c, k) PROVE j <= Last(a, k)
    <3>1. j \in 1 .. Len(a)
      <4>1. ~ (j - Len(a) \in 1 .. Len(b))
        <5> SUFFICES ASSUME j - Len(a) \in 1 .. Len(b) PROVE FALSE OBVIOUS
        <5>1. j = Len(a) + (j - Len(a))
          BY <1>1, <1>4
        <5>2. j - Len(a) \in On(b, k)
          BY <5>1, <1>3
        <5> QED BY <5>2, <1>7
      <4> QED BY <4>1, <1>3
    <3> QED BY <3>1, <2>1, <1>3
  <2>4. Last(c, k) = Last(a, k)
    BY <2>2, <2>3, <1>1, LastIs
  <2>5. c[Last(c, k)] = a[Last(a, k)]
    BY <2>1, <2>4, <1>1, <1>4
  <2>6. Apply(c, s)[k] = Apply(a, s)[k]
    BY <2>2, <2>5, <1>7, ApplyAt
  <2>7. Apply(b, Apply(a, s))[k] = Apply(a, s)[k]
    BY <1>5, <1>7, ApplyAt
  <2> QED BY <2>6, <2>7, <1>7 DEF c
<1>8. CASE On(b, k) = {} /\ On(a, k) = {}
  <2>1. On(c, k) = {}
    <3> SUFFICES ASSUME NEW j \in On(c, k) PROVE FALSE OBVIOUS
    <3>1. CASE j \in 1 .. Len(a)
      BY <3>1, <1>3, <1>8
    <3>2. CASE j - Len(a) \in 1 .. Len(b)
      <4>1. j = Len(a) + (j - Len(a))
        BY <1>1, <1>4
      <4>2. j - Len(a) \in On(b, k)
        BY <3>2, <4>1, <1>3
      <4> QED BY <4>2, <1>8
    <3> QED BY <3>1, <3>2, <1>3
  <2> QED BY <2>1, <1>5, <1>8, ApplyAt DEF c
<1> QED BY <1>6, <1>7, <1>8
-----------------------------------------------------------------------------
(* The backend catches up with the map *)

\* Every topic has one publisher.
OnePublisher ==
  \A t \in Tasks, u \in Tasks : \A k \in Keys : k \in Topics[t] /\ k \in Topics[u] => t = u

Owned == \A t \in Tasks : pending[t] # NoOp => pending[t].key \in Topics[t]

Waiting(k) == {t \in Tasks : pending[t] # NoOp /\ pending[t].key = k}

\* The map is ahead of the backend by the operations of the log, and by the one
\* that a task has still to write.
Ahead(k) ==
  /\ \A t \in Waiting(k) : retained[k] = pending[t].version
  /\ Waiting(k) = {} => retained[k] = Apply(log, store)[k]

IInv ==
  /\ Shape /\ Owned
  /\ retained \in [Keys -> Nat] /\ store \in [Keys -> Nat]
  /\ writer = "exited" => log = <<>>
  /\ \A k \in Keys \ lost : Ahead(k)

\* A commit leaves a version under every key.
LEMMA ApplyTyped ==
  ASSUME NEW ops \in Seq(OpType), NEW s \in [Keys -> Nat]
  PROVE  Apply(ops, s) \in [Keys -> Nat]
<1>1. ASSUME NEW k \in Keys PROVE Apply(ops, s)[k] \in Nat
  <2>1. CASE On(ops, k) = {}
    BY <2>1, ApplyAt
  <2>2. CASE On(ops, k) # {}
    <3>1. Last(ops, k) \in DOMAIN ops
      BY <2>2, LastOn DEF On, Log!On
    <3>2. ops[Last(ops, k)] \in OpType
      BY <3>1
    <3>3. ops[Last(ops, k)].version \in Nat
      BY <3>2, PersistenceConstants DEF OpType
    <3> QED BY <2>2, <3>3, ApplyAt
  <2> QED BY <2>1, <2>2
<1>2. Apply(ops, s) = [k \in Keys |-> Apply(ops, s)[k]]
  BY DEF Apply, Log!Apply
<1> QED BY <1>1, <1>2

\* One more operation on the log decides its key and no other.
LEMMA ApplyAppend ==
  ASSUME NEW ops \in Seq(OpType), NEW op \in OpType, NEW s, NEW k \in DOMAIN s
  PROVE  Apply(Append(ops, op), s)[k] = IF op.key = k THEN op.version ELSE Apply(ops, s)[k]
<1> DEFINE one == <<op>>
<1>1. one \in Seq(OpType) /\ DOMAIN one = {1} /\ one[1] = op /\ Append(ops, op) = ops \o one
  OBVIOUS
<1> HIDE DEF one
<1>2. k \in DOMAIN Apply(ops, s)
  BY ApplyAt
<1>3. Apply(Append(ops, op), s)[k] = Apply(one, Apply(ops, s))[k]
  BY <1>1, ApplyConcat
<1>4. CASE op.key = k
  <2>1. On(one, k) = {1}
    BY <1>1, <1>4 DEF On, Log!On
  <2>2. Last(one, k) \in On(one, k)
    BY <1>1, <2>1, LastOn, Zenon
  <2>3. Last(one, k) = 1
    BY <2>1, <2>2
  <2>4. Apply(one, Apply(ops, s))[k] = one[Last(one, k)].version
    <3>1. On(one, k) # {}
      BY <2>1
    <3> DEFINE t == Apply(ops, s)
    <3>2. k \in DOMAIN t
      BY <1>2
    <3> HIDE DEF t
    <3>3. Apply(one, t)[k] = one[Last(one, k)].version
      BY <3>1, <3>2, ApplyAt
    <3> QED BY <3>3 DEF t
  <2> QED BY <1>1, <1>3, <1>4, <2>3, <2>4
<1>5. CASE op.key # k
  <2>1. On(one, k) = {}
    BY <1>1, <1>5 DEF On, Log!On
  <2> QED BY <1>2, <1>3, <1>5, <2>1, ApplyAt
<1> QED BY <1>4, <1>5

\* SetRetained: the task has the newest version of its topic in hand.
LEMMA SetRetainedKeeps ==
  ASSUME IInv, OnePublisher, NEW t \in Tasks, SetRetained(t)
  PROVE  \A k \in Keys \ lost' : Ahead(k)'
<1>1. PICK k \in Topics[t] :
        /\ pending[t] = NoOp
        /\ version' = version + 1
        /\ retained' = [retained EXCEPT ![k] = version']
        /\ pending' = [pending EXCEPT ![t] = Op(k, version')]
        /\ UNCHANGED <<manager, store, lost, restarts>>
  BY Zenon DEF SetRetained
<1>2. k \in Keys /\ pending \in [Tasks -> OpType \cup {NoOp}] /\ version \in Nat
  BY PersistenceConstants DEF IInv, Shape
<1>3. /\ pending'[t].key = k /\ pending'[t].version = version' /\ pending'[t] # NoOp
      /\ \A u \in Tasks : u # t => pending'[u] = pending[u]
  BY <1>1, <1>2 DEF Op, NoOp
<1>4. log' = log /\ store' = store /\ lost' = lost
  BY <1>1 DEF manager, log
<1>5. ASSUME NEW j \in Keys \ lost PROVE Ahead(j)'
  <2>1. Ahead(j)
    BY <1>5 DEF IInv
  <2>2. CASE j = k
    <3>1. retained'[j] = version'
      BY <1>1, <1>2, <2>2 DEF IInv
    <3>2. ASSUME NEW u \in Tasks, u # t, pending[u] # NoOp PROVE pending[u].key # k
      BY <3>2, <1>2 DEF IInv, Owned, OnePublisher
    <3>3. \A u \in Waiting(j)' : u = t
      BY <3>2, <1>3, <2>2 DEF Waiting
    <3>4. t \in Waiting(j)'
      BY <1>3, <2>2 DEF Waiting
    <3> QED BY <3>1, <3>3, <3>4, <1>3 DEF Ahead
  <2>3. CASE j # k
    <3>1. retained'[j] = retained[j]
      BY <1>1, <2>3 DEF IInv
    <3>2. Waiting(j)' = Waiting(j) /\ t \notin Waiting(j)
      BY <1>1, <1>3, <2>3 DEF Waiting
    <3> QED BY <2>1, <3>1, <3>2, <1>3, <1>4 DEF Ahead, Waiting
  <2> QED BY <2>2, <2>3
<1> QED BY <1>4, <1>5

\* write: the operation in hand becomes the last one of the log, or its topic is
\* given up.
LEMMA WriteKeeps ==
  ASSUME IInv, OnePublisher, NEW t \in Tasks, write(t)
  PROVE  \A k \in Keys \ lost' : Ahead(k)'
<1> DEFINE op == pending[t]
<1>1. /\ op \in OpType /\ op # NoOp /\ op.key \in Topics[t]
      /\ pending \in [Tasks -> OpType \cup {NoOp}]
  BY DEF write, IInv, Owned, Shape
<1>2. /\ pending'[t] = NoOp /\ \A u \in Tasks : u # t => pending'[u] = pending[u]
      /\ retained' = retained /\ store' = store
      /\ UNCHANGED <<batch, writing>>
  BY <1>1 DEF write
<1>3. ASSUME NEW j \in Keys \ lost' PROVE Ahead(j)'
  <2>1. j \in Keys \ lost /\ Ahead(j)
    BY <1>3 DEF IInv, write
  <2>2. CASE channel' = channel
    <3>1. op.key \in lost'
      BY <1>1, <2>2 DEF write, IInv, Shape
    <3>2. t \notin Waiting(j) /\ Waiting(j)' = Waiting(j)
      BY <3>1, <1>2, <1>3 DEF Waiting
    <3>3. log' = log
      BY <1>2, <2>2 DEF log
    <3> QED BY <2>1, <3>2, <3>3, <1>2 DEF Ahead, Waiting
  <2>3. CASE channel' # channel
    <3>1. log' = Append(log, op) /\ log \in Seq(OpType)
      BY <2>3, LogSteps DEF IInv
    <3>2. Apply(log', store')[j] = IF op.key = j THEN op.version ELSE Apply(log, store)[j]
      BY <3>1, <1>1, <1>2, <2>1, ApplyAppend DEF IInv
    <3>3. CASE op.key = j
      <4>1. retained[j] = op.version
        BY <2>1, <3>3, <1>1 DEF Ahead, Waiting
      <4>2. ASSUME NEW u \in Tasks, u # t, pending[u] # NoOp PROVE pending[u].key # j
        BY <4>2, <3>3, <1>1, <2>1 DEF IInv, Owned, OnePublisher
      <4>3. Waiting(j)' = {}
        BY <4>2, <1>2 DEF Waiting
      <4> QED BY <4>1, <4>3, <3>2, <3>3, <1>2 DEF Ahead
    <3>4. CASE op.key # j
      <4>1. t \notin Waiting(j) /\ Waiting(j)' = Waiting(j)
        BY <3>4, <1>2 DEF Waiting
      <4> QED BY <2>1, <3>2, <3>4, <4>1, <1>2 DEF Ahead, Waiting
    <3> QED BY <3>3, <3>4
  <2> QED BY <2>2, <2>3
<1> QED BY <1>3
\* The steps of the writer and of the process.
LEMMA WriterKeeps ==
  ASSUME IInv, writer_loop \/ BatchFails \/ Shutdown \/ Restart \/ UNCHANGED vars
  PROVE  \A k \in Keys \ lost' : Ahead(k)'
<1>0. Shape /\ store \in [Keys -> Nat] /\ \A k \in Keys \ lost : Ahead(k)
  BY DEF IInv
<1>1. CASE Receive \/ Tick \/ WriterShutdown
  <2>1. UNCHANGED <<retained, pending, store, lost>>
    BY <1>1 DEF Receive, Tick, WriterShutdown
  <2> QED BY <1>0, <1>1, <2>1, LogSteps DEF Ahead, Waiting
<1>2. CASE Shutdown \/ UNCHANGED vars
  <2>1. UNCHANGED <<retained, pending, store, lost, writing, batch, channel>>
    BY <1>2 DEF Shutdown, vars, manager
  <2> QED BY <1>0, <2>1 DEF Ahead, Waiting, log
<1>3. CASE batch_write
  <2>1. UNCHANGED <<retained, pending, lost>> /\ store' = Apply(writing, store)
    BY <1>3 DEF batch_write
  <2>2. ASSUME NEW k \in Keys PROVE Apply(log', store')[k] = Apply(log, store)[k]
    <3>1. /\ batch \o channel \in Seq(OpType) /\ writing \in Seq(OpType)
          /\ log = writing \o (batch \o channel) /\ log' = batch \o channel
      BY <1>0, <1>3, LogSteps, Zenon DEF Shape
    <3>2. k \in DOMAIN store
      BY <1>0
    <3>3. PICK w \in Seq(OpType), r \in Seq(OpType) : w = writing /\ r = batch \o channel
      BY <3>1, Zenon
    <3>4. Apply(w \o r, store)[k] = Apply(r, Apply(w, store))[k]
      BY <3>2, ApplyConcat
    <3> QED BY <2>1, <3>1, <3>3, <3>4
  <2>3. ASSUME NEW k \in Keys \ lost' PROVE Ahead(k)'
    <3>1. Ahead(k) /\ Waiting(k)' = Waiting(k)
      BY <1>0, <2>1, <2>3 DEF Waiting
    <3>2. \A t \in Waiting(k) : pending'[t].version = pending[t].version
      BY <2>1
    <3> QED BY <2>1, <2>2, <2>3, <3>1, <3>2 DEF Ahead
  <2> QED BY <2>3
<1>4. CASE BatchFails
  <2>1. UNCHANGED <<retained, pending, store>> /\ lost' = lost \cup KeysOf(writing)
    BY <1>4 DEF BatchFails
  <2>2. ASSUME NEW k \in Keys \ lost' PROVE Apply(log', store')[k] = Apply(log, store)[k]
    <3>1. /\ batch \o channel \in Seq(OpType) /\ writing \in Seq(OpType)
          /\ log = writing \o (batch \o channel) /\ log' = batch \o channel
      BY <1>0, <1>4, LogSteps, Zenon DEF Shape
    <3>2. On(writing, k) = {}
      BY <2>1, <2>2 DEF On, Log!On, KeysOf
    <3>3. k \in DOMAIN store
      BY <1>0
    <3>4. PICK w \in Seq(OpType), r \in Seq(OpType) : w = writing /\ r = batch \o channel
      BY <3>1, Zenon
    <3>5. On(w, k) = {} => Apply(w \o r, store)[k] = Apply(r, store)[k]
      BY <3>3, ApplyConcat
    <3> QED BY <2>1, <3>1, <3>2, <3>4, <3>5
  <2>3. ASSUME NEW k \in Keys \ lost' PROVE Ahead(k)'
    <3>1. Ahead(k) /\ Waiting(k)' = Waiting(k)
      BY <1>0, <2>1, <2>3 DEF Waiting
    <3>2. \A t \in Waiting(k) : pending'[t].version = pending[t].version
      BY <2>1
    <3> QED BY <2>1, <2>2, <2>3, <3>1, <3>2 DEF Ahead
  <2> QED BY <2>3
<1>5. CASE Exit
  <2>1. /\ UNCHANGED <<retained, pending, store>> /\ lost' = lost \cup KeysOf(channel)
        /\ writing = <<>> /\ batch = <<>>
    BY <1>0, <1>5 DEF Exit, Shape
  <2>2. log = channel /\ log' = <<>>
    <3>1. channel \in Seq(OpType) /\ log = <<>> \o (<<>> \o channel)
      BY <1>0, <2>1, LogSteps DEF Shape
    <3> QED BY <1>0, <1>5, <3>1, LogSteps, ConcatEmptySeq
  <2>3. ASSUME NEW k \in Keys \ lost' PROVE Apply(log', store')[k] = Apply(log, store)[k]
    <3>1. On(channel, k) = {}
      BY <2>1, <2>3 DEF On, Log!On, KeysOf
    <3>2. On(<<>>, k) = {}
      BY DEF On, Log!On
    <3> QED BY <1>0, <2>1, <2>2, <3>1, <3>2, ApplyAt
  <2> QED BY <1>0, <2>1, <2>3 DEF Ahead, Waiting
<1>6. CASE Restart
  <2>1. retained' = store /\ store' = store /\ log' = <<>> /\ pending' = [t \in Tasks |-> NoOp]
    BY <1>0, <1>6, LogSteps, Zenon DEF Restart
  <2>2. ASSUME NEW k \in Keys PROVE Apply(log', store')[k] = retained'[k]
    <3>1. On(<<>>, k) = {}
      BY DEF On, Log!On
    <3> QED BY <1>0, <2>1, <3>1, ApplyAt
  <2> QED BY <2>1, <2>2 DEF Ahead, Waiting
<1> QED BY <1>1, <1>2, <1>3, <1>4, <1>5, <1>6 DEF writer_loop

\* The rest of the invariant.
LEMMA OthersKeep ==
  ASSUME IInv, [Next]_vars
  PROVE  /\ Owned'
         /\ retained' \in [Keys -> Nat] /\ store' \in [Keys -> Nat]
         /\ writer' = "exited" => log' = <<>>
<1>0. /\ Shape /\ Owned /\ retained \in [Keys -> Nat] /\ store \in [Keys -> Nat]
      /\ writer = "exited" => log = <<>>
      /\ pending \in [Tasks -> OpType \cup {NoOp}] /\ version \in Nat
  BY DEF IInv, Shape
<1>1. ASSUME NEW t \in Tasks, SetRetained(t)
      PROVE  /\ Owned' /\ retained' \in [Keys -> Nat] /\ store' = store
             /\ writer' = writer /\ log' = log
  <2>1. PICK k \in Topics[t] :
          /\ version' = version + 1
          /\ retained' = [retained EXCEPT ![k] = version']
          /\ pending' = [pending EXCEPT ![t] = Op(k, version')]
          /\ UNCHANGED <<manager, store>>
    BY <1>1, Zenon DEF SetRetained
  <2>2. k \in Keys /\ Op(k, version').key = k
    BY PersistenceConstants DEF Op
  <2>3. Owned'
    BY <1>0, <2>1, <2>2 DEF Owned
  <2> QED BY <1>0, <2>1, <2>2, <2>3 DEF manager, log
<1>2. ASSUME NEW t \in Tasks, write(t)
      PROVE  Owned' /\ UNCHANGED <<retained, store, writer>> /\ (writer = "exited" => log' = log)
  <2>1. Owned'
    BY <1>0, <1>2 DEF write, Owned
  <2>2. ASSUME writer = "exited" PROVE log' = log
    BY <1>2, <2>2 DEF write, log
  <2> QED BY <1>2, <2>1, <2>2 DEF write
<1>3. CASE Receive \/ Tick \/ WriterShutdown
  <2>1. UNCHANGED <<retained, pending, store>> /\ writer' # "exited"
    BY <1>3 DEF Receive, Tick, WriterShutdown, Selecting
  <2> QED BY <1>0, <2>1 DEF Owned
<1>4. CASE batch_write \/ BatchFails
  <2>1. UNCHANGED <<retained, pending, writer>> /\ (store' = store \/ store' = Apply(writing, store))
    BY <1>4 DEF batch_write, BatchFails
  <2>2. writing \in Seq(OpType) /\ writing # <<>>
    BY <1>0, <1>4 DEF Shape, batch_write, BatchFails
  <2>3. writer # "exited"
    <3>1. log # <<>>
      <4>1. batch \o channel \in Seq(OpType) /\ log = writing \o (batch \o channel)
        BY <1>0, LogSteps
      <4>2. Len(log) = Len(writing) + Len(batch \o channel) /\ Len(batch \o channel) \in Nat
        BY <2>2, <4>1, ConcatProperties, LenProperties
      <4>3. Len(writing) \in Nat \ {0}
        BY <2>2, EmptySeq, LenProperties
      <4>4. Len(log) # 0
        BY <4>2, <4>3
      <4> QED BY <4>4
    <3> QED BY <1>0, <3>1
  <2> QED BY <1>0, <2>1, <2>2, <2>3, ApplyTyped DEF Owned
<1>5. CASE Exit \/ Restart
  <2>1. /\ store' = store /\ retained' \in {retained, store}
        /\ pending' = pending \/ pending' = [t \in Tasks |-> NoOp]
    BY <1>5 DEF Exit, Restart
  <2>2. Owned'
    BY <1>0, <2>1 DEF Owned
  <2> QED BY <1>0, <1>5, <2>1, <2>2, LogSteps
<1>6. CASE Shutdown \/ UNCHANGED vars
  <2>1. UNCHANGED <<retained, pending, store, writer, writing, batch, channel>>
    BY <1>6 DEF Shutdown, vars, manager
  <2> QED BY <1>0, <2>1 DEF Owned, log
<1> QED BY <1>0, <1>1, <1>2, <1>3, <1>4, <1>5, <1>6 DEF Next, writer_loop

\* When each topic has one publisher, a restart after everything was written, or
\* after the writer has flushed and exited, brings back what the map had, except
\* for topics with a dropped operation: whatever is still under way between map
\* and backend, it is the newest operation of its topic that arrives last.
THEOREM RestartKeepsMap == ASSUME OnePublisher PROVE Spec => []StoredIsRetained
<1>1. Init => IInv
  <2> SUFFICES ASSUME Init PROVE IInv OBVIOUS
  <2>1. Shape
    <3>1. <<>> \in Seq(OpType) BY EmptySeq
    <3> QED BY <3>1 DEF Init, Shape
  <2>2. log = <<>>
    <3>1. log = (<<>> \o <<>>) \o <<>> BY DEF Init, log
    <3>2. <<>> \in Seq(OpType) BY EmptySeq
    <3> QED BY <3>1, <3>2, ConcatEmptySeq
  <2>3. ASSUME NEW k \in Keys PROVE Ahead(k)
    <3>1. On(<<>>, k) = {}
      BY DEF On, Log!On
    <3>2. k \in DOMAIN store
      BY DEF Init
    <3>3. Apply(log, store)[k] = store[k]
      BY <2>2, <3>1, <3>2, ApplyAt
    <3> QED BY <3>3 DEF Init, Ahead, Waiting
  <2> QED BY <2>1, <2>2, <2>3 DEF Init, IInv, Owned
<1>2. IInv /\ [Next]_vars /\ Shape' => IInv'
  <2> SUFFICES ASSUME IInv, [Next]_vars, Shape' PROVE IInv' OBVIOUS
  <2>1. \A k \in Keys \ lost' : Ahead(k)'
    <3>1. CASE \E t \in Tasks : SetRetained(t)
      BY <3>1, SetRetainedKeeps
    <3>2. CASE \E t \in Tasks : write(t)
      BY <3>2, WriteKeeps
    <3>3. CASE writer_loop \/ BatchFails \/ Shutdown \/ Restart \/ UNCHANGED vars
      BY <3>3, WriterKeeps
    <3> QED BY <3>1, <3>2, <3>3 DEF Next
  <2> QED BY <2>1, OthersKeep DEF IInv
<1>3. IInv => StoredIsRetained
  <2> SUFFICES ASSUME IInv, NEW k \in Keys \ lost, \A t \in Tasks : pending[t].key # k,
                      channel \o batch \o writing = <<>> \/ writer = "exited"
               PROVE  store[k] = retained[k]
    BY DEF StoredIsRetained
  <2>1. Shape /\ store \in [Keys -> Nat] /\ Ahead(k)
    BY DEF IInv
  <2>2. log = <<>>
    <3>1. CASE channel \o batch \o writing = <<>>
      <4>1. channel = <<>> /\ batch = <<>> /\ writing = <<>>
        BY <2>1, <3>1 DEF Shape
      <4>2. log = (<<>> \o <<>>) \o <<>> BY <4>1 DEF log
      <4>3. <<>> \in Seq(OpType) BY EmptySeq
      <4> QED BY <4>2, <4>3, ConcatEmptySeq
    <3>2. CASE writer = "exited"
      BY <3>2 DEF IInv
    <3> QED BY <3>1, <3>2
  <2>3. On(<<>>, k) = {}
    BY DEF On, Log!On
  <2>4. Apply(log, store)[k] = store[k]
    BY <2>1, <2>2, <2>3, ApplyAt
  <2>5. Waiting(k) = {}
    BY DEF Waiting
  <2> QED BY <2>1, <2>4, <2>5 DEF Ahead
<1> QED BY <1>1, <1>2, <1>3, ShapeInvariant, PTL DEF Spec
=============================================================================
