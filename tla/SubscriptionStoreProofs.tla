----------------------- MODULE SubscriptionStoreProofs -----------------------
(***************************************************************************)
(* Proofs about SubscriptionStore, for any number of threads, filters,     *)
(* topics, clients and groups and any size of the cache.                   *)
(*                                                                         *)
(* CacheCoherent is not inductive: it says nothing of a reader that has    *)
(* computed a result and not inserted it yet, nor of what may be in the    *)
(* cache while a writer is between its two steps.  IInv adds both, through *)
(* the history variable recent (the tries since the last increment).       *)
(* The share groups need one more: a cached result has none.               *)
(***************************************************************************)
EXTENDS SubscriptionStore, FiniteSetTheorems, TLAPS

\* The part of the type invariant the argument needs.
Shape ==
  /\ generation \in Nat
  /\ DOMAIN topic_cache = Topics
  /\ pc \in [Workers -> Labels]
  /\ topic \in [Workers -> Topics]
  /\ current_gen \in [Workers -> Nat]
  /\ DOMAIN hits = Workers
  /\ DOMAIN observed = Workers

Answers(TS, t, subs) == \E T \in TS : subs = Matching(T, t)

Computed(w) == pc[w] \in {"size", "insert"}

\* Generations never run ahead of the counter.
GenerationsPast ==
  /\ \A w \in Workers : current_gen[w] <= generation
  /\ \A t \in Topics : topic_cache[t] # NoEntry =>
       /\ topic_cache[t].generation \in Nat
       /\ topic_cache[t].generation <= generation

\* The tries since the last increment; only the present one if no writer is
\* about to increment.
RecentTries ==
  /\ trie \in recent
  /\ (\A w \in Workers : ~ Pending(w)) => recent = {trie}

\* A result tagged with the present generation comes from a recent trie,
\* whether it is in the cache or about to be inserted.
FreshResults ==
  /\ \A t \in Topics :
       topic_cache[t] # NoEntry /\ topic_cache[t].generation = generation
       => Answers(recent, t, topic_cache[t].subscriptions)
  /\ \A v \in Workers : Computed(v) /\ current_gen[v] = generation
       => Answers(recent, topic[v], hits[v])

\* What a reader may still pick up under the generation it loaded is a result
\* it is allowed to answer with.
ReaderWindow ==
  \A w \in Workers : InMatches(w) =>
    /\ trie \in observed[w]
    /\ current_gen[w] = generation => recent \subseteq observed[w]
    /\ CacheHit(w) => Answers(observed[w], topic[w],
                              topic_cache[topic[w]].subscriptions)
    /\ \A v \in Workers :
         Computed(v) /\ topic[v] = topic[w] /\ current_gen[v] = current_gen[w]
         => Answers(observed[w], topic[w], hits[v])

ReaderResult ==
  \A w \in Workers : pc[w] \in {"pick", "size", "insert", "done"} =>
    Answers(observed[w], topic[w], hits[w])

IInv ==
  /\ Shape
  /\ GenerationsPast
  /\ RecentTries
  /\ FreshResults
  /\ ReaderWindow
  /\ ReaderResult
-----------------------------------------------------------------------------
USE DEF Goto, Answers, Computed, Pending, InMatches, CacheHit

\* The value the locals of matches have outside a call is a topic.
LEMMA AnyTopicType == AnyTopic \in Topics
  BY StoreConstants DEF AnyTopic

\* A new store (topic/mod.rs:85-92) satisfies the invariant.
LEMMA InitIInv == Init => IInv
<1> SUFFICES ASSUME Init PROVE IInv
  OBVIOUS
<1>1. Shape
  BY AnyTopicType DEF Init, Shape, Labels
<1> QED
  BY <1>1 DEF Init, IInv, Shape, GenerationsPast, RecentTries, FreshResults,
     ReaderWindow, ReaderResult

\* The write-locked part of subscribe, unsubscribe or unsubscribe_all, which
\* leaves generation alone, preserves the invariant.
LEMMA WritePreserves ==
  ASSUME IInv, NEW w \in Workers, NEW T, WriteTrie(w, T)
  PROVE  IInv'
<1> USE DEF IInv, WriteTrie, locals
<1>1. Shape'
  BY DEF Shape, Labels
<1>2. GenerationsPast'
  BY DEF Shape, GenerationsPast
<1>3. RecentTries'
  BY DEF Shape, RecentTries
<1>4. FreshResults'
  BY DEF Shape, FreshResults
<1>5. ReaderWindow'
  BY DEF Shape, ReaderWindow
<1>6. ReaderResult'
  BY DEF Shape, ReaderResult
<1> QED
  BY <1>1, <1>2, <1>3, <1>4, <1>5, <1>6

\* So does the increment of invalidate_cache (topic/mod.rs:97), from which on
\* what is cached or computed under the old generation is of no use.
LEMMA InvalidatePreserves ==
  ASSUME IInv, NEW w \in Workers, Invalidate(w)
  PROVE  IInv'
<1> USE DEF IInv, Invalidate, locals
<1>1. Shape'
  BY DEF Shape, Labels
<1>2. GenerationsPast'
  BY DEF Shape, GenerationsPast
<1>3. RecentTries'
  BY DEF Shape, RecentTries
<1>4. FreshResults'
  BY DEF Shape, FreshResults, GenerationsPast
<1>5. ReaderWindow'
  BY DEF Shape, ReaderWindow, GenerationsPast
<1>6. ReaderResult'
  BY DEF Shape, ReaderResult
<1> QED
  BY <1>1, <1>2, <1>3, <1>4, <1>5, <1>6

\* So do the steps that only test: the size tests and a cache miss.
LEMMA ControlPreserves ==
  ASSUME IInv, NEW w \in Workers,
         Trim(w) \/ LookupMiss(w) \/ CheckSize(w)
  PROVE  IInv'
<1> USE DEF IInv, Trim, LookupMiss, CheckSize, shared, locals,
         history
<1>1. Shape'
  BY DEF Shape, Labels
<1>2. GenerationsPast'
  BY DEF Shape, GenerationsPast
<1>3. RecentTries'
  BY DEF Shape, RecentTries
<1>4. FreshResults'
  BY DEF Shape, FreshResults
<1>5. ReaderWindow'
  BY DEF Shape, ReaderWindow
<1>6. ReaderResult'
  BY DEF Shape, ReaderResult
<1> QED
  BY <1>1, <1>2, <1>3, <1>4, <1>5, <1>6

\* So does the clear of invalidate_cache (topic/mod.rs:100).
LEMMA ClearPreserves ==
  ASSUME IInv, NEW w \in Workers, Clear(w)
  PROVE  IInv'
<1> USE DEF IInv, Clear, shared, locals, history
<1>1. Shape'
  BY DEF Shape, Labels
<1>2. GenerationsPast'
  BY DEF Shape, GenerationsPast
<1>3. RecentTries'
  BY DEF Shape, RecentTries
<1>4. FreshResults'
  BY DEF Shape, FreshResults
<1>5. ReaderWindow'
  BY DEF Shape, ReaderWindow
<1>6. ReaderResult'
  BY DEF Shape, ReaderResult
<1> QED
  BY <1>1, <1>2, <1>3, <1>4, <1>5, <1>6

\* So does the load of generation on entry to matches (topic/mod.rs:189).
LEMMA LoadPreserves ==
  ASSUME IInv, NEW w \in Workers, NEW t \in Topics,
         LoadGeneration(w, t)
  PROVE  IInv'
<1> USE DEF IInv, LoadGeneration, shared
<1>1. Shape'
  BY DEF Shape, Labels
<1>2. GenerationsPast'
  BY DEF Shape, GenerationsPast
<1>3. RecentTries'
  BY DEF Shape, RecentTries
<1>4. FreshResults'
  BY DEF Shape, FreshResults
<1>5. ReaderWindow'
  BY DEF Shape, ReaderWindow, RecentTries, FreshResults, GenerationsPast
<1>6. ReaderResult'
  BY DEF Shape, ReaderResult
<1> QED
  BY <1>1, <1>2, <1>3, <1>4, <1>5, <1>6

\* So does a cache hit, which takes the result over (topic/mod.rs:192-196).
LEMMA LookupHitPreserves ==
  ASSUME IInv, NEW w \in Workers, LookupHit(w)
  PROVE  IInv'
<1> USE DEF IInv, LookupHit, shared, history
<1>1. Shape'
  BY DEF Shape, Labels
<1>2. GenerationsPast'
  BY DEF Shape, GenerationsPast
<1>3. RecentTries'
  BY DEF Shape, RecentTries
<1>4. FreshResults'
  BY DEF Shape, FreshResults
<1>5. ReaderWindow'
  BY DEF Shape, ReaderWindow
<1>6. ReaderResult'
  BY DEF Shape, ReaderResult, ReaderWindow
<1> QED
  BY <1>1, <1>2, <1>3, <1>4, <1>5, <1>6

\* So does the walk of the trie under the read lock (topic/mod.rs:199-218).
LEMMA ComputePreserves ==
  ASSUME IInv, NEW w \in Workers, Compute(w)
  PROVE  IInv'
<1> USE DEF IInv, Compute, shared, history
<1>1. Shape'
  BY DEF Shape, Labels
<1>2. GenerationsPast'
  BY DEF Shape, GenerationsPast
<1>3. RecentTries'
  BY DEF Shape, RecentTries
<1>4. FreshResults'
  BY DEF Shape, FreshResults, RecentTries
<1>5. ReaderWindow'
  BY DEF Shape, ReaderWindow
<1>6. ReaderResult'
  BY DEF Shape, ReaderResult, ReaderWindow
<1> QED
  BY <1>1, <1>2, <1>3, <1>4, <1>5, <1>6

\* So does a turn of the loop over the share groups (topic/mod.rs:221-231).
LEMMA PickPreserves ==
  ASSUME IInv, NEW w \in Workers, NEW g \in Groups, Pick(w, g)
  PROVE  IInv'
<1> USE DEF IInv, Pick, history
<1>1. Shape'
  BY DEF Shape, Labels
<1>2. GenerationsPast'
  BY DEF Shape, GenerationsPast
<1>3. RecentTries'
  BY DEF Shape, RecentTries
<1>4. FreshResults'
  BY DEF Shape, FreshResults
<1>5. ReaderWindow'
  BY DEF Shape, ReaderWindow
<1>6. ReaderResult'
  BY DEF Shape, ReaderResult
<1> QED
  BY <1>1, <1>2, <1>3, <1>4, <1>5, <1>6

\* So does the insertion, although the generation may have moved on since the
\* result was computed (topic/mod.rs:236-242).
LEMMA InsertPreserves ==
  ASSUME IInv, NEW w \in Workers, Insert(w)
  PROVE  IInv'
<1> USE DEF IInv, Insert, locals, history
<1>1. Shape'
  BY DEF Shape, Labels
<1>2. GenerationsPast'
  BY DEF Shape, GenerationsPast
<1>3. RecentTries'
  BY DEF Shape, RecentTries
<1>4. FreshResults'
  BY DEF Shape, FreshResults
<1>5. ReaderWindow'
  BY DEF Shape, ReaderWindow, FreshResults
<1>6. ReaderResult'
  BY DEF Shape, ReaderResult
<1> QED
  BY <1>1, <1>2, <1>3, <1>4, <1>5, <1>6

\* So does the return to the caller.
LEMMA ReturnPreserves ==
  ASSUME IInv, NEW w \in Workers, Return(w)
  PROVE  IInv'
<1> USE DEF IInv, Return, shared
<1>1. Shape'
  BY AnyTopicType DEF Shape, Labels
<1>2. GenerationsPast'
  BY DEF Shape, GenerationsPast
<1>3. RecentTries'
  BY DEF Shape, RecentTries
<1>4. FreshResults'
  BY DEF Shape, FreshResults
<1>5. ReaderWindow'
  BY SMTT(20) DEF Shape, ReaderWindow
<1>6. ReaderResult'
  BY DEF Shape, ReaderResult
<1> QED
  BY <1>1, <1>2, <1>3, <1>4, <1>5, <1>6

\* Every step of the store preserves the invariant.
LEMMA NextIInv == IInv /\ [Next]_vars => IInv'
<1> SUFFICES ASSUME IInv, [Next]_vars PROVE IInv'
  OBVIOUS
<1>1. CASE UNCHANGED vars
  <2> USE <1>1 DEF vars, shared, locals, history, IInv
  <2>1. Shape'
    BY DEF Shape
  <2>2. GenerationsPast' /\ RecentTries'
    BY DEF GenerationsPast, RecentTries
  <2>3. FreshResults'
    BY DEF FreshResults
  <2>4. ReaderWindow'
    BY DEF ReaderWindow
  <2>5. ReaderResult'
    BY DEF ReaderResult
  <2> QED
    BY <2>1, <2>2, <2>3, <2>4, <2>5
<1>2. ASSUME NEW w \in Workers, Change(w) PROVE IInv'
  BY <1>2, WritePreserves, Zenon DEF Change, subscribe, unsubscribe, unsubscribe_all
<1>3. ASSUME NEW w \in Workers, NEW t \in Topics, LoadGeneration(w, t)
      PROVE  IInv'
  BY <1>3, LoadPreserves
<1>4. ASSUME NEW w \in Workers, Step(w) PROVE IInv'
  BY <1>4, InvalidatePreserves, ControlPreserves, ClearPreserves,
     LookupHitPreserves, ComputePreserves, PickPreserves, InsertPreserves,
     ReturnPreserves DEF Step
<1> QED
  BY <1>1, <1>2, <1>3, <1>4 DEF Next

\* The invariant holds of every state the store can reach.
THEOREM InductiveInvariant == Spec => []IInv
  BY InitIInv, NextIInv, PTL DEF Spec

\* Cached results a caller would accept are the trie's, for any number of
\* threads inside subscribe, unsubscribe and matches (topic/mod.rs:96-246).
THEOREM CacheCoherence == Spec => []CacheCoherent
<1>1. IInv => CacheCoherent
  BY DEF IInv, CacheCoherent, FreshResults, RecentTries
<1> QED
  BY <1>1, InductiveInvariant, PTL

-----------------------------------------------------------------------------
(* Share groups *)

\* A result with shared subscriptions is never cached (topic/mod.rs:234), so that
\* a cache hit has nothing to pick.
CachedPlain ==
  \A t \in Topics : topic_cache[t] # NoEntry =>
    GroupsIn(topic_cache[t].subscriptions) = {}

\* The groups of a result are those picked from and those left to do.
Picking ==
  /\ DOMAIN hits = Workers /\ DOMAIN picks = Workers /\ DOMAIN todo = Workers
  /\ \A w \in Workers :
       /\ pc[w] \notin {"pick", "done"} => DOMAIN picks[w] = {}
       /\ pc[w] \in {"size", "insert"} => GroupsIn(hits[w]) = {}
       /\ pc[w] = "pick" =>
            /\ todo[w] \subseteq GroupsIn(hits[w])
            /\ DOMAIN picks[w] = GroupsIn(hits[w]) \ todo[w]
       /\ pc[w] = "done" => DOMAIN picks[w] = GroupsIn(hits[w])
       /\ \A g \in DOMAIN picks[w] :
            \E i \in Members(hits[w], g) : picks[w][g] = hits[w][i]

\* The locals of matches are set only by Compute, Pick and a cache hit.
LEMMA LocalsKept ==
  ASSUME Shape, CachedPlain, Picking, NEW w \in Workers, NEW label,
         Goto(w, label), UNCHANGED <<hits, picks, todo>>,
         pc[w] \notin {"pick", "done"}, label \notin {"pick", "done"},
         label \in {"size", "insert"} => pc[w] \in {"size", "insert"}
  PROVE  Picking'
<1>1. \A v \in Workers : pc'[v] = IF v = w THEN label ELSE pc[v]
  BY DEF Shape
<1> QED
  BY <1>1 DEF Picking

\* Every step of the store keeps both.
LEMMA PickingKept ==
  ASSUME Shape, CachedPlain, Picking, [Next]_vars
  PROVE  CachedPlain' /\ Picking'
<1>1. ASSUME NEW w \in Workers, NEW T, WriteTrie(w, T)
      PROVE  CachedPlain' /\ Picking'
  <2>1. Picking'
    BY <1>1, LocalsKept, Zenon DEF WriteTrie, locals
  <2> QED
    BY <2>1, <1>1 DEF WriteTrie, CachedPlain
<1>2. ASSUME NEW w \in Workers, Invalidate(w) \/ Trim(w) \/ Clear(w) \/ LookupMiss(w)
      PROVE  CachedPlain' /\ Picking'
  <2>1. Picking'
    BY SMTT(20), <1>2, LocalsKept DEF Invalidate, Trim, Clear, LookupMiss, locals
  <2>2. CachedPlain'
    BY <1>2 DEF Invalidate, Trim, Clear, LookupMiss, shared, CachedPlain
  <2> QED
    BY <2>1, <2>2
<1>3. ASSUME NEW w \in Workers, NEW t \in Topics, LoadGeneration(w, t)
      PROVE  CachedPlain' /\ Picking'
  <2>1. Picking'
    BY <1>3, LocalsKept, Zenon DEF LoadGeneration
  <2> QED
    BY Zenon, <2>1, <1>3 DEF LoadGeneration, shared, CachedPlain
<1>4. ASSUME NEW w \in Workers, LookupHit(w)
      PROVE  CachedPlain' /\ Picking'
  <2>1. /\ GroupsIn(topic_cache[topic[w]].subscriptions) = {}
        /\ DOMAIN picks[w] = {}
    BY <1>4, Zenon DEF LookupHit, CachedPlain, Picking, Shape
  <2>2. /\ pc'[w] = "done" /\ hits'[w] = topic_cache[topic[w]].subscriptions
        /\ UNCHANGED <<picks, todo>> /\ DOMAIN hits' = Workers
        /\ \A v \in Workers \ {w} : pc'[v] = pc[v] /\ hits'[v] = hits[v]
    BY Zenon, <1>4 DEF LookupHit, Picking, Shape
  <2>3. Picking'
    BY SMTT(20), <2>1, <2>2 DEF Picking
  <2> QED
    BY Zenon, <2>3, <1>4 DEF LookupHit, shared, CachedPlain
<1>5. ASSUME NEW w \in Workers, Compute(w)
      PROVE  CachedPlain' /\ Picking'
  <2>1. Picking'
    BY SMTT(20), <1>5 DEF Compute, Picking, Shape
  <2> QED
    BY Zenon, <2>1, <1>5 DEF Compute, shared, CachedPlain
<1>6. ASSUME NEW w \in Workers, NEW g \in Groups, Pick(w, g)
      PROVE  CachedPlain' /\ Picking'
  <2>1. PICK i \in Members(hits[w], g) :
          picks' = [picks EXCEPT ![w] =
                      [h \in DOMAIN @ \cup {g} |->
                         IF h = g THEN hits[w][i] ELSE @[h]]]
    BY Zenon, <1>6 DEF Pick
  <2>2. /\ pc[w] = "pick" /\ g \in todo[w] /\ UNCHANGED hits
        /\ todo' = [todo EXCEPT ![w] = @ \ {g}]
        /\ pc' = [pc EXCEPT ![w] = IF todo[w] = {g} THEN "done" ELSE "pick"]
    BY <1>6 DEF Pick
  <2>3. /\ DOMAIN picks'[w] = DOMAIN picks[w] \cup {g}
        /\ \A h \in DOMAIN picks'[w] :
             picks'[w][h] = IF h = g THEN hits[w][i] ELSE picks[w][h]
        /\ \A v \in Workers \ {w} : picks'[v] = picks[v]
    BY <2>1 DEF Picking
  <2>4. Picking'
    BY SMTT(20), <2>1, <2>2, <2>3 DEF Picking, Shape
  <2> QED
    BY Zenon, <2>4, <1>6 DEF Pick, CachedPlain
<1>7. ASSUME NEW w \in Workers, CheckSize(w)
      PROVE  CachedPlain' /\ Picking'
  <2>1. /\ GroupsIn(hits[w]) = {} /\ DOMAIN picks[w] = {}
        /\ UNCHANGED <<hits, picks, todo>> /\ pc'[w] \in {"insert", "done"}
        /\ \A v \in Workers \ {w} : pc'[v] = pc[v]
    BY Zenon, <1>7 DEF CheckSize, locals, Picking, Shape
  <2>2. Picking'
    BY SMTT(20), <2>1 DEF Picking
  <2> QED
    BY <2>2, <1>7 DEF CheckSize, shared, CachedPlain
<1>8. ASSUME NEW w \in Workers, Insert(w)
      PROVE  CachedPlain' /\ Picking'
  <2>1. /\ GroupsIn(hits[w]) = {} /\ DOMAIN picks[w] = {}
        /\ UNCHANGED <<hits, picks, todo>> /\ pc'[w] = "done"
        /\ \A v \in Workers \ {w} : pc'[v] = pc[v]
    BY Zenon, <1>8 DEF Insert, locals, Picking, Shape
  <2>2. Picking'
    BY SMTT(20), <2>1 DEF Picking
  <2> QED
    BY Zenon, <2>1, <2>2, <1>8 DEF Insert, CachedPlain, Shape
<1>9. ASSUME NEW w \in Workers, Return(w)
      PROVE  CachedPlain' /\ Picking'
  <2>1. DOMAIN <<>> = {}
    OBVIOUS
  <2>2. Picking'
    BY SMTT(20), <2>1, <1>9 DEF Return, Picking, Shape
  <2> QED
    BY Zenon, <2>2, <1>9 DEF Return, shared, CachedPlain
<1>10. CASE UNCHANGED vars
  BY SMTT(20), <1>10 DEF vars, shared, locals, CachedPlain, Picking
<1>11. ASSUME NEW w \in Workers, Change(w)
       PROVE  CachedPlain' /\ Picking'
  BY <1>11, <1>1, Zenon DEF Change, subscribe, unsubscribe, unsubscribe_all
<1> QED
  BY <1>2, <1>3, <1>4, <1>5, <1>6, <1>7, <1>8, <1>9, <1>10, <1>11 DEF Next, Step

\* matches (topic/mod.rs:188-246) answers with the subscriptions of one moment
\* of its call, or of a change not completed when the call began, and with one
\* member of each share group among them.
THEOREM AnswersAreCurrent == Spec => []AnswerIsCurrent
<1>1. Init => CachedPlain /\ Picking
  <2>1. DOMAIN <<>> = {}
    OBVIOUS
  <2> QED
    BY SMTT(20), <2>1 DEF Init, CachedPlain, Picking
<1>2. IInv /\ CachedPlain /\ Picking /\ [Next]_vars => CachedPlain' /\ Picking'
  BY PickingKept DEF IInv
<1>3. IInv /\ Picking => AnswerIsCurrent
  BY Zenon DEF IInv, AnswerIsCurrent, ReaderResult, Picking
<1> QED
  BY <1>1, <1>2, <1>3, InductiveInvariant, PTL DEF Spec

-----------------------------------------------------------------------------
(* The size of the cache. *)

Cached == {t \in Topics : topic_cache[t] # NoEntry}

Inserting == {w \in Workers : pc[w] = "insert"}

\* What CacheBounded counts is finite, and a thread that is not about to insert is
\* not among those that are.
LEMMA Countable ==
  /\ IsFiniteSet(Cached) /\ Cardinality(Cached) \in Nat
  /\ IsFiniteSet(Inserting) /\ Cardinality(Inserting) \in Nat
  /\ Cardinality(Workers) \in Nat /\ Cardinality(Workers) >= 1
  /\ \A w \in Workers \ Inserting :
       Cardinality(Inserting) + 1 <= Cardinality(Workers)
<1>1. IsFiniteSet(Cached) /\ IsFiniteSet(Inserting)
  BY StoreFinite, FS_Subset DEF Cached, Inserting
<1>2. Cardinality(Workers) \in Nat /\ Cardinality(Workers) # 0
  BY StoreFinite, FS_CardinalityType, FS_EmptySet
<1>3. ASSUME NEW w \in Workers \ Inserting
      PROVE  Cardinality(Inserting) + 1 <= Cardinality(Workers)
  <2>1. /\ IsFiniteSet(Inserting \cup {w})
        /\ Cardinality(Inserting \cup {w}) = Cardinality(Inserting) + 1
    BY <1>1, <1>3, FS_AddElement
  <2>2. Inserting \cup {w} \subseteq Workers
    BY <1>3 DEF Inserting
  <2> QED BY <2>1, <2>2, StoreFinite, FS_Subset
<1> QED BY <1>1, <1>2, <1>3, FS_CardinalityType

\* A step that neither adds a cached topic nor brings a thread to its insertion
\* keeps the bound.
LEMMA FewerStay ==
  ASSUME CacheBounded, Cached' \subseteq Cached, Inserting' \subseteq Inserting
  PROVE  CacheBounded'
<1>1. Cardinality(Cached') <= Cardinality(Cached) /\ Cardinality(Cached') \in Nat
  BY Countable, FS_Subset, FS_CardinalityType
<1>2. /\ Cardinality(Inserting') <= Cardinality(Inserting)
      /\ Cardinality(Inserting') \in Nat
  BY Countable, FS_Subset, FS_CardinalityType
<1> QED
  BY SMTT(20), <1>1, <1>2, Countable, StoreConstants
  DEF CacheBounded, CacheLen, Cached, Inserting

\* The size test of matches (topic/mod.rs:235): a thread that passes it was not
\* among those about to insert.
LEMMA CheckSizeBounded ==
  ASSUME Shape, CacheBounded, NEW w \in Workers, CheckSize(w)
  PROVE  CacheBounded'
<1>1. CASE CacheLen < TOPIC_CACHE_MAX_SIZE
  <2>1. w \notin Inserting /\ Inserting' = Inserting \cup {w} /\ Cached' = Cached
    BY <1>1 DEF CheckSize, Shape, Inserting, Cached, shared
  <2>2. Cardinality(Inserting') = Cardinality(Inserting) + 1
    BY <2>1, Countable, FS_AddElement, Zenon
  <2>3. Cardinality(Inserting) + 1 <= Cardinality(Workers)
    BY <2>1, Countable
  <2>4. CacheLen' = CacheLen /\ CacheLen \in Nat
    BY <2>1, Countable, Zenon DEF CacheLen, Cached
  <2>5. CacheLen' + Cardinality(Inserting')
          <= TOPIC_CACHE_MAX_SIZE + Cardinality(Workers) - 1
    BY SMTT(20), <1>1, <2>2, <2>3, <2>4, Countable, StoreConstants
  <2> QED BY <2>5 DEF CacheBounded, Inserting
<1>2. CASE ~ CacheLen < TOPIC_CACHE_MAX_SIZE
  <2>1. Inserting' \subseteq Inserting /\ Cached' = Cached
    BY <1>2 DEF CheckSize, Shape, Inserting, Cached, shared
  <2> QED BY <2>1, FewerStay
<1> QED BY <1>1, <1>2

\* The insertion (topic/mod.rs:236-242) adds one topic at most, and its thread is
\* done.
LEMMA InsertBounded ==
  ASSUME Shape, CacheBounded, NEW w \in Workers, Insert(w)
  PROVE  CacheBounded'
<1>1. w \in Inserting /\ Inserting' = Inserting \ {w}
  BY DEF Insert, Shape, Inserting
<1>2. Cached' \subseteq Cached \cup {topic[w]}
  BY DEF Insert, Shape, Cached
<1>3. Cardinality(Inserting') = Cardinality(Inserting) - 1
  BY <1>1, Countable, FS_RemoveElement, Zenon
<1>4. /\ Cardinality(Cached') <= Cardinality(Cached) + 1
      /\ Cardinality(Cached') \in Nat
  <2>1. /\ IsFiniteSet(Cached \cup {topic[w]})
        /\ Cardinality(Cached \cup {topic[w]}) <= Cardinality(Cached) + 1
    <3>1. CASE topic[w] \in Cached
      <4>1. Cached \cup {topic[w]} = Cached
        BY <3>1
      <4> QED BY <4>1, Countable
    <3>2. CASE topic[w] \notin Cached
      BY <3>2, Countable, FS_AddElement
    <3> QED BY <3>1, <3>2
  <2>2. /\ Cardinality(Cached') <= Cardinality(Cached \cup {topic[w]})
        /\ IsFiniteSet(Cached')
    BY <1>2, <2>1, FS_Subset
  <2>3. /\ Cardinality(Cached') \in Nat
        /\ Cardinality(Cached \cup {topic[w]}) \in Nat
    BY <2>1, <2>2, FS_CardinalityType
  <2> QED BY <2>1, <2>2, <2>3, Countable
<1> QED
  BY SMTT(20), <1>3, <1>4, Countable, StoreConstants
  DEF CacheBounded, CacheLen, Cached, Inserting

\* The limit of the cache is exceeded by at most one entry per other thread, for
\* any number of threads and any limit (topic/mod.rs:98-101, 233-243).
THEOREM CacheSize == Spec => []CacheBounded
<1>1. Init => CacheBounded
  <2> SUFFICES ASSUME Init PROVE CacheBounded
    OBVIOUS
  <2>1. Cached = {} /\ Inserting = {}
    BY DEF Init, Cached, Inserting
  <2>2. CacheLen = 0 /\ Cardinality({w \in Workers : pc[w] = "insert"}) = 0
    BY <2>1, FS_EmptySet DEF CacheLen, Cached, Inserting
  <2> QED BY <2>2, Countable, StoreConstants DEF CacheBounded
<1>2. Shape /\ CacheBounded /\ [Next]_vars => CacheBounded'
  <2> SUFFICES ASSUME Shape, CacheBounded, [Next]_vars PROVE CacheBounded'
    OBVIOUS
  <2>1. CASE UNCHANGED vars
    BY <2>1, FewerStay DEF vars, shared, Cached, Inserting
  <2>2. ASSUME NEW w \in Workers, Change(w) PROVE CacheBounded'
    BY <2>2, FewerStay, Zenon DEF Change, subscribe, unsubscribe, unsubscribe_all,
       WriteTrie, Shape, Cached, Inserting
  <2>3. ASSUME NEW w \in Workers, NEW t \in Topics, LoadGeneration(w, t)
        PROVE  CacheBounded'
    BY <2>3, FewerStay DEF LoadGeneration, Shape, Cached, Inserting, shared
  <2>4. ASSUME NEW w \in Workers,
               \/ Invalidate(w) \/ Trim(w) \/ Clear(w) \/ LookupHit(w)
               \/ LookupMiss(w) \/ Compute(w) \/ Return(w)
               \/ \E g \in Groups : Pick(w, g)
        PROVE  CacheBounded'
    BY <2>4, FewerStay, Zenon DEF Invalidate, Trim, Clear, LookupHit, LookupMiss,
       Compute, Return, Pick, Shape, Cached, Inserting, shared
  <2> QED
    BY <2>1, <2>2, <2>3, <2>4, CheckSizeBounded, InsertBounded DEF Next, Step
<1>3. IInv => Shape
  BY DEF IInv
<1> QED BY <1>1, <1>2, <1>3, InductiveInvariant, PTL DEF Spec
=============================================================================
