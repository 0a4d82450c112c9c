-------------------------- MODULE SubscriptionStore --------------------------
(***************************************************************************)
(* The subscription store of the broker (src/src/topic/mod.rs): a trie of  *)
(* subscriptions behind a read-write lock, a cache of match results tagged *)
(* with the generation counter they were computed under, and round-robin   *)
(* counters for share groups.  Every connection task and timer of the      *)
(* broker calls it, so one worker below is one runtime thread inside a     *)
(* call; a step is what a thread does under one lock or with one atomic    *)
(* instruction.                                                            *)
(*                                                                         *)
(* The trie is the function from filters to the Vec of subscriptions held  *)
(* at the filter's node.  Visits[t] is the order in which                  *)
(* TopicTrie::matches visits the filters that match topic t (module        *)
(* TopicTrie computes it).                                                 *)
(***************************************************************************)
EXTENDS Integers, FiniteSets, SequencesExt

CONSTANTS
  Workers,              \* threads that may be inside the store
  Clients,              \* client identifiers
  Filters,              \* topic filters, "$share/{group}/" stripped
  Topics,               \* topic names that are published to
  Groups,               \* share group names
  NoGroup,              \* share_group = None
  Options,              \* what else a Subscription carries (qos, no_local, ...)
  Visits,               \* topic -> sequence of the filters that match it
  TOPIC_CACHE_MAX_SIZE, \* capacity of the cache
  NoEntry,              \* the cache has nothing for the topic
  USIZE,                \* the counters count modulo USIZE
  MaxGeneration         \* bound: how often subscriptions may change

ASSUME StoreConstants ==
  /\ NoGroup \notin Groups
  /\ Topics # {}
  /\ Visits \in [Topics -> Seq(Filters)]
  /\ TOPIC_CACHE_MAX_SIZE \in Nat
  /\ USIZE \in Nat \ {0}

\* There are finitely many threads and topics, and somebody calls the store.
ASSUME StoreFinite == IsFiniteSet(Workers) /\ Workers # {} /\ IsFiniteSet(Topics)

VARIABLES
  trie,           \* filter -> sequence of subscriptions
  generation,     \* AtomicU64 counting subscription changes
  topic_cache,    \* topic -> CachedMatch, or NoEntry
  share_counters, \* group -> AtomicUsize
  pc,             \* where each worker is in its call
  topic,          \* argument of the matches call
  current_gen,    \* generation loaded on entry to matches
  hits,           \* subscriptions found for the topic
  todo,           \* share groups that still have to pick a subscriber
  picks,          \* share group -> subscriber picked
  recent,         \* history: tries since the last increment of generation
  observed        \* history: tries a matches call may answer from

shared == <<trie, generation, topic_cache, share_counters>>
locals == <<topic, current_gen, hits, todo, picks>>
history == <<recent, observed>>
vars == <<shared, pc, locals, history>>

Subscription ==
  [client_id : Clients, share_group : Groups \cup {NoGroup}, options : Options]

Labels == {"idle", "invalidate", "trim", "clear", "lookup", "compute", "pick",
           "size", "insert", "done"}

-----------------------------------------------------------------------------
(* Pure parts. *)

\* What the closure passed to TopicTrie::matches is called with, in order.
Matching(T, t) == FlattenSeq([i \in DOMAIN Visits[t] |-> T[Visits[t][i]]])

\* The keys of share_groups, and the places of the members collected under one.
GroupsIn(subs) == {subs[i].share_group : i \in DOMAIN subs} \ {NoGroup}

Members(subs, g) == {i \in DOMAIN subs : subs[i].share_group = g}

CacheLen == Cardinality({t \in Topics : topic_cache[t] # NoEntry})

\* A writer released the trie lock and has not incremented generation yet.
Pending(w) == pc[w] = "invalidate"

\* Bound on the number of changes, those being made included.
MayChange ==
  generation + Cardinality({w \in Workers : Pending(w)}) < MaxGeneration

InMatches(w) == pc[w] \notin {"idle", "invalidate", "trim", "clear"}

\* The value of a local variable outside a call: any would do.
AnyTopic == CHOOSE t \in Topics : TRUE

Goto(w, label) == pc' = [pc EXCEPT ![w] = label]

-----------------------------------------------------------------------------
(* Writers: subscribe, unsubscribe, unsubscribe_all, invalidate_cache. *)

\* The body of a write-locked section: T becomes the trie.
WriteTrie(w, T) ==
  /\ pc[w] = "idle"
  /\ MayChange
  /\ trie' = T
  /\ recent' = recent \cup {T}
  /\ observed' = [v \in Workers |->
                    IF InMatches(v) THEN observed[v] \cup {T} ELSE observed[v]]
  /\ Goto(w, "invalidate")
  /\ UNCHANGED <<generation, topic_cache, share_counters, locals>>

subscribe(w, f, sub) ==
  LET others == SelectSeq(trie[f], LAMBDA s :
                  ~ (/\ s.client_id = sub.client_id
                     /\ s.share_group = sub.share_group))
  IN  WriteTrie(w, [trie EXCEPT ![f] = Append(others, sub)])

\* A call that removes nothing leaves the store as it was.
unsubscribe(w, f, c, g) ==
  LET kept == SelectSeq(trie[f], LAMBDA s :
                s.client_id # c \/ s.share_group # g)
  IN  /\ Len(kept) # Len(trie[f])
      /\ WriteTrie(w, [trie EXCEPT ![f] = kept])

unsubscribe_all(w, c) ==
  WriteTrie(w, [f \in Filters |->
                  SelectSeq(trie[f], LAMBDA s : s.client_id # c)])

\* generation.fetch_add(1), outside the trie lock.
Invalidate(w) ==
  /\ Pending(w)
  /\ generation' = generation + 1
  /\ recent' = {trie}
  /\ Goto(w, "trim")
  /\ UNCHANGED <<trie, topic_cache, share_counters, locals, observed>>

\* The size test of invalidate_cache, then its clear().
Trim(w) ==
  /\ pc[w] = "trim"
  /\ Goto(w, IF CacheLen > 2 * TOPIC_CACHE_MAX_SIZE THEN "clear" ELSE "idle")
  /\ UNCHANGED <<shared, locals, history>>

Clear(w) ==
  /\ pc[w] = "clear"
  /\ topic_cache' = [t \in Topics |-> NoEntry]
  /\ Goto(w, "idle")
  /\ UNCHANGED <<trie, generation, share_counters, locals, history>>

-----------------------------------------------------------------------------
(* Readers: matches. *)

LoadGeneration(w, t) ==
  /\ pc[w] = "idle"
  /\ current_gen' = [current_gen EXCEPT ![w] = generation]
  /\ topic' = [topic EXCEPT ![w] = t]
  /\ observed' = [observed EXCEPT ![w] = recent]
  /\ Goto(w, "lookup")
  /\ UNCHANGED <<shared, hits, todo, picks, recent>>

\* Mutant: whatever is cached is accepted.
CacheHitAnyGeneration(w) == topic_cache[topic[w]] # NoEntry

\* topic_cache.get(topic), and the comparison of generations.
CacheHit(w) == LET e == topic_cache[topic[w]]
               IN  e # NoEntry /\ e.generation = current_gen[w]

LookupHit(w) ==
  /\ pc[w] = "lookup"
  /\ CacheHit(w)
  /\ hits' = [hits EXCEPT ![w] = topic_cache[topic[w]].subscriptions]
  /\ Goto(w, "done")
  /\ UNCHANGED <<shared, topic, current_gen, todo, picks, history>>

LookupMiss(w) ==
  /\ pc[w] = "lookup"
  /\ ~ CacheHit(w)
  /\ Goto(w, "compute")
  /\ UNCHANGED <<shared, locals, history>>

\* trie.matches under the read lock.
Compute(w) ==
  LET found == Matching(trie, topic[w])
  IN  /\ pc[w] = "compute"
      /\ hits' = [hits EXCEPT ![w] = found]
      /\ todo' = [todo EXCEPT ![w] = GroupsIn(found)]
      /\ Goto(w, IF GroupsIn(found) = {} THEN "size" ELSE "pick")
      /\ UNCHANGED <<shared, topic, current_gen, picks, history>>

\* One turn of the loop over share_groups, a hash map: any order.  With the
\* last group done the call returns: has_shared forbids caching.
Pick(w, g) ==
  LET members == Members(hits[w], g)
      idx == share_counters[g] % Cardinality(members)
  IN  /\ pc[w] = "pick"
      /\ g \in todo[w]
      /\ share_counters' = [share_counters EXCEPT ![g] = (@ + 1) % USIZE]
      /\ \E i \in members :
           /\ Cardinality({j \in members : j < i}) = idx
           /\ picks' = [picks EXCEPT ![w] =
                          [h \in DOMAIN @ \cup {g} |->
                             IF h = g THEN hits[w][i] ELSE @[h]]]
      /\ todo' = [todo EXCEPT ![w] = @ \ {g}]
      /\ Goto(w, IF todo[w] = {g} THEN "done" ELSE "pick")
      /\ UNCHANGED <<trie, generation, topic_cache, topic, current_gen, hits,
                     history>>

\* Mutant: the test admits one entry too many.
CheckSizeInclusive(w) ==
  /\ pc[w] = "size"
  /\ Goto(w, IF CacheLen <= TOPIC_CACHE_MAX_SIZE THEN "insert" ELSE "done")
  /\ UNCHANGED <<shared, locals, history>>

\* topic_cache.len() < TOPIC_CACHE_MAX_SIZE; the insertion is a later step.
CheckSize(w) ==
  /\ pc[w] = "size"
  /\ Goto(w, IF CacheLen < TOPIC_CACHE_MAX_SIZE THEN "insert" ELSE "done")
  /\ UNCHANGED <<shared, locals, history>>

\* Mutant: the entry is tagged with the counter as it is at the insertion.
InsertLateGeneration(w) ==
  /\ pc[w] = "insert"
  /\ topic_cache' = [topic_cache EXCEPT ![topic[w]] =
       [subscriptions |-> hits[w], generation |-> generation]]
  /\ Goto(w, "done")
  /\ UNCHANGED <<trie, generation, share_counters, locals, history>>

Insert(w) ==
  /\ pc[w] = "insert"
  /\ topic_cache' = [topic_cache EXCEPT ![topic[w]] =
       [subscriptions |-> hits[w], generation |-> current_gen[w]]]
  /\ Goto(w, "done")
  /\ UNCHANGED <<trie, generation, share_counters, locals, history>>

\* The caller takes the result; the locals of the call die.
Return(w) ==
  /\ pc[w] = "done"
  /\ topic' = [topic EXCEPT ![w] = AnyTopic]
  /\ current_gen' = [current_gen EXCEPT ![w] = 0]
  /\ hits' = [hits EXCEPT ![w] = <<>>]
  /\ picks' = [picks EXCEPT ![w] = <<>>]
  /\ observed' = [observed EXCEPT ![w] = {}]
  /\ Goto(w, "idle")
  /\ UNCHANGED <<shared, todo, recent>>

-----------------------------------------------------------------------------
Init ==
  /\ trie = [f \in Filters |-> <<>>]
  /\ generation = 0
  /\ topic_cache = [t \in Topics |-> NoEntry]
  /\ share_counters = [g \in Groups |-> 0]
  /\ pc = [w \in Workers |-> "idle"]
  /\ topic = [w \in Workers |-> AnyTopic]
  /\ current_gen = [w \in Workers |-> 0]
  /\ hits = [w \in Workers |-> <<>>]
  /\ todo = [w \in Workers |-> {}]
  /\ picks = [w \in Workers |-> <<>>]
  /\ recent = {trie}
  /\ observed = [w \in Workers |-> {}]

Change(w) ==
  \/ \E f \in Filters, sub \in Subscription : subscribe(w, f, sub)
  \/ \E f \in Filters, c \in Clients, g \in Groups \cup {NoGroup} :
       unsubscribe(w, f, c, g)
  \/ \E c \in Clients : unsubscribe_all(w, c)

Step(w) ==
  \/ Invalidate(w) \/ Trim(w) \/ Clear(w)
  \/ LookupHit(w) \/ LookupMiss(w) \/ Compute(w)
  \/ \E g \in Groups : Pick(w, g)
  \/ CheckSize(w) \/ Insert(w) \/ Return(w)

Next ==
  \E w \in Workers :
    \/ Change(w)
    \/ \E t \in Topics : LoadGeneration(w, t)
    \/ Step(w)

Spec == Init /\ [][Next]_vars

-----------------------------------------------------------------------------
(* What the store promises. *)

\* "Cache is invalidated when subscriptions change" (topic/mod.rs:187): once
\* every writer has left invalidate_cache's increment behind, a cached result
\* that a new caller of matches would accept is what the trie holds now, in
\* whatever order the writers and the readers that filled the cache ran.
CacheCoherent ==
  (\A w \in Workers : ~ Pending(w)) =>
    \A t \in Topics :
      /\ topic_cache[t] # NoEntry
      /\ topic_cache[t].generation = generation
      => topic_cache[t].subscriptions = Matching(trie, t)

\* A publish is routed by the subscriptions of one moment, never by a mixture
\* or by ones a completed change has replaced: matches answers from a trie that
\* was in place after the last change completed before the call, or that was
\* written during it, although it looks at generation, cache and trie in three
\* steps.  "only one subscriber per share group is returned" (topic/mod.rs:184):
\* exactly one member of every share group found there is picked.
AnswerIsCurrent ==
  \A w \in Workers : pc[w] = "done" =>
    /\ \E T \in observed[w] : hits[w] = Matching(T, topic[w])
    /\ DOMAIN picks[w] = GroupsIn(hits[w])
    /\ \A g \in DOMAIN picks[w] :
         \E i \in Members(hits[w], g) : picks[w][g] = hits[w][i]

\* Two threads can pass the size test before either inserts, so the limit of
\* the cache is exceeded by at most one entry for every other thread.
CacheBounded ==
  CacheLen + Cardinality({w \in Workers : pc[w] = "insert"})
    <= TOPIC_CACHE_MAX_SIZE + Cardinality(Workers) - 1
=============================================================================
