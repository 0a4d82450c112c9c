------------------------------ MODULE DurableLog ------------------------------
(***************************************************************************)
(* What the persistence layer promises: operations take effect on the      *)
(* store in the order in which they were accepted, a run of them at a      *)
(* time; operations may be lost, but none overtakes another and none is    *)
(* split.                                                                  *)
(***************************************************************************)
EXTENDS Naturals, Sequences

CONSTANTS Keys, Versions

VARIABLES
  log,    \* operations accepted and not yet in the store
  store   \* key -> version

Operations == [key : Keys, version : Versions]

\* The operations on a key, and the last one of them.
On(ops, k) == {i \in DOMAIN ops : ops[i].key = k}
Last(ops, k) == CHOOSE i \in On(ops, k) : \A j \in On(ops, k) : j <= i

Apply(ops, s) ==
  [k \in DOMAIN s |-> IF On(ops, k) = {} THEN s[k] ELSE ops[Last(ops, k)].version]

Rest(n) == SubSeq(log, n + 1, Len(log))

Init ==
  /\ log = <<>>
  /\ store = [k \in Keys |-> 0]

Accept == \E op \in Operations : log' = Append(log, op) /\ UNCHANGED store

Commit ==
  \E n \in DOMAIN log :
    /\ store' = Apply(SubSeq(log, 1, n), store)
    /\ log' = Rest(n)

Lose == \E n \in DOMAIN log : log' = Rest(n) /\ UNCHANGED store

Next == Accept \/ Commit \/ Lose

Spec == Init /\ [][Next]_<<log, store>>
=============================================================================
