---------------------------- MODULE MCPersistence ----------------------------
(* Instances of Persistence. *)
EXTENDS Persistence

\* Every topic has one publisher.
OwnTopics == [t \in Tasks |-> IF t = "t1" THEN {"a", "b"} ELSE {"c"}]
=============================================================================
