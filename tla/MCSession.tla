------------------------------ MODULE MCSession ------------------------------
(* Instances of Session.  Message 9 is the retained one. *)
EXTENDS Session

Qos0121 == [m \in Messages |-> IF m = 9 THEN 1 ELSE <<0, 1, 2, 1>>[m]]
=============================================================================
