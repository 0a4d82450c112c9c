-------------------------- MODULE MCInboundPublish --------------------------
(* Instances of InboundPublish. *)
EXTENDS InboundPublish

\* Mostly QoS 2; message 2 is QoS 1, and the last one QoS 0.
MCQos == [m \in Messages |-> IF m = 5 THEN 0 ELSE IF m = 2 THEN 1 ELSE 2]
=============================================================================
