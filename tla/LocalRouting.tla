---------------------------- MODULE LocalRouting ----------------------------
(***************************************************************************)
(* How a message that reaches the broker otherwise than from one of its    *)
(* clients is handed to its clients: Broker::publish and the callbacks     *)
(* that create_cluster_manager and create_bridge_manager give to the       *)
(* peers (src/broker/mod.rs), three copies of one piece of code.           *)
(*                                                                         *)
(* A message is a record with its topic, qos, retain flag and whether its  *)
(* payload is empty; a match a record with a client and the QoS of one of  *)
(* its subscriptions.                                                      *)
(***************************************************************************)
EXTENDS Integers, FiniteSets

LOCAL INSTANCE FiniteSetsExt

(* One entry per client that matches, with its highest QoS. *)
client_qos(matches) ==
  [c \in {s.client : s \in matches} |-> Max({s.qos : s \in {r \in matches : r.client = c}})]

(* qos.min(sub_qos) *)
effective_qos(qos, sub_qos) == IF qos <= sub_qos THEN qos ELSE sub_qos

(* A client as the callback finds it: in connections with room in its      *)
(* channel or with none, or not in connections and then with a persistent  *)
(* session, or with none or a clean one.                                   *)
Standings == {"online", "full", "offline", "clean"}

(* The copies the callback makes: who keeps one, where, and at which QoS.  *)
(* try_send on a full channel fails and the copy is dropped, and so it is  *)
(* for a client with neither a connection nor a persistent session.        *)
Copies(matches, msg, standing) ==
  LET best == client_qos(matches)
      kept == {c \in DOMAIN best : standing[c] \in {"online", "offline"}}
  IN  {[client |-> c,
        place |-> IF standing[c] = "online" THEN "channel" ELSE "pending",
        qos |-> effective_qos(msg.qos, best[c])] : c \in kept}

(* The retained message of a topic after the callback. *)
Retain(retained, msg, none) ==
  IF msg.retain
  THEN [retained EXCEPT ![msg.topic] = IF msg.empty THEN none ELSE msg]
  ELSE retained

=============================================================================
