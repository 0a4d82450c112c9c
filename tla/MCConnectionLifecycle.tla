----------------------- MODULE MCConnectionLifecycle -----------------------
(* Instances of ConnectionLifecycle. *)
EXTENDS ConnectionLifecycle

Packet(clean_start, expiry, will, delay) ==
  [clean_start |-> clean_start, expiry |-> expiry, will |-> will,
   delay |-> delay]

\* v3.1.1 clients with and without clean session; v5 clients with a session that
\* expires and a delayed will.  Clean Start with a session that outlives the
\* connection is left out, and so is a will delay of 0: see SubscribedIsRouted and
\* WillAtMostOnce.
MCConnects ==
  {Packet(TRUE, "zero", TRUE, "absent"), Packet(FALSE, "never", FALSE, "absent"),
   Packet(FALSE, "never", TRUE, "absent"), Packet(FALSE, "finite", TRUE, "positive")}
=============================================================================
