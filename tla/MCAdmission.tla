----------------------------- MODULE MCAdmission -----------------------------
(* Admission for TLC: a TCP task and spawned ones, an address under the    *)
(* limits, one on the allow list and one on the ban list.                  *)
EXTENDS Admission, TLC

CONSTANTS t1, t2

=============================================================================
