----------------------------- MODULE MCOutbound -----------------------------
(* Small instances of Outbound for TLC. *)
EXTENDS Outbound

MCFaults == [webhook |-> 3, redis |-> 3, email |-> 1]
=============================================================================
