-------------------------- MODULE MCSubscriptions --------------------------
(* Small instances of Subscriptions for TLC. *)
EXTENDS Subscriptions

MCRequests == 1..2
MCEvents == 1..2
MCLedgerOf == [e \in MCEvents |-> e]
MCKeyOf == [r \in MCRequests |-> "k"]
=============================================================================
