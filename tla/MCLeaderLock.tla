---------------------------- MODULE MCLeaderLock ----------------------------
(* Small instances of LeaderLock for TLC. *)
EXTENDS LeaderLock
=============================================================================
