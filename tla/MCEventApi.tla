----------------------------- MODULE MCEventApi -----------------------------
(* Small instance of EventApi for TLC. *)
EXTENDS EventApi

MCRow == 1..4
MCRowId == 1..3
MCSlots == 1..3
=============================================================================
