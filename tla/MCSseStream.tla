---------------------------- MODULE MCSseStream ----------------------------
(* Small instances of SseStream for TLC. *)
EXTENDS SseStream

\* One client of each stream endpoint, behind one address.
MCKind == [c \in Clients |-> IF c = "w" THEN "ws" ELSE IF c = "m" THEN "multi" ELSE "sse"]
MCIpOf == [c \in Clients |-> "ip"]

\* The multi stream filters out the second event.
MCWanted == [c \in Clients |-> IF c = "m" THEN (1..MaxEvents) \ {2} ELSE 1..MaxEvents]
=============================================================================
