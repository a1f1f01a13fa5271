----------------------------- MODULE IngestLog -----------------------------
(***************************************************************************)
(* What ingestion promises, whoever ingests: the live loop of Indexer and  *)
(* the historical replay of Backfill both implement it.                    *)
(*                                                                         *)
(* Ingestion keeps a set of stored events and resume points, from which a  *)
(* restarted process goes on.  A resume point may be moved forward over an *)
(* event only when the event is stored or given up, in the same step at    *)
(* the latest; it may be moved back at any time.  A stored event stays.    *)
(***************************************************************************)
CONSTANT Events

VARIABLES
    stored,  \* events in the table
    given,   \* events given up for a cause the implementation names
    passed   \* events some resume point has moved over

vars == <<stored, given, passed>>

Init ==
    /\ stored = {}
    /\ given \subseteq Events
    /\ passed \subseteq given

\* Some events are stored, some are given up, and the resume points move.
Ingest ==
    /\ stored \subseteq stored' /\ stored' \subseteq Events
    /\ given \subseteq given' /\ given' \subseteq Events
    /\ passed' \subseteq stored' \cup given'

Spec == Init /\ [][Ingest]_vars
=============================================================================
