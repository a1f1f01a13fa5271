------------------------------ MODULE EventApi ------------------------------
(***************************************************************************)
(* The two kinds of requests on the events table beside ingestion: the     *)
(* walks of a client (EventPages) and the jobs of an administrator         *)
(* (EventJobs).  All a walk can see of a job is that rows come and go,     *)
(* which are StoreRow and DeleteRow, and no job sees a walk: every         *)
(* behaviour of one is one in which the other does nothing.                *)
(***************************************************************************)
EXTENDS EventPages, EventJobs

VARIABLE user  \* who uses the table

vars == <<user, pagesVars, jobsVars>>

TypeOK == user \in {"client", "admin"} /\ PagesTypeOK /\ JobsTypeOK

\* The one that does nothing is in one of its first states.
Init ==
    \/ user = "client" /\ PagesInit /\ JobsIdle
    \/ user = "admin" /\ JobsInit /\ PagesIdle

Next ==
    /\ UNCHANGED user
    /\ \/ user = "client" /\ PagesNext /\ UNCHANGED jobsVars
       \/ user = "admin" /\ JobsNext /\ UNCHANGED pagesVars

Spec == Init /\ [][Next]_vars

\* The client asks for the next page; while a job runs, some job goes on
\* (statements and uploads end).
Fairness ==
    /\ WF_vars(user = "client" /\ Page /\ UNCHANGED <<user, jobsVars>>)
    /\ WF_vars(user = "admin" /\ (\E j \in Slots : JobStep(j)) /\ UNCHANGED <<user, chain, pagesVars>>)

FairSpec == Spec /\ Fairness

\* Every walk ends, each cursor being past the one before although the pages
\* are not in the order of the cursors; and every job comes to its end.
RequestsEnd ==
    /\ <>(stage \in {"done", "refused"})
    /\ []<>(\A j \in Slots : ~Running(j))
=============================================================================
