----------------------------- MODULE LeaderLock -----------------------------
(***************************************************************************)
(* Leader election of the indexer (Indexer::run in src/src/indexer.rs) and *)
(* the migration lock (run_migrations in src/src/db.rs with AdvisoryLock   *)
(* in src/src/advisory_lock.rs), over Postgres session-level advisory      *)
(* locks and the connection pool of src/src/db_pool/mod.rs.                *)
(*                                                                         *)
(* A lock belongs to a database session.  run_migrations locks on the      *)
(* connection it has checked out.  Indexer::run checks out a connection    *)
(* too (lock_conn), but takes the lock through the pool, on some other     *)
(* connection, which goes back to the pool while the replica leads.        *)
(***************************************************************************)
EXTENDS Naturals, FiniteSets

CONSTANTS
    Replicas,     \* the processes
    Slots,        \* connections a pool may hold
    MaxAttempts,  \* AdvisoryLockConfig.max_retries
    Reaping,      \* idle_timeout and max_lifetime close pooled connections
    Faults,       \* fault kinds the environment may inject
    MaxFaults,    \* bound: faults during a behaviour
    MaxGone       \* bound: replicas whose run() has given up at one time

FaultKinds == {"crash", "timeout", "migrate", "release", "acquire", "shutdown"}

ASSUME LockAssumption ==
    /\ MaxAttempts \in Nat \ {0}
    /\ Reaping \in BOOLEAN
    /\ Faults \subseteq FaultKinds
    /\ MaxFaults \in Nat /\ MaxGone \in Nat

\* A session is a connection slot of a replica's pool.
Sessions == Replicas \X Slots
Locks == {"migration", "indexer"}

VARIABLES
    phase,     \* where main() and Indexer::run are
    attempt,   \* attempts of AdvisoryLock::acquire
    conn,      \* the slot run_migrations or run (lock_conn) has checked out
    session,   \* server side: "closed", "open" or "orphan" (its client is gone)
    holds,     \* server side: [Locks -> [Sessions -> Nat]], reentrant lock counts
    unbacked,  \* history: leaders whose lock was closed with its session
    faults     \* faults still to come

vars == <<phase, attempt, conn, session, holds, unbacked, faults>>

Phases == {"off", "acquire", "migrate", "ready", "standby", "lead", "gone", "stopped"}

TypeOK ==
    /\ phase \in [Replicas -> Phases]
    /\ attempt \in [Replicas -> 0..MaxAttempts]
    /\ conn \in [Replicas -> Slots]
    /\ session \in [Sessions -> {"closed", "open", "orphan"}]
    /\ holds \in [Locks -> [Sessions -> Nat]]
    /\ unbacked \subseteq Replicas
    /\ faults \in 0..MaxFaults

Init ==
    /\ phase = [r \in Replicas |-> "off"]
    /\ attempt = [r \in Replicas |-> 0]
    /\ conn \in [Replicas -> Slots]
    /\ session = [s \in Sessions |-> "closed"]
    /\ holds = [l \in Locks |-> [s \in Sessions |-> 0]]
    /\ unbacked = {}
    /\ faults = MaxFaults

Fault(f) == f \in Faults /\ faults > 0 /\ faults' = faults - 1

-----------------------------------------------------------------------------
(***************************************************************************)
(* Postgres: a lock is free for a session if no other session holds it.    *)
(***************************************************************************)
Grantable(l, s) == \A t \in Sessions \ {s} : holds[l][t] = 0

\* pg_try_advisory_lock that returned true on session s.
Grant(l, s) == [holds EXCEPT ![l][s] = @ + 1]

\* pg_advisory_unlock on session s: nothing happens if s does not hold it.
Unlock(l, s) == [holds EXCEPT ![l][s] = IF @ > 0 THEN @ - 1 ELSE 0]

\* Seeded bug: a lock that outlives its session, as one kept in a table would.
ReleaseNothing(h, S) == h

\* The lock table h once the sessions in S have ended.
Release(h, S) == [l \in Locks |-> [s \in Sessions |-> IF s \in S THEN 0 ELSE h[l][s]]]

OpenOf(r) == {s \in Sessions : s[1] = r /\ session[s] = "open"}

\* Seeded bug: the migration lock is taken through the pool, as the indexer
\* lock is.
CheckedOutNever(s) == FALSE

\* A checked-out connection is neither reaped nor handed out.
CheckedOut(s) ==
    phase[s[1]] \in {"acquire", "migrate", "standby", "lead"} /\ conn[s[1]] = s[2]

\* The pool hands out connection s, an open one or a new one.
Usable(r, s) == s[1] = r /\ session[s] # "orphan" /\ ~CheckedOut(s)

-----------------------------------------------------------------------------
\* The process exits, its sessions end and leave the lock table h without them.
Exit(r, h) ==
    /\ phase' = [phase EXCEPT ![r] = "off"]
    /\ attempt' = [attempt EXCEPT ![r] = 0]
    /\ session' = [s \in Sessions |-> IF s \in OpenOf(r) THEN "closed" ELSE session[s]]
    /\ holds' = Release(h, OpenOf(r))
    /\ unbacked' = unbacked \ {r}

\* main(): the pool connects, run_migrations checks a connection out.
Start(r) ==
    /\ phase[r] = "off"
    /\ \E s \in Sessions :
          /\ Usable(r, s)
          /\ session' = [session EXCEPT ![s] = "open"]
          /\ conn' = [conn EXCEPT ![r] = s[2]]
    /\ attempt' = [attempt EXCEPT ![r] = 1]
    /\ phase' = [phase EXCEPT ![r] = "acquire"]
    /\ UNCHANGED <<holds, unbacked, faults>>

\* Seeded bug: one attempt too many.
MoreAttemptsOff(r) == attempt[r] <= MaxAttempts
MoreAttempts(r) == attempt[r] < MaxAttempts

\* An attempt got no lock: try again, or give up and let main() return Err.
Retry(r, h) ==
    IF MoreAttempts(r)
    THEN /\ attempt' = [attempt EXCEPT ![r] = @ + 1]
         /\ holds' = h
         /\ UNCHANGED <<phase, session, unbacked>>
    ELSE Exit(r, h)

\* One attempt of acquire_inner.  After a client-side timeout the server may
\* still have granted the lock.
AcquireMigration(r) ==
    LET s == <<r, conn[r]>> IN
    /\ phase[r] = "acquire"
    /\ \/ /\ Grantable("migration", s)
          /\ holds' = Grant("migration", s)
          /\ phase' = [phase EXCEPT ![r] = "migrate"]
          /\ UNCHANGED <<attempt, session, unbacked, faults>>
       \/ ~Grantable("migration", s) /\ Retry(r, holds) /\ UNCHANGED faults
       \/ Fault("timeout") /\ Retry(r, holds)
       \/ Grantable("migration", s) /\ Fault("timeout") /\ Retry(r, Grant("migration", s))
    /\ UNCHANGED conn

\* The migrations have run; the lock is released on the same connection,
\* which goes back to the pool, with the lock if the release failed: its error
\* is ignored.  A failed migration ends the process.
FinishMigration(r) ==
    LET h == Unlock("migration", <<r, conn[r]>>) IN
    /\ phase[r] = "migrate"
    /\ \/ /\ phase' = [phase EXCEPT ![r] = "ready"]
          /\ \/ holds' = h /\ UNCHANGED faults
             \/ UNCHANGED holds /\ Fault("release")
          /\ UNCHANGED <<attempt, session, unbacked>>
       \/ Fault("migrate") /\ Exit(r, h)
    /\ UNCHANGED conn

\* run(): lock_conn is checked out, for as long as run() runs.
TakeLockConn(r) ==
    /\ phase[r] = "ready"
    /\ \E s \in Sessions :
          /\ Usable(r, s)
          /\ session' = [session EXCEPT ![s] = "open"]
          /\ conn' = [conn EXCEPT ![r] = s[2]]
    /\ phase' = [phase EXCEPT ![r] = "standby"]
    /\ UNCHANGED <<attempt, holds, unbacked, faults>>

\* pool.acquire() for lock_conn fails: run() returns and never tries again,
\* while the rest of the process goes on serving.
GiveUp(r) ==
    /\ phase[r] = "ready" /\ Fault("acquire")
    /\ Cardinality({q \in Replicas : phase[q] = "gone"}) < MaxGone
    /\ phase' = [phase EXCEPT ![r] = "gone"]
    /\ UNCHANGED <<attempt, conn, session, holds, unbacked>>

\* Seeded bug: an error of the query counts as success.
AcquiredOrError(s) == TRUE
Acquired(s) == Grantable("indexer", s)

\* Seeded bug: a standby that misses the lock does not poll again.
MissedOnce(r) == phase' = [phase EXCEPT ![r] = "gone"]
Missed(r) == UNCHANGED phase

\* pg_try_advisory_lock on any connection of the pool.
TryLead(r, s) ==
    /\ phase[r] = "standby" /\ Usable(r, s)
    /\ session' = [session EXCEPT ![s] = "open"]
    /\ IF Acquired(s)
       THEN /\ holds' = Grant("indexer", s)
            /\ phase' = [phase EXCEPT ![r] = "lead"]
       ELSE Missed(r) /\ UNCHANGED holds
    /\ UNCHANGED <<attempt, conn, unbacked, faults>>

\* Graceful shutdown of the leader: run_loop returns and pg_advisory_unlock
\* goes to any connection of the pool.
StopLeading(r, s) ==
    /\ phase[r] = "lead" /\ Usable(r, s) /\ Fault("shutdown")
    /\ phase' = [phase EXCEPT ![r] = "stopped"]
    /\ session' = [session EXCEPT ![s] = "open"]
    /\ holds' = Unlock("indexer", s)
    /\ unbacked' = unbacked \ {r}
    /\ UNCHANGED <<attempt, conn>>

\* "Indexer shutting down before acquiring lock"
StopWaiting(r) ==
    /\ phase[r] = "standby" /\ Fault("shutdown")
    /\ phase' = [phase EXCEPT ![r] = "stopped"]
    /\ UNCHANGED <<attempt, conn, session, holds, unbacked>>

\* main() returns after the indexer task has.
Quit(r) ==
    /\ phase[r] = "stopped"
    /\ Exit(r, holds)
    /\ UNCHANGED <<conn, faults>>

\* The process dies; the server has yet to notice.
Crash(r) ==
    /\ phase[r] # "off" /\ Fault("crash")
    /\ phase' = [phase EXCEPT ![r] = "off"]
    /\ attempt' = [attempt EXCEPT ![r] = 0]
    /\ session' = [s \in Sessions |-> IF s \in OpenOf(r) THEN "orphan" ELSE session[s]]
    /\ unbacked' = unbacked \ {r}
    /\ UNCHANGED <<conn, holds>>

\* The server notices that the client of s is gone.
EndOrphan(s) ==
    /\ session[s] = "orphan"
    /\ session' = [session EXCEPT ![s] = "closed"]
    /\ holds' = Release(holds, {s})
    /\ UNCHANGED <<phase, attempt, conn, unbacked, faults>>

\* The pool closes a connection that was idle too long or is too old.
Reap(s) ==
    /\ Reaping /\ session[s] = "open" /\ ~CheckedOut(s)
    /\ session' = [session EXCEPT ![s] = "closed"]
    /\ holds' = Release(holds, {s})
    /\ unbacked' = IF phase[s[1]] = "lead" /\ holds["indexer"][s] > 0
                   THEN unbacked \cup {s[1]} ELSE unbacked
    /\ UNCHANGED <<phase, attempt, conn, faults>>

\* Requests, workers and the indexing loop make the pool open connections.
Connect(s) ==
    /\ phase[s[1]] \in {"ready", "standby", "lead", "gone"} /\ session[s] = "closed"
    /\ session' = [session EXCEPT ![s] = "open"]
    /\ UNCHANGED <<phase, attempt, conn, holds, unbacked, faults>>

Next ==
    \/ \E r \in Replicas : \/ Start(r) \/ AcquireMigration(r) \/ FinishMigration(r)
                           \/ TakeLockConn(r) \/ GiveUp(r) \/ StopWaiting(r) \/ Quit(r)
                           \/ Crash(r)
    \/ \E r \in Replicas, s \in Sessions : TryLead(r, s) \/ StopLeading(r, s)
    \/ \E s \in Sessions : EndOrphan(s) \/ Reap(s) \/ Connect(s)

Spec == Init /\ [][Next]_vars

\* Processes are restarted, run to completion what they started, and poll the
\* lock every indexer_lock_retry_secs; the server ends dead sessions; the
\* pool's maintenance task closes old connections.
Fairness ==
    /\ \A r \in Replicas : /\ WF_vars(Start(r)) /\ WF_vars(AcquireMigration(r))
                           /\ WF_vars(FinishMigration(r)) /\ WF_vars(TakeLockConn(r))
                           /\ WF_vars(Quit(r))
                           /\ WF_vars(\E s \in Sessions : TryLead(r, s))
    /\ \A s \in Sessions : WF_vars(EndOrphan(s)) /\ WF_vars(Reap(s))

FairSpec == Spec /\ Fairness

-----------------------------------------------------------------------------
(***************************************************************************)
(* Properties                                                              *)
(***************************************************************************)

\* "concurrent replicas starting simultaneously do not race each other": at
\* most one replica runs migrations, whatever crashes, timeouts and connection
\* reaping do, because run_migrations keeps its connection checked out.
OneMigrator ==
    \A r, q \in Replicas : phase[r] = "migrate" /\ phase[q] = "migrate" => r = q

\* Two replicas index at once only if the pool closed the connection on which
\* one of them had taken the advisory lock.
LeaderExclusive ==
    \A r, q \in Replicas \ unbacked : phase[r] = "lead" /\ phase[q] = "lead" => r = q

\* "indexing progress is protected by having exactly one writer at a time".
OneLeader == \A r, q \in Replicas : phase[r] = "lead" /\ phase[q] = "lead" => r = q

\* Fail-over: again and again some replica leads, after crashes whose sessions
\* linger, leaked locks and standbys that gave up.
SomeoneLeads == []<>(\E r \in Replicas : phase[r] = "lead")

\* A session keeps the migration lock although its replica is past its
\* migrations: the unlock of FinishMigration failed, or a request that timed
\* out was granted and the one unlock left a count behind.
LockLeaked ==
    \E s \in Sessions : holds["migration"][s] > 0 /\ phase[s[1]] \in {"ready", "standby", "lead", "gone"}

\* Every replica that starts gets through its migrations, even when others
\* crash while they hold the migration lock or fail to migrate, unless a
\* leaked lock stays with a connection that is never closed.
StartupCompletes ==
    \A r \in Replicas :
        <>[]~LockLeaked =>
            (phase[r] = "acquire" ~> phase[r] \in {"ready", "standby", "lead", "gone", "stopped"})
=============================================================================
