------------------------- MODULE LeaderLockProofs -------------------------
(***************************************************************************)
(* Proofs about LeaderLock for any set of replicas, any pool size and any  *)
(* number of faults.  The inductive invariant ties what a process believes *)
(* (its phase) to what the server's lock table says.                       *)
(***************************************************************************)
EXTENDS LeaderLock, TLAPS

\* The server grants a lock to one session at a time.
LockExclusive ==
    \A l \in Locks : \A s, t \in Sessions : holds[l][s] > 0 /\ holds[l][t] > 0 => s = t

\* The connection run_migrations has checked out is alive.
MigrationConnOpen ==
    \A r \in Replicas : phase[r] \in {"acquire", "migrate"} => session[<<r, conn[r]>>] = "open"

MigratorHolds ==
    \A r \in Replicas : phase[r] = "migrate" => holds["migration"][<<r, conn[r]>>] > 0

LeaderHolds ==
    \A r \in Replicas \ unbacked :
        phase[r] = "lead" => \E k \in Slots : /\ session[<<r, k>>] = "open"
                                              /\ holds["indexer"][<<r, k>>] > 0

LockInv == TypeOK /\ LockExclusive /\ MigrationConnOpen /\ MigratorHolds /\ LeaderHolds

-----------------------------------------------------------------------------
\* What pg_try_advisory_lock, pg_advisory_unlock and the end of sessions do to
\* the lock table: its type and exclusiveness survive each of them.
LEMMA GrantFacts ==
    ASSUME holds \in [Locks -> [Sessions -> Nat]], LockExclusive,
           NEW l \in Locks, NEW s \in Sessions, Grantable(l, s)
    PROVE  /\ Grant(l, s) \in [Locks -> [Sessions -> Nat]]
           /\ \A m \in Locks, t \in Sessions : Grant(l, s)[m][t] >= holds[m][t]
           /\ Grant(l, s)[l][s] > 0
           /\ \A m \in Locks : \A t, u \in Sessions :
                 Grant(l, s)[m][t] > 0 /\ Grant(l, s)[m][u] > 0 => t = u
  BY DEF LockExclusive, Grantable, Grant

LEMMA UnlockFacts ==
    ASSUME holds \in [Locks -> [Sessions -> Nat]], LockExclusive,
           NEW l \in Locks, NEW s \in Sessions
    PROVE  /\ Unlock(l, s) \in [Locks -> [Sessions -> Nat]]
           /\ \A m \in Locks, t \in Sessions :
                 (m # l \/ t # s) => Unlock(l, s)[m][t] = holds[m][t]
           /\ \A m \in Locks : \A t, u \in Sessions :
                 Unlock(l, s)[m][t] > 0 /\ Unlock(l, s)[m][u] > 0 => t = u
  <1>1. Unlock(l, s) \in [Locks -> [Sessions -> Nat]]
    BY DEF Unlock
  <1>2. \A m \in Locks, t \in Sessions : (m # l \/ t # s) => Unlock(l, s)[m][t] = holds[m][t]
    BY DEF Unlock
  <1>3. \A m \in Locks, t \in Sessions : Unlock(l, s)[m][t] > 0 => holds[m][t] > 0
    BY DEF Unlock
  <1>4. QED
    BY <1>1, <1>2, <1>3 DEF LockExclusive

LEMMA ReleaseFacts ==
    ASSUME NEW h \in [Locks -> [Sessions -> Nat]], NEW S,
           \A m \in Locks : \A t, u \in Sessions : h[m][t] > 0 /\ h[m][u] > 0 => t = u
    PROVE  /\ Release(h, S) \in [Locks -> [Sessions -> Nat]]
           /\ \A m \in Locks, t \in Sessions : t \notin S => Release(h, S)[m][t] = h[m][t]
           /\ \A m \in Locks : \A t, u \in Sessions :
                 Release(h, S)[m][t] > 0 /\ Release(h, S)[m][u] > 0 => t = u
  BY DEF Release
\* A session that holds a lock still does in a lock table with larger counts.
LEMMA StillHeld ==
    ASSUME NEW g \in [Locks -> [Sessions -> Nat]], NEW h \in [Locks -> [Sessions -> Nat]],
           \A m \in Locks, t \in Sessions : h[m][t] >= g[m][t],
           NEW l \in Locks, NEW s \in Sessions, g[l][s] > 0
    PROVE  h[l][s] > 0
  <1>1. g[l][s] \in Nat /\ h[l][s] \in Nat /\ h[l][s] >= g[l][s]
    OBVIOUS
  <1>2. QED
    BY <1>1

\* The leaders among the other replicas keep their locks when only r changes.
LEMMA LeadersKept ==
    ASSUME LeaderHolds, NEW r, phase'[r] # "lead", unbacked \ {r} \subseteq unbacked',
           \A q \in Replicas \ {r} : phase'[q] = phase[q],
           \A q \in Replicas \ {r}, k \in Slots :
              /\ session'[<<q, k>>] = session[<<q, k>>]
              /\ holds'["indexer"][<<q, k>>] = holds["indexer"][<<q, k>>]
    PROVE  LeaderHolds'
  <1> SUFFICES ASSUME NEW q \in Replicas \ unbacked', phase'[q] = "lead"
               PROVE  \E k \in Slots : session'[<<q, k>>] = "open" /\ holds'["indexer"][<<q, k>>] > 0
    BY DEF LeaderHolds
  <1>1. q \in Replicas \ unbacked /\ q # r /\ phase[q] = "lead"
    OBVIOUS
  <1>2. PICK k \in Slots : session[<<q, k>>] = "open" /\ holds["indexer"][<<q, k>>] > 0
    BY <1>1 DEF LeaderHolds
  <1>3. QED
    BY <1>1, <1>2

\* A process that exits takes its sessions along: nobody else's lock changes.
LEMMA ExitKeepsInv ==
    ASSUME LockInv, NEW r \in Replicas, NEW h \in [Locks -> [Sessions -> Nat]],
           \A m \in Locks : \A t, u \in Sessions : h[m][t] > 0 /\ h[m][u] > 0 => t = u,
           \A m \in Locks, t \in Sessions : t[1] # r => h[m][t] = holds[m][t],
           Exit(r, h), conn' = conn, faults' \in 0..MaxFaults
    PROVE  LockInv'
  <1>1. /\ holds' \in [Locks -> [Sessions -> Nat]]
        /\ \A m \in Locks, t \in Sessions : t \notin OpenOf(r) => holds'[m][t] = h[m][t]
        /\ LockExclusive'
    BY ReleaseFacts DEF Exit, LockExclusive
  <1>2. TypeOK'
    <2>1. phase' \in [Replicas -> Phases] /\ attempt' \in [Replicas -> 0..MaxAttempts]
      BY LockAssumption DEF LockInv, TypeOK, Exit, Phases
    <2>2. session' \in [Sessions -> {"closed", "open", "orphan"}]
      BY DEF LockInv, TypeOK, Exit
    <2>3. unbacked' \subseteq Replicas /\ conn' \in [Replicas -> Slots]
      BY DEF LockInv, TypeOK, Exit
    <2>4. QED
      BY <1>1, <2>1, <2>2, <2>3 DEF TypeOK
  <1>3. \A q \in Replicas \ {r}, k \in Slots :
           /\ phase'[q] = phase[q]
           /\ session'[<<q, k>>] = session[<<q, k>>]
           /\ \A m \in Locks : holds'[m][<<q, k>>] = holds[m][<<q, k>>]
    BY <1>1 DEF LockInv, TypeOK, Exit, OpenOf, Sessions
  <1>4. phase'[r] = "off" /\ unbacked' = unbacked \ {r}
    BY DEF LockInv, TypeOK, Exit
  <1>5. MigrationConnOpen' /\ MigratorHolds'
    BY <1>3, <1>4 DEF LockInv, TypeOK, MigrationConnOpen, MigratorHolds, Locks
  <1>6. LeaderHolds'
    <2>1. \A q \in Replicas \ {r} : phase'[q] = phase[q]
      BY DEF LockInv, TypeOK, Exit
    <2>2. \A q \in Replicas \ {r}, k \in Slots :
             /\ session'[<<q, k>>] = session[<<q, k>>]
             /\ holds'["indexer"][<<q, k>>] = holds["indexer"][<<q, k>>]
      BY <1>3 DEF Locks
    <2>3. QED
      BY <1>4, <2>1, <2>2, LeadersKept DEF LockInv
  <1>7. QED
    BY <1>1, <1>2, <1>5, <1>6 DEF LockInv

\* A fault lowers the budget and nothing else is said of it.
LEMMA FaultBudget ==
    ASSUME faults \in 0..MaxFaults, NEW f, Fault(f)
    PROVE  faults' \in 0..MaxFaults
  BY LockAssumption DEF Fault

LEMMA InitInv == Init => LockInv
  <1> SUFFICES ASSUME Init PROVE LockInv
    OBVIOUS
  <1>1. TypeOK
    BY LockAssumption DEF Init, TypeOK, Phases
  <1>2. LockExclusive
    BY DEF Init, LockExclusive
  <1>3. MigrationConnOpen /\ MigratorHolds /\ LeaderHolds
    BY DEF Init, MigrationConnOpen, MigratorHolds, LeaderHolds
  <1>4. QED
    BY <1>1, <1>2, <1>3 DEF LockInv
\* AdvisoryLock::acquire, granted: the migrator holds what it was granted.
LEMMA AcquireKeepsInv ==
    ASSUME LockInv, NEW r \in Replicas, AcquireMigration(r)
    PROVE  LockInv'
  <1> DEFINE s == <<r, conn[r]>>
  <1>0. s \in Sessions /\ session[s] = "open" /\ phase[r] = "acquire"
    BY DEF LockInv, TypeOK, Sessions, MigrationConnOpen, AcquireMigration
  <1>f. faults' \in 0..MaxFaults
    BY FaultBudget DEF LockInv, TypeOK, AcquireMigration
  <1>a. ASSUME NEW h \in [Locks -> [Sessions -> Nat]],
               \A m \in Locks : \A t, u \in Sessions : h[m][t] > 0 /\ h[m][u] > 0 => t = u,
               \A m \in Locks, t \in Sessions : t # s => h[m][t] = holds[m][t],
               \A m \in Locks, t \in Sessions : h[m][t] >= holds[m][t],
               Retry(r, h), conn' = conn
        PROVE  LockInv'
    <2>1. CASE MoreAttempts(r)
      <3>1. holds' = h /\ UNCHANGED <<phase, session, unbacked, conn>>
        BY <1>a, <2>1 DEF Retry
      <3>2. attempt' \in [Replicas -> 0..MaxAttempts]
        BY <1>a, <2>1, LockAssumption DEF Retry, MoreAttempts, LockInv, TypeOK
      <3>3. TypeOK'
        BY <1>a, <1>f, <3>1, <3>2 DEF LockInv, TypeOK
      <3>4. LockExclusive' /\ MigrationConnOpen'
        BY <1>a, <3>1 DEF LockInv, LockExclusive, MigrationConnOpen
      <3>5. MigratorHolds'
        <4> SUFFICES ASSUME NEW q \in Replicas, phase[q] = "migrate"
                     PROVE  h["migration"][<<q, conn[q]>>] > 0
          BY <3>1 DEF MigratorHolds
        <4>1. <<q, conn[q]>> \in Sessions /\ "migration" \in Locks
          BY DEF LockInv, TypeOK, Sessions, Locks
        <4>2. holds["migration"][<<q, conn[q]>>] > 0
          BY DEF LockInv, MigratorHolds
        <4>3. QED
          BY <4>1, <4>2, <1>a, StillHeld DEF LockInv, TypeOK
      <3>6. LeaderHolds'
        <4> SUFFICES ASSUME NEW q \in Replicas \ unbacked, phase[q] = "lead"
                     PROVE  \E k \in Slots : session[<<q, k>>] = "open" /\ h["indexer"][<<q, k>>] > 0
          BY <3>1 DEF LeaderHolds
        <4>1. PICK k \in Slots : session[<<q, k>>] = "open" /\ holds["indexer"][<<q, k>>] > 0
          BY DEF LockInv, LeaderHolds
        <4>2. <<q, k>> \in Sessions /\ "indexer" \in Locks
          BY DEF Sessions, Locks
        <4>3. h["indexer"][<<q, k>>] > 0
          BY <4>1, <4>2, <1>a, StillHeld DEF LockInv, TypeOK
        <4>4. QED
          BY <4>1, <4>3
      <3>7. QED
        BY <3>3, <3>4, <3>5, <3>6 DEF LockInv
    <2>2. CASE ~MoreAttempts(r)
      <3>1. Exit(r, h)
        BY <1>a, <2>2 DEF Retry
      <3>2. \A m \in Locks, t \in Sessions : t[1] # r => h[m][t] = holds[m][t]
        BY <1>a
      <3>3. QED
        BY <1>a, <1>f, <3>1, <3>2, ExitKeepsInv
    <2>3. QED
      BY <2>1, <2>2
  <1>1. CASE Retry(r, holds) /\ conn' = conn
    BY <1>1, <1>a DEF LockInv, TypeOK, LockExclusive
  <1>2. CASE Grantable("migration", s) /\ Retry(r, Grant("migration", s)) /\ conn' = conn
    <2>1. \A m \in Locks, t \in Sessions : t # s => Grant("migration", s)[m][t] = holds[m][t]
      BY <1>0 DEF Grant, LockInv, TypeOK
    <2>2. QED
      BY <1>0, <1>2, <1>a, <2>1, GrantFacts DEF LockInv, TypeOK, Locks
  <1>3. CASE /\ Grantable("migration", s) /\ holds' = Grant("migration", s)
             /\ phase' = [phase EXCEPT ![r] = "migrate"]
             /\ UNCHANGED <<attempt, session, unbacked, conn>>
    <2>1. /\ holds' \in [Locks -> [Sessions -> Nat]]
          /\ \A m \in Locks, t \in Sessions : holds'[m][t] >= holds[m][t]
          /\ holds'["migration"][s] > 0
          /\ LockExclusive'
      BY <1>0, <1>3, GrantFacts DEF LockInv, TypeOK, Locks, LockExclusive
    <2>2. TypeOK'
      BY <1>3, <1>f, <2>1 DEF LockInv, TypeOK, Phases
    <2>3. MigrationConnOpen'
      BY <1>0, <1>3 DEF LockInv, TypeOK, MigrationConnOpen
    <2>4. MigratorHolds'
      <3> SUFFICES ASSUME NEW q \in Replicas, phase'[q] = "migrate"
                   PROVE  holds'["migration"][<<q, conn[q]>>] > 0
        BY <1>3 DEF MigratorHolds
      <3>1. CASE q = r
        BY <3>1, <2>1
      <3>2. CASE q # r
        <4>1. holds["migration"][<<q, conn[q]>>] > 0
          BY <3>2, <1>3 DEF LockInv, TypeOK, MigratorHolds
        <4>2. <<q, conn[q]>> \in Sessions /\ "migration" \in Locks
          BY DEF LockInv, TypeOK, Sessions, Locks
        <4>3. QED
          BY <4>1, <4>2, <2>1, StillHeld DEF LockInv, TypeOK
      <3>3. QED
        BY <3>1, <3>2
    <2>5. LeaderHolds'
      <3> SUFFICES ASSUME NEW q \in Replicas \ unbacked, phase'[q] = "lead"
                   PROVE  \E k \in Slots : session[<<q, k>>] = "open" /\ holds'["indexer"][<<q, k>>] > 0
        BY <1>3 DEF LeaderHolds
      <3>1. PICK k \in Slots : session[<<q, k>>] = "open" /\ holds["indexer"][<<q, k>>] > 0
        BY <1>0, <1>3 DEF LockInv, TypeOK, LeaderHolds
      <3>2. <<q, k>> \in Sessions /\ "indexer" \in Locks
        BY DEF Sessions, Locks
      <3>3. holds'["indexer"][<<q, k>>] > 0
        BY <3>1, <3>2, <2>1, StillHeld DEF LockInv, TypeOK
      <3>4. QED
        BY <3>1, <3>3
    <2>6. QED
      BY <2>1, <2>2, <2>3, <2>4, <2>5 DEF LockInv
  <1>4. QED
    BY <1>1, <1>2, <1>3 DEF AcquireMigration
\* run_migrations returns, with the lock released or its process gone.
LEMMA FinishKeepsInv ==
    ASSUME LockInv, NEW r \in Replicas, FinishMigration(r)
    PROVE  LockInv'
  <1> DEFINE s == <<r, conn[r]>>
             h == Unlock("migration", s)
  <1>0. s \in Sessions /\ phase[r] = "migrate" /\ conn' = conn
    BY DEF LockInv, TypeOK, Sessions, FinishMigration
  <1>f. faults' \in 0..MaxFaults
    BY FaultBudget DEF LockInv, TypeOK, FinishMigration
  <1>h. /\ h \in [Locks -> [Sessions -> Nat]]
        /\ \A m \in Locks, t \in Sessions : (m # "migration" \/ t # s) => h[m][t] = holds[m][t]
        /\ \A m \in Locks : \A t, u \in Sessions : h[m][t] > 0 /\ h[m][u] > 0 => t = u
    BY <1>0, UnlockFacts DEF LockInv, TypeOK, Locks
  <1>1. CASE Exit(r, h)
    <2>0. s[1] = r
      OBVIOUS
    <2> HIDE DEF s
    <2>1. \A m \in Locks, t \in Sessions : t[1] # r => h[m][t] = holds[m][t]
      BY <1>h, <2>0
    <2> HIDE DEF h
    <2>2. QED
      BY <1>0, <1>f, <1>h, <1>1, <2>1, ExitKeepsInv
  <1>k. /\ holds \in [Locks -> [Sessions -> Nat]]
        /\ \A m \in Locks : \A t, u \in Sessions : holds[m][t] > 0 /\ holds[m][u] > 0 => t = u
    BY DEF LockInv, TypeOK, LockExclusive
  <1>2. ASSUME NEW g \in [Locks -> [Sessions -> Nat]],
               \A m \in Locks, t \in Sessions : (m # "migration" \/ t # s) => g[m][t] = holds[m][t],
               \A m \in Locks : \A t, u \in Sessions : g[m][t] > 0 /\ g[m][u] > 0 => t = u,
               phase' = [phase EXCEPT ![r] = "ready"], holds' = g,
               UNCHANGED <<attempt, session, unbacked>>
        PROVE  LockInv'
    <2>1. TypeOK'
      BY <1>0, <1>f, <1>2 DEF LockInv, TypeOK, Phases
    <2>2. LockExclusive' /\ MigrationConnOpen'
      BY <1>0, <1>2 DEF LockInv, TypeOK, LockExclusive, MigrationConnOpen
    <2>3. MigratorHolds'
      <3> SUFFICES ASSUME NEW q \in Replicas, phase'[q] = "migrate"
                   PROVE  holds'["migration"][<<q, conn[q]>>] > 0
        BY <1>0 DEF MigratorHolds
      <3>1. q # r /\ phase[q] = "migrate"
        BY <1>2 DEF LockInv, TypeOK
      <3>2. <<q, conn[q]>> \in Sessions /\ <<q, conn[q]>> # s /\ "migration" \in Locks
        BY <3>1 DEF LockInv, TypeOK, Sessions, Locks
      <3>3. QED
        BY <1>2, <3>1, <3>2 DEF LockInv, MigratorHolds
    <2>4. LeaderHolds'
      <3>1. \A t \in Sessions : holds'["indexer"][t] = holds["indexer"][t]
        BY <1>2 DEF Locks
      <3>2. QED
        BY <1>2, <3>1 DEF LockInv, TypeOK, LeaderHolds, Sessions
    <2>5. QED
      BY <2>1, <2>2, <2>3, <2>4 DEF LockInv
  <1>3. \/ Exit(r, h)
        \/ /\ phase' = [phase EXCEPT ![r] = "ready"] /\ holds' \in {h, holds}
           /\ UNCHANGED <<attempt, session, unbacked>>
    BY DEF FinishMigration
  <1> HIDE DEF s, h
  <1>4. QED
    BY <1>1, <1>2, <1>3, <1>h, <1>k

\* pg_try_advisory_lock through the pool: a grant adds a leader that holds it.
LEMMA TryLeadKeepsInv ==
    ASSUME LockInv, NEW r \in Replicas, NEW s \in Sessions, TryLead(r, s)
    PROVE  LockInv'
  <1>0. /\ phase[r] = "standby" /\ s[1] = r /\ s[2] \in Slots /\ s = <<r, s[2]>>
        /\ session' = [session EXCEPT ![s] = "open"]
        /\ UNCHANGED <<attempt, conn, unbacked, faults>>
    BY DEF TryLead, Usable, Sessions
  <1>1. CASE ~Acquired(s) /\ UNCHANGED <<phase, holds>>
    <2>1. TypeOK' /\ LockExclusive' /\ MigrationConnOpen' /\ MigratorHolds'
      BY <1>0, <1>1 DEF LockInv, TypeOK, LockExclusive, MigrationConnOpen, MigratorHolds, Sessions
    <2>2. LeaderHolds'
      BY <1>0, <1>1 DEF LockInv, TypeOK, LeaderHolds, Sessions
    <2>3. QED
      BY <2>1, <2>2 DEF LockInv
  <1>2. CASE /\ Grantable("indexer", s) /\ holds' = Grant("indexer", s)
             /\ phase' = [phase EXCEPT ![r] = "lead"]
    <2>1. /\ holds' \in [Locks -> [Sessions -> Nat]]
          /\ holds'["indexer"][s] > 0
          /\ LockExclusive'
      BY <1>2, GrantFacts DEF LockInv, TypeOK, Locks, LockExclusive
    <2>2. \A m \in Locks, t \in Sessions : (m # "indexer" \/ t # s) => holds'[m][t] = holds[m][t]
      BY <1>2 DEF Grant, LockInv, TypeOK
    <2>3. TypeOK'
      BY <1>0, <1>2, <2>1 DEF LockInv, TypeOK, Phases
    <2>4. MigrationConnOpen' /\ MigratorHolds'
      <3>1. \A t \in Sessions : holds'["migration"][t] = holds["migration"][t]
        BY <2>2 DEF Locks
      <3>2. \A q \in Replicas : <<q, conn[q]>> \in Sessions
        BY DEF LockInv, TypeOK, Sessions
      <3>3. QED
        BY <1>0, <1>2, <3>1, <3>2 DEF LockInv, TypeOK, MigrationConnOpen, MigratorHolds
    <2>5. LeaderHolds'
      <3> SUFFICES ASSUME NEW q \in Replicas \ unbacked, phase'[q] = "lead"
                   PROVE  \E k \in Slots : session'[<<q, k>>] = "open" /\ holds'["indexer"][<<q, k>>] > 0
        BY <1>0 DEF LeaderHolds
      <3>1. CASE q = r
        BY <1>0, <2>1, <3>1 DEF LockInv, TypeOK
      <3>2. CASE q # r
        <4>1. PICK k \in Slots : session[<<q, k>>] = "open" /\ holds["indexer"][<<q, k>>] > 0
          BY <1>2, <3>2 DEF LockInv, TypeOK, LeaderHolds
        <4>2. <<q, k>> \in Sessions /\ <<q, k>> # s
          BY <1>0, <3>2 DEF Sessions
        <4>3. session'[<<q, k>>] = "open" /\ holds'["indexer"][<<q, k>>] > 0
          BY <1>0, <2>2, <4>1, <4>2 DEF LockInv, TypeOK, Locks
        <4>4. QED
          BY <4>3
      <3>3. QED
        BY <3>1, <3>2
    <2>6. QED
      BY <2>1, <2>3, <2>4, <2>5 DEF LockInv
  <1>3. QED
    BY <1>1, <1>2 DEF TryLead, Acquired, Missed
\* pg_advisory_unlock through the pool, on whichever session of the leader.
LEMMA StopLeadingKeepsInv ==
    ASSUME LockInv, NEW r \in Replicas, NEW s \in Sessions, StopLeading(r, s)
    PROVE  LockInv'
  <1>0. /\ s[1] = r /\ phase[r] = "lead" /\ holds' = Unlock("indexer", s)
        /\ phase' = [phase EXCEPT ![r] = "stopped"]
        /\ session' = [session EXCEPT ![s] = "open"]
        /\ unbacked' = unbacked \ {r} /\ UNCHANGED <<attempt, conn>>
    BY DEF StopLeading, Usable
  <1>1. /\ holds' \in [Locks -> [Sessions -> Nat]]
        /\ \A m \in Locks, t \in Sessions : (m # "indexer" \/ t # s) => holds'[m][t] = holds[m][t]
        /\ LockExclusive'
    BY <1>0, UnlockFacts DEF LockInv, TypeOK, Locks, LockExclusive
  <1>2. faults' \in 0..MaxFaults
    BY FaultBudget DEF LockInv, TypeOK, StopLeading
  <1>3. TypeOK'
    BY <1>0, <1>1, <1>2 DEF LockInv, TypeOK, Phases
  <1>4. MigrationConnOpen' /\ MigratorHolds'
    <2>1. \A t \in Sessions : holds'["migration"][t] = holds["migration"][t]
      BY <1>1 DEF Locks
    <2>2. \A q \in Replicas : <<q, conn[q]>> \in Sessions
      BY DEF LockInv, TypeOK, Sessions
    <2>3. QED
      BY <1>0, <2>1, <2>2 DEF LockInv, TypeOK, MigrationConnOpen, MigratorHolds
  <1>5. LeaderHolds'
    <2>1. \A q \in Replicas \ {r}, k \in Slots :
             /\ holds'["indexer"][<<q, k>>] = holds["indexer"][<<q, k>>]
             /\ session'[<<q, k>>] = session[<<q, k>>]
      BY <1>0, <1>1 DEF LockInv, TypeOK, Sessions, Locks
    <2>2. QED
      BY <1>0, <2>1, LeadersKept DEF LockInv, TypeOK
  <1>6. QED
    BY <1>1, <1>3, <1>4, <1>5 DEF LockInv

\* The end of one session s that no migrator has checked out; a leader that
\* loses its lock with s is in unbacked afterwards.
LEMMA EndSessionKeepsInv ==
    ASSUME LockInv, NEW s \in Sessions,
           session' = [session EXCEPT ![s] = "closed"], holds' = Release(holds, {s}),
           UNCHANGED <<phase, attempt, conn, faults>>,
           unbacked' \subseteq Replicas, unbacked \subseteq unbacked',
           phase[s[1]] \in {"acquire", "migrate"} => s # <<s[1], conn[s[1]]>>,
           \/ session[s] # "open"
           \/ phase[s[1]] = "lead" /\ holds["indexer"][s] > 0 => s[1] \in unbacked'
    PROVE  LockInv'
  <1>1. /\ holds' \in [Locks -> [Sessions -> Nat]]
        /\ \A m \in Locks, t \in Sessions : t # s => holds'[m][t] = holds[m][t]
        /\ LockExclusive'
    <2>1. holds \in [Locks -> [Sessions -> Nat]]
      BY DEF LockInv, TypeOK
    <2>2. \A m \in Locks : \A t, u \in Sessions : holds[m][t] > 0 /\ holds[m][u] > 0 => t = u
      BY DEF LockInv, LockExclusive
    <2>3. QED
      BY <2>1, <2>2, ReleaseFacts DEF LockExclusive
  <1>2. TypeOK'
    BY <1>1 DEF LockInv, TypeOK
  <1>3. MigrationConnOpen' /\ MigratorHolds'
    <2>1. \A q \in Replicas : /\ <<q, conn[q]>> \in Sessions
                              /\ phase[q] \in {"acquire", "migrate"} => <<q, conn[q]>> # s
      BY DEF LockInv, TypeOK, Sessions
    <2>2. QED
      BY <1>1, <2>1 DEF LockInv, TypeOK, MigrationConnOpen, MigratorHolds, Locks
  <1>4. LeaderHolds'
    <2> SUFFICES ASSUME NEW q \in Replicas \ unbacked', phase[q] = "lead"
                 PROVE  \E k \in Slots : session'[<<q, k>>] = "open" /\ holds'["indexer"][<<q, k>>] > 0
      BY DEF LeaderHolds
    <2>1. PICK k \in Slots : session[<<q, k>>] = "open" /\ holds["indexer"][<<q, k>>] > 0
      BY DEF LockInv, LeaderHolds
    <2>2. <<q, k>> \in Sessions /\ <<q, k>> # s
      BY <2>1 DEF Sessions
    <2>3. QED
      BY <1>1, <2>1, <2>2 DEF LockInv, TypeOK, Locks
  <1>5. QED
    BY <1>1, <1>2, <1>3, <1>4 DEF LockInv

\* The steps that neither take nor give a lock.
LEMMA OtherStepsKeepInv ==
    ASSUME LockInv, NEW r \in Replicas,
           \/ Start(r) \/ TakeLockConn(r) \/ GiveUp(r) \/ StopWaiting(r) \/ Crash(r)
    PROVE  LockInv'
  <1>f. faults' \in 0..MaxFaults
    BY FaultBudget DEF LockInv, TypeOK, Start, TakeLockConn, GiveUp, StopWaiting, Crash
  <1>1. CASE Start(r)
    <2>1. PICK s \in Sessions : /\ Usable(r, s) /\ session' = [session EXCEPT ![s] = "open"]
                                /\ conn' = [conn EXCEPT ![r] = s[2]]
      BY <1>1 DEF Start
    <2>2. s[1] = r /\ s[2] \in Slots /\ s = <<r, s[2]>>
      BY <2>1 DEF Usable, Sessions
    <2>3. TypeOK'
      BY <1>1, <1>f, <2>1, <2>2, LockAssumption DEF LockInv, TypeOK, Start, Phases
    <2>4. LockExclusive' /\ MigratorHolds'
      BY <1>1, <2>1, <2>2 DEF LockInv, TypeOK, Start, LockExclusive, MigratorHolds
    <2>7. MigrationConnOpen'
      <3> SUFFICES ASSUME NEW q \in Replicas, phase'[q] \in {"acquire", "migrate"}
                   PROVE  session'[<<q, conn'[q]>>] = "open"
        BY DEF MigrationConnOpen
      <3>1. CASE q = r
        BY <3>1, <2>1, <2>2 DEF LockInv, TypeOK
      <3>2. CASE q # r
        <4>1. phase[q] \in {"acquire", "migrate"} /\ conn'[q] = conn[q]
          BY <1>1, <2>1, <3>2 DEF LockInv, TypeOK, Start
        <4>2. session[<<q, conn[q]>>] = "open" /\ <<q, conn[q]>> \in Sessions
          BY <4>1 DEF LockInv, TypeOK, MigrationConnOpen, Sessions
        <4>3. QED
          BY <2>1, <4>1, <4>2 DEF LockInv, TypeOK
      <3>3. QED
        BY <3>1, <3>2
    <2>5. LeaderHolds'
      BY <1>1, <2>1 DEF LockInv, TypeOK, Start, LeaderHolds, Sessions
    <2>6. QED
      BY <2>3, <2>4, <2>5, <2>7 DEF LockInv
  <1>2. CASE TakeLockConn(r)
    <2>1. PICK s \in Sessions : /\ Usable(r, s) /\ session' = [session EXCEPT ![s] = "open"]
                                /\ conn' = [conn EXCEPT ![r] = s[2]]
      BY <1>2 DEF TakeLockConn
    <2>2. s[1] = r /\ s[2] \in Slots /\ s = <<r, s[2]>>
      BY <2>1 DEF Usable, Sessions
    <2>3. TypeOK'
      BY <1>2, <1>f, <2>1, <2>2 DEF LockInv, TypeOK, TakeLockConn, Phases
    <2>4. LockExclusive' /\ MigrationConnOpen' /\ MigratorHolds'
      BY <1>2, <2>1, <2>2 DEF LockInv, TypeOK, TakeLockConn, LockExclusive, MigrationConnOpen, MigratorHolds, Sessions
    <2>5. LeaderHolds'
      BY <1>2, <2>1 DEF LockInv, TypeOK, TakeLockConn, LeaderHolds, Sessions
    <2>6. QED
      BY <2>3, <2>4, <2>5 DEF LockInv
  <1>3. CASE GiveUp(r) \/ StopWaiting(r)
    <2>1. /\ \E p \in {"gone", "stopped"} : phase' = [phase EXCEPT ![r] = p]
          /\ UNCHANGED <<attempt, conn, session, holds, unbacked>>
      BY <1>3 DEF GiveUp, StopWaiting
    <2>2. TypeOK'
      BY <1>f, <2>1 DEF LockInv, TypeOK, Phases
    <2>3. LockExclusive' /\ MigrationConnOpen' /\ MigratorHolds' /\ LeaderHolds'
      BY <2>1 DEF LockInv, TypeOK, LockExclusive, MigrationConnOpen, MigratorHolds, LeaderHolds
    <2>4. QED
      BY <2>2, <2>3 DEF LockInv
  <1>4. CASE Crash(r)
    <2>1. TypeOK'
      <3>1. session' \in [Sessions -> {"closed", "open", "orphan"}]
        BY <1>4 DEF LockInv, TypeOK, Crash
      <3>2. QED
        BY <1>4, <1>f, <3>1, LockAssumption DEF LockInv, TypeOK, Crash, Phases
    <2>2. \A q \in Replicas \ {r}, k \in Slots : session'[<<q, k>>] = session[<<q, k>>]
      BY <1>4 DEF LockInv, TypeOK, Crash, OpenOf, Sessions
    <2>3. LockExclusive' /\ MigrationConnOpen' /\ MigratorHolds'
      BY <1>4, <2>2 DEF LockInv, TypeOK, Crash, LockExclusive, MigrationConnOpen, MigratorHolds
    <2>4. LeaderHolds'
      BY <1>4, <2>2 DEF LockInv, TypeOK, Crash, LeaderHolds
    <2>5. QED
      BY <2>1, <2>3, <2>4 DEF LockInv
  <1>5. QED
    BY <1>1, <1>2, <1>3, <1>4
-----------------------------------------------------------------------------
\* One step per action of LeaderLock.
LEMMA NextInv == LockInv /\ [Next]_vars => LockInv'
  <1> SUFFICES ASSUME LockInv, [Next]_vars PROVE LockInv'
    OBVIOUS
  <1>1. ASSUME NEW r \in Replicas, AcquireMigration(r) PROVE LockInv'
    BY <1>1, AcquireKeepsInv
  <1>2. ASSUME NEW r \in Replicas, FinishMigration(r) PROVE LockInv'
    BY <1>2, FinishKeepsInv
  <1>3. ASSUME NEW r \in Replicas,
               \/ Start(r) \/ TakeLockConn(r) \/ GiveUp(r) \/ StopWaiting(r) \/ Crash(r)
        PROVE  LockInv'
    BY <1>3, OtherStepsKeepInv
  <1>4. ASSUME NEW r \in Replicas, Quit(r) PROVE LockInv'
    <2>1. Exit(r, holds) /\ conn' = conn /\ faults' \in 0..MaxFaults
      BY <1>4 DEF Quit, LockInv, TypeOK
    <2>2. QED
      BY <2>1, ExitKeepsInv DEF LockInv, TypeOK, LockExclusive
  <1>5. ASSUME NEW r \in Replicas, NEW s \in Sessions, TryLead(r, s) PROVE LockInv'
    BY <1>5, TryLeadKeepsInv
  <1>6. ASSUME NEW r \in Replicas, NEW s \in Sessions, StopLeading(r, s) PROVE LockInv'
    BY <1>6, StopLeadingKeepsInv
  <1>7. ASSUME NEW s \in Sessions, EndOrphan(s) PROVE LockInv'
    <2>1. session[s] = "orphan" /\ s[1] \in Replicas
      BY <1>7 DEF EndOrphan, Sessions
    <2>2. phase[s[1]] \in {"acquire", "migrate"} => s # <<s[1], conn[s[1]]>>
      BY <2>1 DEF LockInv, MigrationConnOpen
    <2>3. QED
      BY <1>7, <2>1, <2>2, EndSessionKeepsInv DEF EndOrphan, LockInv, TypeOK
  <1>8. ASSUME NEW s \in Sessions, Reap(s) PROVE LockInv'
    <2>1. s[1] \in Replicas /\ s = <<s[1], s[2]>>
      BY DEF Sessions
    <2>2. phase[s[1]] \in {"acquire", "migrate"} => s # <<s[1], conn[s[1]]>>
      BY <1>8, <2>1 DEF Reap, CheckedOut
    <2>3. unbacked' \subseteq Replicas /\ unbacked \subseteq unbacked'
      BY <1>8, <2>1 DEF Reap, LockInv, TypeOK
    <2>4. phase[s[1]] = "lead" /\ holds["indexer"][s] > 0 => s[1] \in unbacked'
      BY <1>8 DEF Reap
    <2>5. QED
      BY <1>8, <2>2, <2>3, <2>4, EndSessionKeepsInv DEF Reap
  <1>9. ASSUME NEW s \in Sessions, Connect(s) PROVE LockInv'
    <2>1. TypeOK' /\ LockExclusive' /\ MigrationConnOpen' /\ MigratorHolds'
      BY <1>9 DEF Connect, LockInv, TypeOK, LockExclusive, MigrationConnOpen, MigratorHolds, Sessions
    <2>2. LeaderHolds'
      BY <1>9 DEF Connect, LockInv, TypeOK, LeaderHolds, Sessions
    <2>3. QED
      BY <2>1, <2>2 DEF LockInv
  <1>10. CASE UNCHANGED vars
    BY <1>10 DEF vars, LockInv, TypeOK, LockExclusive, MigrationConnOpen, MigratorHolds, LeaderHolds
  <1>11. QED
    BY <1>1, <1>2, <1>3, <1>4, <1>5, <1>6, <1>7, <1>8, <1>9, <1>10 DEF Next

THEOREM LockInvariance == Spec => []LockInv
  BY InitInv, NextInv, PTL DEF Spec

\* The variables of LeaderLock keep their types: in particular the retry loop
\* of acquire_inner never counts beyond max_retries.
THEOREM LockTypes == Spec => []TypeOK
  <1>1. LockInv => TypeOK
    BY DEF LockInv
  <1>2. QED
    BY <1>1, LockInvariance, PTL

\* However many replicas start, time out, crash and restart, at most one of
\* them is between the acquire and the release of run_migrations.
THEOREM MigrationsExclusive == Spec => []OneMigrator
  <1>1. LockInv => OneMigrator
    <2> SUFFICES ASSUME LockInv, NEW r \in Replicas, NEW q \in Replicas,
                        phase[r] = "migrate", phase[q] = "migrate"
                 PROVE  r = q
      BY DEF OneMigrator
    <2>1. holds["migration"][<<r, conn[r]>>] > 0 /\ holds["migration"][<<q, conn[q]>>] > 0
      BY DEF LockInv, MigratorHolds
    <2>2. <<r, conn[r]>> \in Sessions /\ <<q, conn[q]>> \in Sessions /\ "migration" \in Locks
      BY DEF LockInv, TypeOK, Sessions, Locks
    <2>3. <<r, conn[r]>> = <<q, conn[q]>>
      BY <2>1, <2>2 DEF LockInv, LockExclusive
    <2>4. QED
      BY <2>3
  <1>2. QED
    BY <1>1, LockInvariance, PTL

\* Two leaders at once are possible only after the pool has closed the session
\* on which one of them took the lock.
THEOREM LeadersExclusive == Spec => []LeaderExclusive
  <1>1. LockInv => LeaderExclusive
    <2> SUFFICES ASSUME LockInv, NEW r \in Replicas \ unbacked, NEW q \in Replicas \ unbacked,
                        phase[r] = "lead", phase[q] = "lead"
                 PROVE  r = q
      BY DEF LeaderExclusive
    <2>1. PICK j \in Slots : holds["indexer"][<<r, j>>] > 0
      BY DEF LockInv, LeaderHolds
    <2>2. PICK k \in Slots : holds["indexer"][<<q, k>>] > 0
      BY DEF LockInv, LeaderHolds
    <2>3. <<r, j>> \in Sessions /\ <<q, k>> \in Sessions /\ "indexer" \in Locks
      BY DEF Sessions, Locks
    <2>4. <<r, j>> = <<q, k>>
      BY <2>1, <2>2, <2>3 DEF LockInv, LockExclusive
    <2>5. QED
      BY <2>4
  <1>2. QED
    BY <1>1, LockInvariance, PTL

\* Were idle_timeout and max_lifetime off, the single-writer claim would hold:
\* the reaping of the lock's connection is its only gap in this model.
THEOREM OneLeaderWithoutReaping == Spec => [](Reaping \/ OneLeader)
  <1>1. Init => Reaping \/ unbacked = {}
    BY DEF Init
  <1>2. (Reaping \/ unbacked = {}) /\ [Next]_vars => (Reaping \/ unbacked = {})'
    BY DEF Next, vars, Start, AcquireMigration, Retry, Exit, FinishMigration, TakeLockConn, GiveUp,
           StopWaiting, Quit, Crash, TryLead, StopLeading, EndOrphan, Reap, Connect
  <1>3. (Reaping \/ unbacked = {}) /\ LeaderExclusive => Reaping \/ OneLeader
    BY DEF LeaderExclusive, OneLeader
  <1>4. QED
    BY <1>1, <1>2, <1>3, LeadersExclusive, PTL DEF Spec
=============================================================================
