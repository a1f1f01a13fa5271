------------------------------ MODULE Backfill ------------------------------
(***************************************************************************)
(* The historical replay of src/src/backfill.rs: a process started with    *)
(* --backfill-from and --backfill-to splits the range into chunks, and a   *)
(* few workers read the files of a data lake, store each ledger's events   *)
(* in one transaction (Indexer::store_events) and save a checkpoint row    *)
(* after every file.  Several such processes and the live indexer may run  *)
(* at once; a failed process is started again with the same command.       *)
(***************************************************************************)
EXTENDS Integers, FiniteSets

CONSTANTS
    Jobs,       \* backfill processes
    From, To,   \* the ledgers to replay
    Chunk,      \* cfg.chunk_size
    PerFile,    \* ledgers_per_batch of the data lake
    Workers,    \* cfg.workers
    Events,     \* the events of the network's history
    LedgerOf,   \* their ledgers
    Storable,   \* events that pass validation, tenant filter and size limit
    Live,       \* events the live indexer stores too
    LakeStart,  \* the last ledger of the data lake at first
    LakeEnd,    \* bound: the last ledger the data lake will ever have
    Faults,     \* fault kinds the environment may inject
    MaxFaults   \* bound: faults injected during a behaviour

FaultKinds == {"crash", "http", "db", "bloom_fp"}

ASSUME BackfillAssumption ==
    /\ From \in Nat \ {0} /\ To \in Nat /\ From <= To
    /\ Chunk \in Nat \ {0} /\ PerFile \in Nat \ {0} /\ Workers \in Nat \ {0}
    /\ LedgerOf \in [Events -> Nat] /\ Storable \subseteq Events
    /\ Live \subseteq Storable
    /\ LakeStart \in Nat /\ LakeEnd \in Nat /\ LakeStart <= LakeEnd
    /\ Faults \subseteq FaultKinds /\ MaxFaults \in Nat

Least(a, b) == IF a <= b THEN a ELSE b

\* split_range: the chunks of the range, each a pair of first and last ledger.
Ranges == {<<s, Least(s + Chunk - 1, To)>> : s \in {s \in From..To : (s - From) % Chunk = 0}}

\* file_bounds: the first and the last ledger of the file with ledger l.
FileStart(l) == l - (l % PerFile)
FileEnd(l) == FileStart(l) + PerFile - 1

VARIABLES
    lake,     \* the last ledger exported to the data lake
    db,       \* committed rows of events
    row,      \* backfill_checkpoints.next_ledger of each range, 0 if no row
    phase,    \* a process: "off", "run", "ok" (exit 0) or "failed" (exit 1)
    at,       \* its worker for a range: "wait", "fetch", "store", "done", "error"
    nxt,      \* next of run_range
    todo,     \* ledgers of the file that are still to be stored
    seen,     \* keys in the process's session filter
    seenAt,   \* the session filter's current ledger
    given,    \* history: events refused, or taken for duplicates by the filter
    faults    \* faults still to come

jobVars == <<phase, at, nxt, todo, seen, seenAt>>
vars == <<lake, db, row, jobVars, given, faults>>

Positions == {"wait", "fetch", "store", "done", "error"}

TypeOK ==
    /\ lake \in LakeStart..LakeEnd
    /\ db \subseteq Events /\ given \subseteq Events
    /\ row \in [Ranges -> 0..(To + 1)]
    /\ phase \in [Jobs -> {"off", "run", "ok", "failed"}]
    /\ at \in [Jobs -> [Ranges -> Positions]]
    /\ nxt \in [Jobs -> [Ranges -> 0..(To + 1)]]
    /\ todo \in [Jobs -> [Ranges -> SUBSET (From..To)]]
    /\ seen \in [Jobs -> SUBSET Events] /\ seenAt \in [Jobs -> Nat]
    /\ faults \in 0..MaxFaults

Idle == [r \in Ranges |-> "wait"]
Nowhere == [r \in Ranges |-> 0]
Nothing == [r \in Ranges |-> {}]

Init ==
    /\ lake = LakeStart /\ db = {} /\ given = {}
    /\ row = Nowhere
    /\ phase = [j \in Jobs |-> "off"]
    /\ at = [j \in Jobs |-> Idle]
    /\ nxt = [j \in Jobs |-> Nowhere]
    /\ todo = [j \in Jobs |-> Nothing]
    /\ seen = [j \in Jobs |-> {}] /\ seenAt = [j \in Jobs |-> 0]
    /\ faults = MaxFaults

Fault(f) == f \in Faults /\ faults > 0 /\ faults' = faults - 1

-----------------------------------------------------------------------------
(***************************************************************************)
(* The environment: files appear in the data lake, and the live indexer    *)
(* stores an event of the same history.                                    *)
(***************************************************************************)
Export ==
    /\ lake < LakeEnd
    /\ lake' = Least(lake + PerFile, LakeEnd)
    /\ UNCHANGED <<db, row, jobVars, given, faults>>

LiveStore(e) ==
    /\ e \in Live \ db
    /\ db' = db \cup {e}
    /\ UNCHANGED <<lake, row, jobVars, given, faults>>

-----------------------------------------------------------------------------
(***************************************************************************)
(* One process.                                                            *)
(***************************************************************************)
\* What a process remembers is gone with it.
Forget(j) ==
    /\ at' = [at EXCEPT ![j] = Idle]
    /\ nxt' = [nxt EXCEPT ![j] = Nowhere]
    /\ todo' = [todo EXCEPT ![j] = Nothing]
    /\ seen' = [seen EXCEPT ![j] = {}]
    /\ seenAt' = [seenAt EXCEPT ![j] = 0]

\* "re-run the same command to resume": a new process with a new Indexer.
Start(j) ==
    /\ phase[j] \in {"off", "failed"}
    /\ phase' = [phase EXCEPT ![j] = "run"]
    /\ UNCHANGED <<lake, db, row, at, nxt, todo, seen, seenAt, given, faults>>

Crash(j) ==
    /\ phase[j] = "run" /\ Fault("crash")
    /\ phase' = [phase EXCEPT ![j] = "off"]
    /\ Forget(j)
    /\ UNCHANGED <<lake, db, row, given>>

\* run(): every range has ended; the first error, if any, is returned.
Exit(j) ==
    /\ phase[j] = "run"
    /\ \A r \in Ranges : at[j][r] \in {"done", "error"}
    /\ phase' = [phase EXCEPT ![j] = IF \A r \in Ranges : at[j][r] = "done" THEN "ok" ELSE "failed"]
    /\ Forget(j)
    /\ UNCHANGED <<lake, db, row, given, faults>>

-----------------------------------------------------------------------------
(***************************************************************************)
(* One worker: run_range for the range r.                                  *)
(***************************************************************************)
Move(j, r, to) == at' = [at EXCEPT ![j][r] = to]

\* Seeded bug: the range is tried again by the same process.
FailAgain(j, r) == Move(j, r, "wait")

\* run_range returns an error; the process goes on with its other ranges.
Fail(j, r) == Move(j, r, "error")

Busy(j) == {r \in Ranges : at[j][r] \in {"fetch", "store"}}

\* A permit of the semaphore, then load_resume_point.
Begin(j, r) ==
    /\ phase[j] = "run" /\ at[j][r] = "wait" /\ Cardinality(Busy(j)) < Workers
    /\ \/ /\ row[r] > r[2] /\ Move(j, r, "done") /\ UNCHANGED <<nxt, faults>>
       \/ /\ row[r] <= r[2] /\ Move(j, r, "fetch") /\ UNCHANGED faults
          /\ nxt' = [nxt EXCEPT ![j][r] = IF row[r] = 0 THEN r[1] ELSE row[r]]
       \/ Fault("db") /\ Fail(j, r) /\ UNCHANGED nxt
    /\ UNCHANGED <<lake, db, row, phase, todo, seen, seenAt, given>>

\* Seeded bug: the ledger to resume from is taken for a stored one.
WantedPast(j, r) == {l \in FileStart(nxt[j][r])..FileEnd(nxt[j][r]) : nxt[j][r] < l /\ l <= r[2]}

\* Ledgers of the file that the range still needs; a file may straddle ranges.
Wanted(j, r) == {l \in FileStart(nxt[j][r])..FileEnd(nxt[j][r]) : nxt[j][r] <= l /\ l <= r[2]}

\* fetch_file and decode_batch.  A file that is not there is an error at once,
\* any other trouble after the retries.
Fetch(j, r) ==
    /\ phase[j] = "run" /\ at[j][r] = "fetch"
    /\ \/ /\ FileEnd(nxt[j][r]) <= lake
          /\ todo' = [todo EXCEPT ![j][r] = Wanted(j, r)]
          /\ Move(j, r, "store") /\ UNCHANGED faults
       \/ FileEnd(nxt[j][r]) > lake /\ Fail(j, r) /\ UNCHANGED <<todo, faults>>
       \/ Fault("http") /\ Fail(j, r) /\ UNCHANGED todo
    /\ UNCHANGED <<lake, db, row, phase, nxt, seen, seenAt, given>>

EventsOf(l) == {e \in Events : LedgerOf[e] = l}

\* What the session filter remembers when ledger l comes.
Remembered(j, l) == IF l > seenAt[j] THEN {} ELSE seen[j]

\* Events of the ledger that get past the filter.
Fresh(j, l) == EventsOf(l) \ Remembered(j, l)

Remember(j, l, S) ==
    /\ seen' = [seen EXCEPT ![j] = Remembered(j, l) \cup S]
    /\ seenAt' = [seenAt EXCEPT ![j] = IF l > @ THEN l ELSE @]

IsNext(j, r, l) ==
    /\ phase[j] = "run" /\ at[j][r] = "store"
    /\ l \in todo[j][r] /\ \A k \in todo[j][r] : l <= k

\* store_events: one transaction for the ledger.  The filter may take a new
\* event for an old one.
StoreLedger(j, r, l) ==
    /\ IsNext(j, r, l)
    /\ \E missed \in {{}} \cup {{e} : e \in Fresh(j, l)} :
          /\ IF missed = {} THEN UNCHANGED faults ELSE Fault("bloom_fp")
          /\ db' = db \cup ((Fresh(j, l) \ missed) \cap Storable)
          /\ given' = given \cup missed \cup (Fresh(j, l) \ Storable)
    /\ Remember(j, l, EventsOf(l))
    /\ todo' = [todo EXCEPT ![j][r] = @ \ {l}]
    /\ UNCHANGED <<lake, row, phase, at, nxt>>

\* A statement fails, or COMMIT reports an error although the server may have
\* committed.  The filter keeps the events it was asked about.
StoreFails(j, r, l) ==
    /\ IsNext(j, r, l) /\ EventsOf(l) # {} /\ Fault("db")
    /\ \/ db' = db \cup (Fresh(j, l) \cap Storable)
       \/ UNCHANGED db
    /\ Remember(j, l, EventsOf(l))
    /\ Fail(j, r)
    /\ UNCHANGED <<lake, row, phase, nxt, todo, given>>

\* Seeded bug: the last stored ledger is saved as the next one.
AfterLast(j, r) == Least(FileEnd(nxt[j][r]), r[2])

\* The next ledger after the file: done_through + 1.
After(j, r) == Least(FileEnd(nxt[j][r]), r[2]) + 1

\* The file is stored: save_checkpoint, and on with the next file or out of
\* the loop.
Save(j, r) ==
    /\ phase[j] = "run" /\ at[j][r] = "store" /\ todo[j][r] = {}
    /\ nxt' = [nxt EXCEPT ![j][r] = After(j, r)]
    /\ \/ /\ row' = [row EXCEPT ![r] = After(j, r)]
          /\ Move(j, r, IF After(j, r) > r[2] THEN "done" ELSE "fetch")
          /\ UNCHANGED faults
       \/ /\ Fault("db") /\ Fail(j, r)
          /\ row' \in {row, [row EXCEPT ![r] = After(j, r)]}
    /\ UNCHANGED <<lake, db, phase, todo, seen, seenAt, given>>

Work(j, r) ==
    \/ Begin(j, r) \/ Fetch(j, r) \/ Save(j, r)
    \/ \E l \in From..To : StoreLedger(j, r, l) \/ StoreFails(j, r, l)

Next ==
    \/ Export
    \/ \E e \in Events : LiveStore(e)
    \/ \E j \in Jobs : Start(j) \/ Crash(j) \/ Exit(j) \/ \E r \in Ranges : Work(j, r)

Spec == Init /\ [][Next]_vars

\* The workers are tokio tasks that are polled while they can run, the operator
\* runs a failed command again, and the data lake is exported to its end.  The
\* live indexer owes nothing: it may never reach these ledgers.
Fairness ==
    /\ WF_vars(Export)
    /\ \A j \in Jobs : /\ WF_vars(Start(j)) /\ WF_vars(Exit(j))
                       /\ \A r \in Ranges : WF_vars(Work(j, r))

FairSpec == Spec /\ Fairness

-----------------------------------------------------------------------------
(***************************************************************************)
(* Properties                                                              *)
(***************************************************************************)
Handled(e) == e \in db \cup given

\* The events a checkpoint row, or a worker that has finished a file, is past.
PassedRow(e) == \E r \in Ranges : r[1] <= LedgerOf[e] /\ LedgerOf[e] < row[r]
PassedWorker(e) ==
    \E j \in Jobs, r \in Ranges :
        at[j][r] # "wait" /\ r[1] <= LedgerOf[e] /\ LedgerOf[e] < nxt[j][r]
Passed == {e \in Events : PassedRow(e) \/ PassedWorker(e)}

Log == INSTANCE IngestLog WITH stored <- db, passed <- Passed

\* Backfill implements the ingestion promise: whatever fails, and although two
\* processes write one checkpoint row in any order, no row and no worker moves
\* past a ledger whose events are not all stored or refused.
IngestRefined == Log!Spec

\* "Backfill complete - exiting": a process that exits with status 0 leaves no
\* event of its ledgers behind, also those an earlier or a concurrent process
\* was to store, or the live indexer stored.
ExitMeansStored ==
    \A j \in Jobs : phase[j] = "ok" =>
        \A e \in Events : LedgerOf[e] \in From..To => Handled(e)

\* Re-running the command until it succeeds stores every event of the ledgers,
\* after any finite number of crashes and errors.
BackfillFinishes == <>(\A j \in Jobs : phase[j] = "ok")
=============================================================================
