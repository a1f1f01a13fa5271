------------------------------ MODULE EventJobs ------------------------------
(***************************************************************************)
(* The jobs and administrative requests that rewrite the events table      *)
(* while the indexer stores: re-encryption (reencrypt.rs), masking,        *)
(* anonymisation and deletion (handlers/events.rs), archiving              *)
(* (archiver.rs), restoring and replaying (handlers/mod.rs).  Each of them *)
(* reads rows in one statement and writes them in others; nothing locks    *)
(* a row in between and nothing checks that it is still what was read.     *)
(*                                                                         *)
(* One contract, one day, one archive file.  A row has a random id, and    *)
(* the unique index is on the event's tx_hash, contract and type: "hashed" *)
(* counts how often anonymisation replaced the tx_hash by its hash.        *)
(***************************************************************************)
EXTENDS Naturals, FiniteSets, FiniteSetsExt

CONSTANTS
    Event,        \* events, numbers in their order
    RowId,        \* ids, numbers other than 0
    Addressed,    \* events whose data names an address
    BatchSize,    \* rows per batch of re-encryption (1000)
    MaskLimit,    \* rows a masking job reads (1000)
    ReplayLimit,  \* events a replay fetches (100)
    Slots,        \* bound: the jobs that are started, 1..n
    MaxLoad,      \* bound: jobs that are started and events, together
    MaxFaults     \* bound: failed statements and uploads, restarts

ASSUME JobsAssumption ==
    /\ Event \subseteq Nat \ {0} /\ IsFiniteSet(Event) /\ RowId \subseteq Nat \ {0} /\ IsFiniteSet(RowId)
    /\ Cardinality(RowId) >= Cardinality(Event) + ReplayLimit
    /\ Addressed \subseteq Event
    /\ BatchSize \in Nat \ {0} /\ MaskLimit \in Nat \ {0} /\ ReplayLimit \in Nat \ {0}
    /\ Slots \subseteq Nat /\ MaxLoad \in Nat /\ MaxFaults \in Nat

VARIABLES
    chain,     \* the events that there are
    rows,      \* the table
    file,      \* the archive file of the day: the rows it holds
    stored,    \* events that the indexer stored
    job,       \* the jobs
    faults,    \* faults left
    \* history
    erased,    \* events anonymised at some time
    copied,    \* of them: readable elsewhere when they were, or fetched again
    requested, \* events deleted on request
    raced,     \* events stored between the SELECT and the DELETE of an archiver
    replaced,  \* events in an archive file that was written over
    shaken     \* re-encryptions during which a row left or an old one came

jobsVars == <<chain, rows, file, stored, job, faults, erased, copied, requested, raced, replaced, shaken>>
history == <<erased, copied, requested, raced, replaced>>

Kinds == {"reencrypt", "mask", "erase", "archive", "restore", "upsert", "replay"}
\* The columns that matter; data is encrypted with the old or the new key, in
\* the clear, or erased.
Image == [event : Event, hashed : 0..Cardinality(Slots), anon : BOOLEAN,
          data : {"old", "new", "plain", "erased"}]
NoRow == [event |-> 0, hashed |-> 0, anon |-> FALSE, data |-> "none"]
\* A row as a job read it.
Copy == [id : RowId \cup {0}, row : Image]

NoJob == [kind |-> "none", pc |-> "idle", todo |-> {}, offset |-> 0]

JobsTypeOK ==
    /\ rows \in [RowId -> Image \cup {NoRow}]
    /\ \A i, k \in RowId :
          rows[i].event = rows[k].event /\ rows[i].hashed = rows[k].hashed => i = k \/ rows[i] = NoRow
    /\ file \subseteq Copy
    /\ stored \subseteq chain /\ chain \subseteq Event
    /\ \A j \in Slots : job[j] = NoJob \/
          /\ job[j].kind \in Kinds /\ job[j].pc \in {"fetch", "rows", "delete", "done", "failed"}
          /\ job[j].todo \subseteq Copy /\ job[j].offset \in Nat
    /\ faults \in 0..MaxFaults
    /\ copied \subseteq erased /\ erased \subseteq Event
    /\ requested \subseteq Event /\ raced \subseteq Event /\ replaced \subseteq Event
    /\ shaken \subseteq Slots

\* The rows of S at offset off and after, at most n, in the order of ids.
Slice(S, off, n) == {i \in S : LET k == Cardinality({h \in S : h < i}) IN off <= k /\ k < off + n}

\* Enough ids: every event is stored once, and one replay stores its page again.
Usable == Slice(RowId, 0, Cardinality(chain) + ReplayLimit)

\* The rows that are there were stored before the key was changed.
JobsInit ==
    /\ chain \in {{e \in Event : e <= n} : n \in Event}
    /\ stored \in SUBSET chain
    /\ \E at \in [stored -> Usable] :
          /\ \A e, f \in stored : at[e] = at[f] => e = f
          /\ rows = [i \in RowId |->
                IF \E e \in stored : at[e] = i
                THEN [event |-> CHOOSE e \in stored : at[e] = i, hashed |-> 0, anon |-> FALSE, data |-> "old"]
                ELSE NoRow]
    /\ file = {}
    /\ job = [j \in Slots |-> NoJob]
    /\ faults = MaxFaults
    /\ erased = {} /\ copied = {} /\ requested = {} /\ raced = {} /\ replaced = {} /\ shaken = {}

\* No job at all.
JobsIdle ==
    /\ chain = {} /\ stored = {} /\ rows = [i \in RowId |-> NoRow] /\ file = {}
    /\ job = [j \in Slots |-> NoJob]
    /\ faults = 0
    /\ erased = {} /\ copied = {} /\ requested = {} /\ raced = {} /\ replaced = {} /\ shaken = {}

-----------------------------------------------------------------------------
(***************************************************************************)
(* Helpers                                                                 *)
(***************************************************************************)
Present == {i \in RowId : rows[i] # NoRow}
Snapshot(S) == {[id |-> i, row |-> rows[i]] : i \in S}
Encrypted(r) == r.data \in {"old", "new"}
Readable(r) == r.data \in {"old", "new", "plain"}
Ids(C) == {c.id : c \in C}
Events(C) == {c.row.event : c \in C}
InTable == {rows[i].event : i \in Present}

\* The unique index refuses the row r at id i.
Conflicts(r, i) == \E k \in RowId \ {i} : rows[k].event = r.event /\ rows[k].hashed = r.hashed

Running(j) == job[j].pc \in {"fetch", "rows", "delete"}
Step(j, kind, pc) == job[j].kind = kind /\ job[j].pc = pc
Goto(j, pc) == job' = [job EXCEPT ![j].pc = pc]
\* The job is over: its copies are gone.
End(j, pc) == job' = [job EXCEPT ![j] = [NoJob EXCEPT !.kind = job[j].kind, !.pc = pc]]
GotoWith(j, pc, C) == job' = [job EXCEPT ![j].pc = pc, ![j].todo = C]
Fault == faults > 0 /\ faults' = faults - 1
NoFault == UNCHANGED faults

\* A job goes on with its next row, or to pc after the last one.
Drop(j, c, pc) ==
    LET C == job[j].todo \ {c}
    IN  job' = [job EXCEPT ![j].todo = C, ![j].pc = IF C = {} THEN pc ELSE "rows"]
First(C) == CHOOSE c \in C : \A d \in C : c.id <= d.id

\* UPDATE events SET event_data WHERE id: no row is no error.
SetData(i, d) == IF rows[i] = NoRow THEN rows ELSE [rows EXCEPT ![i].data = d]

\* History: re-encryptions whose OFFSET is off once a row leaves the encrypted
\* ones, or that may be past a row that is now under the old key.
Shakes ==
    \E i \in RowId : \/ Encrypted(rows[i]) /\ ~Encrypted(rows'[i])
                     \/ rows'[i].data = "old" /\ rows[i].data # "old"
Watch == shaken' = IF Shakes THEN shaken \cup {j \in Slots : job[j].kind = "reencrypt" /\ Running(j)}
                             ELSE shaken
\* History: archivers that have read the day and will delete it.
Deleting == \E j \in Slots : job[j].kind = "archive" /\ job[j].pc \in {"rows", "delete"}
Stored(e) == raced' = IF Deleting THEN raced \cup {e} ELSE raced

Start(j, kind) ==
    /\ job[j] = NoJob /\ \A k \in Slots : k < j => job[k] # NoJob
    /\ j + Cardinality(chain) <= MaxLoad
    /\ job' = [job EXCEPT ![j].kind = kind, ![j].pc = "fetch"]
    /\ UNCHANGED <<rows, file, stored, faults, history, shaken>>

\* An error that ends the job.
Fail(j) == Fault /\ End(j, "failed") /\ UNCHANGED <<rows, file, stored, history, shaken>>

-----------------------------------------------------------------------------
(***************************************************************************)
(* Re-encryption                                                           *)
(***************************************************************************)
\* Each request makes a state of its own: nothing keeps a second job out.
StartReencrypt(j) == Start(j, "reencrypt")

\* Seeded bug: off by one.
NextOffsetFar(o) == o + BatchSize + 1
NextOffset(o) == o + BatchSize

ReencryptBatch(j) ==
    /\ Step(j, "reencrypt", "fetch")
    /\ \/ /\ LET B == Slice({i \in RowId : Encrypted(rows[i])}, job[j].offset, BatchSize)
             IN  job' = [job EXCEPT ![j].todo = Snapshot(B), ![j].offset = NextOffset(@),
                                    ![j].pc = IF B = {} THEN "done" ELSE "rows"]
          /\ NoFault /\ UNCHANGED <<rows, file, stored, history, shaken>>
       \/ Fail(j)

\* A row that cannot be written is logged and left as it is.
ReencryptRow(j) ==
    /\ Step(j, "reencrypt", "rows")
    /\ LET c == First(job[j].todo)
       IN  /\ Drop(j, c, "fetch")
           /\ \/ rows' = SetData(c.id, "new") /\ Watch /\ NoFault
              \/ Fault /\ shaken' = shaken \cup {j} /\ UNCHANGED rows
    /\ UNCHANGED <<file, stored, history>>

-----------------------------------------------------------------------------
(***************************************************************************)
(* Masking                                                                 *)
(***************************************************************************)
StartMask(j) == Start(j, "mask")

MaskFetch(j) ==
    /\ Step(j, "mask", "fetch")
    /\ \/ /\ LET C == Snapshot(Slice(Present, 0, MaskLimit))
             IN  GotoWith(j, IF C = {} THEN "done" ELSE "rows", C)
          /\ NoFault /\ UNCHANGED <<rows, file, stored, history, shaken>>
       \/ Fail(j)

\* An address would become the first 56 characters of a string of at most 17:
\* the slice panics and ends the task.  Data without one is written as it was
\* read; of encrypted data the keys of the envelope are all that is seen.
Panics(c) == c.row.data = "plain" /\ c.row.event \in Addressed

MaskRow(j) ==
    /\ Step(j, "mask", "rows")
    /\ LET c == First(job[j].todo)
       IN  \/ /\ ~Panics(c)
              /\ rows' = SetData(c.id, c.row.data) /\ Watch
              /\ Drop(j, c, "done")
              /\ NoFault /\ UNCHANGED <<file, stored, history>>
           \/ /\ Panics(c)
              /\ End(j, "failed")
              /\ NoFault /\ UNCHANGED <<rows, file, stored, history, shaken>>
           \/ ~Panics(c) /\ Fail(j)

-----------------------------------------------------------------------------
(***************************************************************************)
(* Anonymisation and deletion                                              *)
(***************************************************************************)
StartErase(j) == Start(j, "erase")

\* One event, by its id, or all events of the contract that are not anonymised.
EraseFetch(j) ==
    /\ Step(j, "erase", "fetch")
    /\ LET Open == {i \in Present : ~rows[i].anon}
       IN  \/ /\ \E S \in {{i} \cap Open : i \in RowId} \cup {Open} :
                    GotoWith(j, IF S = {} THEN "done" ELSE "rows", Snapshot(S))
              /\ NoFault /\ UNCHANGED <<rows, file, stored, history, shaken>>
           \/ Fail(j)

\* Seeded bug: the data stays.
AnonymizedFlag(r, h) == [r EXCEPT !.anon = TRUE, !.hashed = h + 1]
Anonymized(r, h) == [r EXCEPT !.anon = TRUE, !.data = "erased", !.hashed = h + 1]

\* History: the readable copies of the event that the update leaves.
OtherCopies(e, i) ==
    \/ \E k \in RowId \ {i} : rows[k].event = e /\ Readable(rows[k])
    \/ \E c \in file : c.row.event = e /\ Readable(c.row)
    \/ \E k \in Slots : \E c \in job[k].todo :
          job[k].kind # "erase" /\ Running(k) /\ c.row.event = e /\ Readable(c.row)

EraseRow(j) ==
    /\ Step(j, "erase", "rows")
    /\ \E c \in job[j].todo :
          LET r == Anonymized(rows[c.id], c.row.hashed) IN
          \/ /\ rows[c.id] # NoRow /\ ~Conflicts(r, c.id)
             /\ rows' = [rows EXCEPT ![c.id] = r] /\ Watch
             /\ erased' = erased \cup {r.event}
             /\ copied' = IF OtherCopies(r.event, c.id) THEN copied \cup {r.event} ELSE copied
             /\ Drop(j, c, "done")
             /\ NoFault /\ UNCHANGED <<file, stored, requested, raced, replaced>>
          \/ /\ rows[c.id] = NoRow
             /\ Drop(j, c, "done")
             /\ NoFault /\ UNCHANGED <<rows, file, stored, history, shaken>>
          \/ /\ rows[c.id] # NoRow /\ Conflicts(r, c.id)
             /\ End(j, "failed")
             /\ NoFault /\ UNCHANGED <<rows, file, stored, history, shaken>>
          \/ Fail(j)

\* One statement.
DeleteContract ==
    /\ Present # {}
    /\ requested' = requested \cup InTable
    /\ rows' = [i \in RowId |-> NoRow] /\ Watch
    /\ UNCHANGED <<file, stored, job, faults, erased, copied, raced, replaced>>

-----------------------------------------------------------------------------
(***************************************************************************)
(* Archiving and restoring                                                 *)
(***************************************************************************)
StartArchive(j) == Start(j, "archive")

ArchiveSelect(j) ==
    /\ Step(j, "archive", "fetch")
    /\ \/ /\ GotoWith(j, IF Present = {} THEN "done" ELSE "rows", Snapshot(Present))
          /\ NoFault /\ UNCHANGED <<rows, file, stored, history, shaken>>
       \/ Fail(j)

\* Seeded bug: the store's answer is not looked at.
AfterUploadAlways(verified) == "delete"
\* The upload replaces the file of the day.  Only if the store answers with
\* the checksum the rows are deleted; otherwise the file is anything.
AfterUpload(verified) == IF verified THEN "delete" ELSE "failed"

ArchivePut(j) ==
    /\ Step(j, "archive", "rows")
    /\ \/ /\ \/ file' = job[j].todo /\ Goto(j, AfterUpload(TRUE)) /\ NoFault
             \/ file' \in {{}, job[j].todo} /\ Goto(j, AfterUpload(FALSE)) /\ Fault
          /\ replaced' = replaced \cup (Events(file) \ Events(file'))
          /\ UNCHANGED <<rows, stored, erased, copied, requested, raced, shaken>>
       \/ Fail(j)

ArchiveDelete(j) ==
    /\ Step(j, "archive", "delete")
    /\ \/ /\ rows' = [i \in RowId |-> NoRow] /\ Watch
          /\ End(j, "done")
          /\ NoFault /\ UNCHANGED <<file, stored, history>>
       \/ Fail(j)

StartRestore(j) == file # {} /\ (Start(j, "restore") \/ Start(j, "upsert"))

RestoreFetch(j) ==
    /\ Step(j, "restore", "fetch") \/ Step(j, "upsert", "fetch")
    /\ \/ /\ GotoWith(j, IF file = {} THEN "done" ELSE "rows", file)
          /\ NoFault /\ UNCHANGED <<rows, file, stored, history, shaken>>
       \/ Fail(j)

\* The row comes back without its anonymized flag; a row that is there is
\* left, or with upsert written over; an error is counted, the loop goes on.
Restored(c) ==
    IF rows[c.id] = NoRow THEN [c.row EXCEPT !.anon = FALSE] ELSE [c.row EXCEPT !.anon = rows[c.id].anon]

RestoreRow(j) ==
    /\ Step(j, "restore", "rows") \/ Step(j, "upsert", "rows")
    /\ LET c == First(job[j].todo)
           writes == (rows[c.id] = NoRow \/ job[j].kind = "upsert") /\ ~Conflicts(Restored(c), c.id)
       IN  /\ Drop(j, c, "done")
           /\ \/ /\ writes
                 /\ rows' = [rows EXCEPT ![c.id] = Restored(c)] /\ Watch
                 /\ Stored(c.row.event) /\ NoFault
              \/ ~writes /\ NoFault /\ UNCHANGED <<rows, raced, shaken>>
              \/ writes /\ Fault /\ UNCHANGED <<rows, raced, shaken>>
    /\ UNCHANGED <<file, stored, erased, copied, requested, replaced>>

-----------------------------------------------------------------------------
(***************************************************************************)
(* Replaying, and the indexer                                              *)
(***************************************************************************)
\* The indexed window must not be empty.  One replay: bound for the ids.
StartReplay(j) ==
    /\ Present # {} /\ \A k \in Slots : job[k].kind # "replay"
    /\ Start(j, "replay")

\* The first events at or after the ledger asked for; the next request would
\* begin after the latest ledger.  The copies have no row yet.
ReplayFetch(j) ==
    /\ Step(j, "replay", "fetch")
    /\ \/ /\ \E from \in chain :
                LET S == Slice({e \in chain : e >= from}, 0, ReplayLimit)
                    C == {[id |-> 0, row |-> [event |-> e, hashed |-> 0, anon |-> FALSE, data |-> "plain"]] : e \in S}
                IN  GotoWith(j, "rows", C) /\ copied' = copied \cup (S \cap erased)
          /\ NoFault /\ UNCHANGED <<rows, file, stored, erased, requested, raced, replaced, shaken>>
       \/ Fail(j)

\* An id that nothing knows.
Fresh == Usable \ (Present \cup Ids(file) \cup UNION {Ids(job[k].todo) : k \in Slots})

\* INSERT ... ON CONFLICT (tx_hash, contract_id, event_type) DO NOTHING: an
\* event whose row was anonymised has another tx_hash and is new.
Insert(r) ==
    IF Conflicts(r, 0) THEN UNCHANGED <<rows, raced, shaken>>
    ELSE \E i \in Fresh : rows' = [rows EXCEPT ![i] = r] /\ Watch /\ Stored(r.event)

ReplayRow(j) ==
    /\ Step(j, "replay", "rows")
    /\ LET c == CHOOSE c \in job[j].todo : \A d \in job[j].todo : c.row.event <= d.row.event
       IN  /\ Drop(j, c, "done")
           /\ \/ Insert(c.row) /\ NoFault
              \/ Fault /\ UNCHANGED <<rows, raced, shaken>>
    /\ UNCHANGED <<file, stored, erased, copied, requested, replaced>>

StoreEvent ==
    /\ \E e \in chain \ stored :
          /\ stored' = stored \cup {e} /\ copied' = copied \cup ({e} \cap erased)
          /\ Insert([event |-> e, hashed |-> 0, anon |-> FALSE, data |-> "new"])
    /\ UNCHANGED <<file, job, faults, erased, requested, replaced>>

\* The process stops; the jobs are not resumed.
Restart ==
    /\ Fault
    /\ \E j \in Slots : Running(j)
    /\ job' = [j \in Slots |-> IF Running(j) THEN [NoJob EXCEPT !.kind = job[j].kind, !.pc = "failed"] ELSE job[j]]
    /\ UNCHANGED <<rows, file, stored, history, shaken>>

JobStep(j) ==
    \/ ReencryptBatch(j) \/ ReencryptRow(j) \/ MaskFetch(j) \/ MaskRow(j)
    \/ EraseFetch(j) \/ EraseRow(j)
    \/ ArchiveSelect(j) \/ ArchivePut(j) \/ ArchiveDelete(j) \/ RestoreFetch(j) \/ RestoreRow(j)
    \/ ReplayFetch(j) \/ ReplayRow(j)

Request(j) ==
    \/ StartReencrypt(j) \/ StartMask(j) \/ StartErase(j)
    \/ StartArchive(j) \/ StartRestore(j) \/ StartReplay(j)

JobsNext ==
    /\ UNCHANGED chain
    /\ \/ \E j \in Slots : Request(j) \/ JobStep(j)
       \/ DeleteContract \/ StoreEvent \/ Restart

-----------------------------------------------------------------------------
(***************************************************************************)
(* Properties                                                              *)
(***************************************************************************)
\* An event that was anonymised is readable in the table again only if some
\* copy was outside the row at that time - in the hands of a job, in the
\* archive file, in a second row - or it was fetched from the chain since
\* (anonymize_event, delete_contract_events).
ErasureSticks ==
    \A i \in Present : Readable(rows[i]) /\ rows[i].event \in erased => rows[i].event \in copied

\* An event that was stored is in the table or in the archive file unless it
\* was deleted on request, came while an archiver was between its SELECT and
\* its DELETE, or was in a file that a later archiving of the day replaced
\* (archive_date).
NothingLost ==
    \A e \in stored : e \in InTable \cup Events(file) \cup requested \cup raced \cup replaced

\* A re-encryption that runs to its end leaves no row under the old key, unless
\* an encrypted row left the table or an old one came while it ran, or one of
\* its statements failed (run_reencrypt_job).
RotationComplete ==
    [][\A j \in Slots : Step(j, "reencrypt", "fetch") /\ job'[j].pc = "done" /\ j \notin shaken =>
          \A i \in RowId : rows'[i].data # "old"]_jobsVars
=============================================================================
