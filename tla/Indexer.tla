------------------------------ MODULE Indexer ------------------------------
(***************************************************************************)
(* The ingestion loop of src/src/indexer.rs: several indexer tasks poll a  *)
(* Soroban RPC server for contract events and store them in one Postgres   *)
(* database, together with a cursor checkpoint and the ledger position.    *)
(*                                                                         *)
(* An event is a position in the network's history (the TOID of its RPC    *)
(* id); a cursor is the position of the last event consumed.  What the     *)
(* database tells apart is the event's key, the triple (tx_hash,           *)
(* contract_id, event_type) of the ON CONFLICT clause.                     *)
(*                                                                         *)
(* Nothing here relies on the advisory lock of LeaderLock: any number of   *)
(* tasks may run at once.                                                  *)
(***************************************************************************)
EXTENDS Integers, FiniteSets

CONSTANTS
    Indexers,         \* the indexer tasks
    Nets,             \* the networks (chain ids)
    NetOf,            \* the network an indexer task follows
    Positions,        \* the event positions and page cursors the RPC server uses
    Chain,            \* the events of each network, as positions
    Ledger,           \* the ledger of a position
    EndOf,            \* the last position of a ledger
    Key,              \* the dedup key of a position
    Storable,         \* events that pass validation, tenant filter and size limit
    StartLedger,      \* config.start_ledger; 0 means "persisted state or latest"
    IgnoreCheckpoint, \* config.indexer_ignore_checkpoint
    RpcLimit,         \* the page limit of a getEvents request
    MaxPerPage,       \* config.rpc_max_events_per_page
    MaxRetries,       \* cursor-expiry retries before the fallback
    BloomFill,        \* insertions that make the persistent filter rotate
    HasBloom,         \* tasks with a persistent filter (the primary network's)
    Retention,        \* ledgers the RPC server keeps
    MaxLedger,        \* bound: ledgers that close during a behaviour
    Faults,           \* fault kinds the environment may inject
    MaxFaults         \* bound: faults injected during a behaviour

NoCursor == -1

FaultKinds == {"crash", "rpc", "expiry", "ckpt_load", "state_load", "stop",
               "statement", "commit", "bloom_fp", "pause"}

ASSUME ConstantAssumption ==
    /\ Nets # {} /\ NetOf \in [Indexers -> Nets]
    /\ Positions \subseteq Nat
    /\ Chain \in [Nets -> SUBSET Positions]
    /\ MaxLedger \in Nat
    /\ Ledger \in [Positions -> Nat]
    /\ EndOf \in [0..MaxLedger -> Positions]
    /\ StartLedger \in Nat
    /\ IgnoreCheckpoint \in BOOLEAN
    /\ HasBloom \subseteq Indexers
    /\ Faults \subseteq FaultKinds /\ MaxFaults \in Nat
    /\ MaxRetries \in Nat /\ Retention \in Nat

\* TOIDs order events by ledger, and EndOf closes a ledger.
ASSUME OrderAssumption ==
    \A p \in Positions, l \in 0..MaxLedger : (p <= EndOf[l]) <=> (Ledger[p] <= l)

VARIABLES
    head,       \* [Nets -> ledger]: the last closed ledger
    db,         \* keys of the committed rows of events
    ckpt,       \* indexer_checkpoints.last_cursor of the row 'singleton'
    saved,      \* indexer_state.current_ledger of the row 'singleton', 0 if absent
    pc,         \* "down", "latest", "idle", "fetch" or "store"
    cur,        \* run_loop's current_ledger, start_ledger of a cycle
    cursor,     \* cursor of fetch_and_store_events
    retries,    \* CursorExpiryBackoff.retry_count
    lat,        \* latest_ledger of the last page
    next,       \* next_cursor of the page being stored
    todo,       \* events of the page not yet processed
    pend,       \* keys inserted by the open transaction
    aborted,    \* a statement of the open transaction has failed
    session,    \* keys in the session filter
    sessionAt,  \* the session filter's current_ledger
    inner,      \* keys in the persistent filter's current generation
    previous,   \* keys in its previous generation
    paused,     \* IndexerState.is_paused of the task's process
    announced,  \* history: keys sent to the broadcast channel and the queues
    excused,    \* history: keys dropped for one of the causes named below
    undone,     \* history: announced keys whose transaction was rolled back
    faults      \* faults still to come

rpcVars  == <<head, faults>>
dbVars   == <<db, ckpt, saved>>
pageVars == <<cursor, retries, lat, next>>
txVars   == <<todo, pend, aborted>>
filterVars == <<session, sessionAt, inner, previous>>
history  == <<announced, excused, undone>>
vars == <<rpcVars, dbVars, pc, cur, pageVars, txVars, filterVars, paused, history>>

Keys == {Key[p] : p \in Positions}
ChainOf(i) == Chain[NetOf[i]]
Cursors == Positions \cup {NoCursor}

TypeOK ==
    /\ head \in [Nets -> 0..MaxLedger]
    /\ db \subseteq Keys /\ announced \subseteq Keys /\ excused \subseteq Keys /\ undone \subseteq Keys
    /\ ckpt \in Cursors /\ saved \in Nat
    /\ pc \in [Indexers -> {"down", "latest", "idle", "fetch", "store"}]
    /\ cur \in [Indexers -> Nat]
    /\ cursor \in [Indexers -> Cursors]
    /\ next \in [Indexers -> Cursors]
    /\ retries \in [Indexers -> 0..MaxRetries]
    /\ lat \in [Indexers -> 0..MaxLedger]
    /\ todo \in [Indexers -> SUBSET Positions]
    /\ pend \in [Indexers -> SUBSET Keys]
    /\ aborted \in [Indexers -> BOOLEAN]
    /\ session \in [Indexers -> SUBSET Keys]
    /\ sessionAt \in [Indexers -> Nat]
    /\ inner \in [Indexers -> SUBSET Keys]
    /\ previous \in [Indexers -> SUBSET Keys]
    /\ paused \in [Indexers -> BOOLEAN]
    /\ faults \in 0..MaxFaults

Init ==
    /\ head = [n \in Nets |-> 0]
    /\ db = {} /\ ckpt = NoCursor /\ saved = 0
    /\ pc = [i \in Indexers |-> "down"]
    /\ cur = [i \in Indexers |-> 0]
    /\ cursor = [i \in Indexers |-> NoCursor]
    /\ next = [i \in Indexers |-> NoCursor]
    /\ retries = [i \in Indexers |-> 0]
    /\ lat = [i \in Indexers |-> 0]
    /\ todo = [i \in Indexers |-> {}]
    /\ pend = [i \in Indexers |-> {}]
    /\ aborted = [i \in Indexers |-> FALSE]
    /\ session = [i \in Indexers |-> {}]
    /\ sessionAt = [i \in Indexers |-> 0]
    /\ inner = [i \in Indexers |-> {}]
    /\ previous = [i \in Indexers |-> {}]
    /\ paused = [i \in Indexers |-> FALSE]
    /\ announced = {} /\ undone = {}
    /\ excused = {Key[e] : e \in {e \in UNION {Chain[n] : n \in Nets} : Ledger[e] < StartLedger}}
    /\ faults = MaxFaults

\* A fault of kind f happens now.
Fault(f) == f \in Faults /\ faults > 0 /\ faults' = faults - 1

(***************************************************************************)
(* The environment: ledgers close, operators pause and resume.             *)
(***************************************************************************)
CloseLedger(n) ==
    /\ head[n] < MaxLedger
    /\ head' = [head EXCEPT ![n] = @ + 1]
    /\ UNCHANGED <<faults, dbVars, pc, cur, pageVars, txVars, filterVars, paused, history>>

\* Only the active indexer can be paused.
Pause(i) ==
    /\ pc[i] # "down" /\ ~paused[i] /\ Fault("pause")
    /\ paused' = [paused EXCEPT ![i] = TRUE]
    /\ UNCHANGED <<head, dbVars, pc, cur, pageVars, txVars, filterVars, history>>

Resume(i) ==
    /\ pc[i] # "down" /\ paused[i]
    /\ paused' = [paused EXCEPT ![i] = FALSE]
    /\ UNCHANGED <<rpcVars, dbVars, pc, cur, pageVars, txVars, filterVars, history>>

-----------------------------------------------------------------------------
(***************************************************************************)
(* Start, graceful stop and crash of a task.                               *)
(***************************************************************************)

\* seed_from_db fills the current generation; enough rows make it rotate.
Rotates(S) == Cardinality(S) >= BloomFill

\* Seeded bug: the filter is filled from what was announced, not from the rows.
SeedAnnounced(i, rows) ==
    /\ inner' = [inner EXCEPT ![i] = announced]
    /\ previous' = [previous EXCEPT ![i] = {}]

Seed(i, rows) ==
    /\ inner' = [inner EXCEPT ![i] = IF Rotates(rows) THEN {} ELSE rows]
    /\ previous' = [previous EXCEPT ![i] = IF Rotates(rows) THEN rows ELSE {}]


\* The ledger run_loop starts from when load_indexer_state answered loaded;
\* 0 makes it ask the RPC server for the latest ledger.
StartAt(i, loaded) ==
    LET from == IF StartLedger # 0 THEN StartLedger ELSE loaded
    IN /\ cur' = [cur EXCEPT ![i] = from]
       /\ pc' = [pc EXCEPT ![i] = IF from = 0 THEN "latest" ELSE "idle"]

\* Process start: seed the persistent filter with rows of the table (the query
\* has a limit, may fail, and ran before the task waited for its lock), then
\* restore the persisted ledger (an error is taken for an absent row).
Boot(i) ==
    /\ pc[i] = "down"
    /\ \E rows \in IF i \in HasBloom THEN SUBSET db ELSE {{}} : Seed(i, rows)
    /\ \/ StartAt(i, saved) /\ UNCHANGED faults
       \/ saved # 0 /\ StartAt(i, 0) /\ Fault("state_load")
    /\ UNCHANGED <<head, dbVars, pageVars, txVars, session, sessionAt, paused, history>>

\* Keys of the task's network in the ledgers before l.
KeysBefore(i, l) == {Key[e] : e \in {e \in ChainOf(i) : Ledger[e] < l}}

\* "Starting from latest ledger": the history before it is given up.
StartFromLatest(i) ==
    /\ pc[i] = "latest"
    /\ \E l \in 1..head[NetOf[i]] :
          /\ cur' = [cur EXCEPT ![i] = l]
          /\ excused' = excused \cup KeysBefore(i, l)
    /\ pc' = [pc EXCEPT ![i] = "idle"]
    /\ UNCHANGED <<rpcVars, dbVars, pageVars, txVars, filterVars, paused, announced, undone>>

\* The task's memory is gone and Postgres rolls its open transaction back.
LoseMemory(i) ==
    /\ pc' = [pc EXCEPT ![i] = "down"]
    /\ cur' = [cur EXCEPT ![i] = 0]
    /\ cursor' = [cursor EXCEPT ![i] = NoCursor]
    /\ next' = [next EXCEPT ![i] = NoCursor]
    /\ retries' = [retries EXCEPT ![i] = 0]
    /\ lat' = [lat EXCEPT ![i] = 0]
    /\ todo' = [todo EXCEPT ![i] = {}]
    /\ pend' = [pend EXCEPT ![i] = {}] /\ undone' = undone \cup pend[i]
    /\ aborted' = [aborted EXCEPT ![i] = FALSE]
    /\ session' = [session EXCEPT ![i] = {}]
    /\ sessionAt' = [sessionAt EXCEPT ![i] = 0]
    /\ inner' = [inner EXCEPT ![i] = {}]
    /\ previous' = [previous EXCEPT ![i] = {}]
    /\ paused' = [paused EXCEPT ![i] = FALSE]

Crash(i) ==
    /\ pc[i] # "down" /\ Fault("crash")
    /\ LoseMemory(i)
    /\ UNCHANGED <<head, dbVars, announced, excused>>

\* The shutdown signal is only looked at between two cycles.
Stop(i) ==
    /\ pc[i] = "idle" /\ Fault("stop")
    /\ LoseMemory(i)
    /\ UNCHANGED <<head, dbVars, announced, excused>>

-----------------------------------------------------------------------------
(***************************************************************************)
(* One cycle of fetch_and_store_events: load the checkpoint, then fetch    *)
(* and store page after page until a page comes without a cursor.          *)
(***************************************************************************)
BeginCycle(i) ==
    /\ pc[i] = "idle" /\ ~paused[i]
    /\ \/ /\ cursor' = [cursor EXCEPT ![i] = IF IgnoreCheckpoint THEN NoCursor ELSE ckpt]
          /\ UNCHANGED faults
       \/ /\ ~IgnoreCheckpoint /\ ckpt # NoCursor /\ Fault("ckpt_load")
          /\ cursor' = [cursor EXCEPT ![i] = NoCursor]
    /\ retries' = [retries EXCEPT ![i] = 0]
    /\ pc' = [pc EXCEPT ![i] = "fetch"]
    /\ UNCHANGED <<head, dbVars, cur, lat, next, txVars, filterVars, paused, history>>

\* The cycle returns an error; run_loop sleeps and starts the next one.
FailCycle(i) ==
    /\ pc' = [pc EXCEPT ![i] = "idle"]
    /\ cursor' = [cursor EXCEPT ![i] = NoCursor]
    /\ next' = [next EXCEPT ![i] = NoCursor]
    /\ lat' = [lat EXCEPT ![i] = 0]
    /\ retries' = [retries EXCEPT ![i] = 0]

Oldest(i) == head[NetOf[i]] - Retention + 1
CursorExpired(i) == cursor[i] # NoCursor /\ Ledger[cursor[i]] < Oldest(i)
OutOfRange(i) == cursor[i] = NoCursor /\ cur[i] < Oldest(i)

\* getEvents fails, or the pool cannot begin the page's transaction.
FetchFails(i) ==
    /\ pc[i] = "fetch"
    /\ \/ OutOfRange(i) /\ UNCHANGED faults
       \/ Fault("rpc")
    /\ FailCycle(i)
    /\ UNCHANGED <<head, dbVars, cur, txVars, filterVars, paused, history>>

\* Seeded bug: one retry too many.
FallsBackLate(i) == retries[i] > MaxRetries

\* CursorExpiryBackoff::should_fallback.
FallsBack(i) == retries[i] >= MaxRetries

\* An error whose text speaks of an expired cursor (the server may send one for
\* a request without a cursor too): retry with backoff, and after MaxRetries
\* drop the cursor and page from the cycle's start ledger again.
HandleExpiry(i) ==
    /\ pc[i] = "fetch"
    /\ \/ CursorExpired(i) /\ UNCHANGED faults
       \/ Fault("expiry")
    /\ IF FallsBack(i)
       THEN /\ cursor' = [cursor EXCEPT ![i] = NoCursor]
            /\ retries' = [retries EXCEPT ![i] = 0]
       ELSE /\ retries' = [retries EXCEPT ![i] = @ + 1]
            /\ UNCHANGED cursor
    /\ UNCHANGED <<head, dbVars, pc, cur, lat, next, txVars, filterVars, paused, history>>

\* The events a server that has seen ledger l has for this request.
Available(i, l) ==
    {e \in ChainOf(i) : /\ Ledger[e] <= l
                        /\ IF cursor[i] = NoCursor THEN Ledger[e] >= cur[i] ELSE e > cursor[i]}

\* The pages a server may answer with: the first few of the available events.
Pages(S) == {p \in SUBSET S : /\ Cardinality(p) <= RpcLimit
                              /\ \A e \in p, f \in S \ p : e < f}

\* result.events.truncate(requested_limit)
Truncated(page) == {e \in page : Cardinality({f \in page : f < e}) < MaxPerPage}

\* The cursor that comes with a page: the page's last event, or, when the
\* page ends the range, none or the end of the range.
PageCursors(i, l, page) ==
    {c \in page : \A e \in page : e <= c}
      \cup IF page = Available(i, l)
           THEN {NoCursor, IF EndOf[l] < cursor[i] THEN cursor[i] ELSE EndOf[l]}
           ELSE {}

\* A page arrives from a server at ledger l (endpoints may lag behind one
\* another) and the transaction that will store it begins.  Events beyond
\* MaxPerPage are dropped although the page's cursor is past them.
FetchPage(i, l) ==
    /\ pc[i] = "fetch" /\ ~OutOfRange(i) /\ ~CursorExpired(i)
    /\ \E page \in Pages(Available(i, l)) :
          /\ todo' = [todo EXCEPT ![i] = Truncated(page)]
          /\ excused' = excused \cup {Key[e] : e \in page \ Truncated(page)}
          /\ \E c \in PageCursors(i, l, page) : next' = [next EXCEPT ![i] = c]
    /\ lat' = [lat EXCEPT ![i] = l]
    /\ retries' = [retries EXCEPT ![i] = 0]
    /\ pc' = [pc EXCEPT ![i] = "store"]
    /\ UNCHANGED <<rpcVars, dbVars, cur, cursor, pend, aborted, filterVars, paused, announced, undone>>

-----------------------------------------------------------------------------
(***************************************************************************)
(* store_event_in_tx, event by event in page order.                        *)
(***************************************************************************)
IsNext(i, e) == pc[i] = "store" /\ e \in todo[i] /\ \A f \in todo[i] : e <= f
Consume(i, e) == todo' = [todo EXCEPT ![i] = @ \ {e}]

\* The session filter starts afresh at the first event of a later ledger.
SessionAt(i, e) == IF Ledger[e] > sessionAt[i] THEN {} ELSE session[i]

RecordSession(i, e) ==
    /\ session' = [session EXCEPT ![i] = SessionAt(i, e) \cup {Key[e]}]
    /\ sessionAt' = [sessionAt EXCEPT ![i] = IF Ledger[e] > @ THEN Ledger[e] ELSE @]

Seen(i, e) == Key[e] \in SessionAt(i, e) \cup inner[i] \cup previous[i]

\* The event gets past the ledger check and both filters.
Passes(i, e) == Ledger[e] >= cur[i] /\ ~Seen(i, e)

SkipOutOfOrder(i, e) ==
    /\ IsNext(i, e) /\ Ledger[e] < cur[i]
    /\ Consume(i, e)
    /\ UNCHANGED <<rpcVars, dbVars, pc, cur, pageVars, pend, aborted, filterVars, paused, history>>

SkipSeen(i, e) ==
    /\ IsNext(i, e) /\ Ledger[e] >= cur[i] /\ Seen(i, e)
    /\ Consume(i, e) /\ RecordSession(i, e)
    /\ UNCHANGED <<rpcVars, dbVars, pc, cur, pageVars, pend, aborted, inner, previous, paused, history>>

\* A filter answers "seen" for a key it was never given.
FalsePositive(i, e) ==
    /\ IsNext(i, e) /\ Passes(i, e) /\ Fault("bloom_fp")
    /\ Consume(i, e) /\ RecordSession(i, e)
    /\ excused' = excused \cup {Key[e]}
    /\ UNCHANGED <<head, dbVars, pc, cur, pageVars, pend, aborted, inner, previous, paused, announced, undone>>

\* Tenant filter, validation, timestamp or size limit refuse the event.
Reject(i, e) ==
    /\ IsNext(i, e) /\ Passes(i, e) /\ e \notin Storable
    /\ Consume(i, e) /\ RecordSession(i, e)
    /\ excused' = excused \cup {Key[e]}
    /\ UNCHANGED <<rpcVars, dbVars, pc, cur, pageVars, pend, aborted, inner, previous, paused, announced, undone>>

\* Seeded bug: INSERT does not wait for the other transaction.
HolderNone(i, e) == {}

\* Another open transaction holds the key: INSERT waits for it to end.
Holder(i, e) == {j \in Indexers \ {i} : Key[e] \in pend[j] /\ ~aborted[j]}

\* Seeded bug: rows other tasks have not committed yet count as stored.
ConflictsDirty(i, e) == Key[e] \in db \cup UNION {pend[j] : j \in Indexers}

\* A visible row, or one of the same transaction, has the key.
Conflicts(i, e) == Key[e] \in db \cup pend[i]

\* ON CONFLICT DO NOTHING.
SkipStored(i, e) ==
    /\ IsNext(i, e) /\ Passes(i, e) /\ e \in Storable /\ ~aborted[i]
    /\ Conflicts(i, e)
    /\ Consume(i, e) /\ RecordSession(i, e)
    /\ UNCHANGED <<rpcVars, dbVars, pc, cur, pageVars, pend, aborted, inner, previous, paused, history>>

\* EventBloomFilter::set, with its rotation.
SetFilter(i, k) ==
    LET filled == inner[i] \cup {k}
    IN IF i \notin HasBloom THEN UNCHANGED <<inner, previous>>
       ELSE /\ inner' = [inner EXCEPT ![i] = IF Rotates(filled) THEN {} ELSE filled]
            /\ previous' = [previous EXCEPT ![i] = IF Rotates(filled) THEN filled ELSE @]

\* The row is inserted; the persistent filter, the ring buffer, the broadcast
\* channel and the message queues learn of it before the transaction commits.
Insert(i, e) ==
    /\ IsNext(i, e) /\ Passes(i, e) /\ e \in Storable /\ ~aborted[i]
    /\ ~Conflicts(i, e) /\ Holder(i, e) = {}
    /\ Consume(i, e) /\ RecordSession(i, e) /\ SetFilter(i, Key[e])
    /\ pend' = [pend EXCEPT ![i] = @ \cup {Key[e]}]
    /\ announced' = announced \cup {Key[e]}
    /\ UNCHANGED <<rpcVars, dbVars, pc, cur, pageVars, aborted, paused, excused, undone>>

\* The INSERT of the event fails (deadlock detection, statement timeout, a
\* constraint, a row of event_addresses): the error is logged, the loop goes on, and
\* the transaction refuses every later statement.
FailStatement(i, e) ==
    /\ IsNext(i, e) /\ Passes(i, e) /\ e \in Storable
    /\ \/ aborted[i] /\ UNCHANGED faults
       \/ ~aborted[i] /\ Fault("statement")
    /\ Consume(i, e) /\ RecordSession(i, e)
    /\ aborted' = [aborted EXCEPT ![i] = TRUE]
    /\ excused' = excused \cup {Key[e]} /\ undone' = undone \cup pend[i]
    /\ UNCHANGED <<head, dbVars, pc, cur, pageVars, pend, inner, previous, paused, announced>>

-----------------------------------------------------------------------------
(***************************************************************************)
(* The end of a page: save cursor and ledger in the transaction, commit.   *)
(***************************************************************************)
PageDone(i) == pc[i] = "store" /\ todo[i] = {}

\* Seeded bug: the checkpoint is the end of the newest ledger the server has seen.
SavedEnd(i) == EndOf[lat[i]]

\* next_cursor.or(cursor), or the row as it is.
SavedCursor(i) ==
    IF next[i] # NoCursor THEN next[i]
    ELSE IF cursor[i] # NoCursor THEN cursor[i] ELSE ckpt

\* Seeded bug: off by one.
NextLedgerPast(i) == IF lat[i] > cur[i] THEN lat[i] + 2 ELSE cur[i]

NextLedger(i) == IF lat[i] > cur[i] THEN lat[i] + 1 ELSE cur[i]

CloseTx(i) ==
    /\ pend' = [pend EXCEPT ![i] = {}]
    /\ aborted' = [aborted EXCEPT ![i] = FALSE]

\* Go on with the next page, or end the cycle when there is no cursor.
EndPage(i) ==
    /\ cursor' = [cursor EXCEPT ![i] = next[i]]
    /\ next' = [next EXCEPT ![i] = NoCursor]
    /\ lat' = [lat EXCEPT ![i] = 0]
    /\ pc' = [pc EXCEPT ![i] = IF next[i] = NoCursor THEN "idle" ELSE "fetch"]
    /\ cur' = [cur EXCEPT ![i] = IF next[i] = NoCursor THEN NextLedger(i) ELSE @]
    /\ UNCHANGED retries

WritePage(i) ==
    /\ db' = db \cup pend[i]
    /\ ckpt' = SavedCursor(i)
    /\ saved' = cur[i]

Commit(i) ==
    /\ PageDone(i) /\ ~aborted[i]
    /\ WritePage(i) /\ CloseTx(i) /\ EndPage(i)
    /\ UNCHANGED <<rpcVars, todo, filterVars, paused, history>>

\* A failed statement (one of the inserts, or the save of the checkpoint or
\* the state, whose results are ignored) turns COMMIT into a rollback that
\* reports no error.
SilentRollback(i) ==
    /\ PageDone(i)
    /\ \/ aborted[i] /\ UNCHANGED faults
       \/ ~aborted[i] /\ Fault("statement")
    /\ excused' = excused \cup pend[i] /\ undone' = undone \cup pend[i]
    /\ CloseTx(i) /\ EndPage(i)
    /\ UNCHANGED <<head, dbVars, todo, filterVars, paused, announced>>

\* COMMIT reports an error; the server may or may not have committed.
CommitFails(i) ==
    /\ PageDone(i) /\ ~aborted[i] /\ Fault("commit")
    /\ \/ WritePage(i) /\ UNCHANGED <<excused, undone>>
       \/ /\ excused' = excused \cup pend[i] /\ undone' = undone \cup pend[i]
          /\ UNCHANGED dbVars
    /\ CloseTx(i) /\ FailCycle(i)
    /\ UNCHANGED <<head, cur, todo, filterVars, paused, announced>>

-----------------------------------------------------------------------------
StoreEvent(i) ==
    \E e \in todo[i] :
        \/ SkipOutOfOrder(i, e) \/ SkipSeen(i, e) \/ Reject(i, e) \/ SkipStored(i, e)
        \/ Insert(i, e) \/ FailStatement(i, e) \/ FalsePositive(i, e)

Environment ==
    \/ \E n \in Nets : CloseLedger(n)
    \/ \E i \in Indexers : Pause(i) \/ Resume(i) \/ Crash(i) \/ Stop(i)

Task(i) ==
    \/ Boot(i) \/ StartFromLatest(i) \/ BeginCycle(i)
    \/ FetchFails(i) \/ HandleExpiry(i)
    \/ \E l \in 0..head[NetOf[i]] : FetchPage(i, l)
    \/ StoreEvent(i) \/ Commit(i) \/ SilentRollback(i) \/ CommitFails(i)

Next == Environment \/ \E i \in Indexers : Task(i)

Spec == Init /\ [][Next]_vars

\* The tokio runtime keeps polling a task that can run, the process is
\* restarted by its supervisor, an operator who pauses also resumes, and the
\* failover client reaches an up-to-date endpoint again and again.
Fairness ==
    /\ \A n \in Nets : WF_vars(CloseLedger(n))
    /\ \A i \in Indexers : /\ WF_vars(Task(i)) /\ WF_vars(Resume(i))
                           /\ SF_vars(FetchPage(i, head[NetOf[i]]))

FairSpec == Spec /\ Fairness

-----------------------------------------------------------------------------
(***************************************************************************)
(* Properties                                                              *)
(***************************************************************************)
Handled(e) == Key[e] \in db \cup excused

CkptCovered == \A n \in Nets : \A e \in Chain[n] : e <= ckpt => Handled(e)
SavedCovered == \A n \in Nets : \A e \in Chain[n] : Ledger[e] < saved => Handled(e)
CurCovered == \A i \in Indexers : \A e \in ChainOf(i) : Ledger[e] < cur[i] => Handled(e)

\* A task pages on from a cursor only if the events of its own network up to
\* that cursor are stored or given up: each network has its own checkpoint
\* ("the indexer checkpoint/state tables are already keyed off `chain_id`").
CursorCovered == \A i \in Indexers : \A e \in ChainOf(i) : e <= cursor[i] => Handled(e)

\* Every position from which indexing may resume (the checkpoint cursor, the
\* persisted ledger, run_loop's ledger and cursor in memory) has behind it only events
\* that are stored or were dropped for a cause the model names: before the
\* start ledger, refused by validation, truncated page, filter false positive,
\* failed statement, rolled back while the filters remember it.  It holds
\* across crashes, expired cursors, lagging endpoints and several tasks of one
\* network writing the same rows.
NoUnexplainedLoss == CkptCovered /\ SavedCovered /\ CurCovered /\ CursorCovered

\* The filters never answer "duplicate" for a key that is neither stored, nor
\* in the task's own open transaction, nor given up: the pre-filters of
\* store_event_in_tx only skip what ON CONFLICT would skip.
FilterSound ==
    \A i \in Indexers : session[i] \cup inner[i] \cup previous[i] \subseteq db \cup pend[i] \cup excused

\* Subscribers are told of an event a second time only if the transaction that
\* inserted it before was rolled back: two tasks that fetch the same page, a
\* task that resumes behind rows already committed, and a retry after a COMMIT
\* whose answer was lost never broadcast an insert that stands.
AnnouncedAgain ==
    [][\A i \in Indexers : (pend'[i] \ pend[i]) \cap announced \subseteq undone]_vars

\* Without harmful faults nothing is dropped: an event behind the checkpoint
\* that validation accepts is stored, as the comment of save_checkpoint says
\* ("Persist the cursor atomically alongside the event inserts").
CheckpointExact ==
    \A n \in Nets : \A e \in Chain[n] \cap Storable :
        (e <= ckpt /\ Ledger[e] >= StartLedger) => Key[e] \in db

\* A task whose start ledger and cursor have both left the server's window: the
\* fallback of an expired cursor pages from the same start ledger, which is
\* refused too, and every later cycle fails the same way.
Gone(i, c) == c = NoCursor \/ Ledger[c] < Oldest(i)
Stranded(i) ==
    /\ pc[i] \in {"idle", "fetch"} /\ cur[i] < Oldest(i)
    /\ Gone(i, cursor[i]) /\ (IgnoreCheckpoint \/ Gone(i, ckpt))

\* Every event of a closed ledger is eventually stored or given up for a cause
\* above, after any finite number of faults and expired cursors, unless a task
\* of the network fell out of the server's retention window: from there the
\* loop never recovers by itself (see Stranded).
AllHandled ==
    \A n \in Nets : \A e \in Chain[n] :
        Ledger[e] <= head[n] ~> Handled(e) \/ \E i \in Indexers : NetOf[i] = n /\ Stranded(i)


\* The events some resume point has moved over.
Passed ==
    {Key[e] : e \in {e \in UNION {Chain[n] : n \in Nets} :
        \/ e <= ckpt \/ Ledger[e] < saved
        \/ \E i \in Indexers : e \in ChainOf(i) /\ (Ledger[e] < cur[i] \/ e <= cursor[i])}}

Log == INSTANCE IngestLog WITH Events <- Keys, stored <- db, given <- excused, passed <- Passed

\* The loop implements the ingestion promise: rows are never taken back, and no
\* step of any task, and no crash, moves a checkpoint, the persisted ledger or
\* a cursor in memory over an event that is not stored or given up by then.
IngestRefined == Log!Spec
=============================================================================
