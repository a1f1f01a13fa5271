--------------------------- MODULE IndexerProofs ---------------------------
(***************************************************************************)
(* Proofs about Indexer for any number of tasks, any history of events and *)
(* any number of faults.                                                   *)
(***************************************************************************)
EXTENDS Indexer, TLAPS

\* A fault lowers the budget of faults.
LEMMA FaultBudget ==
    ASSUME faults \in 0..MaxFaults, NEW f, Fault(f)
    PROVE  faults' \in 0..MaxFaults
  BY ConstantAssumption DEF Fault

\* The keys of a network's events are keys.
LEMMA ChainKeys ==
    ASSUME NEW i \in Indexers
    PROVE  ChainOf(i) \subseteq Positions /\ \A e \in ChainOf(i) : Key[e] \in Keys
  BY ConstantAssumption DEF ChainOf, Keys

\* What a page is: some of the available events, with a cursor.
LEMMA PageTypes ==
    ASSUME TypeOK, NEW i \in Indexers, NEW l \in 0..head[NetOf[i]],
           NEW page \in Pages(Available(i, l))
    PROVE  /\ l \in 0..MaxLedger
           /\ page \subseteq Available(i, l) /\ page \subseteq Positions
           /\ Truncated(page) \subseteq page
           /\ PageCursors(i, l, page) \subseteq Cursors
           /\ {Key[e] : e \in page \ Truncated(page)} \subseteq Keys
  <1>1. l \in 0..MaxLedger
    BY ConstantAssumption DEF TypeOK
  <1>2. page \subseteq Available(i, l)
    BY DEF Pages
  <1>3. page \subseteq Positions
    BY <1>2, ChainKeys DEF Available
  <1>4. Truncated(page) \subseteq page
    BY DEF Truncated
  <1>5. PageCursors(i, l, page) \subseteq Cursors
    BY <1>1, <1>3, ConstantAssumption DEF PageCursors, Cursors, TypeOK
  <1>6. {Key[e] : e \in page \ Truncated(page)} \subseteq Keys
    BY <1>3 DEF Keys
  <1>7. QED
    BY <1>1, <1>2, <1>3, <1>4, <1>5, <1>6

-----------------------------------------------------------------------------
(***************************************************************************)
(* Types.                                                                  *)
(***************************************************************************)
LEMMA InitTypes == Init => TypeOK
  <1> SUFFICES ASSUME Init PROVE TypeOK
    OBVIOUS
  <1>1. excused \subseteq Keys
    <2>1. UNION {Chain[n] : n \in Nets} \subseteq Positions
      BY ConstantAssumption
    <2>2. QED
      BY <2>1 DEF Init, Keys
  <1>2. QED
    BY <1>1, ConstantAssumption DEF Init, TypeOK, Cursors, NoCursor

LEMMA EnvironmentTypes ==
    ASSUME TypeOK, Environment
    PROVE  TypeOK'
  <1>1. ASSUME NEW n \in Nets, CloseLedger(n) PROVE TypeOK'
    BY <1>1, ConstantAssumption DEF CloseLedger, TypeOK, dbVars, pageVars, txVars, filterVars, history
  <1>2. ASSUME NEW i \in Indexers, Pause(i) PROVE TypeOK'
    BY <1>2, FaultBudget DEF Pause, TypeOK, dbVars, pageVars, txVars, filterVars, history
  <1>3. ASSUME NEW i \in Indexers, Resume(i) PROVE TypeOK'
    BY <1>3 DEF Resume, TypeOK, rpcVars, dbVars, pageVars, txVars, filterVars, history
  <1>4. ASSUME NEW i \in Indexers, Crash(i) \/ Stop(i) PROVE TypeOK'
    <2>1. faults' \in 0..MaxFaults
      BY <1>4, FaultBudget DEF Crash, Stop, TypeOK
    <2>2. LoseMemory(i) /\ UNCHANGED <<head, dbVars, announced, excused>>
      BY <1>4 DEF Crash, Stop
    <2>3. QED
      BY <2>1, <2>2, ConstantAssumption DEF LoseMemory, TypeOK, dbVars, Cursors
  <1>5. QED
    BY <1>1, <1>2, <1>3, <1>4 DEF Environment

LEMMA StartTypes ==
    ASSUME TypeOK, NEW i \in Indexers, Boot(i) \/ StartFromLatest(i) \/ BeginCycle(i)
    PROVE  TypeOK'
  <1>1. CASE Boot(i)
    <2>1. faults' \in 0..MaxFaults
      BY <1>1, FaultBudget DEF Boot, TypeOK
    <2>2. inner' \in [Indexers -> SUBSET Keys] /\ previous' \in [Indexers -> SUBSET Keys]
      BY <1>1 DEF Boot, Seed, TypeOK
    <2>3. cur' \in [Indexers -> Nat] /\ pc' \in [Indexers -> {"down", "latest", "idle", "fetch", "store"}]
      <3>1. PICK loaded \in {saved, 0} : StartAt(i, loaded)
        BY <1>1 DEF Boot
      <3>2. (IF StartLedger # 0 THEN StartLedger ELSE loaded) \in Nat
        BY ConstantAssumption DEF TypeOK
      <3>3. QED
        BY <3>1, <3>2 DEF StartAt, TypeOK
    <2>4. QED
      BY <1>1, <2>1, <2>2, <2>3 DEF Boot, TypeOK, dbVars, pageVars, txVars, history
  <1>2. CASE StartFromLatest(i)
    <2>1. PICK l \in 1..head[NetOf[i]] : /\ cur' = [cur EXCEPT ![i] = l]
                                         /\ excused' = excused \cup KeysBefore(i, l)
      BY <1>2 DEF StartFromLatest
    <2>2. KeysBefore(i, l) \subseteq Keys
      BY ChainKeys DEF KeysBefore
    <2>3. l \in Nat
      BY ConstantAssumption DEF TypeOK
    <2>4. QED
      BY <1>2, <2>1, <2>2, <2>3
         DEF StartFromLatest, TypeOK, rpcVars, dbVars, pageVars, txVars, filterVars
  <1>3. CASE BeginCycle(i)
    <2>1. faults' \in 0..MaxFaults
      BY <1>3, FaultBudget DEF BeginCycle, TypeOK
    <2>2. cursor' \in [Indexers -> Cursors]
      BY <1>3 DEF BeginCycle, TypeOK, Cursors
    <2>3. QED
      BY <1>3, <2>1, <2>2, ConstantAssumption
         DEF BeginCycle, TypeOK, dbVars, pageVars, txVars, filterVars, history
  <1>4. QED
    BY <1>1, <1>2, <1>3

LEMMA FetchTypes ==
    ASSUME TypeOK, NEW i \in Indexers,
           FetchFails(i) \/ HandleExpiry(i) \/ \E l \in 0..head[NetOf[i]] : FetchPage(i, l)
    PROVE  TypeOK'
  <1>1. CASE FetchFails(i)
    <2>1. faults' \in 0..MaxFaults
      BY <1>1, FaultBudget DEF FetchFails, TypeOK
    <2>2. QED
      BY <1>1, <2>1, ConstantAssumption
         DEF FetchFails, FailCycle, TypeOK, Cursors, dbVars, txVars, filterVars, history
  <1>2. CASE HandleExpiry(i)
    <2>1. faults' \in 0..MaxFaults
      BY <1>2, FaultBudget DEF HandleExpiry, TypeOK
    <2>2. cursor' \in [Indexers -> Cursors] /\ retries' \in [Indexers -> 0..MaxRetries]
      <3>1. CASE FallsBack(i)
        <4>1. /\ cursor' = [cursor EXCEPT ![i] = NoCursor]
              /\ retries' = [retries EXCEPT ![i] = 0]
          BY <1>2, <3>1 DEF HandleExpiry
        <4>2. NoCursor \in Cursors /\ 0 \in 0..MaxRetries
          BY ConstantAssumption DEF Cursors
        <4>3. QED
          BY <4>1, <4>2 DEF TypeOK
      <3>2. CASE ~FallsBack(i)
        <4>1. retries[i] + 1 \in 0..MaxRetries
          BY <3>2, ConstantAssumption DEF FallsBack, TypeOK
        <4>2. cursor' = cursor /\ retries' = [retries EXCEPT ![i] = retries[i] + 1]
          BY <1>2, <3>2 DEF HandleExpiry
        <4>3. QED
          BY <4>1, <4>2 DEF TypeOK
      <3>3. QED
        BY <3>1, <3>2
    <2>3. QED
      BY <1>2, <2>1, <2>2 DEF HandleExpiry, TypeOK, dbVars, txVars, filterVars, history
  <1>3. ASSUME NEW l \in 0..head[NetOf[i]], FetchPage(i, l) PROVE TypeOK'
    <2>1. PICK page \in Pages(Available(i, l)) :
             /\ todo' = [todo EXCEPT ![i] = Truncated(page)]
             /\ excused' = excused \cup {Key[e] : e \in page \ Truncated(page)}
             /\ \E c \in PageCursors(i, l, page) : next' = [next EXCEPT ![i] = c]
      BY <1>3 DEF FetchPage
    <2>2. /\ l \in 0..MaxLedger /\ Truncated(page) \subseteq Positions
          /\ PageCursors(i, l, page) \subseteq Cursors
          /\ {Key[e] : e \in page \ Truncated(page)} \subseteq Keys
      BY PageTypes
    <2>3. next' \in [Indexers -> Cursors] /\ todo' \in [Indexers -> SUBSET Positions]
      BY <2>1, <2>2 DEF TypeOK
    <2>4. excused' \subseteq Keys
      BY <2>1, <2>2 DEF TypeOK
    <2>5. /\ lat' \in [Indexers -> 0..MaxLedger] /\ retries' \in [Indexers -> 0..MaxRetries]
          /\ pc' \in [Indexers -> {"down", "latest", "idle", "fetch", "store"}]
      BY <1>3, <2>2, ConstantAssumption DEF FetchPage, TypeOK
    <2>6. QED
      BY <1>3, <2>3, <2>4, <2>5 DEF FetchPage, TypeOK, rpcVars, dbVars, filterVars
  <1>4. QED
    BY <1>1, <1>2, <1>3

\* The part of the state that every branch of store_event_in_tx may change.
LEMMA StoreTypes ==
    ASSUME TypeOK, NEW i \in Indexers, StoreEvent(i)
    PROVE  TypeOK'
  <1>1. PICK e \in todo[i] : \/ SkipOutOfOrder(i, e) \/ SkipSeen(i, e) \/ Reject(i, e)
                             \/ SkipStored(i, e) \/ Insert(i, e) \/ FailStatement(i, e)
                             \/ FalsePositive(i, e)
    BY DEF StoreEvent
  <1>2. e \in Positions /\ Key[e] \in Keys /\ Ledger[e] \in Nat
    BY ConstantAssumption DEF TypeOK, Keys
  <1>3. todo' \in [Indexers -> SUBSET Positions]
    BY <1>1 DEF SkipOutOfOrder, SkipSeen, Reject, SkipStored, Insert, FailStatement, FalsePositive,
                Consume, TypeOK
  <1>4. ASSUME RecordSession(i, e)
        PROVE  session' \in [Indexers -> SUBSET Keys] /\ sessionAt' \in [Indexers -> Nat]
    <2>1. SessionAt(i, e) \cup {Key[e]} \subseteq Keys
      BY <1>2 DEF SessionAt, TypeOK
    <2>2. (IF Ledger[e] > sessionAt[i] THEN Ledger[e] ELSE sessionAt[i]) \in Nat
      BY <1>2 DEF TypeOK
    <2>3. QED
      BY <1>4, <2>1, <2>2 DEF RecordSession, TypeOK
  <1>5. excused \cup {Key[e]} \subseteq Keys
    BY <1>2 DEF TypeOK
  <1>6. CASE SkipOutOfOrder(i, e)
    BY <1>3, <1>6 DEF SkipOutOfOrder, TypeOK, rpcVars, dbVars, pageVars, filterVars, history
  <1>7. CASE SkipSeen(i, e) \/ SkipStored(i, e)
    BY <1>3, <1>4, <1>7 DEF SkipSeen, SkipStored, TypeOK, rpcVars, dbVars, pageVars, history
  <1>8. CASE Reject(i, e)
    BY <1>3, <1>4, <1>5, <1>8 DEF Reject, TypeOK, rpcVars, dbVars, pageVars
  <1>9. CASE FalsePositive(i, e)
    BY <1>3, <1>4, <1>5, <1>9, FaultBudget DEF FalsePositive, TypeOK, dbVars, pageVars
  <1>10. CASE FailStatement(i, e)
    <2>1. faults' \in 0..MaxFaults
      BY <1>10, FaultBudget DEF FailStatement, TypeOK
    <2>2. QED
      BY <1>3, <1>4, <1>5, <1>10, <2>1 DEF FailStatement, TypeOK, dbVars, pageVars
  <1>11. CASE Insert(i, e)
    <2>1. inner' \in [Indexers -> SUBSET Keys] /\ previous' \in [Indexers -> SUBSET Keys]
      BY <1>2, <1>11 DEF Insert, SetFilter, TypeOK
    <2>2. pend' \in [Indexers -> SUBSET Keys] /\ announced' \subseteq Keys
      BY <1>2, <1>11 DEF Insert, TypeOK
    <2>3. QED
      BY <1>3, <1>4, <1>11, <2>1, <2>2 DEF Insert, TypeOK, rpcVars, dbVars, pageVars
  <1>12. QED
    BY <1>1, <1>6, <1>7, <1>8, <1>9, <1>10, <1>11

LEMMA PageEndTypes ==
    ASSUME TypeOK, NEW i \in Indexers, Commit(i) \/ SilentRollback(i) \/ CommitFails(i)
    PROVE  TypeOK'
  <1>1. faults' \in 0..MaxFaults
    BY FaultBudget DEF Commit, SilentRollback, CommitFails, TypeOK, rpcVars
  <1>2. /\ pend' \in [Indexers -> SUBSET Keys] /\ aborted' \in [Indexers -> BOOLEAN]
        /\ excused' \subseteq Keys /\ undone' \subseteq Keys
    BY DEF Commit, SilentRollback, CommitFails, CloseTx, TypeOK, history
  <1>3. db' \subseteq Keys /\ ckpt' \in Cursors /\ saved' \in Nat
    <2>1. SavedCursor(i) \in Cursors
      BY DEF SavedCursor, TypeOK
    <2>2. CASE WritePage(i)
      BY <2>1, <2>2 DEF WritePage, TypeOK
    <2>3. CASE UNCHANGED dbVars
      BY <2>3 DEF dbVars, TypeOK
    <2>4. QED
      BY <2>2, <2>3 DEF Commit, SilentRollback, CommitFails
  <1>4. /\ cursor' \in [Indexers -> Cursors] /\ next' \in [Indexers -> Cursors]
        /\ lat' \in [Indexers -> 0..MaxLedger] /\ cur' \in [Indexers -> Nat]
        /\ retries' \in [Indexers -> 0..MaxRetries]
        /\ pc' \in [Indexers -> {"down", "latest", "idle", "fetch", "store"}]
    <2>1. NextLedger(i) \in Nat
      BY ConstantAssumption DEF NextLedger, TypeOK
    <2>2. CASE EndPage(i)
      BY <2>1, <2>2, ConstantAssumption DEF EndPage, TypeOK, Cursors
    <2>3. CASE FailCycle(i) /\ UNCHANGED cur
      BY <2>3, ConstantAssumption DEF FailCycle, TypeOK, Cursors
    <2>4. QED
      BY <2>2, <2>3 DEF Commit, SilentRollback, CommitFails
  <1>5. /\ UNCHANGED <<head, todo, filterVars, paused, announced>>
    BY DEF Commit, SilentRollback, CommitFails, rpcVars, history
  <1>6. QED
    BY <1>1, <1>2, <1>3, <1>4, <1>5 DEF TypeOK, filterVars

\* The variables of Indexer keep their types: the cursor-expiry retry count
\* never passes its maximum and every cursor is one the RPC server issued.
THEOREM IndexerTypes == Spec => []TypeOK
  <1>1. TypeOK /\ [Next]_vars => TypeOK'
    <2> SUFFICES ASSUME TypeOK, [Next]_vars PROVE TypeOK'
      OBVIOUS
    <2>1. ASSUME NEW i \in Indexers, Task(i) PROVE TypeOK'
      BY <2>1, StartTypes, FetchTypes, StoreTypes, PageEndTypes DEF Task
    <2>2. CASE UNCHANGED vars
      BY <2>2 DEF vars, TypeOK, rpcVars, dbVars, pageVars, txVars, filterVars, history
    <2>3. QED
      BY <2>1, <2>2, EnvironmentTypes DEF Next
  <1>2. QED
    BY <1>1, InitTypes, PTL DEF Spec

-----------------------------------------------------------------------------
(***************************************************************************)
(* A step of one task: what it leaves alone, and what only grows.          *)
(***************************************************************************)
Same(j) ==
    /\ pc'[j] = pc[j] /\ cur'[j] = cur[j] /\ cursor'[j] = cursor[j]
    /\ lat'[j] = lat[j] /\ next'[j] = next[j] /\ todo'[j] = todo[j]
    /\ pend'[j] = pend[j] /\ aborted'[j] = aborted[j]
    /\ session'[j] = session[j] /\ inner'[j] = inner[j] /\ previous'[j] = previous[j]

Grows ==
    /\ db \subseteq db' /\ excused \subseteq excused'
    /\ announced \subseteq announced' /\ undone \subseteq undone'

\* No step of a task touches the memory or the transaction of another.
LEMMA Locality ==
    ASSUME TypeOK, NEW i \in Indexers, Task(i) \/ Crash(i) \/ Stop(i), NEW j \in Indexers \ {i}
    PROVE  Same(j)
  <1>1. CASE Crash(i) \/ Stop(i)
    BY <1>1 DEF Crash, Stop, LoseMemory, Same, TypeOK
  <1>2. CASE Boot(i)
    BY <1>2 DEF Boot, Seed, StartAt, Same, TypeOK, pageVars, txVars
  <1>3. CASE StartFromLatest(i)
    BY <1>3 DEF StartFromLatest, Same, TypeOK, pageVars, txVars, filterVars
  <1>4. CASE BeginCycle(i)
    BY <1>4 DEF BeginCycle, Same, TypeOK, txVars, filterVars
  <1>5. CASE FetchFails(i)
    BY <1>5 DEF FetchFails, FailCycle, Same, TypeOK, txVars, filterVars
  <1>6. CASE HandleExpiry(i)
    BY <1>6 DEF HandleExpiry, Same, TypeOK, txVars, filterVars
  <1>7. ASSUME NEW l \in 0..head[NetOf[i]], FetchPage(i, l) PROVE Same(j)
    BY <1>7 DEF FetchPage, Same, TypeOK, filterVars
  <1>8. CASE StoreEvent(i)
    <2>1. PICK e \in todo[i] : \/ SkipOutOfOrder(i, e) \/ SkipSeen(i, e) \/ Reject(i, e)
                               \/ SkipStored(i, e) \/ Insert(i, e) \/ FailStatement(i, e)
                               \/ FalsePositive(i, e)
      BY <1>8 DEF StoreEvent
    <2>2. pc' = pc /\ cur' = cur /\ cursor' = cursor /\ lat' = lat /\ next' = next /\ Consume(i, e)
      BY <2>1 DEF SkipOutOfOrder, SkipSeen, Reject, SkipStored, Insert, FailStatement, FalsePositive, pageVars
    <2>3. pend'[j] = pend[j] /\ aborted'[j] = aborted[j] /\ inner'[j] = inner[j] /\ previous'[j] = previous[j]
      BY <2>1 DEF SkipOutOfOrder, SkipSeen, Reject, SkipStored, Insert, FailStatement, FalsePositive,
                  SetFilter, filterVars, TypeOK
    <2>4. session'[j] = session[j]
      BY <2>1 DEF SkipOutOfOrder, SkipSeen, Reject, SkipStored, Insert, FailStatement, FalsePositive,
                  RecordSession, filterVars, TypeOK
    <2>5. QED
      BY <2>2, <2>3, <2>4 DEF Same, Consume, TypeOK
  <1>9. CASE Commit(i) \/ SilentRollback(i) \/ CommitFails(i)
    <2>1. CloseTx(i) /\ UNCHANGED <<todo, filterVars>> /\ (EndPage(i) \/ (FailCycle(i) /\ UNCHANGED cur))
      BY <1>9 DEF Commit, SilentRollback, CommitFails, filterVars
    <2>2. QED
      BY <2>1 DEF CloseTx, EndPage, FailCycle, Same, TypeOK, filterVars
  <1>10. QED
    BY <1>1, <1>2, <1>3, <1>4, <1>5, <1>6, <1>7, <1>8, <1>9 DEF Task

\* Rows, announcements and given-up keys are never taken back.
LEMMA Monotone ==
    ASSUME TypeOK, Next
    PROVE  Grows
  <1>1. CASE Environment
    BY <1>1 DEF Environment, CloseLedger, Pause, Resume, Crash, Stop, LoseMemory, Grows, dbVars, history
  <1>2. ASSUME NEW i \in Indexers, Task(i) PROVE Grows
    <2>1. CASE Boot(i) \/ StartFromLatest(i) \/ BeginCycle(i) \/ FetchFails(i) \/ HandleExpiry(i)
      BY <2>1 DEF Boot, StartFromLatest, BeginCycle, FetchFails, HandleExpiry, Grows, dbVars, history
    <2>2. ASSUME NEW l \in 0..head[NetOf[i]], FetchPage(i, l) PROVE Grows
      BY <2>2 DEF FetchPage, Grows, dbVars
    <2>3. CASE StoreEvent(i)
      BY <2>3 DEF StoreEvent, SkipOutOfOrder, SkipSeen, Reject, SkipStored, Insert, FailStatement,
                  FalsePositive, Grows, dbVars, history
    <2>4. CASE Commit(i) \/ SilentRollback(i) \/ CommitFails(i)
      BY <2>4 DEF Commit, SilentRollback, CommitFails, WritePage, Grows, dbVars, history
    <2>5. QED
      BY <1>2, <2>1, <2>2, <2>3, <2>4 DEF Task
  <1>3. QED
    BY <1>1, <1>2 DEF Next

-----------------------------------------------------------------------------
(***************************************************************************)
(* The filters and the announcements.                                      *)
(***************************************************************************)
FilterOK(i) == session[i] \cup inner[i] \cup previous[i] \subseteq db \cup pend[i] \cup excused

\* An announced key is stored, rolled back, or in a transaction that may still
\* commit.
Stands(i, k) == k \in pend[i] /\ ~aborted[i]
AnnouncedKept == \A k \in announced : k \in db \cup undone \/ \E j \in Indexers : Stands(j, k)

KnownInv == TypeOK /\ FilterSound /\ AnnouncedKept

\* Only the filters of the stepping task need an argument.
LEMMA FilterStep ==
    ASSUME FilterSound, Grows, NEW i \in Indexers, \A j \in Indexers \ {i} : Same(j), FilterOK(i)'
    PROVE  FilterSound'
  <1> SUFFICES ASSUME NEW j \in Indexers PROVE FilterOK(j)'
    BY DEF FilterSound, FilterOK
  <1>1. CASE j = i
    BY <1>1
  <1>2. CASE j # i
    BY <1>2 DEF FilterSound, FilterOK, Grows, Same
  <1>3. QED
    BY <1>1, <1>2

\* store_event_in_tx puts a key into a filter only when the key is stored, in
\* the open transaction, or given up in the same step.
LEMMA StoreKeepsFilter ==
    ASSUME TypeOK, NEW i \in Indexers, FilterOK(i), Grows, StoreEvent(i)
    PROVE  FilterOK(i)'
  <1>1. PICK e \in todo[i] : \/ SkipOutOfOrder(i, e) \/ SkipSeen(i, e) \/ Reject(i, e)
                             \/ SkipStored(i, e) \/ Insert(i, e) \/ FailStatement(i, e)
                             \/ FalsePositive(i, e)
    BY DEF StoreEvent
  <1>2. CASE SkipOutOfOrder(i, e)
    BY <1>2 DEF SkipOutOfOrder, FilterOK, filterVars, dbVars, history
  <1>3. SessionAt(i, e) \subseteq session[i]
    BY DEF SessionAt
  <1>4. ASSUME RecordSession(i, e)
        PROVE  session'[i] \subseteq session[i] \cup {Key[e]}
    BY <1>3, <1>4 DEF RecordSession, TypeOK
  <1>5. CASE SkipSeen(i, e)
    <2>1. Key[e] \in session[i] \cup inner[i] \cup previous[i]
      BY <1>3, <1>5 DEF SkipSeen, Seen
    <2>2. QED
      BY <1>4, <1>5, <2>1 DEF SkipSeen, FilterOK, dbVars, history
  <1>6. CASE SkipStored(i, e)
    BY <1>4, <1>6 DEF SkipStored, Conflicts, FilterOK, dbVars, history
  <1>7. CASE Reject(i, e) \/ FailStatement(i, e) \/ FalsePositive(i, e)
    <2>1. /\ Key[e] \in excused' /\ RecordSession(i, e)
          /\ UNCHANGED <<db, pend, inner, previous>>
      BY <1>7 DEF Reject, FailStatement, FalsePositive, dbVars
    <2>2. QED
      BY <1>4, <2>1 DEF FilterOK, Grows
  <1>8. CASE Insert(i, e)
    <2>1. pend'[i] = pend[i] \cup {Key[e]} /\ db' = db /\ excused' = excused
      BY <1>8 DEF Insert, TypeOK, dbVars
    <2>2. inner'[i] \cup previous'[i] \subseteq inner[i] \cup previous[i] \cup {Key[e]}
      BY <1>8 DEF Insert, SetFilter, TypeOK
    <2>3. QED
      BY <1>4, <1>8, <2>1, <2>2 DEF Insert, FilterOK
  <1>9. QED
    BY <1>1, <1>2, <1>5, <1>6, <1>7, <1>8

\* Every step of a task keeps its own filters sound.
LEMMA TaskKeepsFilter ==
    ASSUME TypeOK, NEW i \in Indexers, FilterOK(i), Grows, Task(i) \/ Crash(i) \/ Stop(i)
    PROVE  FilterOK(i)'
  <1>1. CASE Crash(i) \/ Stop(i)
    BY <1>1 DEF Crash, Stop, LoseMemory, FilterOK, TypeOK
  <1>2. CASE Boot(i)
    BY <1>2 DEF Boot, Seed, FilterOK, TypeOK, dbVars, txVars, history
  <1>3. CASE StartFromLatest(i) \/ BeginCycle(i) \/ FetchFails(i) \/ HandleExpiry(i)
    <2>1. UNCHANGED <<db, pend, session, inner, previous>>
      BY <1>3 DEF StartFromLatest, BeginCycle, FetchFails, HandleExpiry, dbVars, txVars, filterVars
    <2>2. QED
      BY <2>1 DEF FilterOK, Grows
  <1>4. ASSUME NEW l \in 0..head[NetOf[i]], FetchPage(i, l) PROVE FilterOK(i)'
    BY <1>4 DEF FetchPage, FilterOK, Grows, dbVars, filterVars
  <1>5. CASE StoreEvent(i)
    BY <1>5, StoreKeepsFilter
  <1>6. CASE Commit(i) \/ SilentRollback(i) \/ CommitFails(i)
    <2>1. pend[i] \subseteq db' \cup excused'
      BY <1>6 DEF Commit, SilentRollback, CommitFails, WritePage
    <2>2. UNCHANGED <<session, inner, previous>>
      BY <1>6 DEF Commit, SilentRollback, CommitFails, filterVars
    <2>3. QED
      BY <2>1, <2>2 DEF FilterOK, Grows
  <1>7. QED
    BY <1>1, <1>2, <1>3, <1>4, <1>5, <1>6 DEF Task

\* A key of the task's transaction stays in it, or is stored, or rolled back.
LEMMA OwnKeyKept ==
    ASSUME TypeOK, NEW i \in Indexers, Task(i) \/ Crash(i) \/ Stop(i), NEW k, Stands(i, k)
    PROVE  k \in db' \cup undone' \/ Stands(i, k)'
  <1>1. CASE Crash(i) \/ Stop(i)
    BY <1>1 DEF Crash, Stop, LoseMemory, Stands
  <1>2. CASE Boot(i) \/ StartFromLatest(i) \/ BeginCycle(i) \/ FetchFails(i) \/ HandleExpiry(i)
    BY <1>2 DEF Boot, StartFromLatest, BeginCycle, FetchFails, HandleExpiry, txVars, Stands
  <1>3. ASSUME NEW l \in 0..head[NetOf[i]], FetchPage(i, l) PROVE Stands(i, k)'
    BY <1>3 DEF FetchPage, Stands
  <1>4. ASSUME NEW e, SkipOutOfOrder(i, e) \/ SkipSeen(i, e) \/ Reject(i, e) \/ SkipStored(i, e)
                      \/ FalsePositive(i, e)
        PROVE  Stands(i, k)'
    BY <1>4 DEF SkipOutOfOrder, SkipSeen, Reject, SkipStored, FalsePositive, Stands
  <1>5. ASSUME NEW e, Insert(i, e) PROVE Stands(i, k)'
    BY <1>5 DEF Insert, Stands, TypeOK
  <1>6. ASSUME NEW e, FailStatement(i, e) PROVE k \in undone'
    BY <1>6 DEF FailStatement, Stands
  <1>7. CASE Commit(i) \/ SilentRollback(i) \/ CommitFails(i)
    BY <1>7 DEF Commit, SilentRollback, CommitFails, WritePage, Stands
  <1>8. QED
    BY <1>1, <1>2, <1>3, <1>4, <1>5, <1>6, <1>7 DEF Task, StoreEvent

\* A key is announced by the insert that puts it into the transaction.
LEMMA NewlyAnnounced ==
    ASSUME TypeOK, NEW i \in Indexers, Task(i) \/ Crash(i) \/ Stop(i), NEW k \in announced' \ announced
    PROVE  Stands(i, k)'
  <1>1. ASSUME NEW e, Insert(i, e) PROVE Stands(i, k)'
    BY <1>1 DEF Insert, Stands, TypeOK
  <1>2. announced' = announced \/ \E e \in todo[i] : Insert(i, e)
    <2>1. CASE Crash(i) \/ Stop(i)
      BY <2>1 DEF Crash, Stop
    <2>2. CASE Boot(i) \/ StartFromLatest(i) \/ BeginCycle(i) \/ FetchFails(i) \/ HandleExpiry(i)
      BY <2>2 DEF Boot, StartFromLatest, BeginCycle, FetchFails, HandleExpiry, history
    <2>3. ASSUME NEW l \in 0..head[NetOf[i]], FetchPage(i, l) PROVE announced' = announced
      BY <2>3 DEF FetchPage
    <2>4. CASE StoreEvent(i)
      BY <2>4 DEF StoreEvent, SkipOutOfOrder, SkipSeen, Reject, SkipStored, FailStatement,
                  FalsePositive, history
    <2>5. CASE Commit(i) \/ SilentRollback(i) \/ CommitFails(i)
      BY <2>5 DEF Commit, SilentRollback, CommitFails, history
    <2>6. QED
      BY <2>1, <2>2, <2>3, <2>4, <2>5 DEF Task
  <1>3. QED
    BY <1>1, <1>2

LEMMA TaskKeepsAnnounced ==
    ASSUME TypeOK, AnnouncedKept, Grows, NEW i \in Indexers,
           Task(i) \/ Crash(i) \/ Stop(i), \A j \in Indexers \ {i} : Same(j)
    PROVE  AnnouncedKept'
  <1> SUFFICES ASSUME NEW k \in announced'
               PROVE  k \in db' \cup undone' \/ \E j \in Indexers : Stands(j, k)'
    BY DEF AnnouncedKept
  <1>1. CASE k \notin announced
    BY <1>1, NewlyAnnounced
  <1>2. CASE k \in db \cup undone
    BY <1>2 DEF Grows
  <1>3. ASSUME NEW j \in Indexers, Stands(j, k)
        PROVE  k \in db' \cup undone' \/ Stands(j, k)'
    BY <1>3, OwnKeyKept DEF Same, Stands
  <1>4. QED
    BY <1>1, <1>2, <1>3 DEF AnnouncedKept

LEMMA KnownInvariance == Spec => []KnownInv
  <1>1. Init => FilterSound /\ AnnouncedKept
    BY DEF Init, FilterSound, AnnouncedKept
  <1>2. TypeOK /\ FilterSound /\ AnnouncedKept /\ [Next]_vars
           => (FilterSound /\ AnnouncedKept)'
    <2> SUFFICES ASSUME TypeOK, FilterSound, AnnouncedKept, [Next]_vars
                 PROVE  (FilterSound /\ AnnouncedKept)'
      OBVIOUS
    <2>1. ASSUME NEW i \in Indexers, Next, Task(i) \/ Crash(i) \/ Stop(i)
          PROVE  (FilterSound /\ AnnouncedKept)'
      <3>1. Grows /\ \A j \in Indexers \ {i} : Same(j)
        BY <2>1, Monotone, Locality
      <3>2. FilterOK(i)
        BY DEF FilterSound, FilterOK
      <3>3. FilterOK(i)'
        BY <2>1, <3>1, <3>2, TaskKeepsFilter
      <3>4. QED
        BY <2>1, <3>1, <3>3, FilterStep, TaskKeepsAnnounced
    <2>2. ASSUME UNCHANGED <<db, history, pend, aborted, session, inner, previous>>
          PROVE  (FilterSound /\ AnnouncedKept)'
      BY <2>2 DEF FilterSound, AnnouncedKept, Stands, history
    <2>3. ASSUME NEW n \in Nets, CloseLedger(n) PROVE (FilterSound /\ AnnouncedKept)'
      BY <2>2, <2>3 DEF CloseLedger, dbVars, txVars, filterVars, history
    <2>4. ASSUME NEW i \in Indexers, Pause(i) \/ Resume(i)
          PROVE  (FilterSound /\ AnnouncedKept)'
      BY <2>2, <2>4 DEF Pause, Resume, dbVars, txVars, filterVars, history
    <2>5. CASE UNCHANGED vars
      BY <2>2, <2>5 DEF vars, dbVars, txVars, filterVars, history
    <2>6. QED
      BY <2>1, <2>3, <2>4, <2>5 DEF Next, Environment
  <1>3. QED
    BY <1>1, <1>2, IndexerTypes, PTL DEF Spec, KnownInv

\* The in-memory filters never make store_event_in_tx skip an event that is
\* not stored, in its own transaction, or already given up.
THEOREM FiltersAreSound == Spec => []FilterSound
  <1>1. KnownInv => FilterSound
    BY DEF KnownInv
  <1>2. QED
    BY <1>1, KnownInvariance, PTL

\* Only store_event_in_tx puts keys into a transaction.
LEMMA NewlyPending ==
    ASSUME TypeOK, NEW i \in Indexers, Next, NEW k \in pend'[i] \ pend[i]
    PROVE  \E e \in todo[i] : Insert(i, e) /\ k = Key[e]
  <1>1. PICK j \in Indexers : Task(j)
    BY DEF Next, Environment, CloseLedger, Pause, Resume, Crash, Stop, LoseMemory, TypeOK, txVars
  <1>2. j = i
    BY <1>1, Locality DEF Same
  <1>3. CASE Boot(i) \/ StartFromLatest(i) \/ BeginCycle(i) \/ FetchFails(i) \/ HandleExpiry(i)
    BY <1>3 DEF Boot, StartFromLatest, BeginCycle, FetchFails, HandleExpiry, txVars
  <1>4. ASSUME NEW l \in 0..head[NetOf[i]], FetchPage(i, l) PROVE FALSE
    BY <1>4 DEF FetchPage
  <1>5. CASE StoreEvent(i)
    <2>1. PICK e \in todo[i] : Insert(i, e)
      BY <1>5 DEF StoreEvent, SkipOutOfOrder, SkipSeen, Reject, SkipStored, FailStatement, FalsePositive
    <2>2. pend'[i] = pend[i] \cup {Key[e]}
      BY <2>1 DEF Insert, TypeOK
    <2>3. QED
      BY <2>1, <2>2
  <1>6. CASE Commit(i) \/ SilentRollback(i) \/ CommitFails(i)
    BY <1>6 DEF Commit, SilentRollback, CommitFails, CloseTx, TypeOK
  <1>7. QED
    BY <1>1, <1>2, <1>3, <1>4, <1>5, <1>6 DEF Task

\* Subscribers hear of an event again only if the earlier insert was rolled
\* back: an insert that is stored, or that another open transaction may still
\* commit, blocks the second one before it is broadcast.
THEOREM AnnouncedAgainIfUndone == Spec => AnnouncedAgain
  <1>1. KnownInv /\ [Next]_vars
           => [\A i \in Indexers : (pend'[i] \ pend[i]) \cap announced \subseteq undone]_vars
    <2> SUFFICES ASSUME TypeOK, AnnouncedKept, Next, NEW i \in Indexers,
                        NEW k \in pend'[i] \ pend[i], k \in announced
                 PROVE  k \in undone
      BY DEF KnownInv
    <2>1. PICK e \in todo[i] : Insert(i, e) /\ k = Key[e]
      BY NewlyPending
    <2>2. k \notin db /\ \A j \in Indexers : ~Stands(j, k)
      BY <2>1 DEF Insert, Conflicts, Holder, Stands
    <2>3. QED
      BY <2>2 DEF AnnouncedKept
  <1>2. QED
    BY <1>1, KnownInvariance, PTL DEF Spec, AnnouncedAgain

-----------------------------------------------------------------------------
(***************************************************************************)
(* No unexplained loss, when all tasks follow one network.  Besides the    *)
(* four positions of NoUnexplainedLoss the invariant speaks of a page that *)
(* is being stored: each event the page's cursor (or, without one, the     *)
(* server's latest ledger) is past is stored, given up, inserted by the    *)
(* open transaction, or still to be processed.                             *)
(***************************************************************************)
SingleNet == \A m, n \in Nets : m = n

StartCovered == \A n \in Nets : \A e \in Chain[n] : Ledger[e] < StartLedger => Handled(e)
SharedCovered == StartCovered /\ CkptCovered /\ SavedCovered

CurOK(i) == \A e \in ChainOf(i) : Ledger[e] < cur[i] => Handled(e)
CursorOK(i) == \A e \in ChainOf(i) : e <= cursor[i] => Handled(e)

Reached(i, e) == e <= next[i] \/ (next[i] = NoCursor /\ Ledger[e] <= lat[i])
Settled(i, e) == Handled(e) \/ Key[e] \in pend[i]
PageOK(i) ==
    pc[i] = "store" => \A e \in ChainOf(i) : Reached(i, e) => Settled(i, e) \/ e \in todo[i]

TaskCovered(i) == CurOK(i) /\ CursorOK(i) /\ PageOK(i)

CoverInv == SharedCovered /\ \A i \in Indexers : TaskCovered(i)

LEMMA HandledStays ==
    ASSUME Grows, NEW e, Handled(e)
    PROVE  Handled(e)'
  BY DEF Grows, Handled

LEMMA OtherTasksCovered ==
    ASSUME Grows, NEW j, TaskCovered(j), Same(j)
    PROVE  TaskCovered(j)'
  <1>1. CurOK(j)' /\ CursorOK(j)'
    BY HandledStays DEF TaskCovered, Same, CurOK, CursorOK
  <1>2. PageOK(j)'
    BY HandledStays DEF TaskCovered, Same, PageOK, Reached, Settled
  <1>3. QED
    BY <1>1, <1>2 DEF TaskCovered

\* The persisted positions stay covered while the tables are left alone.
LEMMA SharedStays ==
    ASSUME Grows, SharedCovered, UNCHANGED <<ckpt, saved>>
    PROVE  SharedCovered'
  BY HandledStays DEF SharedCovered, StartCovered, CkptCovered, SavedCovered

\* With one network, what holds of every network's events holds of a task's.
LEMMA OneChain ==
    ASSUME SingleNet, NEW i \in Indexers, NEW n \in Nets
    PROVE  Chain[n] = ChainOf(i)
  <1>1. NetOf[i] \in Nets
    BY ConstantAssumption
  <1>2. n = NetOf[i]
    BY <1>1 DEF SingleNet
  <1>3. QED
    BY <1>2 DEF ChainOf

LEMMA NetOfTask ==
    ASSUME NEW i \in Indexers
    PROVE  NetOf[i] \in Nets /\ ChainOf(i) = Chain[NetOf[i]]
  BY ConstantAssumption DEF ChainOf

\* Starting: from the configured, the persisted or the latest ledger.
LEMMA StartCoversTask ==
    ASSUME TypeOK, SharedCovered, Grows, NEW i \in Indexers, TaskCovered(i),
           Boot(i) \/ StartFromLatest(i) \/ BeginCycle(i)
    PROVE  SharedCovered' /\ TaskCovered(i)'
  <1>0. SharedCovered'
    BY SharedStays DEF Boot, StartFromLatest, BeginCycle, dbVars
  <1>p. ChainOf(i) \subseteq Positions /\ \A e \in ChainOf(i) : Ledger[e] \in Nat
    BY ChainKeys, ConstantAssumption
  <1>1. CASE Boot(i)
    <2>1. PICK loaded \in {saved, 0} : StartAt(i, loaded)
      BY <1>1 DEF Boot
    <2>2. cur'[i] \in {StartLedger, saved, 0}
      BY <2>1 DEF StartAt, TypeOK
    <2>3. CurOK(i)'
      BY <1>0, <1>1, <1>p, <2>2, NetOfTask DEF CurOK, SharedCovered, StartCovered, SavedCovered, Boot, dbVars
    <2>4. CursorOK(i)'
      BY <1>1, HandledStays DEF CursorOK, TaskCovered, Boot, pageVars
    <2>5. PageOK(i)'
      <3>1. pc'[i] # "store"
        BY <2>1 DEF StartAt, TypeOK
      <3>2. QED
        BY <3>1 DEF PageOK
    <2>6. QED
      BY <1>0, <2>3, <2>4, <2>5 DEF TaskCovered
  <1>2. CASE StartFromLatest(i)
    <2>1. PICK l \in 1..head[NetOf[i]] : /\ cur' = [cur EXCEPT ![i] = l]
                                         /\ excused' = excused \cup KeysBefore(i, l)
      BY <1>2 DEF StartFromLatest
    <2>2. CurOK(i)'
      BY <2>1 DEF CurOK, Handled, KeysBefore, TypeOK
    <2>3. CursorOK(i)'
      BY <1>2, HandledStays DEF CursorOK, TaskCovered, StartFromLatest, pageVars
    <2>4. PageOK(i)'
      BY <1>2 DEF PageOK, StartFromLatest, TypeOK
    <2>5. QED
      BY <1>0, <2>2, <2>3, <2>4 DEF TaskCovered
  <1>3. CASE BeginCycle(i)
    <2>1. cursor'[i] \in {ckpt, NoCursor}
      BY <1>3 DEF BeginCycle, TypeOK
    <2>2. CursorOK(i)'
      <3> SUFFICES ASSUME NEW e \in ChainOf(i), e <= cursor'[i] PROVE Handled(e)'
        BY DEF CursorOK
      <3>1. e \in Nat
        BY <1>p, ConstantAssumption
      <3>2. cursor'[i] = ckpt
        BY <2>1, <3>1 DEF NoCursor
      <3>3. Handled(e)
        BY <3>2, NetOfTask DEF SharedCovered, CkptCovered
      <3>4. QED
        BY <3>3, HandledStays
    <2>3. CurOK(i)'
      BY <1>3, HandledStays DEF CurOK, TaskCovered, BeginCycle
    <2>4. PageOK(i)'
      BY <1>3 DEF PageOK, BeginCycle, TypeOK
    <2>5. QED
      BY <1>0, <2>2, <2>3, <2>4 DEF TaskCovered
  <1>4. QED
    BY <1>1, <1>2, <1>3

\* A task that loses its cursor, or its memory, is back at a covered position.
LEMMA LostCursorCovered ==
    ASSUME NEW i \in Indexers, cursor'[i] = NoCursor
    PROVE  CursorOK(i)'
  <1> SUFFICES ASSUME NEW e \in ChainOf(i), e <= NoCursor PROVE Handled(e)'
    BY DEF CursorOK
  <1>1. e \in Nat
    BY ChainKeys, ConstantAssumption
  <1>2. QED
    BY <1>1 DEF NoCursor

LEMMA FailCoversTask ==
    ASSUME TypeOK, SharedCovered, Grows, NEW i \in Indexers, TaskCovered(i),
           FetchFails(i) \/ HandleExpiry(i) \/ Crash(i) \/ Stop(i)
    PROVE  SharedCovered' /\ TaskCovered(i)'
  <1>0. SharedCovered'
    BY SharedStays DEF FetchFails, HandleExpiry, Crash, Stop, dbVars
  <1>1. CASE FetchFails(i)
    <2>1. cursor'[i] = NoCursor /\ pc'[i] = "idle" /\ cur' = cur
      BY <1>1 DEF FetchFails, FailCycle, TypeOK
    <2>2. QED
      BY <1>0, <2>1, LostCursorCovered, HandledStays DEF TaskCovered, CurOK, PageOK
  <1>2. CASE HandleExpiry(i)
    <2>1. cursor'[i] \in {cursor[i], NoCursor} /\ pc'[i] = "fetch" /\ cur' = cur
      BY <1>2 DEF HandleExpiry, TypeOK
    <2>2. CursorOK(i)'
      BY <2>1, LostCursorCovered, HandledStays DEF TaskCovered, CursorOK
    <2>3. QED
      BY <1>0, <2>1, <2>2, HandledStays DEF TaskCovered, CurOK, PageOK
  <1>3. CASE Crash(i) \/ Stop(i)
    <2>1. cursor'[i] = NoCursor /\ pc'[i] = "down" /\ cur'[i] = 0
      BY <1>3 DEF Crash, Stop, LoseMemory, TypeOK
    <2>2. \A e \in ChainOf(i) : Ledger[e] \in Nat
      BY ChainKeys, ConstantAssumption
    <2>3. CurOK(i)'
      BY <2>1, <2>2 DEF CurOK
    <2>4. PageOK(i)'
      BY <2>1 DEF PageOK
    <2>5. QED
      BY <1>0, <2>1, <2>3, <2>4, LostCursorCovered DEF TaskCovered
  <1>4. QED
    BY <1>1, <1>2, <1>3

\* An event the server has and the request asks for is in the page, if the
\* page's cursor is past it.
LEMMA PageHasReached ==
    ASSUME TypeOK, NEW i \in Indexers, NEW l \in 0..head[NetOf[i]],
           NEW page \in Pages(Available(i, l)), NEW c \in PageCursors(i, l, page),
           NEW e \in ChainOf(i), e <= c \/ (c = NoCursor /\ Ledger[e] <= l)
    PROVE  \/ e \in page
           \/ e <= cursor[i]
           \/ cursor[i] = NoCursor /\ Ledger[e] < cur[i]
  <1>0. /\ l \in 0..MaxLedger /\ page \subseteq Available(i, l)
        /\ page \subseteq Positions /\ c \in Cursors
    BY PageTypes
  <1>1. e \in Positions /\ e \in Nat /\ Ledger[e] \in Nat /\ cur[i] \in Nat /\ cursor[i] \in Cursors
    BY ChainKeys, ConstantAssumption DEF TypeOK
  <1>2. EndOf[l] \in Positions /\ EndOf[l] \in Nat
    BY <1>0, ConstantAssumption
  <1>3. \A p \in Positions : p <= EndOf[l] <=> Ledger[p] <= l
    BY <1>0, OrderAssumption
  <1>a. cursor[i] \in Int
    <2>1. Positions \subseteq Int /\ NoCursor \in Int
      BY ConstantAssumption DEF NoCursor
    <2>2. QED
      BY <1>1, <2>1 DEF Cursors
  <1>4. ASSUME Ledger[e] <= l, e \notin Available(i, l)
        PROVE  e <= cursor[i] \/ (cursor[i] = NoCursor /\ Ledger[e] < cur[i])
    <2>1. ~ IF cursor[i] = NoCursor THEN Ledger[e] >= cur[i] ELSE e > cursor[i]
      BY <1>4 DEF Available
    <2>2. QED
      BY <1>1, <1>a, <2>1
  <1>5. CASE c \in page
    <2>1. c \in Nat /\ c <= EndOf[l]
      BY <1>0, <1>3, <1>5, ConstantAssumption DEF Available
    <2>2. e <= c
      BY <2>1 DEF NoCursor
    <2>3. Ledger[e] <= l
      BY <1>1, <1>2, <1>3, <2>1, <2>2
    <2>4. e \in Available(i, l) => e \in page
      BY <1>1, <1>5, <2>1, <2>2 DEF Pages
    <2>5. QED
      BY <1>4, <2>3, <2>4
  <1>6. CASE page = Available(i, l) /\ c \notin page
    <2>1. c = NoCursor \/ c = cursor[i] \/ c = EndOf[l]
      BY <1>6 DEF PageCursors
    <2>2. Ledger[e] <= l \/ e <= cursor[i]
      BY <1>1, <1>2, <1>3, <2>1 DEF NoCursor
    <2>3. QED
      BY <1>4, <1>6, <2>2
  <1>7. QED
    BY <1>5, <1>6 DEF PageCursors

LEMMA FetchCoversTask ==
    ASSUME TypeOK, SharedCovered, Grows, NEW i \in Indexers, TaskCovered(i),
           NEW l \in 0..head[NetOf[i]], FetchPage(i, l)
    PROVE  SharedCovered' /\ TaskCovered(i)'
  <1>0. SharedCovered'
    BY SharedStays DEF FetchPage, dbVars
  <1>1. CurOK(i)' /\ CursorOK(i)'
    BY HandledStays DEF FetchPage, TaskCovered, CurOK, CursorOK
  <1>2. PageOK(i)'
    <2>1. PICK page \in Pages(Available(i, l)) :
             /\ todo' = [todo EXCEPT ![i] = Truncated(page)]
             /\ excused' = excused \cup {Key[e] : e \in page \ Truncated(page)}
             /\ \E c \in PageCursors(i, l, page) : next' = [next EXCEPT ![i] = c]
      BY DEF FetchPage
    <2>c. PICK c \in PageCursors(i, l, page) : next' = [next EXCEPT ![i] = c]
      BY <2>1
    <2>2. todo'[i] = Truncated(page) /\ next'[i] = c /\ lat'[i] = l
      BY <2>1, <2>c DEF FetchPage, TypeOK
    <2> SUFFICES ASSUME NEW e \in ChainOf(i), Reached(i, e)'
                 PROVE  Handled(e)' \/ e \in todo'[i]
      BY DEF PageOK, Settled
    <2>3. e <= c \/ (c = NoCursor /\ Ledger[e] <= l)
      BY <2>2 DEF Reached
    <2>4. CASE e \in page
      BY <2>1, <2>2, <2>4 DEF Handled
    <2>5. CASE e <= cursor[i] \/ (cursor[i] = NoCursor /\ Ledger[e] < cur[i])
      BY <2>5, HandledStays DEF TaskCovered, CurOK, CursorOK
    <2>6. QED
      BY <2>3, <2>4, <2>5, PageHasReached
  <1>3. QED
    BY <1>0, <1>1, <1>2 DEF TaskCovered

\* Whichever way an event leaves the page, it is settled.
LEMMA StoreCoversTask ==
    ASSUME TypeOK, SharedCovered, Grows, NEW i \in Indexers, FilterOK(i), TaskCovered(i), StoreEvent(i)
    PROVE  SharedCovered' /\ TaskCovered(i)'
  <1>1. PICK e \in todo[i] : \/ SkipOutOfOrder(i, e) \/ SkipSeen(i, e) \/ Reject(i, e)
                             \/ SkipStored(i, e) \/ Insert(i, e) \/ FailStatement(i, e)
                             \/ FalsePositive(i, e)
    BY DEF StoreEvent
  <1>2. /\ UNCHANGED <<ckpt, saved, pc, cur, cursor, lat, next>> /\ pc[i] = "store"
        /\ todo'[i] = todo[i] \ {e}
    BY <1>1 DEF SkipOutOfOrder, SkipSeen, Reject, SkipStored, Insert, FailStatement, FalsePositive,
                IsNext, Consume, dbVars, pageVars, TypeOK
  <1>3. pend[i] \subseteq pend'[i]
    BY <1>1 DEF SkipOutOfOrder, SkipSeen, Reject, SkipStored, Insert, FailStatement, FalsePositive, TypeOK
  <1>4. e \in ChainOf(i) => Settled(i, e)'
    <2>1. CASE SkipOutOfOrder(i, e)
      BY <2>1, HandledStays DEF SkipOutOfOrder, TaskCovered, CurOK, Settled
    <2>2. CASE SkipSeen(i, e)
      <3>1. Key[e] \in session[i] \cup inner[i] \cup previous[i]
        BY <2>2 DEF SkipSeen, Seen, SessionAt
      <3>2. QED
        BY <1>3, <3>1 DEF FilterOK, Settled, Handled, Grows
    <2>3. CASE Reject(i, e) \/ FailStatement(i, e) \/ FalsePositive(i, e)
      BY <2>3 DEF Reject, FailStatement, FalsePositive, Settled, Handled
    <2>4. CASE SkipStored(i, e)
      BY <1>3, <2>4 DEF SkipStored, Conflicts, Settled, Handled, Grows
    <2>5. CASE Insert(i, e)
      BY <2>5 DEF Insert, Settled, TypeOK
    <2>6. QED
      BY <1>1, <2>1, <2>2, <2>3, <2>4, <2>5
  <1>5. PageOK(i)'
    <2> SUFFICES ASSUME NEW f \in ChainOf(i), Reached(i, f)'
                 PROVE  Settled(i, f)' \/ f \in todo'[i]
      BY DEF PageOK
    <2>1. Settled(i, f) \/ f \in todo[i]
      BY <1>2 DEF TaskCovered, PageOK, Reached
    <2>2. Settled(i, f) => Settled(i, f)'
      BY <1>3, HandledStays DEF Settled
    <2>3. QED
      BY <1>2, <1>4, <2>1, <2>2
  <1>6. CurOK(i)' /\ CursorOK(i)'
    BY <1>2, HandledStays DEF TaskCovered, CurOK, CursorOK
  <1>7. QED
    BY <1>2, <1>5, <1>6, SharedStays DEF TaskCovered

\* The end of a page: everything it reached is stored or given up, so the
\* cursor, the checkpoint and the ledger may advance past it.
LEMMA PageEndCoversTask ==
    ASSUME SingleNet, TypeOK, SharedCovered, Grows, NEW i \in Indexers, TaskCovered(i),
           Commit(i) \/ SilentRollback(i) \/ CommitFails(i)
    PROVE  SharedCovered' /\ TaskCovered(i)'
  <1>1. \A e \in ChainOf(i) : Reached(i, e) => Handled(e)'
    <2>1. pend[i] \subseteq db' \cup excused' /\ PageDone(i)
      BY DEF Commit, SilentRollback, CommitFails, WritePage
    <2>2. QED
      BY <2>1, HandledStays DEF TaskCovered, PageOK, PageDone, Settled, Handled
  <1>2. CurOK(i)' /\ CursorOK(i)' /\ PageOK(i)'
    <2>1. CASE EndPage(i)
      <3>1. /\ cursor'[i] = next[i] /\ pc'[i] # "store"
            /\ cur'[i] = cur[i] \/ (next[i] = NoCursor /\ cur'[i] = lat[i] + 1)
        BY <2>1 DEF EndPage, NextLedger, TypeOK
      <3>2. CursorOK(i)'
        BY <1>1, <3>1 DEF CursorOK, Reached
      <3>3. CurOK(i)'
        <4> SUFFICES ASSUME NEW e \in ChainOf(i), Ledger[e] < cur'[i] PROVE Handled(e)'
          BY DEF CurOK
        <4>1. CASE cur'[i] = cur[i]
          BY <4>1, HandledStays DEF TaskCovered, CurOK
        <4>2. CASE next[i] = NoCursor /\ cur'[i] = lat[i] + 1
          <5>1. Ledger[e] \in Nat /\ lat[i] \in Nat
            <6>1. e \in Positions
              BY ConstantAssumption DEF ChainOf
            <6>2. Ledger[e] \in Nat
              BY <6>1, ConstantAssumption
            <6>3. lat[i] \in Nat
              BY ConstantAssumption DEF TypeOK
            <6>4. QED
              BY <6>2, <6>3
          <5>2. Ledger[e] <= lat[i]
            BY <4>2, <5>1
          <5>3. QED
            BY <1>1, <4>2, <5>2 DEF Reached
        <4>3. QED
          BY <3>1, <4>1, <4>2
      <3>4. QED
        BY <3>1, <3>2, <3>3 DEF PageOK
    <2>2. CASE FailCycle(i) /\ UNCHANGED cur
      <3>1. cursor'[i] = NoCursor /\ pc'[i] = "idle"
        BY <2>2 DEF FailCycle, TypeOK
      <3>2. QED
        BY <2>2, <3>1, LostCursorCovered, HandledStays DEF TaskCovered, CurOK, PageOK
    <2>3. QED
      BY <2>1, <2>2 DEF Commit, SilentRollback, CommitFails
  <1>3. SharedCovered'
    <2>1. CASE UNCHANGED dbVars
      BY <2>1, SharedStays DEF dbVars
    <2>2. CASE WritePage(i)
      <3>1. StartCovered'
        BY HandledStays DEF SharedCovered, StartCovered
      <3>2. SavedCovered'
        BY <2>2, OneChain, HandledStays DEF WritePage, SavedCovered, TaskCovered, CurOK
      <3>3. CkptCovered'
        <4> SUFFICES ASSUME NEW n \in Nets, NEW e \in Chain[n], e <= ckpt' PROVE Handled(e)'
          BY DEF CkptCovered
        <4>1. e \in ChainOf(i) /\ ckpt' = SavedCursor(i)
          BY <2>2, OneChain DEF WritePage
        <4>2. CASE ckpt' = next[i]
          BY <1>1, <4>1, <4>2 DEF Reached
        <4>3. CASE ckpt' = cursor[i]
          BY <4>1, <4>3, HandledStays DEF TaskCovered, CursorOK
        <4>4. CASE ckpt' = ckpt
          BY <4>4, HandledStays DEF SharedCovered, CkptCovered
        <4>5. QED
          BY <4>1, <4>2, <4>3, <4>4 DEF SavedCursor
      <3>4. QED
        BY <3>1, <3>2, <3>3 DEF SharedCovered
    <2>3. QED
      BY <2>1, <2>2 DEF Commit, SilentRollback, CommitFails
  <1>4. QED
    BY <1>2, <1>3 DEF TaskCovered

LEMMA InitCovers == Init => CoverInv
  <1> SUFFICES ASSUME Init PROVE CoverInv
    OBVIOUS
  <1>1. \A n \in Nets : \A e \in Chain[n] : e \in Nat /\ Ledger[e] \in Nat
    BY ConstantAssumption
  <1>2. StartCovered
    BY DEF Init, StartCovered, Handled
  <1>3. CkptCovered /\ SavedCovered
    BY <1>1 DEF Init, CkptCovered, SavedCovered, NoCursor
  <1>4. \A i \in Indexers : TaskCovered(i)
    BY <1>1, NetOfTask DEF Init, TaskCovered, CurOK, CursorOK, PageOK, NoCursor
  <1>5. QED
    BY <1>2, <1>3, <1>4 DEF CoverInv, SharedCovered

LEMMA NextCovers ==
    ASSUME SingleNet, KnownInv, CoverInv, [Next]_vars
    PROVE  CoverInv'
  <1>0. TypeOK /\ FilterSound
    BY DEF KnownInv
  <1>1. ASSUME NEW i \in Indexers, Next, Task(i) \/ Crash(i) \/ Stop(i) PROVE CoverInv'
    <2>1. Grows /\ \A j \in Indexers \ {i} : Same(j)
      BY <1>0, <1>1, Monotone, Locality
    <2>2. SharedCovered /\ TaskCovered(i) /\ FilterOK(i)
      BY <1>0 DEF CoverInv, FilterSound, FilterOK
    <2>3. SharedCovered' /\ TaskCovered(i)'
      BY <1>0, <1>1, <2>1, <2>2, StartCoversTask, FailCoversTask, FetchCoversTask, StoreCoversTask,
         PageEndCoversTask DEF Task
    <2>4. \A j \in Indexers \ {i} : TaskCovered(j)'
      BY <2>1, OtherTasksCovered DEF CoverInv
    <2>5. QED
      BY <2>3, <2>4 DEF CoverInv
  <1>2. ASSUME UNCHANGED <<db, excused, ckpt, saved, pc, cur, cursor, lat, next, todo, pend>>
        PROVE  CoverInv'
    BY <1>2 DEF CoverInv, SharedCovered, StartCovered, CkptCovered, SavedCovered, TaskCovered, CurOK,
                CursorOK, PageOK, Reached, Settled, Handled
  <1>3. ASSUME NEW n \in Nets, CloseLedger(n) PROVE CoverInv'
    BY <1>2, <1>3 DEF CloseLedger, dbVars, pageVars, txVars, history
  <1>4. ASSUME NEW i \in Indexers, Pause(i) \/ Resume(i) PROVE CoverInv'
    BY <1>2, <1>4 DEF Pause, Resume, dbVars, pageVars, txVars, history
  <1>5. CASE UNCHANGED vars
    BY <1>2, <1>5 DEF vars, dbVars, pageVars, txVars, history
  <1>6. QED
    BY <1>1, <1>3, <1>4, <1>5 DEF Next, Environment

\* Indexing never moves a checkpoint, a persisted ledger, a ledger or a cursor
\* in memory past an event that is neither stored nor dropped for a named
\* cause, however many tasks of the one network run, crash and restart.
THEOREM NoLossOnOneNetwork == Spec => [](SingleNet => NoUnexplainedLoss)
  <1>1. Init => (SingleNet => CoverInv)
    BY InitCovers
  <1>2. KnownInv /\ (SingleNet => CoverInv) /\ [Next]_vars => (SingleNet => CoverInv)'
    BY NextCovers DEF SingleNet
  <1>3. CoverInv => NoUnexplainedLoss
    BY DEF CoverInv, SharedCovered, TaskCovered, NoUnexplainedLoss, CurCovered, CurOK, CursorCovered, CursorOK
  <1>4. QED
    BY <1>1, <1>2, <1>3, KnownInvariance, PTL DEF Spec

-----------------------------------------------------------------------------
(***************************************************************************)
(* The loop implements IngestLog.                                          *)
(***************************************************************************)
PassedCovered == Passed \subseteq db \cup excused

LEMMA PassedIsHandled == NoUnexplainedLoss => PassedCovered
  <1> SUFFICES ASSUME NoUnexplainedLoss, NEW n \in Nets, NEW e \in Chain[n],
                      \/ e <= ckpt \/ Ledger[e] < saved
                      \/ \E i \in Indexers : e \in ChainOf(i) /\ (Ledger[e] < cur[i] \/ e <= cursor[i])
               PROVE  Handled(e)
    BY DEF PassedCovered, Passed, Handled
  <1>1. QED
    BY DEF NoUnexplainedLoss, CkptCovered, SavedCovered, CurCovered, CursorCovered

LEMMA StepIngests ==
    ASSUME TypeOK, TypeOK', PassedCovered', Next
    PROVE  Log!Ingest
  <1>1. Grows
    BY Monotone
  <1>2. QED
    BY <1>1 DEF Log!Ingest, Grows, TypeOK, PassedCovered

\* The indexing loop of any number of tasks on one network implements the
\* ingestion promise: each of its steps, each crash and each restart is a step
\* of IngestLog or leaves its state unchanged.
THEOREM IndexerImplementsIngestLog ==
    ASSUME SingleNet
    PROVE  Spec => IngestRefined
  <1>1. Init /\ TypeOK /\ PassedCovered => Log!Init
    BY DEF Log!Init, Init, TypeOK, PassedCovered
  <1>2. TypeOK /\ TypeOK' /\ PassedCovered' /\ [Next]_vars => [Log!Ingest]_(Log!vars)
    <2>1. CASE Next
      BY <2>1, StepIngests
    <2>2. CASE UNCHANGED vars
      BY <2>2 DEF vars, Log!vars, Passed, ChainOf, dbVars, pageVars, history
    <2>3. QED
      BY <2>1, <2>2
  <1>3. SingleNet
    OBVIOUS
  <1>4. QED
    BY <1>1, <1>2, <1>3, IndexerTypes, NoLossOnOneNetwork, PassedIsHandled, PTL
       DEF Spec, IngestRefined, Log!Spec
=============================================================================
