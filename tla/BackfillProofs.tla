--------------------------- MODULE BackfillProofs ---------------------------
(***************************************************************************)
(* Proofs about Backfill for any number of processes and workers, any      *)
(* range, chunk and file size, any history of events and any number of     *)
(* faults.                                                                 *)
(***************************************************************************)
EXTENDS Backfill, TLAPS

\* A fault lowers the budget of faults.
LEMMA FaultBudget ==
    ASSUME faults \in 0..MaxFaults, NEW f, Fault(f)
    PROVE  faults' \in 0..MaxFaults
  BY BackfillAssumption DEF Fault

-----------------------------------------------------------------------------
(***************************************************************************)
(* The arithmetic of split_range and file_bounds.                          *)
(***************************************************************************)
\* Two multiples of a number are that number apart at least.
LEMMA MultiplesApart ==
    ASSUME NEW a \in Nat, NEW b \in Nat, NEW c \in Nat \ {0},
           a % c = 0, b % c = 0, a < b
    PROVE  a + c <= b
  <1>1. a = c * (a \div c) + (a % c) /\ b = c * (b \div c) + (b % c)
    BY Z3
  <1>2. a \div c \in Int /\ b \div c \in Int
    BY Z3
  <1>3. a \div c < b \div c
    BY <1>1, <1>2, Z3
  <1>4. c * (a \div c) + c <= c * (b \div c)
    BY <1>2, <1>3, Z3
  <1>5. QED
    BY <1>1, <1>2, <1>4, Z3

\* Below every number there is a multiple that is less than one step away.
LEMMA MultipleBelow ==
    ASSUME NEW a \in Nat, NEW c \in Nat \ {0}
    PROVE  /\ a % c \in 0..(c - 1) /\ a - (a % c) \in Nat
           /\ (a - (a % c)) % c = 0
  <1>1. a = c * (a \div c) + (a % c)
    BY Z3
  <1>2. a \div c \in Int /\ a % c \in 0..(c - 1) /\ a - (a % c) \in Nat
    BY Z3
  <1>3. a - (a % c) = c * (a \div c)
    BY <1>1, <1>2, Z3
  <1>4. \A q \in Int : (c * q) % c = 0
    BY Z3
  <1>5. (c * (a \div c)) % c = 0
    BY <1>2, <1>4
  <1>6. (a - (a % c)) % c = 0
    BY <1>3, <1>5
  <1>7. QED
    BY <1>2, <1>6

\* A range is a pair of ledgers of From..To, first and last.
LEMMA RangeTypes ==
    ASSUME NEW r \in Ranges
    PROVE  /\ r[1] \in From..To /\ r[2] \in From..To /\ r[1] <= r[2]
           /\ r = <<r[1], r[2]>>
           /\ (r[1] - From) % Chunk = 0
           /\ r[2] = Least(r[1] + Chunk - 1, To)
  BY BackfillAssumption DEF Ranges, Least

\* split_range leaves no gap: every ledger of the command is in a range.
LEMMA RangesCover ==
    ASSUME NEW l \in From..To
    PROVE  \E r \in Ranges : l \in r[1]..r[2]
  <1> DEFINE d == l - From
             s == From + (d - (d % Chunk))
             r == <<s, Least(s + Chunk - 1, To)>>
  <1>1. d \in Nat
    BY BackfillAssumption
  <1>2. d % Chunk \in 0..(Chunk - 1) /\ d - (d % Chunk) \in Nat /\ (d - (d % Chunk)) % Chunk = 0
    BY <1>1, MultipleBelow, BackfillAssumption
  <1> HIDE DEF d
  <1>3. l = From + d
    BY BackfillAssumption DEF d
  <1>4. s \in From..To /\ s <= l /\ l <= s + Chunk - 1
    BY <1>1, <1>2, <1>3, BackfillAssumption
  <1>5. s - From = d - (d % Chunk)
    BY <1>2, BackfillAssumption
  <1>6. (s - From) % Chunk = 0
    BY <1>2, <1>5
  <1> HIDE DEF s
  <1>7. r \in Ranges
    BY <1>4, <1>6 DEF Ranges
  <1>8. l \in r[1]..r[2]
    BY <1>4, BackfillAssumption DEF Least
  <1>9. QED
    BY <1>7, <1>8

\* split_range gives no ledger twice.
LEMMA RangesDisjoint ==
    ASSUME NEW r \in Ranges, NEW q \in Ranges, NEW l \in Int,
           l \in r[1]..r[2], l \in q[1]..q[2]
    PROVE  r = q
  <1> DEFINE a == r[1] - From
             b == q[1] - From
  <1>1. a \in Nat /\ b \in Nat /\ a % Chunk = 0 /\ b % Chunk = 0
    BY RangeTypes, BackfillAssumption
  <1>2. r[1] = From + a /\ q[1] = From + b
    BY RangeTypes, BackfillAssumption
  <1>3. /\ r[2] <= r[1] + Chunk - 1 /\ q[2] <= q[1] + Chunk - 1
        /\ r[1] \in Int /\ q[1] \in Int /\ r[2] \in Int /\ q[2] \in Int
    BY RangeTypes, BackfillAssumption DEF Least
  <1> HIDE DEF a, b
  <1>4. (a < b => a + Chunk <= b) /\ (b < a => b + Chunk <= a)
    BY <1>1, MultiplesApart, BackfillAssumption
  <1>5. a = b
    BY <1>1, <1>2, <1>3, <1>4, BackfillAssumption
  <1>6. r[1] = q[1]
    BY <1>2, <1>5
  <1>7. QED
    BY <1>6, RangeTypes

\* A ledger is in its file.
LEMMA FileHasLedger ==
    ASSUME NEW l \in Nat
    PROVE  FileStart(l) \in Nat /\ FileEnd(l) \in Nat /\ FileStart(l) <= l /\ l <= FileEnd(l)
  <1>1. l % PerFile \in 0..(PerFile - 1) /\ l - (l % PerFile) \in Nat
    BY MultipleBelow, BackfillAssumption
  <1>2. QED
    BY <1>1, BackfillAssumption DEF FileStart, FileEnd

-----------------------------------------------------------------------------
(***************************************************************************)
(* The inductive invariant.                                                *)
(***************************************************************************)
Within(e, r) == r[1] <= LedgerOf[e] /\ LedgerOf[e] <= r[2]

\* A checkpoint row names a ledger of its range or the one after, and all the
\* events before that ledger are handled.
RowInv(r) ==
    /\ row[r] = 0 \/ row[r] \in r[1]..(r[2] + 1)
    /\ \A e \in Events : r[1] <= LedgerOf[e] /\ LedgerOf[e] < row[r] => Handled(e)

\* A worker: what it has passed is handled, within a file what it has taken off
\* its list, and at the end of the range everything.
WorkInv(j, r) ==
    /\ at[j][r] = "wait" => nxt[j][r] = 0
    /\ at[j][r] \in {"fetch", "store"} => nxt[j][r] \in r[1]..r[2]
    /\ \A e \in Events : r[1] <= LedgerOf[e] /\ LedgerOf[e] < nxt[j][r] => Handled(e)
    /\ at[j][r] = "store" =>
          /\ todo[j][r] \subseteq Wanted(j, r)
          /\ \A e \in Events : LedgerOf[e] \in Wanted(j, r) \ todo[j][r] => Handled(e)
    /\ at[j][r] = "done" => \A e \in Events : Within(e, r) => Handled(e)

\* The session filter knows an event that is not handled only when the worker of
\* its range has failed, and this process will not come back to it.
SeenInv(j) ==
    \A e \in seen[j] : Handled(e) \/ \E r \in Ranges : at[j][r] = "error" /\ Within(e, r)

BackfillInv ==
    /\ TypeOK
    /\ \A r \in Ranges : RowInv(r)
    /\ \A j \in Jobs, r \in Ranges : WorkInv(j, r)
    /\ \A j \in Jobs : SeenInv(j)
    /\ ExitMeansStored

-----------------------------------------------------------------------------
(***************************************************************************)
(* What a step leaves alone.                                               *)
(***************************************************************************)
\* The update of one worker's entry.
LEMMA EntryUpdate ==
    ASSUME NEW V, NEW f \in [Jobs -> [Ranges -> V]], NEW j \in Jobs, NEW r \in Ranges, NEW v \in V
    PROVE  LET g == [f EXCEPT ![j][r] = v]
           IN  /\ g \in [Jobs -> [Ranges -> V]] /\ g[j][r] = v
               /\ \A k \in Jobs, q \in Ranges : k # j \/ q # r => g[k][q] = f[k][q]
  OBVIOUS

Grows == db \subseteq db' /\ given \subseteq given'

LEMMA HandledStays ==
    ASSUME Grows, NEW e, Handled(e)
    PROVE  Handled(e)'
  BY DEF Grows, Handled

LEMMA RowStays ==
    ASSUME Grows, NEW r \in Ranges, RowInv(r), row'[r] = row[r]
    PROVE  RowInv(r)'
  BY HandledStays DEF RowInv

LEMMA WorkerStays ==
    ASSUME Grows, NEW k \in Jobs, NEW q \in Ranges, WorkInv(k, q),
           at'[k][q] = at[k][q], nxt'[k][q] = nxt[k][q], todo'[k][q] = todo[k][q]
    PROVE  WorkInv(k, q)'
  BY HandledStays DEF WorkInv, Wanted, Within

LEMMA FilterStays ==
    ASSUME Grows, NEW k \in Jobs, SeenInv(k), seen'[k] = seen[k],
           \A q \in Ranges : at[k][q] = "error" => at'[k][q] = "error"
    PROVE  SeenInv(k)'
  BY HandledStays DEF SeenInv, Within

LEMMA ExitStays ==
    ASSUME Grows, ExitMeansStored, phase' = phase
    PROVE  ExitMeansStored'
  BY HandledStays DEF ExitMeansStored

\* A step of the worker of range r keeps the invariant when it keeps the types,
\* the worker's own part, the row of its range and its process's filter.
LEMMA OneWorkerMoves ==
    ASSUME BackfillInv, Grows, NEW j \in Jobs, NEW r \in Ranges, phase' = phase,
           \A k \in Jobs, q \in Ranges : k # j \/ q # r =>
              at'[k][q] = at[k][q] /\ nxt'[k][q] = nxt[k][q] /\ todo'[k][q] = todo[k][q],
           \A q \in Ranges : q # r => row'[q] = row[q],
           \A k \in Jobs : k # j => seen'[k] = seen[k],
           TypeOK', RowInv(r)', WorkInv(j, r)', SeenInv(j)'
    PROVE  BackfillInv'
  <1>1. ASSUME NEW q \in Ranges PROVE RowInv(q)'
    BY RowStays DEF BackfillInv
  <1>2. ASSUME NEW k \in Jobs, NEW q \in Ranges PROVE WorkInv(k, q)'
    BY WorkerStays DEF BackfillInv
  <1>3. ASSUME NEW k \in Jobs PROVE SeenInv(k)'
    BY FilterStays DEF BackfillInv
  <1>4. QED
    BY <1>1, <1>2, <1>3, ExitStays DEF BackfillInv

\* A process that ends forgets: its workers wait and its filter is empty.
LEMMA ForgetKeepsInv ==
    ASSUME BackfillInv, Grows, NEW j \in Jobs, Forget(j), UNCHANGED row, TypeOK', ExitMeansStored'
    PROVE  BackfillInv'
  <1>1. ASSUME NEW q \in Ranges PROVE RowInv(q)'
    BY RowStays DEF BackfillInv
  <1>2. ASSUME NEW k \in Jobs, NEW q \in Ranges, k # j PROVE WorkInv(k, q)'
    <2>1. at'[k][q] = at[k][q] /\ nxt'[k][q] = nxt[k][q] /\ todo'[k][q] = todo[k][q]
      BY <1>2 DEF BackfillInv, TypeOK, Forget
    <2>2. QED
      BY <2>1, WorkerStays DEF BackfillInv
  <1>3. ASSUME NEW q \in Ranges PROVE WorkInv(j, q)'
    <2>1. at'[j][q] = "wait" /\ nxt'[j][q] = 0
      BY DEF BackfillInv, TypeOK, Forget, Idle, Nowhere
    <2>2. q[1] \in Nat \ {0}
      BY RangeTypes, BackfillAssumption
    <2>3. QED
      BY <2>1, <2>2, BackfillAssumption DEF WorkInv
  <1>4. ASSUME NEW k \in Jobs, k # j PROVE SeenInv(k)'
    <2>1. at'[k] = at[k] /\ seen'[k] = seen[k]
      BY <1>4 DEF BackfillInv, TypeOK, Forget
    <2>2. QED
      BY <2>1, FilterStays DEF BackfillInv
  <1>5. SeenInv(j)'
    BY DEF BackfillInv, TypeOK, Forget, SeenInv
  <1>6. QED
    BY <1>1, <1>2, <1>3, <1>4, <1>5 DEF BackfillInv

-----------------------------------------------------------------------------
(***************************************************************************)
(* The steps.                                                              *)
(***************************************************************************)
LEMMA InitInv == Init => BackfillInv
  <1> SUFFICES ASSUME Init PROVE BackfillInv
    OBVIOUS
  <1>1. TypeOK
    BY BackfillAssumption DEF Init, TypeOK, Idle, Nowhere, Nothing, Positions
  <1>2. ASSUME NEW r \in Ranges PROVE RowInv(r) /\ \A j \in Jobs : WorkInv(j, r)
    <2>1. r[1] \in Nat \ {0}
      BY RangeTypes, BackfillAssumption
    <2>2. QED
      BY <2>1, BackfillAssumption DEF Init, RowInv, WorkInv, Idle, Nowhere
  <1>3. \A j \in Jobs : SeenInv(j)
    BY DEF Init, SeenInv
  <1>4. ExitMeansStored
    BY DEF Init, ExitMeansStored
  <1>5. QED
    BY <1>1, <1>2, <1>3, <1>4 DEF BackfillInv

LEMMA EnvironmentKeepsInv ==
    ASSUME BackfillInv, Export \/ \E e \in Events : LiveStore(e)
    PROVE  BackfillInv'
  <1>1. Grows /\ UNCHANGED <<row, phase, at, nxt, todo, seen>>
    BY DEF Grows, Export, LiveStore, jobVars
  <1>2. TypeOK'
    BY BackfillAssumption DEF BackfillInv, TypeOK, Export, LiveStore, jobVars, Least
  <1>3. \A q \in Ranges : RowInv(q)' /\ \A k \in Jobs : WorkInv(k, q)'
    BY <1>1, RowStays, WorkerStays DEF BackfillInv
  <1>4. \A k \in Jobs : SeenInv(k)'
    BY <1>1, FilterStays DEF BackfillInv
  <1>5. QED
    BY <1>1, <1>2, <1>3, <1>4, ExitStays DEF BackfillInv

LEMMA ProcessKeepsInv ==
    ASSUME BackfillInv, NEW j \in Jobs, Start(j) \/ Crash(j) \/ Exit(j)
    PROVE  BackfillInv'
  <1>1. Grows /\ UNCHANGED row
    BY DEF Grows, Start, Crash, Exit
  <1>2. ASSUME Forget(j)
        PROVE  /\ at' \in [Jobs -> [Ranges -> Positions]]
               /\ nxt' \in [Jobs -> [Ranges -> 0..(To + 1)]]
               /\ todo' \in [Jobs -> [Ranges -> SUBSET (From..To)]]
               /\ seen' \in [Jobs -> SUBSET Events] /\ seenAt' \in [Jobs -> Nat]
    <2>1. /\ Idle \in [Ranges -> Positions] /\ Nowhere \in [Ranges -> 0..(To + 1)]
          /\ Nothing \in [Ranges -> SUBSET (From..To)]
      BY BackfillAssumption DEF Idle, Nowhere, Nothing, Positions
    <2>2. QED
      BY <1>2, <2>1 DEF BackfillInv, TypeOK, Forget
  <1>3. CASE Start(j)
    <2>1. TypeOK' /\ ExitMeansStored'
      BY <1>3 DEF BackfillInv, TypeOK, Start, ExitMeansStored, Handled
    <2>2. UNCHANGED <<at, nxt, todo, seen>>
      BY <1>3 DEF Start
    <2>3. \A q \in Ranges : RowInv(q)' /\ \A k \in Jobs : WorkInv(k, q)'
      BY <1>1, <2>2, RowStays, WorkerStays DEF BackfillInv
    <2>4. \A k \in Jobs : SeenInv(k)'
      BY <1>1, <2>2, FilterStays DEF BackfillInv
    <2>5. QED
      BY <2>1, <2>3, <2>4 DEF BackfillInv
  <1>4. CASE Crash(j)
    <2>1. Forget(j) /\ faults' \in 0..MaxFaults
      BY <1>4, FaultBudget DEF Crash, BackfillInv, TypeOK
    <2>2. TypeOK'
      BY <1>2, <1>4, <2>1 DEF BackfillInv, TypeOK, Crash
    <2>3. ExitMeansStored'
      BY <1>4 DEF BackfillInv, TypeOK, Crash, ExitMeansStored, Handled
    <2>4. QED
      BY <1>1, <2>1, <2>2, <2>3, ForgetKeepsInv
  <1>5. CASE Exit(j)
    <2>1. Forget(j)
      BY <1>5 DEF Exit
    <2>2. TypeOK'
      BY <1>2, <1>5, <2>1 DEF BackfillInv, TypeOK, Exit
    <2>3. ASSUME \A r \in Ranges : at[j][r] = "done", NEW e \in Events, LedgerOf[e] \in From..To
          PROVE  Handled(e)
      <3>1. PICK r \in Ranges : LedgerOf[e] \in r[1]..r[2]
        BY <2>3, RangesCover
      <3>2. Within(e, r)
        BY <3>1, RangeTypes, BackfillAssumption DEF Within
      <3>3. QED
        BY <2>3, <3>2 DEF BackfillInv, WorkInv
    <2>4. ExitMeansStored'
      <3> SUFFICES ASSUME NEW k \in Jobs, phase'[k] = "ok", NEW e \in Events, LedgerOf[e] \in From..To
                   PROVE  Handled(e)'
        BY DEF ExitMeansStored
      <3>1. Handled(e)
        BY <1>5, <2>3 DEF BackfillInv, TypeOK, Exit, ExitMeansStored
      <3>2. QED
        BY <1>1, <3>1, HandledStays
    <2>5. QED
      BY <1>1, <2>1, <2>2, <2>4, ForgetKeepsInv
  <1>6. QED
    BY <1>3, <1>4, <1>5

\* load_resume_point: the row of the range says what is handled.
LEMMA BeginKeepsInv ==
    ASSUME BackfillInv, NEW j \in Jobs, NEW r \in Ranges, Begin(j, r)
    PROVE  BackfillInv'
  <1>1. /\ Grows /\ UNCHANGED <<phase, todo, seen, row, lake, db, given, seenAt>>
        /\ at[j][r] = "wait"
    BY DEF Begin, Grows
  <1>2. PICK to \in {"done", "fetch", "error"} : at' = [at EXCEPT ![j][r] = to]
    BY DEF Begin, Move, Fail
  <1>3. /\ at' \in [Jobs -> [Ranges -> Positions]] /\ at'[j][r] = to
        /\ \A k \in Jobs, q \in Ranges : k # j \/ q # r => at'[k][q] = at[k][q]
    <2>1. to \in Positions /\ at \in [Jobs -> [Ranges -> Positions]]
      BY DEF Positions, BackfillInv, TypeOK
    <2>2. QED
      BY <1>2, <2>1, EntryUpdate
  <1>4. /\ r[1] \in From..To /\ r[2] \in From..To /\ r[1] <= r[2]
        /\ row[r] \in 0..(To + 1) /\ RowInv(r) /\ WorkInv(j, r)
    BY RangeTypes DEF BackfillInv, TypeOK
  <1>5. faults' \in 0..MaxFaults
    BY FaultBudget DEF Begin, BackfillInv, TypeOK
  <1>6. CASE to = "fetch"
    <2> DEFINE n == IF row[r] = 0 THEN r[1] ELSE row[r]
    <2>1. nxt' = [nxt EXCEPT ![j][r] = n] /\ row[r] <= r[2]
      <3>1. at'[j][r] = "fetch"
        BY <1>3, <1>6
      <3>2. \A x \in Positions : at' = [at EXCEPT ![j][r] = x] => at'[j][r] = x
        BY EntryUpdate DEF BackfillInv, TypeOK
      <3>3. QED
        BY <3>1, <3>2 DEF Begin, Move, Fail, Positions
    <2>2. n \in r[1]..r[2] /\ n \in 0..(To + 1)
      BY <1>4, <2>1, BackfillAssumption DEF RowInv
    <2>3. nxt \in [Jobs -> [Ranges -> 0..(To + 1)]]
      BY DEF BackfillInv, TypeOK
    <2> HIDE DEF n
    <2>4. /\ nxt' \in [Jobs -> [Ranges -> 0..(To + 1)]] /\ nxt'[j][r] = n
          /\ \A k \in Jobs, q \in Ranges : k # j \/ q # r => nxt'[k][q] = nxt[k][q]
      BY <2>1, <2>2, <2>3, EntryUpdate
    <2>5. TypeOK'
      BY <1>1, <1>3, <1>5, <2>4 DEF BackfillInv, TypeOK
    <2>6. WorkInv(j, r)'
      <3>1. \A e \in Events : r[1] <= LedgerOf[e] /\ LedgerOf[e] < n => Handled(e)'
        BY <1>1, <1>4, HandledStays, BackfillAssumption DEF RowInv, n
      <3>2. QED
        BY <1>3, <1>6, <2>2, <2>4, <3>1 DEF WorkInv
    <2>7. RowInv(r)' /\ SeenInv(j)'
      BY <1>1, <1>3, <1>4, RowStays, FilterStays DEF BackfillInv
    <2>8. QED
      BY <1>1, <1>3, <2>4, <2>5, <2>6, <2>7, OneWorkerMoves
  <1>7. CASE to # "fetch"
    <2>1. nxt' = nxt /\ (to = "done" => row[r] > r[2])
      <3>1. at'[j][r] # "fetch" /\ at'[j][r] = to
        BY <1>3, <1>7
      <3>2. \A x \in Positions : at' = [at EXCEPT ![j][r] = x] => at'[j][r] = x
        BY EntryUpdate DEF BackfillInv, TypeOK
      <3>3. QED
        BY <3>1, <3>2 DEF Begin, Move, Fail, Positions
    <2>2. TypeOK'
      BY <1>1, <1>3, <1>5, <2>1 DEF BackfillInv, TypeOK
    <2>3. WorkInv(j, r)'
      <3>1. \A e \in Events : r[1] <= LedgerOf[e] /\ LedgerOf[e] < nxt'[j][r] => Handled(e)'
        BY <1>1, <1>4, <2>1, HandledStays DEF WorkInv
      <3>2. to = "done" => \A e \in Events : Within(e, r) => Handled(e)'
        BY <1>1, <1>4, <2>1, HandledStays, BackfillAssumption DEF RowInv, Within
      <3>3. QED
        BY <1>2, <1>3, <1>7, <3>1, <3>2 DEF WorkInv, Within
    <2>4. RowInv(r)' /\ SeenInv(j)'
      BY <1>1, <1>3, <1>4, RowStays, FilterStays DEF BackfillInv
    <2>5. QED
      BY <1>1, <1>3, <2>1, <2>2, <2>3, <2>4, OneWorkerMoves
  <1>8. QED
    BY <1>6, <1>7

LEMMA MoveUpdate ==
    ASSUME TypeOK, NEW j \in Jobs, NEW r \in Ranges, NEW to \in Positions, Move(j, r, to)
    PROVE  /\ at' \in [Jobs -> [Ranges -> Positions]] /\ at'[j][r] = to
           /\ \A k \in Jobs, q \in Ranges : k # j \/ q # r => at'[k][q] = at[k][q]
  BY EntryUpdate DEF TypeOK, Move

\* A worker whose range fails keeps what it had passed.
LEMMA FailKeepsInv ==
    ASSUME BackfillInv, NEW j \in Jobs, NEW r \in Ranges, at[j][r] # "error",
           Fail(j, r), Grows, TypeOK',
           UNCHANGED <<row, phase, nxt, todo>>,
           \A k \in Jobs : k # j => seen'[k] = seen[k],
           \A e \in seen'[j] : e \in seen[j] \/ Within(e, r)
    PROVE  BackfillInv'
  <1>1. /\ at'[j][r] = "error"
        /\ \A k \in Jobs, q \in Ranges : k # j \/ q # r => at'[k][q] = at[k][q]
    BY MoveUpdate DEF BackfillInv, Fail, Positions
  <1>2. WorkInv(j, r)'
    <2>1. \A e \in Events : r[1] <= LedgerOf[e] /\ LedgerOf[e] < nxt'[j][r] => Handled(e)'
      BY HandledStays DEF BackfillInv, WorkInv
    <2>2. QED
      BY <1>1, <2>1 DEF WorkInv
  <1>3. SeenInv(j)'
    <2> SUFFICES ASSUME NEW e \in seen'[j]
                 PROVE  Handled(e)' \/ \E q \in Ranges : at'[j][q] = "error" /\ Within(e, q)'
      BY DEF SeenInv
    <2>1. CASE Within(e, r)
      BY <1>1, <2>1 DEF Within
    <2>2. CASE e \in seen[j]
      <3>1. Handled(e) \/ \E q \in Ranges : at[j][q] = "error" /\ Within(e, q)
        BY <2>2 DEF BackfillInv, SeenInv
      <3>2. ASSUME NEW q \in Ranges, at[j][q] = "error", Within(e, q)
            PROVE  at'[j][q] = "error" /\ Within(e, q)'
        BY <1>1, <3>2 DEF Within
      <3>3. QED
        BY <3>1, <3>2, HandledStays
    <2>3. QED
      BY <2>1, <2>2
  <1>4. RowInv(r)'
    BY RowStays DEF BackfillInv
  <1>5. QED
    BY <1>1, <1>2, <1>3, <1>4, OneWorkerMoves

LEMMA WantedInRange ==
    ASSUME BackfillInv, NEW j \in Jobs, NEW r \in Ranges, at[j][r] \in {"fetch", "store"}
    PROVE  /\ nxt[j][r] \in Nat /\ Wanted(j, r) \subseteq From..To
           /\ \A l \in Wanted(j, r) : l \in r[1]..r[2]
  <1>1. nxt[j][r] \in r[1]..r[2] /\ r[1] \in From..To /\ r[2] \in From..To
    BY RangeTypes DEF BackfillInv, WorkInv
  <1>2. nxt[j][r] \in Nat
    BY <1>1, BackfillAssumption
  <1>3. FileStart(nxt[j][r]) \in Nat /\ FileEnd(nxt[j][r]) \in Nat
    BY <1>2, FileHasLedger
  <1>4. QED
    BY <1>1, <1>2, <1>3, BackfillAssumption DEF Wanted

LEMMA FetchKeepsInv ==
    ASSUME BackfillInv, NEW j \in Jobs, NEW r \in Ranges, Fetch(j, r)
    PROVE  BackfillInv'
  <1>1. /\ Grows /\ UNCHANGED <<lake, db, row, phase, nxt, seen, seenAt, given>>
        /\ at[j][r] = "fetch"
    BY DEF Fetch, Grows
  <1>2. TypeOK
    BY DEF BackfillInv
  <1>3. CASE todo' = [todo EXCEPT ![j][r] = Wanted(j, r)] /\ Move(j, r, "store") /\ UNCHANGED faults
    <2>1. /\ at' \in [Jobs -> [Ranges -> Positions]] /\ at'[j][r] = "store"
          /\ \A k \in Jobs, q \in Ranges : k # j \/ q # r => at'[k][q] = at[k][q]
      BY <1>2, <1>3, MoveUpdate DEF Positions
    <2>2. /\ todo' \in [Jobs -> [Ranges -> SUBSET (From..To)]] /\ todo'[j][r] = Wanted(j, r)
          /\ \A k \in Jobs, q \in Ranges : k # j \/ q # r => todo'[k][q] = todo[k][q]
      <3>1. Wanted(j, r) \in SUBSET (From..To) /\ todo \in [Jobs -> [Ranges -> SUBSET (From..To)]]
        BY <1>1, <1>2, WantedInRange DEF TypeOK
      <3>2. QED
        BY <1>3, <3>1, EntryUpdate
    <2>3. TypeOK'
      BY <1>1, <1>2, <1>3, <2>1, <2>2 DEF TypeOK
    <2>4. Wanted(j, r)' = Wanted(j, r)
      BY <1>1 DEF Wanted
    <2>5. WorkInv(j, r)'
      <3>1. \A e \in Events : r[1] <= LedgerOf[e] /\ LedgerOf[e] < nxt'[j][r] => Handled(e)'
        BY <1>1, HandledStays DEF BackfillInv, WorkInv
      <3>2. nxt'[j][r] \in r[1]..r[2]
        BY <1>1 DEF BackfillInv, WorkInv
      <3>3. QED
        BY <2>1, <2>2, <2>4, <3>1, <3>2 DEF WorkInv
    <2>6. RowInv(r)' /\ SeenInv(j)'
      BY <1>1, <2>1, RowStays, FilterStays DEF BackfillInv
    <2>7. QED
      BY <1>1, <2>1, <2>2, <2>3, <2>5, <2>6, OneWorkerMoves
  <1>4. CASE Fail(j, r) /\ UNCHANGED todo /\ faults' \in 0..MaxFaults
    <2>1. TypeOK'
      <3>1. at' \in [Jobs -> [Ranges -> Positions]]
        BY <1>2, <1>4, MoveUpdate DEF Fail, Positions
      <3>2. QED
        BY <1>1, <1>2, <1>4, <3>1 DEF TypeOK
    <2>2. QED
      BY <1>1, <1>4, <2>1, FailKeepsInv
  <1>5. QED
    BY <1>2, <1>3, <1>4, FaultBudget DEF Fetch, TypeOK

\* The events of a ledger that the session filter takes for known are handled:
\* the worker that read them before has not failed, for it is this one.
LEMMA KnownIsHandled ==
    ASSUME BackfillInv, NEW j \in Jobs, NEW r \in Ranges, NEW l \in From..To, IsNext(j, r, l),
           NEW e \in EventsOf(l), e \notin Fresh(j, l)
    PROVE  Handled(e)
  <1>1. e \in seen[j] /\ e \in Events /\ LedgerOf[e] = l
    BY DEF Fresh, Remembered, EventsOf
  <1>2. l \in r[1]..r[2] /\ at[j][r] = "store"
    BY WantedInRange DEF IsNext, BackfillInv, WorkInv
  <1>3. ASSUME NEW q \in Ranges, at[j][q] = "error", Within(e, q)
        PROVE  FALSE
    <2>1. q[1] \in Int /\ q[2] \in Int /\ l \in Int
      BY RangeTypes, BackfillAssumption
    <2>2. l \in q[1]..q[2]
      BY <1>1, <1>3, <2>1 DEF Within
    <2>3. q = r
      BY <1>2, <2>1, <2>2, RangesDisjoint
    <2>4. QED
      BY <1>2, <1>3, <2>3
  <1>4. QED
    BY <1>1, <1>3 DEF BackfillInv, SeenInv

LEMMA RememberTypes ==
    ASSUME TypeOK, NEW j \in Jobs, NEW l \in From..To, Remember(j, l, EventsOf(l))
    PROVE  /\ seen' \in [Jobs -> SUBSET Events] /\ seenAt' \in [Jobs -> Nat]
           /\ \A k \in Jobs : k # j => seen'[k] = seen[k]
           /\ \A e \in seen'[j] : e \in seen[j] \/ e \in EventsOf(l)
  <1>1. Remembered(j, l) \subseteq seen[j] /\ EventsOf(l) \subseteq Events /\ seen[j] \subseteq Events
    BY DEF Remembered, EventsOf, TypeOK
  <1>2. seen' = [seen EXCEPT ![j] = Remembered(j, l) \cup EventsOf(l)]
    BY DEF Remember
  <1>3. seenAt' \in [Jobs -> Nat]
    BY BackfillAssumption DEF Remember, TypeOK
  <1>4. QED
    BY <1>1, <1>2, <1>3 DEF TypeOK

LEMMA StoreLedgerKeepsInv ==
    ASSUME BackfillInv, NEW j \in Jobs, NEW r \in Ranges, NEW l \in From..To, StoreLedger(j, r, l)
    PROVE  BackfillInv'
  <1>1. /\ IsNext(j, r, l) /\ Remember(j, l, EventsOf(l)) /\ TypeOK
        /\ UNCHANGED <<lake, row, phase, at, nxt>> /\ at[j][r] = "store" /\ l \in todo[j][r]
    BY DEF StoreLedger, IsNext, BackfillInv
  <1>2. PICK missed \in {{}} \cup {{e} : e \in Fresh(j, l)} :
          /\ IF missed = {} THEN UNCHANGED faults ELSE Fault("bloom_fp")
          /\ db' = db \cup ((Fresh(j, l) \ missed) \cap Storable)
          /\ given' = given \cup missed \cup (Fresh(j, l) \ Storable)
    BY DEF StoreLedger
  <1>3. Fresh(j, l) \subseteq EventsOf(l) /\ EventsOf(l) \subseteq Events /\ missed \subseteq Fresh(j, l)
    BY <1>2 DEF Fresh, EventsOf
  <1>4. Grows
    BY <1>2 DEF Grows
  <1>5. \A e \in EventsOf(l) : Handled(e)'
    <2>1. \A e \in Fresh(j, l) : Handled(e)'
      BY <1>2 DEF Handled
    <2>2. QED
      BY <1>1, <1>4, <2>1, KnownIsHandled, HandledStays
  <1>6. /\ todo' \in [Jobs -> [Ranges -> SUBSET (From..To)]] /\ todo'[j][r] = todo[j][r] \ {l}
        /\ \A k \in Jobs, q \in Ranges : k # j \/ q # r => todo'[k][q] = todo[k][q]
    <2>1. todo' = [todo EXCEPT ![j][r] = todo[j][r] \ {l}] /\ todo[j][r] \ {l} \in SUBSET (From..To)
      BY <1>1 DEF StoreLedger, TypeOK
    <2>2. QED
      BY <1>1, <2>1, EntryUpdate DEF TypeOK
  <1>7. /\ seen' \in [Jobs -> SUBSET Events] /\ seenAt' \in [Jobs -> Nat]
        /\ \A k \in Jobs : k # j => seen'[k] = seen[k]
        /\ \A e \in seen'[j] : e \in seen[j] \/ e \in EventsOf(l)
    BY <1>1, RememberTypes
  <1>8. faults' \in 0..MaxFaults
    BY <1>1, <1>2, FaultBudget DEF TypeOK
  <1>9. TypeOK'
    <2>1. db' \subseteq Events /\ given' \subseteq Events
      BY <1>1, <1>2, <1>3 DEF TypeOK
    <2>2. QED
      BY <1>1, <1>6, <1>7, <1>8, <2>1 DEF TypeOK
  <1>10. WorkInv(j, r)'
    <2>1. WorkInv(j, r) /\ Wanted(j, r)' = Wanted(j, r)
      BY <1>1 DEF BackfillInv, Wanted
    <2>2. todo'[j][r] \subseteq Wanted(j, r)
      BY <1>1, <1>6, <2>1 DEF WorkInv
    <2>3. ASSUME NEW e \in Events, LedgerOf[e] \in Wanted(j, r) \ todo'[j][r]
          PROVE  Handled(e)'
      <3>1. CASE LedgerOf[e] = l
        BY <1>5, <3>1 DEF EventsOf
      <3>2. CASE LedgerOf[e] # l
        BY <1>1, <1>4, <1>6, <2>1, <2>3, <3>2, HandledStays DEF WorkInv
      <3>3. QED
        BY <3>1, <3>2
    <2>4. \A e \in Events : r[1] <= LedgerOf[e] /\ LedgerOf[e] < nxt'[j][r] => Handled(e)'
      BY <1>1, <1>4, <2>1, HandledStays DEF WorkInv
    <2>5. nxt'[j][r] \in r[1]..r[2]
      BY <1>1, <2>1 DEF WorkInv
    <2>6. QED
      BY <1>1, <2>1, <2>2, <2>3, <2>4, <2>5 DEF WorkInv
  <1>11. SeenInv(j)'
    BY <1>1, <1>4, <1>5, <1>7, HandledStays DEF BackfillInv, SeenInv, Within
  <1>12. RowInv(r)'
    BY <1>1, <1>4, RowStays DEF BackfillInv
  <1>13. QED
    BY <1>1, <1>4, <1>6, <1>7, <1>9, <1>10, <1>11, <1>12, OneWorkerMoves

LEMMA StoreFailsKeepsInv ==
    ASSUME BackfillInv, NEW j \in Jobs, NEW r \in Ranges, NEW l \in From..To, StoreFails(j, r, l)
    PROVE  BackfillInv'
  <1>1. /\ Remember(j, l, EventsOf(l)) /\ TypeOK /\ Fail(j, r) /\ at[j][r] = "store"
        /\ UNCHANGED <<lake, row, phase, nxt, todo, given>> /\ l \in todo[j][r]
    BY DEF StoreFails, IsNext, BackfillInv
  <1>2. Grows /\ db' \subseteq Events
    BY <1>1 DEF StoreFails, Grows, TypeOK, Fresh, EventsOf
  <1>3. faults' \in 0..MaxFaults
    BY <1>1, FaultBudget DEF StoreFails, TypeOK
  <1>4. /\ seen' \in [Jobs -> SUBSET Events] /\ seenAt' \in [Jobs -> Nat]
        /\ \A k \in Jobs : k # j => seen'[k] = seen[k]
        /\ \A e \in seen'[j] : e \in seen[j] \/ e \in EventsOf(l)
    BY <1>1, RememberTypes
  <1>5. TypeOK'
    <2>1. at' \in [Jobs -> [Ranges -> Positions]]
      BY <1>1, MoveUpdate DEF Fail, Positions
    <2>2. QED
      BY <1>1, <1>2, <1>3, <1>4, <2>1 DEF TypeOK
  <1>6. \A e \in EventsOf(l) : Within(e, r)
    <2>1. l \in r[1]..r[2]
      BY <1>1, WantedInRange DEF BackfillInv, WorkInv
    <2>2. r[1] \in Int /\ r[2] \in Int
      BY RangeTypes, BackfillAssumption
    <2>3. QED
      BY <2>1, <2>2 DEF Within, EventsOf
  <1>7. QED
    BY <1>1, <1>2, <1>4, <1>5, <1>6, FailKeepsInv

\* The worker has emptied the file: everything before After is handled.
LEMMA FileIsHandled ==
    ASSUME BackfillInv, NEW j \in Jobs, NEW r \in Ranges, at[j][r] = "store", todo[j][r] = {}
    PROVE  /\ After(j, r) \in r[1]..(r[2] + 1) /\ After(j, r) \in 1..(To + 1)
           /\ \A e \in Events : r[1] <= LedgerOf[e] /\ LedgerOf[e] < After(j, r) => Handled(e)
  <1>1. WorkInv(j, r) /\ nxt[j][r] \in r[1]..r[2]
    BY DEF BackfillInv, WorkInv
  <1>2. r[1] \in From..To /\ r[2] \in From..To /\ r[1] <= r[2]
    BY RangeTypes
  <1>3. nxt[j][r] \in Nat
    BY <1>1, <1>2, BackfillAssumption
  <1>4. /\ FileStart(nxt[j][r]) \in Nat /\ FileEnd(nxt[j][r]) \in Nat
        /\ FileStart(nxt[j][r]) <= nxt[j][r] /\ nxt[j][r] <= FileEnd(nxt[j][r])
    BY <1>3, FileHasLedger
  <1>5. After(j, r) \in r[1]..(r[2] + 1) /\ After(j, r) \in 1..(To + 1)
    BY <1>1, <1>2, <1>4, BackfillAssumption DEF After, Least
  <1>6. ASSUME NEW e \in Events, r[1] <= LedgerOf[e], LedgerOf[e] < After(j, r)
        PROVE  Handled(e)
    <2>1. LedgerOf[e] \in Nat
      BY BackfillAssumption
    <2>2. CASE LedgerOf[e] < nxt[j][r]
      BY <1>1, <1>6, <2>2 DEF WorkInv
    <2>3. CASE nxt[j][r] <= LedgerOf[e]
      <3>1. LedgerOf[e] <= FileEnd(nxt[j][r]) /\ LedgerOf[e] <= r[2]
        BY <1>2, <1>4, <1>6, <2>1, BackfillAssumption DEF After, Least
      <3>2. LedgerOf[e] \in Wanted(j, r)
        BY <1>3, <1>4, <2>1, <2>3, <3>1 DEF Wanted
      <3>3. QED
        BY <1>1, <3>2 DEF WorkInv
    <2>4. QED
      BY <1>3, <2>1, <2>2, <2>3
  <1>7. QED
    BY <1>5, <1>6

LEMMA SaveKeepsInv ==
    ASSUME BackfillInv, NEW j \in Jobs, NEW r \in Ranges, Save(j, r)
    PROVE  BackfillInv'
  <1> DEFINE a == After(j, r)
  <1>1. /\ Grows /\ TypeOK /\ UNCHANGED <<lake, db, phase, todo, seen, seenAt, given>>
        /\ at[j][r] = "store" /\ nxt' = [nxt EXCEPT ![j][r] = a]
        /\ row' = row \/ row' = [row EXCEPT ![r] = a]
    BY DEF Save, Grows, BackfillInv
  <1>2. /\ a \in r[1]..(r[2] + 1) /\ a \in 1..(To + 1)
        /\ \A e \in Events : r[1] <= LedgerOf[e] /\ LedgerOf[e] < a => Handled(e)'
    BY <1>1, FileIsHandled, HandledStays DEF Save
  <1>3. PICK to \in {"done", "fetch", "error"} :
          /\ Move(j, r, to)
          /\ to = "done" => a > r[2]
          /\ to = "fetch" => ~(a > r[2])
    BY DEF Save, Fail
  <1> HIDE DEF a
  <1>4. faults' \in 0..MaxFaults
    BY <1>1, FaultBudget DEF Save, TypeOK
  <1>5. /\ at' \in [Jobs -> [Ranges -> Positions]] /\ at'[j][r] = to
        /\ \A k \in Jobs, q \in Ranges : k # j \/ q # r => at'[k][q] = at[k][q]
    BY <1>1, <1>3, MoveUpdate DEF Positions
  <1>6. /\ nxt' \in [Jobs -> [Ranges -> 0..(To + 1)]] /\ nxt'[j][r] = a
        /\ \A k \in Jobs, q \in Ranges : k # j \/ q # r => nxt'[k][q] = nxt[k][q]
    <2>1. a \in 0..(To + 1)
      BY <1>2, BackfillAssumption
    <2>2. QED
      BY <1>1, <2>1, EntryUpdate DEF TypeOK
  <1>7. /\ row' \in [Ranges -> 0..(To + 1)] /\ row'[r] \in {row[r], a}
        /\ \A q \in Ranges : q # r => row'[q] = row[q]
    <2>1. row \in [Ranges -> 0..(To + 1)] /\ a \in 0..(To + 1)
      BY <1>1, <1>2, BackfillAssumption DEF TypeOK
    <2>2. CASE row' = row
      BY <2>1, <2>2
    <2>3. CASE row' = [row EXCEPT ![r] = a]
      BY <2>1, <2>3
    <2>4. QED
      BY <1>1, <2>2, <2>3
  <1>8. TypeOK'
    BY <1>1, <1>4, <1>5, <1>6, <1>7 DEF TypeOK
  <1>9. RowInv(r)'
    <2>1. CASE row'[r] = row[r]
      BY <1>1, <2>1, RowStays DEF BackfillInv
    <2>2. CASE row'[r] = a
      BY <1>2, <2>2 DEF RowInv
    <2>3. QED
      BY <1>7, <2>1, <2>2
  <1>10. WorkInv(j, r)'
    <2>1. r[1] \in Int /\ r[2] \in Int /\ a \in Int
      BY <1>2, RangeTypes, BackfillAssumption
    <2>2. to = "done" => \A e \in Events : Within(e, r) => Handled(e)'
      BY <1>2, <1>3, <2>1, BackfillAssumption DEF Within
    <2>3. to = "fetch" => a \in r[1]..r[2]
      BY <1>2, <1>3, <2>1
    <2>4. QED
      BY <1>2, <1>3, <1>5, <1>6, <2>2, <2>3 DEF WorkInv, Within
  <1>11. SeenInv(j)'
    BY <1>1, <1>5, FilterStays DEF BackfillInv
  <1>12. QED
    BY <1>1, <1>5, <1>6, <1>7, <1>8, <1>9, <1>10, <1>11, OneWorkerMoves

LEMMA NextInv == BackfillInv /\ [Next]_vars => BackfillInv'
  <1> SUFFICES ASSUME BackfillInv, [Next]_vars PROVE BackfillInv'
    OBVIOUS
  <1>1. CASE UNCHANGED vars
    <2>1. TypeOK' /\ Grows /\ UNCHANGED <<row, phase, at, nxt, todo, seen>>
      BY <1>1 DEF vars, jobVars, BackfillInv, TypeOK, Grows
    <2>2. QED
      BY <2>1, RowStays, WorkerStays, FilterStays, ExitStays DEF BackfillInv
  <1>2. CASE Export \/ \E e \in Events : LiveStore(e)
    BY <1>2, EnvironmentKeepsInv
  <1>3. ASSUME NEW j \in Jobs, Start(j) \/ Crash(j) \/ Exit(j)
        PROVE  BackfillInv'
    BY <1>3, ProcessKeepsInv
  <1>4. ASSUME NEW j \in Jobs, NEW r \in Ranges, Work(j, r)
        PROVE  BackfillInv'
    BY <1>4, BeginKeepsInv, FetchKeepsInv, SaveKeepsInv, StoreLedgerKeepsInv, StoreFailsKeepsInv DEF Work
  <1>5. QED
    BY <1>1, <1>2, <1>3, <1>4 DEF Next

LEMMA BackfillInvariance == Spec => []BackfillInv
  BY InitInv, NextInv, PTL DEF Spec

-----------------------------------------------------------------------------
(***************************************************************************)
(* The theorems.                                                           *)
(***************************************************************************)
\* The variables of every backfill process keep their types: in particular the
\* ledgers that store_ledger is called for never leave the command's range,
\* although the first and the last file may reach beyond it.
THEOREM BackfillTypes == Spec => []TypeOK
  BY BackfillInvariance, PTL DEF BackfillInv

\* backfill::run, "Backfill complete": a process that exits with status 0 leaves
\* no event of its ledgers behind, for any chunk and file size, any number of
\* workers and of processes on the same checkpoint rows, and any faults.
THEOREM ExitZeroMeansStored == Spec => []ExitMeansStored
  BY BackfillInvariance, PTL DEF BackfillInv

\* Everything that a row or a worker has passed is handled.
LEMMA PassedIsHandled == BackfillInv => Passed \subseteq db \cup given
  BY DEF BackfillInv, RowInv, WorkInv, Passed, PassedRow, PassedWorker, Handled

\* A step of a process stores and gives up events of the history.
LEMMA StepIngests ==
    ASSUME TypeOK, TypeOK', Next
    PROVE  Grows
  BY DEF Grows, Next, Export, LiveStore, Start, Crash, Exit, Work, Begin, Fetch, Save,
         StoreLedger, StoreFails

\* Backfill implements IngestLog: save_checkpoint and run_range never move past
\* a ledger before its events are stored or given up.
THEOREM BackfillImplementsIngestLog == Spec => IngestRefined
  <1>1. Init => Log!Init
    <2> SUFFICES ASSUME Init PROVE Log!Init
      OBVIOUS
    <2>1. Passed \subseteq db \cup given
      BY InitInv, PassedIsHandled
    <2>2. QED
      BY <2>1 DEF Init, Log!Init
  <1>2. BackfillInv /\ BackfillInv' /\ [Next]_vars => [Log!Ingest]_(Log!vars)
    <2> SUFFICES ASSUME BackfillInv, BackfillInv', [Next]_vars PROVE [Log!Ingest]_(Log!vars)
      OBVIOUS
    <2>1. CASE UNCHANGED vars
      BY <2>1 DEF vars, jobVars, Log!vars, Passed, PassedRow, PassedWorker
    <2>2. CASE Next
      <3>1. Grows /\ db' \subseteq Events /\ given' \subseteq Events
        BY <2>2, StepIngests DEF BackfillInv, TypeOK
      <3>2. Passed' \subseteq db' \cup given'
        <4>1. (BackfillInv => Passed \subseteq db \cup given)'
          BY PassedIsHandled, PTL
        <4>2. QED
          BY <4>1
      <3>3. QED
        BY <3>1, <3>2 DEF Log!Ingest, Grows
    <2>3. QED
      BY <2>1, <2>2
  <1>3. QED
    BY <1>1, <1>2, BackfillInvariance, PTL DEF Spec, IngestRefined, Log!Spec
=============================================================================
