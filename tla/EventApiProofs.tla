-------------------------- MODULE EventApiProofs --------------------------
(***************************************************************************)
(* Proofs about EventApi: the walks for any rows, ledgers and page limit,  *)
(* any number of writes; the jobs for any events, rows, batch sizes and    *)
(* number of jobs and faults.                                              *)
(***************************************************************************)
EXTENDS EventApi, FiniteSetTheorems, WellFoundedInduction, TLAPS

-----------------------------------------------------------------------------
(***************************************************************************)
(* The inductive invariant of the walks.                                   *)
(***************************************************************************)
OrdinalsUnique ==
    \A r, q \in Row :
        r # q /\ ledgerOf[r] = ledgerOf[q] /\ ordinalOf[r] = ordinalOf[q] => ordinalOf[r] = Null

\* The cursor has passed r.
Behind(r) == r = cursor \/ BeforeByKey(r, cursor)

\* The two orders disagree around a cut.
CutAfter(r) == \E c \in cuts : BeforeByOrdinal(r, c) /\ BeforeByKey(c, r)
CutBefore(r) == \E c \in cuts : BeforeByOrdinal(c, r) /\ BeforeByKey(r, c)

Unseen == \A r \in Row : seen[r] = 0

\* What lies behind the cursor of /recent, and nothing else, was returned.
RecentInv ==
    walk = "recent" =>
        /\ stage = "first" => Unseen
        /\ stage = "next" => \A r \in Row :
              (seen[r] > 0 => Behind(r)) /\ (r \in steady /\ Behind(r) => seen[r] = 1)
        /\ RecentExact

\* The same of /events by ledger, but for rows around a cut.
LedgerInv ==
    walk = "ledger" =>
        /\ stage = "first" => Unseen
        /\ stage = "next" => \A r \in Row :
              /\ seen[r] > 0 => Behind(r) \/ CutAfter(r)
              /\ r \in steady /\ seen[r] = 0 => ~Behind(r) \/ CutBefore(r)
        /\ CursorMissesExplained

\* The boundary of a page is inside the ledger of r.
Splits(k, r) == RowsBefore(r) < k * PageLimit /\ k * PageLimit < RowsUpTo(r)

\* A row whose ledger no boundary has split is on the page its ledger is on.
ContractInv ==
    walk = "contract" /\ writes = 0 =>
        /\ \A r \in table : (\A k \in 1..(page - 1) : ~Splits(k, r)) =>
              seen[r] = IF RowsUpTo(r) <= (page - 1) * PageLimit THEN 1 ELSE 0
        /\ stage = "done" => Cardinality(table) <= (page - 1) * PageLimit

WalkInv == PagesTypeOK /\ OrdinalsUnique /\ RecentInv /\ LedgerInv /\ ContractInv

-----------------------------------------------------------------------------
(***************************************************************************)
(* The inductive invariant of the jobs.                                    *)
(***************************************************************************)
Columns == [event : Event, hashed : Nat, anon : BOOLEAN, data : {"old", "new", "plain", "erased"}]
Copies == [id : RowId, row : Columns]
Fetched == [id : {0}, row : Columns]
Phases == {"idle", "fetch", "rows", "delete", "done", "failed"}

\* What a job of kind k at pc may hold.
Fits(k, pc, C, o) ==
    /\ k \in Kinds \cup {"none"} /\ pc \in Phases
    /\ o \in Nat /\ C \subseteq Copies \cup Fetched
    /\ k # "replay" => C \subseteq Copies
    /\ pc = "fetch" => C = {}
    /\ pc = "rows" => C # {}
    /\ k = "reencrypt" => \A c \in C : Encrypted(c.row)

JobsShape ==
    /\ chain \subseteq Event /\ stored \subseteq chain
    /\ rows \in [RowId -> Columns \cup {NoRow}] /\ file \subseteq Copies
    /\ job \in [Slots -> [kind : Kinds \cup {"none"}, pc : Phases, todo : SUBSET (Copies \cup Fetched),
                          offset : Nat]]
    /\ faults \in Nat
    /\ \A j \in Slots : Fits(job[j].kind, job[j].pc, job[j].todo, job[j].offset)

\* An id stands for one event, in the table, in the file and in every copy.
Taken == file \cup UNION {job[j].todo : j \in Slots}
IdsInv ==
    /\ \A c \in Taken : c.id \in Present => rows[c.id].event = c.row.event
    /\ \A c, d \in Taken : c.id = d.id /\ c.id # 0 => c.row.event = d.row.event

\* What an archiver will delete is in its copy, and then in the file.
ArchiveInv ==
    \A j \in Slots : job[j].kind = "archive" =>
        /\ job[j].pc = "rows" => InTable \subseteq Events(job[j].todo) \cup raced
        /\ job[j].pc = "delete" => InTable \subseteq Events(file) \cup raced \cup replaced

\* No readable copy of an erased event is left where it could come back from.
EraseInv ==
    \A e \in erased \ copied :
        /\ \A i \in RowId : rows[i].event = e => ~Readable(rows[i])
        /\ \A c \in file : c.row.event = e => ~Readable(c.row)
        /\ \A j \in Slots : job[j].kind # "erase" /\ Running(j) =>
              \A c \in job[j].todo : c.row.event = e => ~Readable(c.row)

\* Rows under the old key are in the batch at hand, or at the offset or after.
Secret == {i \in RowId : Encrypted(rows[i])}
Rank(i) == Cardinality({h \in Secret : h < i})
RotationInv ==
    \A j \in Slots : job[j].kind = "reencrypt" /\ Running(j) /\ j \notin shaken =>
        \A i \in RowId : rows[i].data = "old" => i \in Ids(job[j].todo) \/ Rank(i) >= job[j].offset

JobsInv == JobsShape /\ IdsInv /\ ArchiveInv /\ NothingLost /\ EraseInv /\ RotationInv

ApiInv == user \in {"client", "admin"} /\ WalkInv /\ JobsInv

-----------------------------------------------------------------------------
(***************************************************************************)
(* Ranks in a finite strict order.                                         *)
(***************************************************************************)
Orders(S, order) ==
    /\ \A x \in S : <<x, x>> \notin order
    /\ \A x, y, z \in S : <<x, y>> \in order /\ <<y, z>> \in order => <<x, z>> \in order
    /\ \A x, y \in S : x = y \/ <<x, y>> \in order \/ <<y, x>> \in order

Below(S, r, order) == {q \in S : <<q, r>> \in order}

\* Every set of numbers that is not empty has a least one.
LEMMA LeastExists ==
    ASSUME NEW S \in SUBSET Nat, S # {}
    PROVE  \E x \in S : \A y \in S : x <= y
  <1>1. IsWellFoundedOn(OpToRel(<, Nat), Nat)
    BY NatLessThanWellFounded
  <1>2. PICK x \in S : \A y \in S : ~(<<y, x>> \in OpToRel(<, Nat))
    BY <1>1, WFMin
  <1>3. \A y \in S : ~(y < x)
    BY <1>2 DEF OpToRel
  <1>4. QED
    BY <1>3

LEMMA BelowCount ==
    ASSUME NEW S, IsFiniteSet(S), NEW order, NEW r
    PROVE  /\ IsFiniteSet(Below(S, r, order)) /\ Cardinality(Below(S, r, order)) \in Nat
           /\ Cardinality(Below(S, r, order)) <= Cardinality(S)
  <1>1. Below(S, r, order) \in SUBSET S
    BY DEF Below
  <1>2. QED
    BY <1>1, FS_Subset, FS_CardinalityType

\* A row has a higher rank than the rows before it.
LEMMA RanksFollow ==
    ASSUME NEW S, IsFiniteSet(S), NEW order, Orders(S, order),
           NEW x \in S, NEW y \in S, <<x, y>> \in order
    PROVE  Cardinality(Below(S, x, order)) < Cardinality(Below(S, y, order))
  <1> DEFINE X == Below(S, x, order)
             Y == Below(S, y, order)
  <1>1. X \in SUBSET Y /\ x \in Y /\ x \notin X
    BY DEF Below, Orders
  <1>2. IsFiniteSet(Y) /\ Cardinality(X) \in Nat /\ Cardinality(Y) \in Nat
    BY BelowCount
  <1>3. Cardinality(X) <= Cardinality(Y) /\ (Cardinality(Y) = Cardinality(X) => Y = X)
    BY <1>1, <1>2, FS_Subset
  <1>4. QED
    BY <1>1, <1>2, <1>3

LEMMA FirstRowsClosed ==
    ASSUME NEW S, IsFiniteSet(S), NEW order, Orders(S, order), NEW n \in Nat
    PROVE  /\ FirstRows(S, n, order) \subseteq S /\ IsFiniteSet(FirstRows(S, n, order))
           /\ \A r \in FirstRows(S, n, order), q \in S :
                 <<q, r>> \in order => q \in FirstRows(S, n, order)
  <1> DEFINE F == FirstRows(S, n, order)
  <1>1. F \in SUBSET S
    BY DEF FirstRows
  <1>2. ASSUME NEW r \in F, NEW q \in S, <<q, r>> \in order
        PROVE  q \in F
    <2>1. r \in S /\ Cardinality(Below(S, r, order)) < n
      BY DEF FirstRows, Below
    <2>2. Cardinality(Below(S, q, order)) < Cardinality(Below(S, r, order))
      BY <1>2, <2>1, RanksFollow
    <2>3. Cardinality(Below(S, q, order)) \in Nat /\ Cardinality(Below(S, r, order)) \in Nat
      BY BelowCount
    <2>4. Cardinality(Below(S, q, order)) < n
      BY <2>1, <2>2, <2>3
    <2>5. QED
      BY <2>4 DEF FirstRows, Below
  <1>3. QED
    BY <1>1, <1>2, FS_Subset

\* Of a set of rows some row has the least rank, and some the highest.
LEMMA ExtremeRanks ==
    ASSUME NEW S, IsFiniteSet(S), NEW order, Orders(S, order), NEW T \in SUBSET S, T # {}
    PROVE  /\ \E r \in T : \A q \in T \ {r} : <<r, q>> \in order
           /\ \E r \in T : \A q \in T \ {r} : <<q, r>> \in order
  <1> DEFINE rank(r) == Cardinality(Below(S, r, order))
             N == Cardinality(S)
  <1>1. \A r \in S : rank(r) \in Nat /\ N - rank(r) \in Nat
    BY BelowCount, FS_CardinalityType
  <1>2. \A x, y \in S : <<x, y>> \in order => rank(x) < rank(y)
    BY RanksFollow
  <1>3. N \in Nat
    BY FS_CardinalityType
  <1> HIDE DEF rank, N
  <1>4. \E r \in T : \A q \in T \ {r} : <<r, q>> \in order
    <2>1. {rank(r) : r \in T} \in SUBSET Nat /\ {rank(r) : r \in T} # {}
      BY <1>1
    <2>2. PICK k \in {rank(r) : r \in T} : \A m \in {rank(r) : r \in T} : k <= m
      BY <2>1, LeastExists
    <2>3. PICK r \in T : k = rank(r)
      BY <2>2
    <2>4. \A q \in T : rank(r) <= rank(q)
      BY <2>2, <2>3
    <2>5. \A q \in T : ~(<<q, r>> \in order)
      BY <1>1, <1>2, <2>4
    <2>6. QED
      BY <2>5 DEF Orders
  <1>5. \E r \in T : \A q \in T \ {r} : <<q, r>> \in order
    <2>1. {N - rank(r) : r \in T} \in SUBSET Nat /\ {N - rank(r) : r \in T} # {}
      BY <1>1
    <2>2. PICK k \in {N - rank(r) : r \in T} : \A m \in {N - rank(r) : r \in T} : k <= m
      BY <2>1, LeastExists
    <2>3. PICK r \in T : k = N - rank(r)
      BY <2>2
    <2>4. \A q \in T : N - rank(r) <= N - rank(q)
      BY <2>2, <2>3
    <2>5. \A q \in T : ~(<<r, q>> \in order)
      BY <1>1, <1>2, <1>3, <2>4
    <2>6. QED
      BY <2>5 DEF Orders
  <1>6. QED
    BY <1>4, <1>5

LEMMA LastRowIsLast ==
    ASSUME NEW S, IsFiniteSet(S), NEW order, Orders(S, order), S # {}
    PROVE  LastRow(S, order) \in S /\ \A q \in S \ {LastRow(S, order)} : <<q, LastRow(S, order)>> \in order
  <1>1. \E r \in S : \A q \in S \ {r} : <<q, r>> \in order
    BY ExtremeRanks
  <1>2. QED
    BY <1>1 DEF LastRow

\* A page has no more rows than its limit; one that is not full has all rows.
LEMMA FirstRowsCount ==
    ASSUME NEW S, IsFiniteSet(S), NEW order, Orders(S, order), NEW n \in Nat
    PROVE  /\ Cardinality(FirstRows(S, n, order)) \in Nat /\ Cardinality(FirstRows(S, n, order)) <= n
           /\ Cardinality(FirstRows(S, n, order)) < n => FirstRows(S, n, order) = S
           /\ S # {} /\ n > 0 => FirstRows(S, n, order) # {}
  <1> DEFINE F == FirstRows(S, n, order)
  <1>1. F \in SUBSET S /\ IsFiniteSet(F) /\ Cardinality(F) \in Nat
    BY FirstRowsClosed, FS_CardinalityType
  <1>2. \A r \in S : r \in F <=> Cardinality(Below(S, r, order)) < n
    BY DEF FirstRows, Below
  <1>3. Cardinality(F) <= n
    <2>1. CASE F = {}
      BY <2>1, FS_EmptySet
    <2>2. CASE F # {}
      <3>1. PICK m \in F : \A q \in F \ {m} : <<q, m>> \in order
        BY <1>1, <2>2, ExtremeRanks
      <3>2. F \ {m} \in SUBSET Below(S, m, order)
        BY <1>1, <3>1 DEF Below
      <3>3. /\ IsFiniteSet(Below(S, m, order)) /\ Cardinality(Below(S, m, order)) \in Nat
            /\ Cardinality(Below(S, m, order)) < n
        BY <1>1, <1>2, <3>1, BelowCount
      <3>4. Cardinality(F \ {m}) <= Cardinality(Below(S, m, order))
        BY <3>2, <3>3, FS_Subset
      <3>5. Cardinality(F \ {m}) = Cardinality(F) - 1
        BY <1>1, <3>1, FS_RemoveElement
      <3>6. QED
        BY <1>1, <3>3, <3>4, <3>5
    <2>3. QED
      BY <2>1, <2>2
  <1>4. ASSUME Cardinality(F) < n, S \ F # {}
        PROVE  FALSE
    <2> DEFINE T == S \ F
    <2>0. T \in SUBSET S /\ T # {}
      BY <1>4
    <2>1. PICK a \in T : \A q \in T \ {a} : <<a, q>> \in order
      <3> HIDE DEF T
      <3>1. QED
        BY <2>0, ExtremeRanks
    <2>2. Below(S, a, order) \in SUBSET F
      <3> SUFFICES ASSUME NEW q \in S, <<q, a>> \in order, q \notin F
                   PROVE  FALSE
        BY DEF Below
      <3>1. q # a
        BY DEF Orders
      <3>2. <<a, q>> \in order
        BY <2>1, <3>1
      <3>3. <<a, a>> \in order
        BY <3>2 DEF Orders
      <3>4. QED
        BY <3>3 DEF Orders
    <2>3. Cardinality(Below(S, a, order)) <= Cardinality(F) /\ Cardinality(Below(S, a, order)) \in Nat
      BY <1>1, <2>2, FS_Subset, BelowCount
    <2>4. ~ (Cardinality(Below(S, a, order)) < n)
      BY <1>2, <2>1
    <2>5. QED
      BY <1>1, <1>4, <2>3, <2>4
  <1>5. ASSUME S # {}, n > 0, F = {}
        PROVE  FALSE
    <2>1. PICK a \in S : \A q \in S \ {a} : <<a, q>> \in order
      BY <1>5, ExtremeRanks
    <2>2. Below(S, a, order) = {}
      BY <2>1 DEF Below, Orders
    <2>3. Cardinality(Below(S, a, order)) = 0
      BY <2>2, FS_EmptySet
    <2>4. QED
      BY <1>2, <1>5, <2>3
  <1>6. QED
    BY <1>1, <1>3, <1>4, <1>5

\* A set that fits on a page is returned as a whole.
LEMMA FirstRowsWhole ==
    ASSUME NEW S, IsFiniteSet(S), NEW order, Orders(S, order), NEW n \in Nat, Cardinality(S) <= n
    PROVE  FirstRows(S, n, order) = S
  <1> SUFFICES ASSUME NEW r \in S
               PROVE  Cardinality(Below(S, r, order)) < n
    BY DEF FirstRows, Below
  <1>1. Below(S, r, order) \in SUBSET (S \ {r})
    BY DEF Below, Orders
  <1>2. IsFiniteSet(S \ {r}) /\ Cardinality(S \ {r}) = Cardinality(S) - 1
    BY FS_RemoveElement
  <1>3. Cardinality(Below(S, r, order)) <= Cardinality(S \ {r})
    BY <1>1, <1>2, FS_Subset
  <1>4. Cardinality(S) \in Nat /\ Cardinality(Below(S, r, order)) \in Nat
    BY FS_CardinalityType, BelowCount
  <1>5. QED
    BY <1>2, <1>3, <1>4

LEMMA SubOrders ==
    ASSUME NEW S, NEW order, Orders(S, order), NEW T \in SUBSET S
    PROVE  Orders(T, order)
  BY DEF Orders

\* ORDER BY ledger, id and ORDER BY ledger, TOID NULLS LAST, id are total: the
\* database has no choice in which rows a page holds.
LEMMA KeyOrders ==
    ASSUME PagesTypeOK
    PROVE  /\ \A x, y \in Row : <<x, y>> \in ByKey <=> BeforeByKey(x, y)
           /\ Orders(Row, ByKey)
  <1>1. \A x, y \in Row : <<x, y>> \in ByKey <=> BeforeByKey(x, y)
    BY DEF ByKey
  <1>2. \A x \in Row : x \in Nat /\ ledgerOf[x] \in Nat
    BY PagesAssumption DEF PagesTypeOK
  <1>3. \A x \in Row : ~ BeforeByKey(x, x)
    BY <1>2 DEF BeforeByKey, Ascends
  <1>4. \A x, y \in Row : x = y \/ BeforeByKey(x, y) \/ BeforeByKey(y, x)
    BY <1>2 DEF BeforeByKey, Ascends
  <1>5. \A x, y, z \in Row : BeforeByKey(x, y) /\ BeforeByKey(y, z) => BeforeByKey(x, z)
    BY <1>2 DEF BeforeByKey, Ascends
  <1>6. QED
    BY <1>1, <1>3, <1>4, <1>5 DEF Orders

LEMMA OrdinalOrders ==
    ASSUME PagesTypeOK, OrdinalsUnique
    PROVE  /\ \A x, y \in Row : <<x, y>> \in ByOrdinal <=> BeforeByOrdinal(x, y)
           /\ Orders(Row, ByOrdinal)
  <1>1. \A x, y \in Row : <<x, y>> \in ByOrdinal <=> BeforeByOrdinal(x, y)
    BY DEF ByOrdinal
  <1>2. \A x \in Row : x \in Nat /\ ledgerOf[x] \in Nat /\ ordinalOf[x] \in Nat
    <2>1. Row \subseteq Nat /\ Ledgers \subseteq Nat /\ Ordinals \cup {Null} \subseteq Nat
      BY PagesAssumption DEF Null
    <2>2. QED
      BY <2>1 DEF PagesTypeOK
  <1>3. \A x \in Row : ~ BeforeByOrdinal(x, x)
    BY <1>2 DEF BeforeByOrdinal, Ascends
  <1>4. \A x, y \in Row : x = y \/ BeforeByOrdinal(x, y) \/ BeforeByOrdinal(y, x)
    BY <1>2 DEF BeforeByOrdinal, Ascends, OrdinalsUnique
  <1>5. \A x, y, z \in Row : BeforeByOrdinal(x, y) /\ BeforeByOrdinal(y, z) => BeforeByOrdinal(x, z)
    BY <1>2 DEF BeforeByOrdinal, Ascends
  <1>6. QED
    BY <1>1, <1>3, <1>4, <1>5 DEF Orders

-----------------------------------------------------------------------------
(***************************************************************************)
(* Steps of a walk.                                                        *)
(***************************************************************************)
LEMMA SmallerOfTwo ==
    ASSUME NEW a \in Int, NEW b \in Int
    PROVE  Min({a, b}) = IF a <= b THEN a ELSE b
  <1>1. \E x \in {a, b} : \A y \in {a, b} : x <= y
    OBVIOUS
  <1>2. Min({a, b}) \in {a, b} /\ \A y \in {a, b} : Min({a, b}) <= y
    BY <1>1 DEF Min
  <1>3. QED
    BY <1>2

LEMMA GotCounts ==
    ASSUME PagesTypeOK, NEW P
    PROVE  /\ Got(P) \in [Row -> 0..2]
           /\ \A r \in Row : Got(P)[r] = IF r \in P THEN (IF seen[r] = 0 THEN 1 ELSE 2) ELSE seen[r]
  <1>1. \A r \in Row : seen[r] \in 0..2
    BY DEF PagesTypeOK
  <1>2. \A r \in Row : Min({seen[r] + 1, 2}) = IF seen[r] = 0 THEN 1 ELSE 2
    BY <1>1, SmallerOfTwo
  <1>3. QED
    BY <1>1, <1>2 DEF Got

\* The page R of the rows in A is cut after c.
Cut(A, R, c, order) ==
    /\ R \subseteq A /\ c \in R
    /\ \A q \in R : q = c \/ <<q, c>> \in order
    /\ \A a \in A \ R : <<c, a>> \in order

LEMMA PageOf ==
    ASSUME NEW order, Orders(Row, order), NEW A \in SUBSET Row
    PROVE  LET P == FirstRows(A, PageLimit, order) IN
           /\ Cardinality(P) = PageLimit => Cut(A, P, LastRow(P, order), order)
           /\ Cardinality(P) # PageLimit => P = A
  <1> DEFINE P == FirstRows(A, PageLimit, order)
             last == LastRow(P, order)
  <1>1. IsFiniteSet(A) /\ Orders(A, order) /\ PageLimit \in Nat /\ PageLimit > 0
    <2>1. IsFiniteSet(Row) /\ PageLimit \in Nat /\ PageLimit > 0
      BY PagesAssumption
    <2>2. QED
      BY <2>1, FS_Subset, SubOrders
  <1>2. /\ P \in SUBSET A /\ IsFiniteSet(P)
        /\ \A r \in P, q \in A : <<q, r>> \in order => q \in P
    BY <1>1, FirstRowsClosed
  <1>3. /\ Cardinality(P) \in Nat /\ Cardinality(P) <= PageLimit
        /\ Cardinality(P) < PageLimit => P = A
    BY <1>1, FirstRowsCount
  <1>4. Orders(P, order)
    BY <1>1, <1>2, SubOrders
  <1> HIDE DEF P
  <1>5. ASSUME Cardinality(P) = PageLimit
        PROVE  Cut(A, P, last, order)
    <2>1. P # {}
      BY <1>1, <1>5, FS_EmptySet
    <2>2. last \in P /\ \A q \in P \ {last} : <<q, last>> \in order
      BY <1>2, <1>4, <2>1, LastRowIsLast
    <2>3. \A a \in A \ P : <<last, a>> \in order
      BY <1>1, <1>2, <2>2 DEF Orders
    <2>4. QED
      BY <1>2, <2>2, <2>3 DEF Cut
  <1>6. Cardinality(P) # PageLimit => P = A
    BY <1>1, <1>3
  <1>7. QED
    BY <1>5, <1>6 DEF P

\* /recent fetches one row more than it returns.
LEMMA RecentPage ==
    ASSUME Orders(Row, ByKey), NEW A \in SUBSET Row
    PROVE  LET P == FirstRows(A, PageLimit + 1, ByKey) IN
           /\ Cardinality(P) > PageLimit => Cut(A, Returned(P), NextCursor(P), ByKey)
           /\ ~(Cardinality(P) > PageLimit) => Returned(P) = A
  <1> DEFINE P == FirstRows(A, PageLimit + 1, ByKey)
             R == FirstRows(P, PageLimit, ByKey)
             last == LastRow(R, ByKey)
  <1>1. IsFiniteSet(A) /\ Orders(A, ByKey) /\ PageLimit \in Nat /\ PageLimit + 1 \in Nat
    <2>1. IsFiniteSet(Row) /\ PageLimit \in Nat
      BY PagesAssumption
    <2>2. QED
      BY <2>1, FS_Subset, SubOrders
  <1>2. /\ P \in SUBSET A /\ IsFiniteSet(P)
        /\ \A r \in P, q \in A : <<q, r>> \in ByKey => q \in P
    BY <1>1, FirstRowsClosed
  <1>3. /\ Cardinality(P) \in Nat
        /\ Cardinality(P) < PageLimit + 1 => P = A
    BY <1>1, FirstRowsCount
  <1>4. Orders(P, ByKey)
    BY <1>1, <1>2, SubOrders
  <1> HIDE DEF P
  <1>5. Cardinality(R) \in Nat /\ Cardinality(R) <= PageLimit
    BY <1>1, <1>2, <1>4, FirstRowsCount
  <1>6. /\ Cardinality(R) = PageLimit => Cut(P, R, last, ByKey)
        /\ Cardinality(R) # PageLimit => R = P
    BY <1>2, PageOf
  <1>7. ASSUME Cardinality(P) > PageLimit
        PROVE  Cut(A, R, last, ByKey)
    <2>1. Cut(P, R, last, ByKey)
      BY <1>1, <1>3, <1>5, <1>6, <1>7
    <2> HIDE DEF R, last
    <2>2. \A a \in A \ R : <<last, a>> \in ByKey
      <3> SUFFICES ASSUME NEW a \in A \ P
                   PROVE  <<last, a>> \in ByKey
        BY <2>1 DEF Cut
      <3>1. last \in P /\ last \in A
        BY <1>2, <2>1 DEF Cut
      <3>2. last # a /\ <<a, last>> \notin ByKey
        BY <1>2, <3>1
      <3>3. QED
        BY <1>1, <3>1, <3>2 DEF Orders
    <2>3. QED
      BY <1>2, <2>1, <2>2 DEF Cut
  <1>8. ASSUME ~(Cardinality(P) > PageLimit)
        PROVE  R = A
    <2>1. Cardinality(P) <= PageLimit /\ Cardinality(P) < PageLimit + 1
      BY <1>1, <1>3, <1>8
    <2>2. R = P
      BY <1>1, <1>2, <1>4, <2>1, FirstRowsWhole
    <2>3. QED
      BY <1>3, <2>1, <2>2
  <1>9. QED
    BY <1>7, <1>8 DEF P, Returned, NextCursor

\* A response with the rows R of A: with the cursor c, or the last one.
Answers(A, R, c, order) ==
    /\ seen' = Got(R) /\ UNCHANGED <<columns, table, steady, writes>>
    /\ \/ stage' = "next" /\ cursor' = c /\ cuts' = cuts \cup {c} /\ Cut(A, R, c, order)
       \/ stage' = "done" /\ UNCHANGED <<cursor, cuts>> /\ R = A

LEMMA AnswerTypes ==
    ASSUME WalkInv, NEW A \in SUBSET Row, NEW R, NEW c, NEW order, Answers(A, R, c, order),
           page' = page
    PROVE  /\ PagesTypeOK' /\ OrdinalsUnique'
           /\ \A r \in Row : seen'[r] = IF r \in R THEN (IF seen[r] = 0 THEN 1 ELSE 2) ELSE seen[r]
           /\ \A x, y \in Row : (BeforeByKey(x, y) <=> BeforeByKey(x, y)')
                              /\ (BeforeByOrdinal(x, y) <=> BeforeByOrdinal(x, y)')
  <1>1. PagesTypeOK /\ OrdinalsUnique
    BY DEF WalkInv
  <1>2. UNCHANGED <<ledgerOf, ordinalOf, walk, dir, table, steady, writes>> /\ seen' = Got(R)
    BY DEF Answers, columns
  <1>3. stage' = "next" => c \in Row /\ cursor' = c /\ cuts' = cuts \cup {c}
    BY DEF Answers, Cut
  <1>4. stage' # "next" => stage' = "done" /\ cursor' = cursor /\ cuts' = cuts
    BY DEF Answers
  <1>5. PagesTypeOK'
    <2>1. seen' \in [Row -> 0..2]
      BY <1>1, <1>2, GotCounts
    <2>2. /\ cuts' \subseteq Row /\ cursor' \in Row \cup {Null}
          /\ stage' \in {"first", "next", "done", "refused"}
          /\ stage' = "next" => cursor' \in cuts'
      BY <1>1, <1>3, <1>4 DEF PagesTypeOK
    <2>3. QED
      BY <1>1, <1>2, <2>1, <2>2 DEF PagesTypeOK
  <1>6. QED
    BY <1>1, <1>2, <1>5, GotCounts DEF OrdinalsUnique, BeforeByKey, BeforeByOrdinal, Ascends

LEMMA RecentTurn ==
    ASSUME WalkInv, walk = "recent", stage \in {"first", "next"},
           NEW A, A = Ahead, NEW R, NEW c, Answers(A, R, c, ByKey), page' = page
    PROVE  WalkInv'
  <1>1. PagesTypeOK /\ RecentInv
    BY DEF WalkInv
  <1>2. /\ \A x, y \in Row : <<x, y>> \in ByKey <=> BeforeByKey(x, y)
        /\ Orders(Row, ByKey)
    BY <1>1, KeyOrders
  <1>3. A \in SUBSET Row /\ A \subseteq table /\ R \subseteq A /\ steady \subseteq table /\ table \subseteq Row
    BY <1>1 DEF Ahead, Answers, Cut, PagesTypeOK
  <1>4. /\ PagesTypeOK' /\ OrdinalsUnique'
        /\ \A r \in Row : seen'[r] = IF r \in R THEN (IF seen[r] = 0 THEN 1 ELSE 2) ELSE seen[r]
        /\ \A x, y \in Row : BeforeByKey(x, y) <=> BeforeByKey(x, y)'
    BY <1>3, AnswerTypes
  <1>5. walk' = "recent" /\ steady' = steady
    BY DEF Answers, columns
  <1>6. \A r \in Row : seen[r] \in {0, 1}
    BY <1>1 DEF RecentInv, RecentExact, PagesTypeOK
  <1>7. /\ \A r \in A : seen[r] = 0
        /\ \A r \in steady \ A : seen[r] = 1
        /\ \A r \in Row, d \in A : seen[r] > 0 => <<r, d>> \in ByKey
    <2>1. CASE stage = "first"
      <3>1. A = table /\ \A r \in Row : seen[r] = 0
        BY <1>1, <2>1 DEF Ahead, RecentInv, Unseen
      <3>2. QED
        BY <1>3, <3>1
    <2>2. CASE stage = "next"
      <3>1. A = {r \in table : BeforeByKey(cursor, r)}
        BY <2>2 DEF Ahead, Past
      <3>2. cursor \in Row
        BY <1>1, <2>2 DEF PagesTypeOK
      <3>3. \A r \in Row :
               (seen[r] > 0 => Behind(r)) /\ (r \in steady /\ Behind(r) => seen[r] = 1)
        BY <1>1, <2>2 DEF RecentInv
      <3>4. \A r \in Row : Behind(r) <=> ~ BeforeByKey(cursor, r)
        BY <1>2, <3>2 DEF Behind, Orders
      <3>5. \A r \in A : seen[r] = 0
        BY <1>3, <1>6, <3>1, <3>3, <3>4
      <3>6. \A r \in steady \ A : seen[r] = 1
        BY <1>3, <3>1, <3>3, <3>4
      <3>7. \A r \in Row, d \in A : seen[r] > 0 => <<r, d>> \in ByKey
        BY <1>2, <1>3, <3>1, <3>2, <3>3 DEF Behind, Orders
      <3>8. QED
        BY <3>5, <3>6, <3>7
    <2>3. QED
      BY <2>1, <2>2
  <1>8. \A r \in Row : seen'[r] \in {0, 1} /\ (seen'[r] = 1 <=> r \in R \/ seen[r] = 1)
    BY <1>3, <1>4, <1>6, <1>7
  <1>9. stage' = "done" => \A r \in steady : seen'[r] = 1
    <2> SUFFICES ASSUME stage' = "done", NEW r \in steady
                 PROVE  seen'[r] = 1
      OBVIOUS
    <2>1. R = A /\ r \in Row
      BY <1>3 DEF Answers
    <2>2. QED
      BY <1>7, <1>8, <2>1
  <1>10. ASSUME stage' = "next", NEW r \in Row
         PROVE  (seen'[r] > 0 => Behind(r)') /\ (r \in steady /\ Behind(r)' => seen'[r] = 1)
    <2>1. cursor' = c /\ Cut(A, R, c, ByKey)
      BY <1>10 DEF Answers
    <2>2. c \in A /\ c \in Row /\ c \in R
      BY <1>3, <2>1 DEF Cut
    <2>3. Behind(r)' <=> (r = c \/ <<r, c>> \in ByKey)
      BY <1>2, <1>4, <2>1, <2>2 DEF Behind
    <2>4. ASSUME seen'[r] > 0
          PROVE  r = c \/ <<r, c>> \in ByKey
      <3>1. CASE r \in R
        BY <2>1, <3>1 DEF Cut
      <3>2. CASE r \notin R
        BY <1>7, <1>8, <2>2, <2>4, <3>2
      <3>3. QED
        BY <3>1, <3>2
    <2>5. ASSUME r \in steady, r = c \/ <<r, c>> \in ByKey, seen'[r] # 1
          PROVE  FALSE
      <3>1. r \in A \ R
        BY <1>7, <1>8, <2>5
      <3>2. <<c, r>> \in ByKey
        BY <2>1, <3>1 DEF Cut
      <3>3. QED
        BY <1>2, <2>2, <2>5, <3>1, <3>2 DEF Orders
    <2>6. QED
      BY <2>3, <2>4, <2>5
  <1>11. RecentInv'
    BY <1>5, <1>8, <1>9, <1>10 DEF RecentInv, RecentExact, Answers
  <1>12. LedgerInv' /\ ContractInv'
    BY <1>5 DEF LedgerInv, ContractInv
  <1>13. QED
    BY <1>4, <1>11, <1>12 DEF WalkInv

LEMMA LedgerTurn ==
    ASSUME WalkInv, walk = "ledger", NEW A, NEW R, NEW c, page' = page,
           \/ stage = "first" /\ A = table /\ Answers(A, R, c, ByKey)
           \/ stage = "next" /\ A = {r \in table : Past(r)} /\ Answers(A, R, c, ByOrdinal)
    PROVE  WalkInv'
  <1>1. PagesTypeOK /\ OrdinalsUnique /\ LedgerInv /\ CursorMissesExplained
    BY DEF WalkInv, LedgerInv, CursorMissesExplained
  <1>2. /\ \A x, y \in Row : <<x, y>> \in ByKey <=> BeforeByKey(x, y)
        /\ Orders(Row, ByKey)
    BY <1>1, KeyOrders
  <1>3. /\ \A x, y \in Row : <<x, y>> \in ByOrdinal <=> BeforeByOrdinal(x, y)
        /\ Orders(Row, ByOrdinal)
    BY <1>1, OrdinalOrders
  <1>4. /\ A \in SUBSET Row /\ A \subseteq table /\ R \subseteq A
        /\ steady \subseteq table /\ table \subseteq Row /\ cuts \subseteq Row
    BY <1>1 DEF Answers, Cut, PagesTypeOK
  <1>5. /\ PagesTypeOK' /\ OrdinalsUnique'
        /\ \A r \in Row : seen'[r] = IF r \in R THEN (IF seen[r] = 0 THEN 1 ELSE 2) ELSE seen[r]
        /\ \A x, y \in Row : (BeforeByKey(x, y) <=> BeforeByKey(x, y)')
                           /\ (BeforeByOrdinal(x, y) <=> BeforeByOrdinal(x, y)')
    BY <1>4, AnswerTypes
  <1>6. walk' = "ledger" /\ steady' = steady /\ stage' \in {"next", "done"}
    BY DEF Answers, columns
  <1>7. \A r \in Row : seen[r] \in 0..2
    BY <1>1 DEF PagesTypeOK
  <1>8. cuts \subseteq cuts' /\ cuts' \subseteq Row
    BY <1>4 DEF Answers, Cut
  <1>9. /\ \A r \in Row : CutAfter(r) => CutAfter(r)'
        /\ \A r \in Row : CutBefore(r) => CutBefore(r)'
    BY <1>4, <1>5, <1>8 DEF CutAfter, CutBefore
  \* What is ahead, and what was seen.
  <1>10. /\ \A r \in A : seen[r] > 0 => CutAfter(r)
         /\ \A r \in steady \ A : seen[r] = 0 => CutBefore(r)
         /\ \A r \in Row, d \in A : seen[r] > 0 => <<r, d>> \in ByKey \/ CutAfter(r)
    <2>1. CASE stage = "first"
      <3>1. A = table /\ \A r \in Row : seen[r] = 0
        BY <1>1, <2>1 DEF LedgerInv, Unseen
      <3>2. QED
        BY <1>4, <3>1
    <2>2. CASE stage = "next"
      <3>1. A = {r \in table : BeforeByKey(cursor, r)}
        BY <2>2 DEF Past
      <3>2. cursor \in Row
        BY <1>1, <2>2 DEF PagesTypeOK
      <3>3. \A r \in Row :
               /\ seen[r] > 0 => Behind(r) \/ CutAfter(r)
               /\ r \in steady /\ seen[r] = 0 => ~Behind(r) \/ CutBefore(r)
        BY <1>1, <2>2 DEF LedgerInv
      <3>4. \A r \in Row : Behind(r) <=> ~ BeforeByKey(cursor, r)
        BY <1>2, <3>2 DEF Behind, Orders
      <3>5. \A r \in A : seen[r] > 0 => CutAfter(r)
        BY <1>4, <3>1, <3>3, <3>4
      <3>6. \A r \in steady \ A : seen[r] = 0 => CutBefore(r)
        BY <1>4, <3>1, <3>3, <3>4
      <3>7. \A r \in Row, d \in A : Behind(r) => <<r, d>> \in ByKey
        BY <1>2, <1>4, <3>1, <3>2 DEF Behind, Orders
      <3>8. QED
        BY <3>3, <3>5, <3>6, <3>7
    <2>3. QED
      BY <2>1, <2>2
  <1>11. \A r \in Row : seen'[r] > 1 => CutAfter(r)'
    <2> SUFFICES ASSUME NEW r \in Row, seen'[r] > 1
                 PROVE  CutAfter(r)
      BY <1>9
    <2>1. CASE r \in R
      <3>1. seen[r] > 0 /\ r \in A
        BY <1>4, <1>5, <1>7, <2>1
      <3>2. QED
        BY <1>10, <3>1
    <2>2. CASE r \notin R
      <3>1. seen[r] > 1
        BY <1>5, <2>2
      <3>2. QED
        BY <1>1, <3>1 DEF CursorMissesExplained, CutAfter
    <2>3. QED
      BY <2>1, <2>2
  <1>12. stage' = "done" => \A r \in steady : seen'[r] = 0 => CutBefore(r)'
    <2> SUFFICES ASSUME stage' = "done", NEW r \in steady, seen'[r] = 0
                 PROVE  CutBefore(r)
      BY <1>4, <1>9
    <2>1. R = A /\ r \in Row
      BY <1>4 DEF Answers
    <2>2. r \notin A /\ seen[r] = 0
      BY <1>5, <2>1
    <2>3. QED
      BY <1>10, <2>2
  <1>13. ASSUME stage' = "next", NEW r \in Row
         PROVE  /\ seen'[r] > 0 => Behind(r)' \/ CutAfter(r)'
                /\ r \in steady /\ seen'[r] = 0 => ~Behind(r)' \/ CutBefore(r)'
    <2>1. cursor' = c /\ c \in cuts' /\ (Cut(A, R, c, ByKey) \/ Cut(A, R, c, ByOrdinal))
      BY <1>13 DEF Answers
    <2>2. c \in A /\ c \in Row /\ c \in R
      BY <1>4, <2>1 DEF Cut
    <2>3. Behind(r)' <=> (r = c \/ <<r, c>> \in ByKey)
      BY <1>2, <1>5, <2>1, <2>2 DEF Behind
    <2>4. <<r, c>> \in ByOrdinal /\ <<c, r>> \in ByKey => CutAfter(r)'
      BY <1>2, <1>3, <1>5, <2>1, <2>2 DEF CutAfter
    <2>5. <<c, r>> \in ByOrdinal /\ <<r, c>> \in ByKey => CutBefore(r)'
      BY <1>2, <1>3, <1>5, <2>1, <2>2 DEF CutBefore
    <2>6. ASSUME seen'[r] > 0
          PROVE  r = c \/ <<r, c>> \in ByKey \/ CutAfter(r)'
      <3>1. CASE r \in R
        BY <1>2, <2>1, <2>2, <2>4, <3>1 DEF Cut, Orders
      <3>2. CASE r \notin R
        <4>1. seen[r] > 0
          BY <1>5, <2>6, <3>2
        <4>2. QED
          BY <1>9, <1>10, <2>2, <4>1
      <3>3. QED
        BY <3>1, <3>2
    <2>7. ASSUME r \in steady, seen'[r] = 0, r = c \/ <<r, c>> \in ByKey
          PROVE  CutBefore(r)'
      <3>1. r \notin R /\ seen[r] = 0 /\ r # c
        BY <1>5, <1>7, <2>2, <2>7
      <3>2. CASE r \in A
        <4>1. ~ (<<c, r>> \in ByKey)
          BY <1>2, <2>2, <2>7, <3>1 DEF Orders
        <4>2. <<c, r>> \in ByOrdinal
          BY <2>1, <3>1, <3>2, <4>1 DEF Cut
        <4>3. QED
          BY <2>5, <2>7, <3>1, <4>2
      <3>3. CASE r \notin A
        BY <1>9, <1>10, <2>7, <3>1, <3>3
      <3>4. QED
        BY <3>2, <3>3
    <2>8. QED
      BY <2>3, <2>6, <2>7
  <1>14. LedgerInv'
    <2>1. CursorMissesExplained'
      BY <1>6, <1>11, <1>12 DEF CursorMissesExplained, CutAfter, CutBefore
    <2>2. QED
      BY <1>6, <1>13, <2>1 DEF LedgerInv
  <1>15. RecentInv' /\ ContractInv'
    BY <1>6 DEF RecentInv, ContractInv
  <1>16. QED
    BY <1>5, <1>14, <1>15 DEF WalkInv

\* The response of the handlers of /v1/events.
LEMMA RespondAnswers ==
    ASSUME NEW order, Orders(Row, order), NEW A \in SUBSET Row, Idle,
           Respond(FirstRows(A, PageLimit, order), order)
    PROVE  Answers(A, FirstRows(A, PageLimit, order), LastRow(FirstRows(A, PageLimit, order), order), order)
  <1> DEFINE P == FirstRows(A, PageLimit, order)
  <1>1. /\ Cardinality(P) = PageLimit => Cut(A, P, LastRow(P, order), order)
        /\ Cardinality(P) # PageLimit => P = A
    BY PageOf
  <1> HIDE DEF P
  <1>2. Respond(P, order)
    BY DEF P
  <1>3. Answers(A, P, LastRow(P, order), order)
    BY <1>1, <1>2 DEF Respond, GiveCursor, GiveNone, Answers, Idle
  <1>4. QED
    BY <1>3 DEF P

LEMMA CursorStep ==
    ASSUME WalkInv, EventsFirst \/ EventsNext \/ EventsRefused \/ Recent
    PROVE  WalkInv'
  <1>1. PagesTypeOK /\ OrdinalsUnique /\ table \in SUBSET Row
    BY DEF WalkInv, PagesTypeOK
  <1>2. Orders(Row, ByKey) /\ Orders(Row, ByOrdinal)
    BY <1>1, KeyOrders, OrdinalOrders
  <1>3. CASE EventsFirst
    <2> DEFINE P == FirstRows(table, PageLimit, ByKey)
               c == LastRow(P, ByKey)
    <2>1. /\ walk \in {"ledger", "timestamp"} /\ stage = "first" /\ page' = page
          /\ Answers(table, P, c, ByKey)
      BY <1>1, <1>2, <1>3, RespondAnswers DEF EventsFirst
    <2> HIDE DEF P, c
    <2>2. CASE walk = "ledger"
      BY <2>1, <2>2, LedgerTurn
    <2>3. CASE walk = "timestamp"
      <3>1. PagesTypeOK' /\ OrdinalsUnique'
        BY <1>1, <2>1, AnswerTypes
      <3>2. walk' = "timestamp"
        BY <2>1, <2>3 DEF Answers, columns
      <3>3. QED
        BY <3>1, <3>2 DEF WalkInv, RecentInv, LedgerInv, ContractInv
    <2>4. QED
      BY <2>1, <2>2, <2>3
  <1>4. CASE EventsNext
    <2> DEFINE A == {r \in table : Past(r)}
               P == FirstRows(A, PageLimit, ByOrdinal)
               c == LastRow(P, ByOrdinal)
    <2>1. A \in SUBSET Row
      BY <1>1
    <2>2. /\ walk = "ledger" /\ stage = "next" /\ page' = page
          /\ Answers(A, P, c, ByOrdinal)
      BY <1>2, <1>4, <2>1, RespondAnswers DEF EventsNext
    <2> HIDE DEF P, c
    <2>3. QED
      BY <2>2, LedgerTurn
  <1>5. CASE EventsRefused
    <2>1. walk = "timestamp" /\ stage' = "refused"
          /\ UNCHANGED <<ledgerOf, ordinalOf, walk, dir, table, page, cursor, seen, steady, cuts, writes>>
      BY <1>5 DEF EventsRefused, Idle, columns
    <2>2. PagesTypeOK' /\ OrdinalsUnique'
      BY <1>1, <2>1 DEF PagesTypeOK, OrdinalsUnique
    <2>3. QED
      BY <2>1, <2>2 DEF WalkInv, RecentInv, LedgerInv, ContractInv
  <1>6. CASE Recent
    <2> DEFINE P == FirstRows(Ahead, PageLimit + 1, ByKey)
    <2>1. Ahead \in SUBSET Row
      BY <1>1 DEF Ahead
    <2>2. /\ Cardinality(P) > PageLimit => Cut(Ahead, Returned(P), NextCursor(P), ByKey)
          /\ ~(Cardinality(P) > PageLimit) => Returned(P) = Ahead
      BY <1>2, <2>1, RecentPage
    <2>3. /\ walk = "recent" /\ stage \in {"first", "next"} /\ page' = page
          /\ seen' = Got(Returned(P)) /\ Idle
          /\ IF Cardinality(P) > PageLimit THEN GiveCursor(NextCursor(P)) ELSE GiveNone
      BY <1>6 DEF Recent
    <2> HIDE DEF P
    <2>4. Answers(Ahead, Returned(P), NextCursor(P), ByKey)
      BY <2>2, <2>3 DEF Answers, GiveCursor, GiveNone, Idle
    <2>5. QED
      BY <2>3, <2>4, RecentTurn
  <1>7. QED
    BY <1>3, <1>4, <1>5, <1>6

\* A row is stored or deleted: nothing a walk has passed changes.
LEMMA WriteStep ==
    ASSUME WalkInv, StoreRow \/ DeleteRow
    PROVE  WalkInv'
  <1>1. PagesTypeOK /\ OrdinalsUnique
    BY DEF WalkInv
  <1>2. /\ UNCHANGED <<ledgerOf, ordinalOf, walk, dir, stage, page, cursor, seen, cuts>>
        /\ writes < MaxWrites /\ writes' = writes + 1 /\ stage \in {"first", "next"}
    BY DEF StoreRow, DeleteRow, Write, columns
  <1>3. table' \subseteq Row /\ steady' \subseteq table' /\ steady' \subseteq steady
    BY <1>1 DEF StoreRow, DeleteRow, PagesTypeOK
  <1>4. writes' \in 0..MaxWrites /\ writes' # 0
    BY <1>1, <1>2, PagesAssumption DEF PagesTypeOK
  <1>5. PagesTypeOK' /\ OrdinalsUnique'
    BY <1>1, <1>2, <1>3, <1>4 DEF PagesTypeOK, OrdinalsUnique
  <1>6. /\ \A r \in Row : Behind(r) <=> Behind(r)'
        /\ \A r \in Row : CutAfter(r) <=> CutAfter(r)'
        /\ \A r \in Row : CutBefore(r) <=> CutBefore(r)'
    BY <1>2 DEF Behind, CutAfter, CutBefore, BeforeByKey, BeforeByOrdinal, Ascends
  <1>7. RecentInv'
    BY <1>2, <1>3, <1>6 DEF WalkInv, RecentInv, RecentExact, Unseen
  <1>8. LedgerInv'
    <2>1. CursorMissesExplained'
      BY <1>2, <1>3
         DEF WalkInv, LedgerInv, CursorMissesExplained, BeforeByKey, BeforeByOrdinal, Ascends
    <2>2. QED
      BY <1>2, <1>3, <1>6, <2>1 DEF WalkInv, LedgerInv, Unseen
  <1>9. ContractInv'
    BY <1>4 DEF ContractInv
  <1>10. QED
    BY <1>5, <1>7, <1>8, <1>9 DEF WalkInv
\* Rows that come first by ledger: how many they are tells whether a row is
\* among them, unless they end inside its ledger.
LEMMA ClosedCount ==
    ASSUME PagesTypeOK, NEW Q \in SUBSET table, LedgerClosed(Q), NEW r \in table
    PROVE  /\ Cardinality(Q) \in Nat /\ RowsBefore(r) \in Nat /\ RowsUpTo(r) \in Nat
           /\ RowsUpTo(r) <= Cardinality(table) /\ Cardinality(table) \in Nat
           /\ RowsUpTo(r) > 0
           /\ RowsUpTo(r) <= Cardinality(Q) => r \in Q
           /\ RowsBefore(r) >= Cardinality(Q) => r \notin Q
  <1> DEFINE B == {q \in table : Ascends(ledgerOf[q], ledgerOf[r])}
             E == {q \in table : ledgerOf[q] = ledgerOf[r]}
  <1>1. table \subseteq Row /\ IsFiniteSet(table) /\ \A q \in table : ledgerOf[q] \in Nat
    BY PagesAssumption, FS_Subset DEF PagesTypeOK
  <1>2. B \in SUBSET table /\ E \in SUBSET table /\ B \cap E = {} /\ r \in E /\ r \notin B
    BY <1>1 DEF Ascends
  <1>3. \A q \in table : q \in B \cup E \/ Ascends(ledgerOf[r], ledgerOf[q])
    BY <1>1 DEF Ascends
  <1>4. RowsBefore(r) = Cardinality(B) /\ RowsUpTo(r) = Cardinality(B) + Cardinality(E)
    BY DEF RowsBefore, RowsUpTo
  <1>5. \A q \in Q, p \in table : Ascends(ledgerOf[p], ledgerOf[q]) => p \in Q
    BY DEF LedgerClosed
  <1>6. B \subseteq {q \in table : Ascends(ledgerOf[q], ledgerOf[r])}
    OBVIOUS
  <1> HIDE DEF B, E
  <1>7. /\ IsFiniteSet(B) /\ IsFiniteSet(E) /\ IsFiniteSet(Q)
        /\ Cardinality(B) \in Nat /\ Cardinality(E) \in Nat /\ Cardinality(Q) \in Nat
        /\ Cardinality(table) \in Nat
    BY <1>1, <1>2, FS_Subset, FS_CardinalityType
  <1>8. IsFiniteSet(B \cup E) /\ Cardinality(B \cup E) = Cardinality(B) + Cardinality(E)
    BY <1>2, <1>7, FS_Union, FS_EmptySet
  <1>9. Cardinality(B \cup E) <= Cardinality(table)
    BY <1>1, <1>2, FS_Subset
  <1>10. Cardinality(E) > 0
    BY <1>2, <1>7, FS_EmptySet
  <1>11. ASSUME r \notin Q
         PROVE  Cardinality(Q) < Cardinality(B \cup E)
    <2>1. Q \in SUBSET ((B \cup E) \ {r})
      BY <1>3, <1>5, <1>11
    <2>2. IsFiniteSet((B \cup E) \ {r}) /\ Cardinality((B \cup E) \ {r}) = Cardinality(B \cup E) - 1
      BY <1>2, <1>8, FS_RemoveElement
    <2>3. Cardinality(Q) <= Cardinality((B \cup E) \ {r})
      BY <2>1, <2>2, FS_Subset
    <2>4. QED
      BY <1>7, <1>8, <2>2, <2>3
  <1>12. ASSUME r \in Q
         PROVE  Cardinality(B) < Cardinality(Q)
    <2>1. B \in SUBSET (Q \ {r})
      BY <1>2, <1>5, <1>6, <1>12
    <2>2. IsFiniteSet(Q \ {r}) /\ Cardinality(Q \ {r}) = Cardinality(Q) - 1
      BY <1>7, <1>12, FS_RemoveElement
    <2>3. Cardinality(B) <= Cardinality(Q \ {r})
      BY <2>1, <2>2, FS_Subset
    <2>4. QED
      BY <1>7, <2>2, <2>3
  <1>13. QED
    BY <1>4, <1>7, <1>8, <1>9, <1>10, <1>11, <1>12

\* A page by number: the rows before it and the rows up to its end.
LEMMA OffsetPage ==
    ASSUME PagesTypeOK, NEW off \in Nat, NEW P \in OffsetPages(off)
    PROVE  /\ P \in SUBSET table
           /\ P = {} => Cardinality(table) <= off
           /\ \E Q \in SUBSET (table \ P) :
                 /\ LedgerClosed(Q) /\ LedgerClosed(Q \cup P)
                 /\ Cardinality(Q) = IF off <= Cardinality(table) THEN off ELSE Cardinality(table)
                 /\ Cardinality(Q \cup P) =
                       IF off + PageLimit <= Cardinality(table) THEN off + PageLimit ELSE Cardinality(table)
  <1> DEFINE N == Cardinality(table)
             rest == IF N > off THEN N - off ELSE 0
  <1>1. IsFiniteSet(table) /\ N \in Nat /\ PageLimit \in Nat /\ PageLimit > 0
    <2>1. IsFiniteSet(Row) /\ table \in SUBSET Row /\ PageLimit \in Nat /\ PageLimit > 0
      BY PagesAssumption DEF PagesTypeOK
    <2>2. QED
      BY <2>1, FS_Subset, FS_CardinalityType
  <1>2. P \in SUBSET table /\ Cardinality(P) = Min({PageLimit, rest})
    BY DEF OffsetPages
  <1>3. PICK Q \in SUBSET (table \ P) :
              Cardinality(Q) = Min({off, N}) /\ LedgerClosed(Q) /\ LedgerClosed(Q \cup P)
    BY DEF OffsetPages
  <1>4. rest \in Int /\ N \in Int /\ off \in Int /\ PageLimit \in Int
    BY <1>1
  <1>5. /\ Cardinality(P) = IF PageLimit <= rest THEN PageLimit ELSE rest
        /\ Cardinality(Q) = IF off <= N THEN off ELSE N
    BY <1>2, <1>3, <1>4, SmallerOfTwo
  <1>6. IsFiniteSet(P) /\ IsFiniteSet(Q) /\ Q \cap P = {}
    BY <1>1, <1>2, <1>3, FS_Subset
  <1>7. Cardinality(Q \cup P) = Cardinality(Q) + Cardinality(P)
    <2>1. Cardinality(Q \cap P) = 0
      BY <1>6, FS_EmptySet
    <2>2. Cardinality(Q) \in Nat /\ Cardinality(P) \in Nat
      BY <1>6, FS_CardinalityType
    <2>3. Cardinality(Q \cup P) = Cardinality(Q) + Cardinality(P) - Cardinality(Q \cap P)
      BY <1>6, FS_Union
    <2>4. QED
      BY <2>1, <2>2, <2>3
  <1>8. P = {} => N <= off
    <2>1. P = {} => Cardinality(P) = 0
      BY FS_EmptySet
    <2>2. QED
      BY <1>1, <1>5, <2>1
  <1>9. Cardinality(Q \cup P) = IF off + PageLimit <= N THEN off + PageLimit ELSE N
    BY <1>1, <1>5, <1>7
  <1>10. QED
    BY <1>2, <1>3, <1>5, <1>8, <1>9

LEMMA ContractStep ==
    ASSUME WalkInv, ByContract
    PROVE  WalkInv'
  <1> DEFINE off == (page - 1) * PageLimit
  <1>1. PagesTypeOK /\ OrdinalsUnique /\ ContractInv
    BY DEF WalkInv
  <1>2. /\ UNCHANGED <<ledgerOf, ordinalOf, walk, dir, table, cursor, steady, cuts, writes>>
        /\ walk = "contract" /\ page' = page + 1
    BY DEF ByContract, Idle, columns
  <1>3. PICK P \in OffsetPages(off) : seen' = Got(P) /\ stage' = IF P = {} THEN "done" ELSE "next"
    BY DEF ByContract, Offset
  <1>4. page \in Nat /\ page >= 1 /\ PageLimit \in Nat /\ PageLimit > 0
    BY <1>1, PagesAssumption DEF PagesTypeOK
  <1>5. off \in Nat /\ page * PageLimit = off + PageLimit /\ (page' - 1) * PageLimit = off + PageLimit
    <2>1. page - 1 \in Nat /\ page' - 1 = page /\ page = (page - 1) + 1
      BY <1>2, <1>4
    <2>2. \A x \in Nat : (x + 1) * PageLimit = x * PageLimit + PageLimit /\ x * PageLimit \in Nat
      BY <1>4
    <2>3. QED
      BY <2>1, <2>2
  <1>6. (page = 1 => off = 0) /\ (page > 1 => page - 1 \in 1..(page - 1))
    BY <1>4
  <1> HIDE DEF off
  <1>7. PagesTypeOK'
    <2>1. seen' \in [Row -> 0..2] /\ page' \in Nat \ {0} /\ stage' \in {"next", "done"}
      BY <1>1, <1>2, <1>3, <1>4, GotCounts
    <2>2. QED
      BY <1>1, <1>2, <2>1 DEF PagesTypeOK
  <1>8. OrdinalsUnique'
    BY <1>1, <1>2 DEF OrdinalsUnique
  <1>9. /\ P \in SUBSET table
        /\ P = {} => Cardinality(table) <= off
        /\ \E Q \in SUBSET (table \ P) :
              /\ LedgerClosed(Q) /\ LedgerClosed(Q \cup P)
              /\ Cardinality(Q) = IF off <= Cardinality(table) THEN off ELSE Cardinality(table)
              /\ Cardinality(Q \cup P) =
                    IF off + PageLimit <= Cardinality(table) THEN off + PageLimit ELSE Cardinality(table)
    BY <1>1, <1>3, <1>5, OffsetPage
  <1>10. PICK Q \in SUBSET (table \ P) :
              /\ LedgerClosed(Q) /\ LedgerClosed(Q \cup P)
              /\ Cardinality(Q) = IF off <= Cardinality(table) THEN off ELSE Cardinality(table)
              /\ Cardinality(Q \cup P) =
                    IF off + PageLimit <= Cardinality(table) THEN off + PageLimit ELSE Cardinality(table)
    BY <1>9
  <1>11. \A r \in table : RowsBefore(r)' = RowsBefore(r) /\ RowsUpTo(r)' = RowsUpTo(r)
    BY <1>2 DEF RowsBefore, RowsUpTo, Ascends
  <1>12. ASSUME writes = 0, NEW r \in table, \A k \in 1..page : ~ Splits(k, r)
         PROVE  seen'[r] = IF RowsUpTo(r) <= off + PageLimit THEN 1 ELSE 0
    <2>1. /\ RowsBefore(r) \in Nat /\ RowsUpTo(r) \in Nat /\ RowsUpTo(r) <= Cardinality(table)
          /\ Cardinality(table) \in Nat /\ Cardinality(Q) \in Nat
          /\ RowsUpTo(r) <= Cardinality(Q) => r \in Q
          /\ RowsBefore(r) >= Cardinality(Q) => r \notin Q
      BY <1>1, <1>10, ClosedCount
    <2>2. /\ RowsUpTo(r) <= Cardinality(Q \cup P) => r \in Q \cup P
          /\ RowsBefore(r) >= Cardinality(Q \cup P) => r \notin Q \cup P
      <3>1. Q \cup P \in SUBSET table
        BY <1>9, <1>10
      <3>2. QED
        BY <1>1, <1>10, <3>1, ClosedCount
    <2>3. seen[r] = IF RowsUpTo(r) <= off THEN 1 ELSE 0
      <3>1. \A k \in 1..(page - 1) : k \in 1..page
        BY <1>4
      <3>2. QED
        BY <1>1, <1>2, <1>12, <3>1 DEF ContractInv, off
    <2>4. RowsBefore(r) >= off \/ RowsUpTo(r) <= off
      <3>1. CASE page = 1
        BY <1>6, <2>1, <3>1
      <3>2. CASE page # 1
        <4>1. page - 1 \in 1..page
          BY <1>4, <3>2
        <4>2. ~ Splits(page - 1, r)
          BY <1>12, <4>1
        <4>3. QED
          BY <1>5, <2>1, <4>2 DEF Splits, off
      <3>3. QED
        BY <3>1, <3>2
    <2>5. RowsBefore(r) >= off + PageLimit \/ RowsUpTo(r) <= off + PageLimit
      <3>1. page \in 1..page
        BY <1>4
      <3>2. ~ Splits(page, r)
        BY <1>12, <3>1
      <3>3. QED
        BY <1>4, <1>5, <2>1, <3>2 DEF Splits
    <2>6. seen'[r] = IF r \in P THEN (IF seen[r] = 0 THEN 1 ELSE 2) ELSE seen[r]
      <3>1. r \in Row
        BY <1>1 DEF PagesTypeOK
      <3>2. QED
        BY <1>1, <1>3, <3>1, GotCounts
    <2>7. r \in Q => r \notin P
      BY <1>10
    <2>8. CASE RowsUpTo(r) <= off
      <3>1. r \in Q
        BY <1>5, <1>10, <2>1, <2>8
      <3>2. QED
        BY <1>4, <1>5, <2>1, <2>3, <2>6, <2>7, <2>8, <3>1
    <2>9. CASE ~(RowsUpTo(r) <= off)
      <3>1. r \notin Q /\ seen[r] = 0
        BY <1>5, <1>10, <2>1, <2>3, <2>4, <2>9
      <3>2. CASE RowsUpTo(r) <= off + PageLimit
        <4>1. r \in Q \cup P
          BY <1>4, <1>5, <1>10, <2>1, <2>2, <3>2
        <4>2. QED
          BY <2>6, <3>1, <3>2, <4>1
      <3>3. CASE ~(RowsUpTo(r) <= off + PageLimit)
        <4>1. r \notin Q \cup P
          BY <1>4, <1>5, <1>10, <2>1, <2>2, <2>5, <3>3
        <4>2. QED
          BY <2>6, <3>1, <3>3, <4>1
      <3>4. QED
        BY <3>2, <3>3
    <2>10. QED
      BY <2>8, <2>9
  <1>13. ContractInv'
    <2>1. \A k, r : r \in table => (Splits(k, r)' <=> Splits(k, r))
      BY <1>11 DEF Splits
    <2>2. page' - 1 = page
      BY <1>2, <1>4
    <2>3. stage' = "done" => Cardinality(table) <= off + PageLimit
      <3>1. stage' = "done" => P = {}
        BY <1>3
      <3>2. Cardinality(table) \in Nat
        BY PagesAssumption, <1>1, FS_Subset, FS_CardinalityType DEF PagesTypeOK
      <3>3. QED
        BY <1>4, <1>5, <1>9, <3>1, <3>2
    <2>4. ASSUME writes = 0, NEW r \in table, \A k \in 1..page : ~ Splits(k, r)'
          PROVE  seen'[r] = IF RowsUpTo(r)' <= (page' - 1) * PageLimit THEN 1 ELSE 0
      BY <1>5, <1>11, <1>12, <2>1, <2>4
    <2>5. QED
      BY <1>2, <1>5, <2>2, <2>3, <2>4 DEF ContractInv
  <1>14. RecentInv' /\ LedgerInv'
    BY <1>2 DEF RecentInv, LedgerInv
  <1>15. QED
    BY <1>7, <1>8, <1>13, <1>14 DEF WalkInv

LEMMA WalkInit ==
    ASSUME PagesInit \/ PagesIdle
    PROVE  WalkInv
  <1>1. PagesTypeOK
    <2>1. 0 \in 0..MaxWrites /\ (CHOOSE l \in Ledgers : TRUE) \in Ledgers
      BY PagesAssumption
    <2>2. QED
      BY <2>1 DEF PagesInit, PagesIdle, PagesTypeOK, Walks
  <1>2. OrdinalsUnique
    BY DEF PagesInit, PagesIdle, OrdinalsUnique
  <1>3. /\ \A r \in Row : seen[r] = 0
        /\ stage = "first" \/ (stage = "done" /\ walk = "recent" /\ steady = {})
        /\ page = 1
    BY DEF PagesInit, PagesIdle
  <1>4. RecentInv /\ LedgerInv
    BY <1>3 DEF RecentInv, RecentExact, LedgerInv, CursorMissesExplained, Unseen
  <1>5. ContractInv
    <2>1. \A r \in table : RowsUpTo(r) \in Nat /\ RowsUpTo(r) > 0
      <3>1. {} \in SUBSET table /\ LedgerClosed({})
        BY DEF LedgerClosed
      <3>2. QED
        BY <1>1, <3>1, ClosedCount
    <2>2. (page - 1) * PageLimit = 0
      BY <1>3, PagesAssumption
    <2>3. \A r \in table : seen[r] = 0
      BY <1>1, <1>3 DEF PagesTypeOK
    <2>4. QED
      BY <1>3, <2>1, <2>2, <2>3 DEF ContractInv
  <1>6. QED
    BY <1>1, <1>2, <1>4, <1>5 DEF WalkInv

\* What the walks promise follows from the invariant.
LEMMA ContractExplained ==
    ASSUME WalkInv
    PROVE  ContractMissesExplained
  <1> SUFFICES ASSUME walk = "contract", writes = 0, stage = "done",
                      NEW r \in table, \A k \in 1..page : ~ Splits(k, r)
               PROVE  seen[r] = 1
    BY DEF ContractMissesExplained, Splits
  <1>1. PagesTypeOK /\ page \in Nat
    BY DEF WalkInv, PagesTypeOK
  <1>2. \A k \in 1..(page - 1) : k \in 1..page
    BY <1>1
  <1>3. Cardinality(table) <= (page - 1) * PageLimit
    BY DEF WalkInv, ContractInv
  <1>4. seen[r] = IF RowsUpTo(r) <= (page - 1) * PageLimit THEN 1 ELSE 0
    BY <1>2 DEF WalkInv, ContractInv
  <1>5. RowsUpTo(r) <= Cardinality(table) /\ RowsUpTo(r) \in Nat /\ Cardinality(table) \in Nat
    <2>1. {} \in SUBSET table /\ LedgerClosed({})
      BY DEF LedgerClosed
    <2>2. QED
      BY <1>1, <2>1, ClosedCount
  <1>6. (page - 1) * PageLimit \in Int
    BY <1>1, PagesAssumption
  <1>7. QED
    BY <1>3, <1>4, <1>5, <1>6
-----------------------------------------------------------------------------
(***************************************************************************)
(* What a step does to the jobs.                                           *)
(***************************************************************************)
Moves(j, k, pc, C, o) == job' = [job EXCEPT ![j] = [kind |-> k, pc |-> pc, todo |-> C, offset |-> o]]

LEMMA MoveFacts ==
    ASSUME JobsShape, NEW j \in Slots, NEW k, NEW pc, NEW C, NEW o, Moves(j, k, pc, C, o)
    PROVE  /\ job'[j].kind = k /\ job'[j].pc = pc /\ job'[j].todo = C /\ job'[j].offset = o
           /\ \A i \in Slots \ {j} : job'[i] = job[i]
           /\ Fits(k, pc, C, o) =>
                 /\ job' \in [Slots -> [kind : Kinds \cup {"none"}, pc : Phases,
                                        todo : SUBSET (Copies \cup Fetched), offset : Nat]]
                 /\ \A i \in Slots : Fits(job'[i].kind, job'[i].pc, job'[i].todo, job'[i].offset)
  <1>1. job' = [job EXCEPT ![j] = [kind |-> k, pc |-> pc, todo |-> C, offset |-> o]]
        /\ job \in [Slots -> [kind : Kinds \cup {"none"}, pc : Phases,
                              todo : SUBSET (Copies \cup Fetched), offset : Nat]]
    BY DEF Moves, JobsShape
  <1>2. job'[j] = [kind |-> k, pc |-> pc, todo |-> C, offset |-> o] /\ \A i \in Slots \ {j} : job'[i] = job[i]
    BY <1>1
  <1>3. job'[j].kind = k /\ job'[j].pc = pc /\ job'[j].todo = C /\ job'[j].offset = o
    BY <1>2
  <1>4. ASSUME Fits(k, pc, C, o)
        PROVE  job' \in [Slots -> [kind : Kinds \cup {"none"}, pc : Phases,
                                   todo : SUBSET (Copies \cup Fetched), offset : Nat]]
    <2>1. k \in Kinds \cup {"none"} /\ pc \in Phases /\ C \in SUBSET (Copies \cup Fetched) /\ o \in Nat
      BY <1>4 DEF Fits
    <2> HIDE DEF Copies, Fetched, Kinds, Phases
    <2>2. QED
      BY <1>1, <2>1
  <1>5. ASSUME Fits(k, pc, C, o), NEW i \in Slots
        PROVE  Fits(job'[i].kind, job'[i].pc, job'[i].todo, job'[i].offset)
    BY <1>2, <1>3, <1>5 DEF JobsShape
  <1>6. QED
    BY <1>2, <1>3, <1>4, <1>5

\* The ways in which the jobs are written are moves of one job.
LEMMA MoveForms ==
    ASSUME JobsShape, NEW j \in Slots
    PROVE  /\ \A pc : Goto(j, pc) => Moves(j, job[j].kind, pc, job[j].todo, job[j].offset)
           /\ \A pc : End(j, pc) => Moves(j, job[j].kind, pc, {}, 0)
           /\ \A pc, C : GotoWith(j, pc, C) => Moves(j, job[j].kind, pc, C, job[j].offset)
           /\ \A c, pc : Drop(j, c, pc) =>
                 Moves(j, job[j].kind, IF job[j].todo \ {c} = {} THEN pc ELSE "rows", job[j].todo \ {c},
                       job[j].offset)
           /\ \A k : Start(j, k) => Moves(j, k, "fetch", {}, 0)
           /\ \A pc, C, o : job' = [job EXCEPT ![j].todo = C, ![j].offset = o, ![j].pc = pc] =>
                 Moves(j, job[j].kind, pc, C, o)
  <1> DEFINE R == [kind : Kinds \cup {"none"}, pc : Phases, todo : SUBSET (Copies \cup Fetched), offset : Nat]
  <1>1. job \in [Slots -> R] /\ job[j] \in R
    BY DEF JobsShape
  <1>2. PICK k, p, t, o : job[j] = [kind |-> k, pc |-> p, todo |-> t, offset |-> o]
    BY <1>1
  <1>3. k = job[j].kind /\ t = job[j].todo /\ o = job[j].offset
    BY <1>2
  <1> HIDE DEF R
  <1>4. ASSUME NEW pc, Goto(j, pc)
        PROVE  Moves(j, k, pc, t, o)
    <2>1. PICK y : y = [job[j] EXCEPT !.pc = pc]
      OBVIOUS
    <2>2. y = [kind |-> k, pc |-> pc, todo |-> t, offset |-> o]
      BY <1>2, <2>1
    <2>3. QED
      BY <1>1, <1>4, <2>1, <2>2 DEF Goto, Moves
  <1>5. ASSUME NEW pc, End(j, pc)
        PROVE  Moves(j, k, pc, {}, 0)
    <2>1. PICK y : y = [NoJob EXCEPT !.kind = k]
      OBVIOUS
    <2>2. y = [kind |-> k, pc |-> "idle", todo |-> {}, offset |-> 0]
      BY <2>1 DEF NoJob
    <2>3. PICK z : z = [y EXCEPT !.pc = pc]
      OBVIOUS
    <2>4. z = [kind |-> k, pc |-> pc, todo |-> {}, offset |-> 0]
      BY <2>2, <2>3
    <2>5. job' = [job EXCEPT ![j] = z]
      BY <1>3, <1>5, <2>1, <2>3, Zenon DEF End
    <2>6. QED
      BY <2>4, <2>5 DEF Moves
  <1>6. ASSUME NEW pc, NEW C, GotoWith(j, pc, C)
        PROVE  Moves(j, k, pc, C, o)
    <2>1. PICK y : y = [job[j] EXCEPT !.pc = pc]
      OBVIOUS
    <2>2. y = [kind |-> k, pc |-> pc, todo |-> t, offset |-> o]
      BY <1>2, <2>1
    <2>3. PICK z : z = [y EXCEPT !.todo = C]
      OBVIOUS
    <2>4. z = [kind |-> k, pc |-> pc, todo |-> C, offset |-> o]
      BY <2>2, <2>3
    <2>5. job' = [job EXCEPT ![j] = z]
      BY <1>1, <1>6, <2>1, <2>3 DEF GotoWith
    <2>6. QED
      BY <2>4, <2>5 DEF Moves
  <1>7. ASSUME NEW pc, NEW C, job' = [job EXCEPT ![j].todo = C, ![j].pc = pc]
        PROVE  Moves(j, k, pc, C, o)
    <2>1. PICK y : y = [job[j] EXCEPT !.todo = C]
      OBVIOUS
    <2>2. y = [kind |-> k, pc |-> p, todo |-> C, offset |-> o]
      BY <1>2, <2>1
    <2>3. PICK z : z = [y EXCEPT !.pc = pc]
      OBVIOUS
    <2>4. z = [kind |-> k, pc |-> pc, todo |-> C, offset |-> o]
      BY <2>2, <2>3
    <2>5. job' = [job EXCEPT ![j] = z]
      BY <1>1, <1>7, <2>1, <2>3
    <2>6. QED
      BY <2>4, <2>5 DEF Moves
  <1>8. ASSUME NEW c, NEW pc, Drop(j, c, pc)
        PROVE  Moves(j, k, IF t \ {c} = {} THEN pc ELSE "rows", t \ {c}, o)
    <2> DEFINE C == t \ {c}
               q == IF C = {} THEN pc ELSE "rows"
    <2>1. job' = [job EXCEPT ![j].todo = C, ![j].pc = q]
      BY <1>3, <1>8, Zenon DEF Drop
    <2> HIDE DEF C, q
    <2>2. Moves(j, k, q, C, o)
      BY <1>7, <2>1
    <2>3. QED
      BY <2>2 DEF C, q
  <1>9. ASSUME NEW kind, Start(j, kind)
        PROVE  Moves(j, kind, "fetch", {}, 0)
    <2>1. job[j] = NoJob /\ job' = [job EXCEPT ![j].kind = kind, ![j].pc = "fetch"]
      BY <1>9 DEF Start
    <2>2. QED
      BY <1>1, <2>1 DEF Moves, NoJob
  <1>10. ASSUME NEW pc, NEW C, NEW n, job' = [job EXCEPT ![j].todo = C, ![j].offset = n, ![j].pc = pc]
         PROVE  Moves(j, k, pc, C, n)
    <2>1. PICK y : y = [job[j] EXCEPT !.todo = C]
      OBVIOUS
    <2>2. y = [kind |-> k, pc |-> p, todo |-> C, offset |-> o]
      BY <1>2, <2>1
    <2>3. PICK z : z = [y EXCEPT !.offset = n]
      OBVIOUS
    <2>4. z = [kind |-> k, pc |-> p, todo |-> C, offset |-> n]
      BY <2>2, <2>3
    <2>5. PICK w : w = [z EXCEPT !.pc = pc]
      OBVIOUS
    <2>6. w = [kind |-> k, pc |-> pc, todo |-> C, offset |-> n]
      BY <2>4, <2>5
    <2>7. job' = [job EXCEPT ![j] = w]
      BY <1>1, <1>10, <2>1, <2>3, <2>5
    <2>8. QED
      BY <2>6, <2>7 DEF Moves
  <1>11. QED
    BY <1>3, <1>4, <1>5, <1>6, <1>8, <1>9, <1>10
-----------------------------------------------------------------------------
(***************************************************************************)
(* What a step does to the table, by the kind of step.                     *)
(***************************************************************************)
LEMMA RowFacts ==
    ASSUME JobsShape, NEW i \in RowId
    PROVE  /\ rows[i] \in Columns \/ rows[i] = NoRow
           /\ i \in Present <=> rows[i] # NoRow
           /\ i \in Present <=> rows[i] \in Columns
           /\ i \in Present <=> rows[i].event \in Event
           /\ i \in Present => rows[i].event \in InTable
           /\ NoRow.event = 0 /\ NoRow.data = "none" /\ 0 \notin Event /\ i # 0
  <1>1. rows[i] \in Columns \/ rows[i] = NoRow
    BY DEF JobsShape
  <1>2. NoRow.event = 0 /\ NoRow.data = "none" /\ 0 \notin Event /\ i # 0
    BY JobsAssumption DEF NoRow
  <1>3. \A r \in Columns : r.event \in Event
    BY DEF Columns
  <1>4. QED
    BY <1>1, <1>2, <1>3 DEF Present, InTable

\* A step of one job that leaves the table and the file.
LEMMA JobsKept ==
    ASSUME JobsInv, NEW j \in Slots, NEW k, NEW pc, NEW C, NEW o, Moves(j, k, pc, C, o), Fits(k, pc, C, o),
           UNCHANGED <<chain, rows, file, stored, erased, requested, raced, replaced>>,
           faults' \in Nat, copied \subseteq copied', shaken \subseteq shaken',
           \A c \in C : \/ c \in job[j].todo /\ job[j].kind = k /\ Running(j)
                        \/ c \in file
                        \/ c.id \in Present /\ c.row = rows[c.id]
                        \/ c.id = 0 /\ (c.row.event \in erased => c.row.event \in copied'),
           pc # "delete",
           k = "archive" /\ pc = "rows" => InTable \subseteq Events(C),
           k = "reencrypt" /\ pc \in {"fetch", "rows"} /\ j \notin shaken' =>
              \A i \in RowId : rows[i].data = "old" => i \in Ids(C) \/ Rank(i) >= o
    PROVE  JobsInv'
  <1>1. JobsShape /\ IdsInv /\ ArchiveInv /\ NothingLost /\ EraseInv /\ RotationInv
    BY DEF JobsInv
  <1>2. /\ job'[j].kind = k /\ job'[j].pc = pc /\ job'[j].todo = C /\ job'[j].offset = o
        /\ \A i \in Slots \ {j} : job'[i] = job[i]
        /\ job' \in [Slots -> [kind : Kinds \cup {"none"}, pc : Phases,
                               todo : SUBSET (Copies \cup Fetched), offset : Nat]]
        /\ \A i \in Slots : Fits(job'[i].kind, job'[i].pc, job'[i].todo, job'[i].offset)
    BY <1>1, MoveFacts
  <1>3. UNCHANGED <<Present, InTable, Secret>> /\ \A i \in RowId : Rank(i)' = Rank(i)
    BY DEF Present, InTable, Secret, Rank
  <1>4. JobsShape'
    BY <1>1, <1>2 DEF JobsShape
  <1>5. IdsInv'
    <2>1. \A c \in Taken' : c \in Taken \/ c \in C
      BY <1>2 DEF Taken
    <2>2. \A c \in C : c \in Taken \/ (c.id \in Present /\ c.row = rows[c.id]) \/ c.id = 0
      BY DEF Taken
    <2>3. 0 \notin Present
      BY JobsAssumption DEF Present
    <2>4. \A c \in Taken' : c.id \in Present => rows[c.id].event = c.row.event
      BY <1>1, <2>1, <2>2, <2>3 DEF IdsInv
    <2>5. ASSUME NEW c \in Taken', NEW d \in Taken', c.id = d.id, c.id # 0
          PROVE  c.row.event = d.row.event
      <3>1. CASE c.id \in Present
        BY <2>4, <2>5, <3>1
      <3>2. CASE c.id \notin Present
        BY <1>1, <2>1, <2>2, <2>5, <3>2 DEF IdsInv
      <3>3. QED
        BY <3>1, <3>2
    <2>6. QED
      BY <1>3, <2>4, <2>5 DEF IdsInv
  <1>6. ArchiveInv'
    <2> SUFFICES ASSUME NEW i \in Slots, job'[i].kind = "archive"
                 PROVE  /\ job'[i].pc = "rows" => InTable \subseteq Events(job'[i].todo) \cup raced
                        /\ job'[i].pc = "delete" => InTable \subseteq Events(file) \cup raced \cup replaced
      BY <1>3 DEF ArchiveInv, Events
    <2>1. CASE i = j
      BY <1>2, <2>1
    <2>2. CASE i # j
      BY <1>1, <1>2, <2>2 DEF ArchiveInv
    <2>3. QED
      BY <2>1, <2>2
  <1>7. NothingLost'
    BY <1>1, <1>3 DEF NothingLost, Events
  <1>8. EraseInv'
    <2> SUFFICES ASSUME NEW e \in erased \ copied'
                 PROVE  /\ \A i \in RowId : rows[i].event = e => ~Readable(rows[i])
                        /\ \A c \in file : c.row.event = e => ~Readable(c.row)
                        /\ \A i \in Slots : job'[i].kind # "erase" /\ Running(i)' =>
                              \A c \in job'[i].todo : c.row.event = e => ~Readable(c.row)
      BY DEF EraseInv
    <2>1. /\ \A i \in RowId : rows[i].event = e => ~Readable(rows[i])
          /\ \A c \in file : c.row.event = e => ~Readable(c.row)
          /\ \A i \in Slots : job[i].kind # "erase" /\ Running(i) =>
                \A c \in job[i].todo : c.row.event = e => ~Readable(c.row)
      BY <1>1 DEF EraseInv
    <2>2. ASSUME NEW i \in Slots, job'[i].kind # "erase", Running(i)', NEW c \in job'[i].todo, c.row.event = e
          PROVE  ~Readable(c.row)
      <3>1. CASE i # j
        <4>1. Running(i) /\ job'[i] = job[i]
          BY <1>2, <2>2, <3>1 DEF Running
        <4>2. QED
          BY <2>1, <2>2, <4>1
      <3>2. CASE i = j
        <4>1. c \in C /\ k # "erase"
          BY <1>2, <2>2, <3>2
        <4>2. CASE c \in job[j].todo /\ job[j].kind = k /\ Running(j)
          BY <2>1, <2>2, <4>1, <4>2
        <4>3. CASE c.id \in Present /\ c.row = rows[c.id]
          BY <2>1, <2>2, <4>3 DEF Present
        <4>4. QED
          BY <2>1, <2>2, <4>1, <4>2, <4>3
      <3>3. QED
        BY <3>1, <3>2
    <2>3. QED
      BY <2>1, <2>2
  <1>9. RotationInv'
    <2> SUFFICES ASSUME NEW i \in Slots, job'[i].kind = "reencrypt", Running(i)', i \notin shaken',
                        NEW x \in RowId, rows[x].data = "old"
                 PROVE  x \in Ids(job'[i].todo) \/ Rank(x) >= job'[i].offset
      BY <1>3 DEF RotationInv, Ids
    <2>1. CASE i = j
      <3>1. k = "reencrypt" /\ pc \in {"fetch", "rows"}
        BY <1>2, <2>1 DEF Running
      <3>2. QED
        BY <1>2, <2>1, <3>1
    <2>2. CASE i # j
      <3>1. Running(i) /\ job'[i] = job[i] /\ i \notin shaken
        BY <1>2, <2>2 DEF Running
      <3>2. QED
        BY <1>1, <3>1 DEF RotationInv
    <2>3. QED
      BY <2>1, <2>2
  <1>10. QED
    BY <1>4, <1>5, <1>6, <1>7, <1>8, <1>9 DEF JobsInv
\* Ranks only grow when no row leaves the encrypted ones.
LEMMA RanksGrow ==
    ASSUME Secret \subseteq Secret', NEW x \in RowId
    PROVE  Rank(x) \in Nat /\ Rank(x)' \in Nat /\ Rank(x) <= Rank(x)'
  <1> DEFINE A == {h \in Secret : h < x}
             B == {h \in Secret' : h < x}
  <1>1. IsFiniteSet(RowId) /\ B \in SUBSET RowId /\ A \in SUBSET B
    BY JobsAssumption DEF Secret
  <1>2. IsFiniteSet(B)
    BY <1>1, FS_Subset
  <1>3. IsFiniteSet(A) /\ Cardinality(A) <= Cardinality(B)
    BY <1>1, <1>2, FS_Subset
  <1>4. QED
    BY <1>2, <1>3, FS_CardinalityType DEF Rank

\* The row of the id i becomes r, a row of an event that every copy of the id
\* is of; no event becomes readable that was erased.
Writes(i, r) ==
    /\ rows' = [rows EXCEPT ![i] = r] /\ Watch
    /\ raced \subseteq raced' /\ copied \subseteq copied'
    /\ rows[i] = NoRow \/ rows[i].event = r.event
    /\ \A c \in Taken : c.id = i => c.row.event = r.event
    /\ rows[i].event = r.event \/ (Deleting => r.event \in raced')
    /\ \A e \in erased' \ copied' :
          /\ e \in erased \ copied \/ (e = r.event /\ ~OtherCopies(e, i))
          /\ r.event = e => ~Readable(r)

\* A statement that writes the row of an id.
LEMMA RowWritten ==
    ASSUME JobsInv, JobsShape', NEW i \in RowId, NEW r \in Columns, Writes(i, r),
           UNCHANGED <<file, requested, replaced>>, stored' \subseteq stored \cup {r.event},
           \A k \in Slots :
              /\ job'[k].kind = job[k].kind /\ job'[k].todo \subseteq job[k].todo
              /\ job'[k].offset = job[k].offset /\ (Running(k)' => Running(k))
              /\ job[k].kind = "archive" => job'[k] = job[k]
              /\ job[k].kind = "reencrypt" =>
                    \A c \in job[k].todo \ job'[k].todo : c.id = i /\ r.data # "old"
    PROVE  JobsInv'
  <1>0. /\ rows' = [rows EXCEPT ![i] = r] /\ Watch
        /\ raced \subseteq raced' /\ copied \subseteq copied'
        /\ rows[i] = NoRow \/ rows[i].event = r.event
        /\ \A c \in Taken : c.id = i => c.row.event = r.event
        /\ rows[i].event = r.event \/ (Deleting => r.event \in raced')
        /\ \A e \in erased' \ copied' :
              /\ e \in erased \ copied \/ (e = r.event /\ ~OtherCopies(e, i))
              /\ r.event = e => ~Readable(r)
    BY DEF Writes
  <1> USE <1>0
  <1>1. JobsShape /\ IdsInv /\ ArchiveInv /\ NothingLost /\ EraseInv /\ RotationInv
    BY DEF JobsInv
  <1>2. r.event \in Event /\ r # NoRow /\ r.event # 0
    <2>1. r.event \in Event /\ 0 \notin Event
      BY JobsAssumption DEF Columns
    <2>2. QED
      BY <2>1 DEF NoRow
  <1>3. rows'[i] = r /\ \A x \in RowId \ {i} : rows'[x] = rows[x]
    BY <1>1 DEF JobsShape
  <1>4. Present' = Present \cup {i}
    BY <1>2, <1>3 DEF Present
  <1>5. InTable \subseteq InTable' /\ InTable' \subseteq InTable \cup {r.event} /\ r.event \in InTable'
    <2>1. \A e : e \in InTable <=> \E x \in Present : rows[x].event = e
      BY DEF InTable
    <2>2. \A e : e \in InTable' <=> \E x \in Present \cup {i} : rows'[x].event = e
      BY <1>4 DEF InTable
    <2>3. Present \subseteq RowId /\ (i \in Present => rows[i].event = r.event)
      BY DEF Present
    <2>4. QED
      BY <1>3, <2>1, <2>2, <2>3
  <1>6. rows[i].event = r.event => r.event \in InTable
    <2>1. rows[i].event = r.event => i \in Present
      BY <1>1, <1>2, RowFacts
    <2>2. QED
      BY <2>1 DEF InTable
  <1>7. Taken' \subseteq Taken
    BY DEF Taken
  <1>8. IdsInv'
    <2>1. ASSUME NEW c \in Taken', c.id \in Present'
          PROVE  rows'[c.id].event = c.row.event
      <3>1. CASE c.id = i
        BY <1>3, <1>7, <2>1, <3>1
      <3>2. CASE c.id # i
        <4>1. c.id \in Present /\ c.id \in RowId
          BY <1>4, <2>1, <3>2 DEF Present
        <4>2. QED
          BY <1>1, <1>3, <1>7, <3>2, <4>1 DEF IdsInv
      <3>3. QED
        BY <3>1, <3>2
    <2>2. QED
      BY <1>1, <1>7, <2>1 DEF IdsInv
  <1>9. ArchiveInv'
    <2> SUFFICES ASSUME NEW k \in Slots, job'[k].kind = "archive"
                 PROVE  /\ job'[k].pc = "rows" => InTable' \subseteq Events(job'[k].todo) \cup raced'
                        /\ job'[k].pc = "delete" => InTable' \subseteq Events(file) \cup raced' \cup replaced
      BY DEF ArchiveInv, Events
    <2>1. job'[k] = job[k] /\ job[k].kind = "archive"
      OBVIOUS
    <2>2. job[k].pc \in {"rows", "delete"} => InTable' \subseteq InTable \cup raced'
      BY <1>5, <1>6, <2>1 DEF Deleting
    <2>3. /\ job[k].pc = "rows" => InTable \subseteq Events(job[k].todo) \cup raced
          /\ job[k].pc = "delete" => InTable \subseteq Events(file) \cup raced \cup replaced
      BY <1>1, <2>1 DEF ArchiveInv
    <2>4. QED
      BY <2>1, <2>2, <2>3
  <1>10. NothingLost'
    <2>1. \A e \in stored : e \in InTable' \cup Events(file) \cup requested \cup raced' \cup replaced
      BY <1>1, <1>5 DEF NothingLost
    <2>2. QED
      BY <1>5, <2>1 DEF NothingLost, Events
  <1>11. EraseInv'
    <2> SUFFICES ASSUME NEW e \in erased' \ copied'
                 PROVE  /\ \A x \in RowId : rows'[x].event = e => ~Readable(rows'[x])
                        /\ \A c \in file : c.row.event = e => ~Readable(c.row)
                        /\ \A k \in Slots : job'[k].kind # "erase" /\ Running(k)' =>
                              \A c \in job'[k].todo : c.row.event = e => ~Readable(c.row)
      BY DEF EraseInv
    <2>1. /\ \A x \in RowId \ {i} : rows[x].event = e => ~Readable(rows[x])
          /\ \A c \in file : c.row.event = e => ~Readable(c.row)
          /\ \A k \in Slots : job[k].kind # "erase" /\ Running(k) =>
                \A c \in job[k].todo : c.row.event = e => ~Readable(c.row)
      BY <1>1 DEF EraseInv, OtherCopies
    <2>2. QED
      BY <1>3, <2>1
  <1>12. RotationInv'
    <2> SUFFICES ASSUME NEW k \in Slots, job'[k].kind = "reencrypt", Running(k)', k \notin shaken',
                        NEW x \in RowId, rows'[x].data = "old"
                 PROVE  x \in Ids(job'[k].todo) \/ Rank(x)' >= job'[k].offset
      BY DEF RotationInv, Ids
    <2>1. job[k].kind = "reencrypt" /\ Running(k)
      OBVIOUS
    <2>2. ~Shakes /\ k \notin shaken
      BY <2>1 DEF Watch
    <2>3. Secret \subseteq Secret' /\ rows[x].data = "old"
      BY <2>2 DEF Shakes, Secret
    <2>4. x \in Ids(job[k].todo) \/ Rank(x) >= job[k].offset
      BY <1>1, <2>1, <2>2, <2>3 DEF RotationInv
    <2>5. x \in Ids(job[k].todo) => x \in Ids(job'[k].todo)
      BY <1>3, <2>1 DEF Ids
    <2>6. Rank(x) >= job[k].offset => Rank(x)' >= job'[k].offset
      <3>1. job[k].offset \in Nat /\ job'[k].offset = job[k].offset
        BY <1>1 DEF JobsShape, Fits
      <3>2. Rank(x) \in Nat /\ Rank(x)' \in Nat /\ Rank(x) <= Rank(x)'
        BY <2>3, RanksGrow
      <3>3. QED
        BY <3>1, <3>2
    <2>7. QED
      BY <2>4, <2>5, <2>6
  <1>13. QED
    BY <1>8, <1>9, <1>10, <1>11, <1>12 DEF JobsInv

\* A statement that deletes all rows.
LEMMA TableEmptied ==
    ASSUME JobsInv, JobsShape', rows' = [i \in RowId |-> NoRow],
           UNCHANGED <<file, stored, erased, copied, raced, replaced>>,
           requested \subseteq requested',
           InTable \subseteq Events(file) \cup requested' \cup raced \cup replaced,
           \A k \in Slots : job'[k] = job[k] \/ (job'[k].todo = {} /\ job'[k].pc = "done")
    PROVE  JobsInv'
  <1>1. JobsShape /\ IdsInv /\ ArchiveInv /\ NothingLost /\ EraseInv
    BY DEF JobsInv
  <1>2. Present' = {} /\ InTable' = {}
    BY DEF Present, InTable
  <1>3. Taken' \subseteq Taken
    BY DEF Taken
  <1>4. \A i \in RowId : rows'[i].data = "none"
    BY DEF NoRow
  <1>5. IdsInv'
    BY <1>1, <1>2, <1>3 DEF IdsInv
  <1>6. ArchiveInv' /\ NothingLost'
    BY <1>1, <1>2 DEF ArchiveInv, NothingLost, Events
  <1>7. EraseInv'
    <2>1. \A i \in RowId : ~Readable(rows'[i])
      BY <1>4 DEF Readable
    <2>2. \A k \in Slots : Running(k)' => job'[k] = job[k] /\ Running(k)
      BY DEF Running
    <2>3. QED
      BY <1>1, <2>1, <2>2 DEF EraseInv
  <1>8. RotationInv'
    BY <1>4 DEF RotationInv
  <1>9. QED
    BY <1>5, <1>6, <1>7, <1>8 DEF JobsInv
-----------------------------------------------------------------------------
(***************************************************************************)
(* The steps of the jobs.                                                  *)
(***************************************************************************)
LEMMA FirstIn ==
    ASSUME NEW C \in SUBSET Copies, C # {}
    PROVE  First(C) \in C
  <1>1. \A c \in C : c.id \in Nat
    BY JobsAssumption DEF Copies
  <1>2. Ids(C) \in SUBSET Nat /\ Ids(C) # {}
    BY <1>1 DEF Ids
  <1>3. PICK x \in Ids(C) : \A y \in Ids(C) : x <= y
    BY <1>2, LeastExists
  <1>4. \E c \in C : \A d \in C : c.id <= d.id
    BY <1>3 DEF Ids
  <1>5. QED
    BY <1>4 DEF First

LEMMA SnapshotFacts ==
    ASSUME JobsShape, NEW S \in SUBSET Present
    PROVE  /\ Snapshot(S) \subseteq Copies /\ Ids(Snapshot(S)) = S
           /\ \A c \in Snapshot(S) : c.id \in Present /\ c.row = rows[c.id]
           /\ Snapshot(S) = {} <=> S = {}
           /\ Events(Snapshot(Present)) = InTable
  <1>1. \A i \in Present : i \in RowId /\ rows[i] \in Columns
    BY RowFacts DEF Present
  <1>2. Snapshot(S) \subseteq Copies
    BY <1>1 DEF Snapshot, Copies
  <1>3. ASSUME NEW T, NEW i \in T
        PROVE  \E c \in Snapshot(T) : c.id = i /\ c.row = rows[i]
    <2>1. [id |-> i, row |-> rows[i]] \in Snapshot(T)
      BY DEF Snapshot
    <2>2. PICK c : c = [id |-> i, row |-> rows[i]]
      OBVIOUS
    <2>3. c \in Snapshot(T) /\ c.id = i /\ c.row = rows[i]
      BY <2>1, <2>2
    <2>4. QED
      BY <2>3
  <1>4. \A T : \A c \in Snapshot(T) : c.id \in T /\ c.row = rows[c.id]
    BY DEF Snapshot
  <1>5. Ids(Snapshot(S)) = S
    <2> HIDE DEF Snapshot
    <2>1. \A x : x \in Ids(Snapshot(S)) <=> \E c \in Snapshot(S) : c.id = x
      BY DEF Ids
    <2>2. QED
      BY <1>3, <1>4, <2>1
  <1>6. \A c \in Snapshot(S) : c.id \in Present /\ c.row = rows[c.id]
    BY DEF Snapshot
  <1>7. Snapshot(S) = {} <=> S = {}
    BY DEF Snapshot
  <1>8. Events(Snapshot(Present)) = InTable
    <2>1. \A x : x \in Events(Snapshot(Present)) <=> \E c \in Snapshot(Present) : c.row.event = x
      BY DEF Events
    <2>2. \A x : x \in InTable <=> \E i \in Present : rows[i].event = x
      BY DEF InTable
    <2>3. \A x : x \in Events(Snapshot(Present)) <=> x \in InTable
      BY <1>3, <1>4, <2>1, <2>2
    <2>4. QED
      BY <2>3
  <1>9. QED
    BY <1>2, <1>5, <1>6, <1>7, <1>8

LEMMA EncryptedPresent ==
    ASSUME JobsShape
    PROVE  Secret \in SUBSET Present
  BY RowFacts DEF Secret, Encrypted, Present

\* A job that is over, or starts, holds nothing.
LEMMA EmptyStep ==
    ASSUME JobsInv, NEW j \in Slots, NEW k \in Kinds \cup {"none"}, NEW pc \in {"fetch", "done", "failed"},
           Moves(j, k, pc, {}, 0), UNCHANGED <<chain, rows, file, stored, history, shaken>>, faults' \in Nat
    PROVE  JobsInv'
  <1>1. Fits(k, pc, {}, 0)
    BY DEF Fits, Phases
  <1>2. \A i \in RowId : Rank(i) \in Nat
    <2>1. Secret \subseteq Secret'
      BY DEF Secret
    <2>2. QED
      BY <2>1, RanksGrow
  <1>3. \A i \in RowId : Rank(i) >= 0
    BY <1>2
  <1>4. UNCHANGED <<chain, rows, file, stored, erased, requested, raced, replaced, copied, shaken>>
    BY DEF history
  <1>5. QED
    BY <1>1, <1>3, <1>4, JobsKept

LEMMA FailStep ==
    ASSUME JobsInv, NEW j \in Slots, Running(j), UNCHANGED chain,
           \/ Fail(j)
           \/ End(j, "failed") /\ NoFault /\ UNCHANGED <<rows, file, stored, history, shaken>>
    PROVE  JobsInv'
  <1>1. JobsShape
    BY DEF JobsInv
  <1>2. Moves(j, job[j].kind, "failed", {}, 0)
    BY <1>1, MoveForms DEF Fail
  <1>3. job[j].kind \in Kinds \cup {"none"} /\ faults \in Nat
    BY <1>1 DEF JobsShape, Fits
  <1>4. faults' \in Nat
    BY <1>3 DEF Fail, Fault, NoFault
  <1>5. UNCHANGED <<chain, rows, file, stored, history, shaken>>
    BY DEF Fail
  <1>6. QED
    BY <1>2, <1>3, <1>4, <1>5, EmptyStep

LEMMA StartStep ==
    ASSUME JobsInv, NEW j \in Slots, Request(j), UNCHANGED chain
    PROVE  JobsInv'
  <1>1. JobsShape /\ faults \in Nat
    BY DEF JobsInv, JobsShape
  <1>2. PICK k \in Kinds : Start(j, k)
    BY DEF Request, StartReencrypt, StartMask, StartErase, StartArchive, StartRestore, StartReplay, Kinds
  <1>3. Moves(j, k, "fetch", {}, 0)
    BY <1>1, <1>2, MoveForms
  <1>4. UNCHANGED <<chain, rows, file, stored, history, shaken>> /\ faults' = faults
    BY <1>2 DEF Start
  <1>5. QED
    BY <1>1, <1>3, <1>4, EmptyStep

\* A job reads rows of the table or the file.
LEMMA FetchStep ==
    ASSUME JobsInv, NEW j \in Slots, job[j].pc = "fetch", job[j].kind # "reencrypt",
           NEW C \in SUBSET Copies, GotoWith(j, IF C = {} THEN "done" ELSE "rows", C),
           NoFault, UNCHANGED <<chain, rows, file, stored, history, shaken>>,
           \A c \in C : c \in file \/ (c.id \in Present /\ c.row = rows[c.id]),
           job[j].kind = "archive" => InTable \subseteq Events(C)
    PROVE  JobsInv'
  <1> DEFINE pc == IF C = {} THEN "done" ELSE "rows"
  <1>1. JobsShape /\ faults \in Nat
    BY DEF JobsInv, JobsShape
  <1>2. Moves(j, job[j].kind, pc, C, job[j].offset)
    BY <1>1, MoveForms
  <1>3. Fits(job[j].kind, pc, C, job[j].offset)
    BY <1>1 DEF JobsShape, Fits, Phases
  <1>4. pc # "delete" /\ pc # "fetch"
    OBVIOUS
  <1>5. UNCHANGED <<chain, rows, file, stored, erased, requested, raced, replaced, copied, shaken>>
    BY DEF history
  <1>6. faults' \in Nat
    BY <1>1 DEF NoFault
  <1> HIDE DEF pc
  <1>7. QED
    BY <1>2, <1>3, <1>4, <1>5, <1>6, JobsKept

\* A job is done with a row.
LEMMA DropMoves ==
    ASSUME JobsShape, NEW j \in Slots, job[j].pc = "rows", NEW c \in job[j].todo,
           NEW p \in {"fetch", "done"}, Drop(j, c, p)
    PROVE  \E q \in {"fetch", "done", "rows"} :
              /\ Moves(j, job[j].kind, q, job[j].todo \ {c}, job[j].offset)
              /\ Fits(job[j].kind, q, job[j].todo \ {c}, job[j].offset)
  <1> DEFINE C == job[j].todo \ {c}
             q == IF C = {} THEN p ELSE "rows"
  <1>1. Moves(j, job[j].kind, q, C, job[j].offset)
    BY MoveForms
  <1>2. Fits(job[j].kind, job[j].pc, job[j].todo, job[j].offset)
    BY DEF JobsShape
  <1>3. q \in {"fetch", "done", "rows"} /\ (q = "fetch" => C = {}) /\ (q = "rows" => C # {})
    OBVIOUS
  <1> HIDE DEF q
  <1>4. Fits(job[j].kind, q, C, job[j].offset)
    BY <1>2, <1>3 DEF Fits, Phases
  <1>5. QED
    BY <1>1, <1>3, <1>4

LEMMA DropStep ==
    ASSUME JobsInv, NEW j \in Slots, job[j].pc = "rows", NEW c \in job[j].todo,
           NEW p \in {"fetch", "done"}, Drop(j, c, p), job[j].kind # "archive",
           UNCHANGED <<chain, rows, file, stored, erased, copied, requested, raced, replaced>>,
           faults' \in Nat, shaken \subseteq shaken',
           job[j].kind = "reencrypt" /\ j \notin shaken' => c.id \notin RowId \/ rows[c.id].data # "old"
    PROVE  JobsInv'
  <1>1. JobsShape /\ RotationInv
    BY DEF JobsInv
  <1>2. PICK q \in {"fetch", "done", "rows"} :
              /\ Moves(j, job[j].kind, q, job[j].todo \ {c}, job[j].offset)
              /\ Fits(job[j].kind, q, job[j].todo \ {c}, job[j].offset)
    BY <1>1, DropMoves
  <1>3. Running(j)
    BY DEF Running
  <1>4. ASSUME job[j].kind = "reencrypt", j \notin shaken', NEW i \in RowId, rows[i].data = "old"
        PROVE  i \in Ids(job[j].todo \ {c}) \/ Rank(i) >= job[j].offset
    <2>1. i \in Ids(job[j].todo) \/ Rank(i) >= job[j].offset
      BY <1>1, <1>3, <1>4 DEF RotationInv
    <2>2. QED
      BY <1>4, <2>1 DEF Ids
  <1>5. PICK C : C = job[j].todo \ {c}
    OBVIOUS
  <1>6. /\ \A d \in C : d \in job[j].todo /\ job[j].kind = job[j].kind /\ Running(j)
        /\ q # "delete" /\ copied \subseteq copied'
    BY <1>3, <1>5
  <1>7. job[j].kind = "reencrypt" /\ q \in {"fetch", "rows"} /\ j \notin shaken' =>
           \A i \in RowId : rows[i].data = "old" => i \in Ids(C) \/ Rank(i) >= job[j].offset
    BY <1>4, <1>5
  <1>8. QED
    BY <1>2, <1>5, <1>6, <1>7, JobsKept

\* A job writes the row of a copy.
LEMMA DropWrite ==
    ASSUME JobsInv, NEW j \in Slots, job[j].pc = "rows", NEW c \in job[j].todo,
           NEW p \in {"fetch", "done"}, Drop(j, c, p), job[j].kind # "archive",
           NEW i \in RowId, NEW r \in Columns, Writes(i, r),
           UNCHANGED <<chain, file, stored, requested, replaced>>, faults' \in Nat,
           job[j].kind = "reencrypt" => c.id = i /\ r.data # "old"
    PROVE  JobsInv'
  <1>1. JobsShape
    BY DEF JobsInv
  <1>2. PICK q \in {"fetch", "done", "rows"} :
              /\ Moves(j, job[j].kind, q, job[j].todo \ {c}, job[j].offset)
              /\ Fits(job[j].kind, q, job[j].todo \ {c}, job[j].offset)
    BY <1>1, DropMoves
  <1>3. /\ job'[j].kind = job[j].kind /\ job'[j].pc = q
        /\ job'[j].todo = job[j].todo \ {c} /\ job'[j].offset = job[j].offset
        /\ \A k \in Slots \ {j} : job'[k] = job[k]
        /\ job' \in [Slots -> [kind : Kinds \cup {"none"}, pc : Phases,
                               todo : SUBSET (Copies \cup Fetched), offset : Nat]]
        /\ \A k \in Slots : Fits(job'[k].kind, job'[k].pc, job'[k].todo, job'[k].offset)
    BY <1>1, <1>2, MoveFacts
  <1>4. rows' \in [RowId -> Columns \cup {NoRow}]
    BY <1>1 DEF JobsShape, Writes
  <1>5. JobsShape'
    BY <1>1, <1>3, <1>4 DEF JobsShape
  <1>6. ASSUME NEW k \in Slots
        PROVE  /\ job'[k].kind = job[k].kind /\ job'[k].todo \subseteq job[k].todo
               /\ job'[k].offset = job[k].offset /\ (Running(k)' => Running(k))
               /\ job[k].kind = "archive" => job'[k] = job[k]
               /\ job[k].kind = "reencrypt" =>
                     \A d \in job[k].todo \ job'[k].todo : d.id = i /\ r.data # "old"
    <2>1. CASE k = j
      BY <1>3, <2>1 DEF Running
    <2>2. CASE k # j
      BY <1>3, <2>2 DEF Running
    <2>3. QED
      BY <2>1, <2>2
  <1>7. QED
    BY <1>5, <1>6, RowWritten
LEMMA SetDataFacts ==
    ASSUME JobsShape, NEW i \in Present, NEW d \in {"old", "new", "plain", "erased"}
    PROVE  \E r \in Columns : /\ SetData(i, d) = [rows EXCEPT ![i] = r]
                              /\ r.event = rows[i].event /\ r.data = d
  <1>1. i \in RowId /\ rows[i] # NoRow /\ rows[i] \in Columns
    BY RowFacts DEF Present
  <1>2. PICK r : r = [rows[i] EXCEPT !.data = d]
    OBVIOUS
  <1>3. r \in Columns /\ r.event = rows[i].event /\ r.data = d
    BY <1>1, <1>2 DEF Columns
  <1>4. SetData(i, d) = [rows EXCEPT ![i] = r]
    BY <1>1, <1>2, Zenon DEF SetData
  <1>5. QED
    BY <1>3, <1>4

LEMMA WatchGrows ==
    ASSUME Watch
    PROVE  shaken \subseteq shaken' /\ (rows' = rows => shaken' = shaken)
  BY DEF Watch, Shakes

\* The batch of a re-encryption holds the rows from its offset on.
LEMMA BatchReaches ==
    ASSUME JobsShape, NEW j \in Slots, NEW B, B = Slice(Secret, job[j].offset, BatchSize), NEW i \in Secret,
           Rank(i) >= job[j].offset
    PROVE  i \in B \/ Rank(i) >= NextOffset(job[j].offset)
  <1>1. job[j].offset \in Nat /\ BatchSize \in Nat
    BY JobsAssumption DEF JobsShape, Fits
  <1>2. Rank(i) \in Nat
    <2>1. IsFiniteSet(RowId) /\ {h \in Secret : h < i} \in SUBSET RowId
      BY JobsAssumption DEF Secret
    <2>2. QED
      BY <2>1, FS_Subset, FS_CardinalityType DEF Rank
  <1>3. i \in B <=> job[j].offset <= Rank(i) /\ Rank(i) < job[j].offset + BatchSize
    BY DEF Slice, Rank
  <1>4. QED
    BY <1>1, <1>2, <1>3 DEF NextOffset

LEMMA ReencryptStep ==
    ASSUME JobsInv, NEW j \in Slots, ReencryptBatch(j) \/ ReencryptRow(j), UNCHANGED chain
    PROVE  JobsInv'
  <1>1. JobsShape /\ IdsInv /\ EraseInv /\ RotationInv /\ faults \in Nat
    BY DEF JobsInv, JobsShape
  <1>2. CASE ReencryptBatch(j)
    <2>1. job[j].kind = "reencrypt" /\ job[j].pc = "fetch" /\ Running(j)
      BY <1>2 DEF ReencryptBatch, Step, Running
    <2>2. CASE Fail(j)
      BY <2>1, <2>2, FailStep
    <2>3. CASE ~Fail(j)
      <3> DEFINE B == Slice(Secret, job[j].offset, BatchSize)
                 C == Snapshot(B)
                 o == NextOffset(job[j].offset)
                 pc == IF B = {} THEN "done" ELSE "rows"
      <3>1. /\ job' = [job EXCEPT ![j].todo = C, ![j].offset = NextOffset(@), ![j].pc = pc]
            /\ NoFault /\ UNCHANGED <<rows, file, stored, history, shaken>>
        BY <1>2, <2>3 DEF ReencryptBatch, Secret
      <3>2. job' = [job EXCEPT ![j].todo = C, ![j].offset = o, ![j].pc = pc]
        BY <1>1, <3>1 DEF JobsShape
      <3>3. B \in SUBSET Secret /\ B \in SUBSET Present
        BY <1>1, EncryptedPresent DEF Slice
      <3>4. /\ C \subseteq Copies /\ Ids(C) = B
            /\ \A c \in C : c.id \in Present /\ c.row = rows[c.id]
            /\ C = {} <=> B = {}
        BY <1>1, <3>3, SnapshotFacts
      <3>5. \A c \in C : Encrypted(c.row)
        <4>1. \A c \in C : c.id \in B
          BY <3>4 DEF Ids
        <4>2. QED
          BY <3>3, <3>4, <4>1 DEF Secret
      <3>6. o \in Nat
        BY <1>1, JobsAssumption DEF NextOffset, JobsShape, Fits
      <3>7. ASSUME j \notin shaken', NEW i \in RowId, rows[i].data = "old"
            PROVE  i \in Ids(C) \/ Rank(i) >= o
        <4>1. job[j].todo = {}
          BY <1>1, <2>1 DEF JobsShape, Fits
        <4>2. Ids(job[j].todo) = {}
          BY <4>1 DEF Ids
        <4>3. i \in Secret
          BY <3>7 DEF Secret, Encrypted
        <4>4. Rank(i) >= job[j].offset
          BY <1>1, <2>1, <3>1, <3>7, <4>2 DEF RotationInv
        <4>5. QED
          BY <1>1, <3>4, <4>3, <4>4, BatchReaches
      <3> HIDE DEF B, C, o
      <3>8. pc \in {"done", "rows"} /\ (pc = "rows" => B # {})
        OBVIOUS
      <3> HIDE DEF pc
      <3>9. Moves(j, job[j].kind, pc, C, o)
        BY <1>1, <3>2, MoveForms
      <3>10. Fits(job[j].kind, pc, C, o)
        BY <2>1, <3>4, <3>5, <3>6, <3>8 DEF Fits, Phases, Kinds
      <3>11. UNCHANGED <<chain, rows, file, stored, erased, requested, raced, replaced, copied, shaken, faults>>
        BY <3>1 DEF history, NoFault
      <3>12. QED
        BY <1>1, <2>1, <3>4, <3>7, <3>8, <3>9, <3>10, <3>11, JobsKept
    <2>4. QED
      BY <2>2, <2>3
  <1>3. CASE ReencryptRow(j)
    <2> DEFINE c == First(job[j].todo)
    <2>1. job[j].kind = "reencrypt" /\ job[j].pc = "rows" /\ Running(j)
      BY <1>3 DEF ReencryptRow, Step, Running
    <2>2. /\ job[j].todo \in SUBSET Copies /\ job[j].todo # {}
          /\ \A d \in job[j].todo : Encrypted(d.row)
      BY <1>1, <2>1 DEF JobsShape, Fits
    <2>3. c \in job[j].todo
      BY <2>2, FirstIn
    <2>4. /\ Drop(j, c, "fetch") /\ UNCHANGED <<file, stored, history>>
          /\ \/ rows' = SetData(c.id, "new") /\ Watch /\ NoFault
             \/ Fault /\ shaken' = shaken \cup {j} /\ UNCHANGED rows
      BY <1>3 DEF ReencryptRow
    <2> HIDE DEF c
    <2>5. UNCHANGED <<chain, file, stored, erased, copied, requested, raced, replaced>> /\ faults' \in Nat
      BY <1>1, <2>4 DEF history, Fault, NoFault
    <2>6. CASE Fault /\ shaken' = shaken \cup {j} /\ UNCHANGED rows
      BY <2>1, <2>3, <2>4, <2>5, <2>6, DropStep
    <2>7. CASE rows' = SetData(c.id, "new") /\ Watch
      <3>1. c.id \in RowId
        BY <2>2, <2>3 DEF Copies
      <3>2. CASE rows[c.id] = NoRow
        <4>1. rows' = rows /\ rows[c.id].data # "old" /\ shaken \subseteq shaken'
          BY <2>7, <3>2, WatchGrows DEF SetData, NoRow
        <4>2. QED
          BY <2>1, <2>3, <2>4, <2>5, <4>1, DropStep
      <3>3. CASE rows[c.id] # NoRow
        <4>1. c.id \in Present
          BY <3>1, <3>3 DEF Present
        <4>2. PICK r \in Columns : /\ rows' = [rows EXCEPT ![c.id] = r]
                                   /\ r.event = rows[c.id].event /\ r.data = "new"
          BY <1>1, <2>7, <4>1, SetDataFacts
        <4>3. \A d \in Taken : d.id = c.id => d.row.event = r.event
          BY <1>1, <4>1, <4>2 DEF IdsInv
        <4>4. c.row.event = r.event
          BY <2>3, <4>3 DEF Taken
        <4>5. r.event \notin erased \ copied
          BY <1>1, <2>1, <2>2, <2>3, <4>4 DEF EraseInv, Encrypted, Readable
        <4>6. Writes(c.id, r)
          BY <2>5, <2>7, <4>2, <4>3, <4>5 DEF Writes
        <4>7. QED
          BY <2>1, <2>3, <2>4, <2>5, <3>1, <4>2, <4>6, DropWrite
      <3>4. QED
        BY <3>2, <3>3
    <2>8. QED
      BY <2>4, <2>6, <2>7
  <1>4. QED
    BY <1>2, <1>3

LEMMA MaskStep ==
    ASSUME JobsInv, NEW j \in Slots, MaskFetch(j) \/ MaskRow(j), UNCHANGED chain
    PROVE  JobsInv'
  <1>1. JobsShape /\ IdsInv /\ EraseInv /\ faults \in Nat
    BY DEF JobsInv, JobsShape
  <1>2. CASE MaskFetch(j)
    <2>1. job[j].kind = "mask" /\ job[j].pc = "fetch" /\ Running(j)
      BY <1>2 DEF MaskFetch, Step, Running
    <2>2. CASE Fail(j)
      BY <2>1, <2>2, FailStep
    <2>3. CASE ~Fail(j)
      <3> DEFINE S == Slice(Present, 0, MaskLimit)
                 C == Snapshot(S)
      <3>1. /\ GotoWith(j, IF C = {} THEN "done" ELSE "rows", C)
            /\ NoFault /\ UNCHANGED <<rows, file, stored, history, shaken>>
        BY <1>2, <2>3 DEF MaskFetch
      <3>2. S \in SUBSET Present
        BY DEF Slice
      <3>3. C \subseteq Copies /\ \A c \in C : c.id \in Present /\ c.row = rows[c.id]
        BY <1>1, <3>2, SnapshotFacts
      <3> HIDE DEF C
      <3>4. QED
        BY <2>1, <3>1, <3>3, FetchStep
    <2>4. QED
      BY <2>2, <2>3
  <1>3. CASE MaskRow(j)
    <2> DEFINE c == First(job[j].todo)
    <2>1. job[j].kind = "mask" /\ job[j].pc = "rows" /\ Running(j)
      BY <1>3 DEF MaskRow, Step, Running
    <2>2. job[j].todo \in SUBSET Copies /\ job[j].todo # {}
      BY <1>1, <2>1 DEF JobsShape, Fits
    <2>3. c \in job[j].todo
      BY <2>2, FirstIn
    <2>4. \/ /\ rows' = SetData(c.id, c.row.data) /\ Watch /\ Drop(j, c, "done")
             /\ NoFault /\ UNCHANGED <<file, stored, history>>
          \/ End(j, "failed") /\ NoFault /\ UNCHANGED <<rows, file, stored, history, shaken>>
          \/ Fail(j)
      BY <1>3 DEF MaskRow
    <2> HIDE DEF c
    <2>5. CASE \/ End(j, "failed") /\ NoFault /\ UNCHANGED <<rows, file, stored, history, shaken>>
               \/ Fail(j)
      BY <2>1, <2>5, FailStep
    <2>6. CASE /\ rows' = SetData(c.id, c.row.data) /\ Watch /\ Drop(j, c, "done")
               /\ NoFault /\ UNCHANGED <<file, stored, history>>
      <3>1. c.id \in RowId /\ c.row \in Columns
        BY <2>2, <2>3 DEF Copies
      <3>2. UNCHANGED <<chain, file, stored, erased, copied, requested, raced, replaced>> /\ faults' \in Nat
        BY <1>1, <2>6 DEF history, NoFault
      <3>3. CASE rows[c.id] = NoRow
        <4>1. rows' = rows /\ shaken \subseteq shaken'
          BY <2>6, <3>3, WatchGrows DEF SetData
        <4>2. QED
          BY <2>1, <2>3, <2>6, <3>2, <4>1, DropStep
      <3>4. CASE rows[c.id] # NoRow
        <4>1. c.id \in Present /\ c.row.data \in {"old", "new", "plain", "erased"}
          BY <3>1, <3>4 DEF Present, Columns
        <4>2. PICK r \in Columns : /\ rows' = [rows EXCEPT ![c.id] = r]
                                   /\ r.event = rows[c.id].event /\ r.data = c.row.data
          BY <1>1, <2>6, <4>1, SetDataFacts
        <4>3. \A d \in Taken : d.id = c.id => d.row.event = r.event
          BY <1>1, <4>1, <4>2 DEF IdsInv
        <4>4. c.row.event = r.event
          BY <2>3, <4>3 DEF Taken
        <4>5. r.event \in erased \ copied => ~Readable(r)
          BY <1>1, <2>1, <2>3, <4>2, <4>4 DEF EraseInv, Readable
        <4>6. Writes(c.id, r)
          BY <2>6, <3>2, <4>2, <4>3, <4>5 DEF Writes
        <4>7. QED
          BY <2>1, <2>3, <2>6, <3>1, <3>2, <4>2, <4>6, DropWrite
      <3>5. QED
        BY <3>3, <3>4
    <2>7. QED
      BY <2>4, <2>5, <2>6
  <1>4. QED
    BY <1>2, <1>3
LEMMA EraseStep ==
    ASSUME JobsInv, NEW j \in Slots, EraseFetch(j) \/ EraseRow(j), UNCHANGED chain
    PROVE  JobsInv'
  <1>1. JobsShape /\ IdsInv /\ faults \in Nat
    BY DEF JobsInv, JobsShape
  <1>2. CASE EraseFetch(j)
    <2> DEFINE Open == {i \in Present : ~rows[i].anon}
    <2>1. job[j].kind = "erase" /\ job[j].pc = "fetch" /\ Running(j)
      BY <1>2 DEF EraseFetch, Step, Running
    <2>2. CASE Fail(j)
      BY <2>1, <2>2, FailStep
    <2>3. CASE ~Fail(j)
      <3>1. PICK S \in {{i} \cap Open : i \in RowId} \cup {Open} :
                  GotoWith(j, IF S = {} THEN "done" ELSE "rows", Snapshot(S))
        BY <1>2, <2>3 DEF EraseFetch
      <3>2. NoFault /\ UNCHANGED <<rows, file, stored, history, shaken>>
        BY <1>2, <2>3 DEF EraseFetch
      <3>3. S \in SUBSET Present
        BY <3>1
      <3>4. /\ Snapshot(S) \subseteq Copies /\ (Snapshot(S) = {} <=> S = {})
            /\ \A c \in Snapshot(S) : c.id \in Present /\ c.row = rows[c.id]
        BY <1>1, <3>3, SnapshotFacts
      <3>5. PICK C : C = Snapshot(S)
        OBVIOUS
      <3>6. GotoWith(j, IF C = {} THEN "done" ELSE "rows", C)
        BY <3>1, <3>4, <3>5
      <3>7. QED
        BY <2>1, <3>2, <3>4, <3>5, <3>6, FetchStep
    <2>4. QED
      BY <2>2, <2>3
  <1>3. CASE EraseRow(j)
    <2>1. job[j].kind = "erase" /\ job[j].pc = "rows" /\ Running(j)
      BY <1>3 DEF EraseRow, Step, Running
    <2>2. PICK c \in job[j].todo :
          LET r == Anonymized(rows[c.id], c.row.hashed) IN
          \/ /\ rows[c.id] # NoRow /\ ~Conflicts(r, c.id)
             /\ rows' = [rows EXCEPT ![c.id] = r] /\ Watch
             /\ erased' = erased \cup {r.event}
             /\ copied' = IF OtherCopies(r.event, c.id) THEN copied \cup {r.event} ELSE copied
             /\ Drop(j, c, "done")
             /\ NoFault /\ UNCHANGED <<file, stored, requested, raced, replaced>>
          \/ /\ rows[c.id] = NoRow
             /\ Drop(j, c, "done")
             /\ NoFault /\ UNCHANGED <<rows, file, stored, history, shaken>>
          \/ /\ rows[c.id] # NoRow /\ Conflicts(r, c.id)
             /\ End(j, "failed")
             /\ NoFault /\ UNCHANGED <<rows, file, stored, history, shaken>>
          \/ Fail(j)
      BY <1>3 DEF EraseRow
    <2>3. c.id \in RowId /\ c.row \in Columns
      <3>1. job[j].todo \subseteq Copies
        BY <1>1, <2>1 DEF JobsShape, Fits
      <3>2. QED
        BY <3>1 DEF Copies
    <2>4. PICK r : r = Anonymized(rows[c.id], c.row.hashed)
      OBVIOUS
    <2>5. CASE /\ rows[c.id] # NoRow /\ rows' = [rows EXCEPT ![c.id] = r] /\ Watch
               /\ erased' = erased \cup {r.event}
               /\ copied' = IF OtherCopies(r.event, c.id) THEN copied \cup {r.event} ELSE copied
               /\ Drop(j, c, "done")
               /\ NoFault /\ UNCHANGED <<file, stored, requested, raced, replaced>>
      <3>1. c.id \in Present /\ rows[c.id] \in Columns
        BY <1>1, <2>3, <2>5, RowFacts
      <3>2. r \in Columns /\ r.event = rows[c.id].event /\ r.data = "erased"
        <4>1. PICK h \in Nat : h = c.row.hashed
          BY <2>3 DEF Columns
        <4>2. PICK x : x = rows[c.id]
          OBVIOUS
        <4>3. PICK e, g, a, d : /\ x = [event |-> e, hashed |-> g, anon |-> a, data |-> d]
                                /\ e \in Event /\ e = x.event
          BY <3>1, <4>2 DEF Columns
        <4>4. PICK y : y = [x EXCEPT !.anon = TRUE]
          OBVIOUS
        <4>5. y = [event |-> e, hashed |-> g, anon |-> TRUE, data |-> d]
          BY <4>3, <4>4
        <4>6. PICK z : z = [y EXCEPT !.data = "erased"]
          OBVIOUS
        <4>7. z = [event |-> e, hashed |-> g, anon |-> TRUE, data |-> "erased"]
          BY <4>5, <4>6
        <4>8. r = [z EXCEPT !.hashed = h + 1]
          BY <2>4, <4>1, <4>2, <4>4, <4>6, Zenon DEF Anonymized
        <4>9. r = [event |-> e, hashed |-> h + 1, anon |-> TRUE, data |-> "erased"]
          BY <4>7, <4>8
        <4>10. h + 1 \in Nat
          BY <4>1
        <4>11. QED
          BY <4>2, <4>3, <4>9, <4>10 DEF Columns
      <3>3. \A d \in Taken : d.id = c.id => d.row.event = r.event
        BY <1>1, <3>1, <3>2 DEF IdsInv
      <3>4. ~Readable(r)
        BY <3>2 DEF Readable
      <3>5. \A e \in erased' \ copied' : e \in erased \ copied \/ (e = r.event /\ ~OtherCopies(e, c.id))
        BY <2>5
      <3>6. Writes(c.id, r)
        BY <2>5, <3>2, <3>3, <3>4, <3>5 DEF Writes
      <3>7. faults' \in Nat
        BY <1>1, <2>5 DEF NoFault
      <3>8. QED
        BY <2>1, <2>3, <2>5, <3>2, <3>6, <3>7, DropWrite
    <2>6. CASE rows[c.id] = NoRow /\ Drop(j, c, "done")
               /\ NoFault /\ UNCHANGED <<rows, file, stored, history, shaken>>
      <3>1. /\ UNCHANGED <<chain, rows, file, stored, erased, copied, requested, raced, replaced>>
            /\ faults' \in Nat /\ shaken \subseteq shaken'
        BY <1>1, <2>6 DEF history, NoFault
      <3>2. QED
        BY <2>1, <2>6, <3>1, DropStep
    <2>7. CASE \/ End(j, "failed") /\ NoFault /\ UNCHANGED <<rows, file, stored, history, shaken>>
               \/ Fail(j)
      BY <2>1, <2>7, FailStep
    <2>8. QED
      BY <2>2, <2>4, <2>5, <2>6, <2>7
  <1>4. QED
    BY <1>2, <1>3

\* Between the SELECT and the DELETE of an archiver the file takes over what
\* the archiver read.
LEMMA ArchiveStep ==
    ASSUME JobsInv, NEW j \in Slots, ArchiveSelect(j) \/ ArchivePut(j) \/ ArchiveDelete(j), UNCHANGED chain
    PROVE  JobsInv'
  <1>1. JobsShape /\ IdsInv /\ ArchiveInv /\ NothingLost /\ EraseInv /\ RotationInv /\ faults \in Nat
    BY DEF JobsInv, JobsShape
  <1>2. CASE ArchiveSelect(j)
    <2>1. job[j].kind = "archive" /\ job[j].pc = "fetch" /\ Running(j)
      BY <1>2 DEF ArchiveSelect, Step, Running
    <2>2. CASE Fail(j)
      BY <2>1, <2>2, FailStep
    <2>3. CASE ~Fail(j)
      <3>1. /\ GotoWith(j, IF Present = {} THEN "done" ELSE "rows", Snapshot(Present))
            /\ NoFault /\ UNCHANGED <<rows, file, stored, history, shaken>>
        BY <1>2, <2>3 DEF ArchiveSelect
      <3>2. /\ Snapshot(Present) \subseteq Copies /\ (Snapshot(Present) = {} <=> Present = {})
            /\ \A c \in Snapshot(Present) : c.id \in Present /\ c.row = rows[c.id]
            /\ Events(Snapshot(Present)) = InTable
        BY <1>1, SnapshotFacts
      <3>3. PICK C : C = Snapshot(Present)
        OBVIOUS
      <3>4. GotoWith(j, IF C = {} THEN "done" ELSE "rows", C)
        BY <3>1, <3>2, <3>3
      <3>5. QED
        BY <2>1, <3>1, <3>2, <3>3, <3>4, FetchStep
    <2>4. QED
      BY <2>2, <2>3
  <1>3. CASE ArchivePut(j)
    <2>1. job[j].kind = "archive" /\ job[j].pc = "rows" /\ Running(j)
      BY <1>3 DEF ArchivePut, Step, Running
    <2>2. CASE Fail(j)
      BY <2>1, <2>2, FailStep
    <2>3. CASE ~Fail(j)
      <3>1. /\ \/ file' = job[j].todo /\ Goto(j, AfterUpload(TRUE)) /\ NoFault
               \/ file' \in {{}, job[j].todo} /\ Goto(j, AfterUpload(FALSE)) /\ Fault
            /\ replaced' = replaced \cup (Events(file) \ Events(file'))
            /\ UNCHANGED <<rows, stored, erased, copied, requested, raced, shaken>>
        BY <1>3, <2>3 DEF ArchivePut
      <3>2. PICK pc \in {"delete", "failed"} :
                  /\ Goto(j, pc) /\ faults' \in Nat /\ file' \in {{}, job[j].todo}
                  /\ pc = "delete" => file' = job[j].todo
        BY <1>1, <3>1 DEF AfterUpload, Fault, NoFault
      <3>3. Moves(j, job[j].kind, pc, job[j].todo, job[j].offset)
        BY <1>1, <3>2, MoveForms
      <3>4. /\ Fits(job[j].kind, job[j].pc, job[j].todo, job[j].offset)
            /\ job[j].todo \subseteq Copies
        BY <1>1, <2>1 DEF JobsShape, Fits
      <3>5. Fits(job[j].kind, pc, job[j].todo, job[j].offset)
        BY <3>2, <3>4 DEF Fits, Phases
      <3>6. /\ job'[j].kind = job[j].kind /\ job'[j].pc = pc
            /\ job'[j].todo = job[j].todo /\ job'[j].offset = job[j].offset
            /\ \A k \in Slots \ {j} : job'[k] = job[k]
            /\ job' \in [Slots -> [kind : Kinds \cup {"none"}, pc : Phases,
                                   todo : SUBSET (Copies \cup Fetched), offset : Nat]]
            /\ \A k \in Slots : Fits(job'[k].kind, job'[k].pc, job'[k].todo, job'[k].offset)
        BY <1>1, <3>3, <3>5, MoveFacts
      <3>7. JobsShape'
        BY <1>1, <3>1, <3>2, <3>4, <3>6 DEF JobsShape
      <3>8. UNCHANGED <<Present, InTable, Secret>> /\ \A i \in RowId : Rank(i)' = Rank(i)
        BY <3>1 DEF Present, InTable, Secret, Rank
      <3>9. \A k \in Slots : job'[k].todo = job[k].todo /\ job'[k].kind = job[k].kind /\ job'[k].offset = job[k].offset
        BY <3>6
      <3>10. Taken' \subseteq Taken
        BY <3>2, <3>9 DEF Taken
      <3>11. IdsInv'
        BY <1>1, <3>1, <3>8, <3>10 DEF IdsInv
      <3>12. Events(file) \subseteq Events(file') \cup replaced' /\ replaced \subseteq replaced'
        BY <3>1
      <3>13. Events(file)' = Events(file') /\ \A k \in Slots : Events(job'[k].todo) = Events(job[k].todo)
        BY <3>9 DEF Events
      <3>14. ArchiveInv'
        <4> SUFFICES ASSUME NEW k \in Slots, job'[k].kind = "archive"
                     PROVE  /\ job'[k].pc = "rows" => InTable \subseteq Events(job[k].todo) \cup raced
                            /\ job'[k].pc = "delete" => InTable \subseteq Events(file') \cup raced \cup replaced'
          BY <3>1, <3>8, <3>9 DEF ArchiveInv, Events
        <4>1. /\ job[k].pc = "rows" => InTable \subseteq Events(job[k].todo) \cup raced
              /\ job[k].pc = "delete" => InTable \subseteq Events(file) \cup raced \cup replaced
          BY <1>1, <3>9 DEF ArchiveInv
        <4>2. CASE k # j
          BY <3>6, <3>12, <4>1, <4>2
        <4>3. CASE k = j
          BY <2>1, <3>2, <3>6, <4>1, <4>3
        <4>4. QED
          BY <4>2, <4>3
      <3>15. NothingLost'
        <4>1. \A e \in stored : e \in InTable \cup Events(file') \cup requested \cup raced \cup replaced'
          BY <1>1, <3>12 DEF NothingLost
        <4>2. QED
          BY <3>1, <3>8, <3>13, <4>1 DEF NothingLost
      <3>16. \A k \in Slots : (Running(k)' => Running(k)) /\ (k # j => (Running(k)' <=> Running(k)))
        BY <2>1, <3>6 DEF Running
      <3>17. EraseInv'
        <4> SUFFICES ASSUME NEW e \in erased \ copied
                     PROVE  /\ \A i \in RowId : rows[i].event = e => ~Readable(rows[i])
                            /\ \A c \in file' : c.row.event = e => ~Readable(c.row)
                            /\ \A k \in Slots : job'[k].kind # "erase" /\ Running(k)' =>
                                  \A c \in job'[k].todo : c.row.event = e => ~Readable(c.row)
          BY <3>1 DEF EraseInv
        <4>1. /\ \A i \in RowId : rows[i].event = e => ~Readable(rows[i])
              /\ \A k \in Slots : job[k].kind # "erase" /\ Running(k) =>
                    \A c \in job[k].todo : c.row.event = e => ~Readable(c.row)
          BY <1>1 DEF EraseInv
        <4>2. \A c \in file' : c.row.event = e => ~Readable(c.row)
          BY <2>1, <3>2, <4>1
        <4>3. QED
          BY <3>9, <3>16, <4>1, <4>2
      <3>18. RotationInv'
        BY <1>1, <3>1, <3>8, <3>9, <3>16 DEF RotationInv, Ids
      <3>19. QED
        BY <3>7, <3>11, <3>14, <3>15, <3>17, <3>18 DEF JobsInv
    <2>4. QED
      BY <2>2, <2>3
  <1>4. CASE ArchiveDelete(j)
    <2>1. job[j].kind = "archive" /\ job[j].pc = "delete" /\ Running(j)
      BY <1>4 DEF ArchiveDelete, Step, Running
    <2>2. CASE Fail(j)
      BY <2>1, <2>2, FailStep
    <2>3. CASE ~Fail(j)
      <3>1. /\ rows' = [i \in RowId |-> NoRow] /\ End(j, "done") /\ faults' \in Nat
            /\ UNCHANGED <<file, stored, erased, copied, requested, raced, replaced>>
        BY <1>1, <1>4, <2>3 DEF ArchiveDelete, history, NoFault
      <3>2. Moves(j, job[j].kind, "done", {}, 0)
        BY <1>1, <3>1, MoveForms
      <3>3. Fits(job[j].kind, "done", {}, 0)
        BY <2>1 DEF Fits, Phases, Kinds
      <3>4. /\ job'[j].pc = "done" /\ job'[j].todo = {}
            /\ \A k \in Slots \ {j} : job'[k] = job[k]
            /\ job' \in [Slots -> [kind : Kinds \cup {"none"}, pc : Phases,
                                   todo : SUBSET (Copies \cup Fetched), offset : Nat]]
            /\ \A k \in Slots : Fits(job'[k].kind, job'[k].pc, job'[k].todo, job'[k].offset)
        BY <1>1, <3>2, <3>3, MoveFacts
      <3>5. JobsShape'
        BY <1>1, <3>1, <3>4 DEF JobsShape
      <3>6. InTable \subseteq Events(file) \cup raced \cup replaced
        BY <1>1, <2>1 DEF ArchiveInv
      <3>7. \A k \in Slots : job'[k] = job[k] \/ (job'[k].todo = {} /\ job'[k].pc = "done")
        BY <3>4
      <3>8. InTable \subseteq Events(file) \cup requested' \cup raced \cup replaced /\ requested \subseteq requested'
        BY <3>1, <3>6
      <3>9. QED
        BY <3>1, <3>5, <3>7, <3>8, TableEmptied
    <2>4. QED
      BY <2>2, <2>3
  <1>5. QED
    BY <1>2, <1>3, <1>4
LEMMA StoredRaces ==
    ASSUME NEW e, Stored(e)
    PROVE  raced \subseteq raced' /\ (Deleting => e \in raced')
  BY DEF Stored

LEMMA RestoreStep ==
    ASSUME JobsInv, NEW j \in Slots, RestoreFetch(j) \/ RestoreRow(j), UNCHANGED chain
    PROVE  JobsInv'
  <1>1. JobsShape /\ IdsInv /\ EraseInv /\ faults \in Nat /\ file \in SUBSET Copies
    BY DEF JobsInv, JobsShape
  <1>2. CASE RestoreFetch(j)
    <2>1. job[j].kind \in {"restore", "upsert"} /\ job[j].pc = "fetch" /\ Running(j)
      BY <1>2 DEF RestoreFetch, Step, Running
    <2>2. CASE Fail(j)
      BY <2>1, <2>2, FailStep
    <2>3. CASE ~Fail(j)
      <3>1. /\ GotoWith(j, IF file = {} THEN "done" ELSE "rows", file)
            /\ NoFault /\ UNCHANGED <<rows, file, stored, history, shaken>>
        BY <1>2, <2>3 DEF RestoreFetch
      <3>2. QED
        BY <1>1, <2>1, <3>1, FetchStep
    <2>4. QED
      BY <2>2, <2>3
  <1>3. CASE RestoreRow(j)
    <2> DEFINE c == First(job[j].todo)
    <2>1. job[j].kind \in {"restore", "upsert"} /\ job[j].pc = "rows" /\ Running(j)
      BY <1>3 DEF RestoreRow, Step, Running
    <2>2. job[j].todo \in SUBSET Copies /\ job[j].todo # {}
      BY <1>1, <2>1 DEF JobsShape, Fits
    <2>3. c \in job[j].todo
      BY <2>2, FirstIn
    <2>4. /\ Drop(j, c, "done")
          /\ \/ /\ rows' = [rows EXCEPT ![c.id] = Restored(c)] /\ Watch
                /\ Stored(c.row.event) /\ NoFault
             \/ NoFault /\ UNCHANGED <<rows, raced, shaken>>
             \/ Fault /\ UNCHANGED <<rows, raced, shaken>>
          /\ UNCHANGED <<file, stored, erased, copied, requested, replaced>>
      BY <1>3 DEF RestoreRow
    <2>5. faults' \in Nat
      BY <1>1, <2>4 DEF Fault, NoFault
    <2> HIDE DEF c
    <2>6. CASE UNCHANGED <<rows, raced, shaken>>
      <3>1. /\ UNCHANGED <<chain, rows, file, stored, erased, copied, requested, raced, replaced>>
            /\ shaken \subseteq shaken' /\ job[j].kind # "archive" /\ job[j].kind # "reencrypt"
        BY <2>1, <2>4, <2>6
      <3>2. QED
        BY <2>1, <2>3, <2>4, <2>5, <3>1, DropStep
    <2>7. CASE rows' = [rows EXCEPT ![c.id] = Restored(c)] /\ Watch /\ Stored(c.row.event)
      <3>1. c.id \in RowId /\ c.row \in Columns
        BY <2>2, <2>3 DEF Copies
      <3>2. PICK r : r = Restored(c)
        OBVIOUS
      <3>3. r \in Columns /\ r.event = c.row.event /\ r.data = c.row.data
        <4>1. CASE rows[c.id] = NoRow
          BY <3>1, <3>2, <4>1 DEF Restored, Columns
        <4>2. CASE rows[c.id] # NoRow
          <5>1. rows[c.id] \in Columns
            BY <1>1, <3>1, <4>2, RowFacts
          <5>2. rows[c.id].anon \in BOOLEAN
            BY <5>1 DEF Columns
          <5>3. PICK a \in BOOLEAN : a = rows[c.id].anon
            BY <5>2
          <5>4. r = [c.row EXCEPT !.anon = a]
            BY <3>2, <4>2, <5>3, Zenon DEF Restored
          <5>5. QED
            BY <3>1, <5>3, <5>4 DEF Columns
        <4>3. QED
          BY <4>1, <4>2
      <3>4. c \in Taken /\ c.id # 0
        BY <1>1, <2>3, <3>1, RowFacts DEF Taken
      <3>5. /\ \A d \in Taken : d.id = c.id => d.row.event = r.event
            /\ rows[c.id] = NoRow \/ rows[c.id].event = r.event
        BY <1>1, <3>1, <3>3, <3>4 DEF IdsInv, Present
      <3>6. raced \subseteq raced' /\ (Deleting => r.event \in raced')
        BY <2>7, <3>3, StoredRaces
      <3>7. r.event \in erased \ copied => ~Readable(r)
        BY <1>1, <2>1, <2>3, <3>3 DEF EraseInv, Readable
      <3>8. Writes(c.id, r)
        BY <2>4, <2>7, <3>2, <3>5, <3>6, <3>7 DEF Writes
      <3>9. job[j].kind # "archive" /\ job[j].kind # "reencrypt"
        BY <2>1
      <3>10. QED
        BY <2>1, <2>3, <2>4, <2>5, <3>1, <3>3, <3>8, <3>9, DropWrite
    <2>8. QED
      BY <2>4, <2>6, <2>7
  <1>4. QED
    BY <1>2, <1>3

\* An INSERT stores a row under an id that nothing has, or the table has one of
\* the event.
LEMMA InsertFacts ==
    ASSUME JobsInv, NEW r \in Columns, Insert(r), copied \subseteq copied',
           \A e \in erased' \ copied' : e \in erased \ copied /\ (r.event = e => ~Readable(r))
    PROVE  \/ UNCHANGED <<rows, raced, shaken>> /\ r.event \in InTable
           \/ \E i \in RowId : Writes(i, r) /\ \A c \in Taken : c.id # i
  <1>1. JobsShape
    BY DEF JobsInv
  <1>2. CASE Conflicts(r, 0)
    <2>1. PICK k \in RowId : rows[k].event = r.event
      BY <1>2 DEF Conflicts
    <2>2. r.event \in Event
      BY DEF Columns
    <2>3. k \in Present
      BY <1>1, <2>1, <2>2, RowFacts
    <2>4. QED
      BY <1>2, <2>1, <2>3 DEF Insert, InTable
  <1>3. CASE ~Conflicts(r, 0)
    <2>1. PICK i \in Fresh : rows' = [rows EXCEPT ![i] = r] /\ Watch /\ Stored(r.event)
      BY <1>3 DEF Insert
    <2>2. i \in RowId /\ i \notin Present
      BY <2>1 DEF Fresh, Usable, Slice
    <2>3. \A c \in Taken : c.id # i
      BY <2>1 DEF Fresh, Taken, Ids
    <2>4. rows[i] = NoRow
      BY <2>2 DEF Present
    <2>5. raced \subseteq raced' /\ (Deleting => r.event \in raced')
      BY <2>1, StoredRaces
    <2>6. Writes(i, r)
      BY <2>1, <2>3, <2>4, <2>5 DEF Writes
    <2>7. QED
      BY <2>2, <2>3, <2>6
  <1>4. QED
    BY <1>2, <1>3

LEMMA ReplayStep ==
    ASSUME JobsInv, NEW j \in Slots, ReplayFetch(j) \/ ReplayRow(j), UNCHANGED chain
    PROVE  JobsInv'
  <1>1. JobsShape /\ IdsInv /\ EraseInv /\ faults \in Nat /\ chain \subseteq Event
    BY DEF JobsInv, JobsShape
  <1>2. CASE ReplayFetch(j)
    <2>1. job[j].kind = "replay" /\ job[j].pc = "fetch" /\ Running(j) /\ job[j].offset \in Nat
      BY <1>1, <1>2 DEF ReplayFetch, Step, Running, JobsShape, Fits
    <2>2. CASE Fail(j)
      BY <2>1, <2>2, FailStep
    <2>3. CASE ~Fail(j)
      <3>1. PICK from \in chain :
               LET S == Slice({e \in chain : e >= from}, 0, ReplayLimit)
                   C == {[id |-> 0, row |-> [event |-> e, hashed |-> 0, anon |-> FALSE, data |-> "plain"]] : e \in S}
               IN  GotoWith(j, "rows", C) /\ copied' = copied \cup (S \cap erased)
        BY <1>2, <2>3 DEF ReplayFetch
      <3>2. NoFault /\ UNCHANGED <<rows, file, stored, erased, requested, raced, replaced, shaken>>
        BY <1>2, <2>3 DEF ReplayFetch
      <3> DEFINE W == {e \in chain : e >= from}
                 S == Slice(W, 0, ReplayLimit)
                 Row0(e) == [event |-> e, hashed |-> 0, anon |-> FALSE, data |-> "plain"]
                 C == {[id |-> 0, row |-> Row0(e)] : e \in S}
      <3>3. GotoWith(j, "rows", C) /\ copied' = copied \cup (S \cap erased)
        BY <3>1
      <3>4. S # {} /\ S \subseteq Event
        <4>1. W \in SUBSET Nat /\ W # {} /\ IsFiniteSet(W) /\ W \subseteq Event
          <5>1. IsFiniteSet(Event) /\ Event \subseteq Nat
            BY JobsAssumption
          <5>2. from \in Nat
            BY <1>1, <5>1
          <5>3. from \in W
            BY <5>2
          <5>4. QED
            BY <1>1, <5>1, <5>3, FS_Subset
        <4>2. PICK x \in W : \A y \in W : x <= y
          BY <4>1, LeastExists
        <4>3. {h \in W : h < x} = {}
          BY <4>1, <4>2
        <4>4. Cardinality({h \in W : h < x}) = 0 /\ ReplayLimit \in Nat /\ ReplayLimit > 0
          BY <4>3, FS_EmptySet, JobsAssumption
        <4>5. x \in S
          BY <4>4 DEF Slice
        <4>6. QED
          BY <4>1, <4>5 DEF Slice
      <3> HIDE DEF S
      <3>5. C # {} /\ C \subseteq Fetched
        <4>1. \A e \in S : Row0(e) \in Columns
          BY <3>4 DEF Columns
        <4> HIDE DEF Row0
        <4>2. \A e \in S : [id |-> 0, row |-> Row0(e)] \in C
          OBVIOUS
        <4>3. \A e \in S : [id |-> 0, row |-> Row0(e)] \in Fetched
          BY <4>1 DEF Fetched
        <4>4. \A c \in C : \E e \in S : c = [id |-> 0, row |-> Row0(e)]
          OBVIOUS
        <4> HIDE DEF C
        <4>5. QED
          BY <3>4, <4>2, <4>3, <4>4, Zenon
      <3>6. \A c \in C : c.id = 0 /\ c.row.event \in S
        OBVIOUS
      <3> HIDE DEF C
      <3>7. Moves(j, job[j].kind, "rows", C, job[j].offset)
        BY <1>1, <3>3, MoveForms
      <3>8. Fits(job[j].kind, "rows", C, job[j].offset)
        BY <2>1, <3>5 DEF Fits, Kinds, Phases
      <3>9. \A c \in C : c.id = 0 /\ (c.row.event \in erased => c.row.event \in copied')
        BY <3>3, <3>6
      <3>10. /\ UNCHANGED <<chain, rows, file, stored, erased, requested, raced, replaced>>
             /\ faults' \in Nat /\ copied \subseteq copied' /\ shaken \subseteq shaken'
        BY <1>1, <3>2, <3>3 DEF NoFault
      <3>11. QED
        BY <2>1, <3>7, <3>8, <3>9, <3>10, JobsKept
    <2>4. QED
      BY <2>2, <2>3
  <1>3. CASE ReplayRow(j)
    <2> DEFINE c == CHOOSE c \in job[j].todo : \A d \in job[j].todo : c.row.event <= d.row.event
    <2>1. job[j].kind = "replay" /\ job[j].pc = "rows" /\ Running(j)
      BY <1>3 DEF ReplayRow, Step, Running
    <2>2. job[j].todo # {} /\ \A d \in job[j].todo : d.row \in Columns
      <3>1. job[j].todo \subseteq Copies \cup Fetched /\ job[j].todo # {}
        BY <1>1, <2>1 DEF JobsShape, Fits
      <3>2. QED
        BY <3>1 DEF Copies, Fetched
    <2>3. c \in job[j].todo
      <3>1. \A d \in job[j].todo : d.row.event \in Nat
        BY <2>2, JobsAssumption DEF Columns
      <3>2. Events(job[j].todo) \in SUBSET Nat /\ Events(job[j].todo) # {}
        BY <2>2, <3>1 DEF Events
      <3>3. PICK x \in Events(job[j].todo) : \A y \in Events(job[j].todo) : x <= y
        BY <3>2, LeastExists
      <3>4. \E b \in job[j].todo : \A d \in job[j].todo : b.row.event <= d.row.event
        BY <3>3 DEF Events
      <3>5. QED
        BY <3>4
    <2>4. /\ Drop(j, c, "done")
          /\ \/ Insert(c.row) /\ NoFault
             \/ Fault /\ UNCHANGED <<rows, raced, shaken>>
          /\ UNCHANGED <<file, stored, erased, copied, requested, replaced>>
      BY <1>3 DEF ReplayRow
    <2> HIDE DEF c
    <2>5. faults' \in Nat /\ copied \subseteq copied' /\ c.row \in Columns
      BY <1>1, <2>2, <2>3, <2>4 DEF Fault, NoFault
    <2>6. CASE UNCHANGED <<rows, raced, shaken>>
      <3>1. /\ UNCHANGED <<chain, rows, file, stored, erased, copied, requested, raced, replaced>>
            /\ shaken \subseteq shaken' /\ job[j].kind # "archive" /\ job[j].kind # "reencrypt"
        BY <2>1, <2>4, <2>6
      <3>2. QED
        BY <2>1, <2>3, <2>4, <2>5, <3>1, DropStep
    <2>7. CASE Insert(c.row) /\ ~ UNCHANGED <<rows, raced, shaken>>
      <3>1. \A e \in erased' \ copied' : e \in erased \ copied /\ (c.row.event = e => ~Readable(c.row))
        BY <1>1, <2>1, <2>3, <2>4 DEF EraseInv
      <3>2. PICK i \in RowId : Writes(i, c.row)
        BY <2>5, <2>7, <3>1, InsertFacts
      <3>3. /\ UNCHANGED <<chain, file, stored, requested, replaced>>
            /\ job[j].kind # "archive" /\ job[j].kind # "reencrypt"
        BY <2>1, <2>4
      <3>4. QED
        BY <2>1, <2>3, <2>4, <2>5, <3>2, <3>3, DropWrite
    <2>8. QED
      BY <2>4, <2>6, <2>7
  <1>4. QED
    BY <1>2, <1>3

LEMMA StoreStep ==
    ASSUME JobsInv, StoreEvent, UNCHANGED chain
    PROVE  JobsInv'
  <1>1. JobsShape /\ IdsInv /\ ArchiveInv /\ NothingLost /\ EraseInv /\ RotationInv
    BY DEF JobsInv
  <1>2. PICK e \in chain \ stored :
              /\ stored' = stored \cup {e} /\ copied' = copied \cup ({e} \cap erased)
              /\ Insert([event |-> e, hashed |-> 0, anon |-> FALSE, data |-> "new"])
    BY DEF StoreEvent
  <1>3. UNCHANGED <<chain, file, job, faults, erased, requested, replaced>>
    BY DEF StoreEvent
  <1>4. PICK r : r = [event |-> e, hashed |-> 0, anon |-> FALSE, data |-> "new"]
    OBVIOUS
  <1>5. r \in Columns /\ r.event = e
    BY <1>1, <1>4 DEF Columns, JobsShape
  <1>6. Insert(r)
    BY <1>2, <1>4
  <1>7. copied \subseteq copied' /\ \A x \in erased' \ copied' : x \in erased \ copied /\ (r.event = x => ~Readable(r))
    BY <1>2, <1>3, <1>5
  <1>8. \/ UNCHANGED <<rows, raced, shaken>> /\ r.event \in InTable
        \/ \E i \in RowId : Writes(i, r)
    BY <1>5, <1>6, <1>7, InsertFacts
  <1>9. CASE UNCHANGED <<rows, raced, shaken>> /\ r.event \in InTable
    <2>1. JobsShape'
      BY <1>1, <1>2, <1>3, <1>9 DEF JobsShape
    <2>2. UNCHANGED <<Present, InTable, Secret, Taken>> /\ \A i \in RowId : Rank(i)' = Rank(i)
      BY <1>3, <1>9 DEF Present, InTable, Secret, Rank, Taken
    <2>3. IdsInv'
      BY <1>1, <1>9, <2>2 DEF IdsInv
    <2>4. ArchiveInv'
      BY <1>1, <1>3, <1>9, <2>2 DEF ArchiveInv, Events
    <2>5. NothingLost'
      <3>1. \A x \in stored' : x \in InTable \cup Events(file) \cup requested \cup raced \cup replaced
        BY <1>1, <1>2, <1>5, <1>9 DEF NothingLost
      <3>2. QED
        BY <1>3, <1>9, <2>2, <3>1 DEF NothingLost, Events
    <2>6. EraseInv'
      BY <1>1, <1>3, <1>7, <1>9 DEF EraseInv, Running
    <2>7. RotationInv'
      BY <1>1, <1>3, <1>9, <2>2 DEF RotationInv, Ids, Running
    <2>8. QED
      BY <2>1, <2>3, <2>4, <2>5, <2>6, <2>7 DEF JobsInv
  <1>10. ASSUME NEW i \in RowId, Writes(i, r)
         PROVE  JobsInv'
    <2>1. rows' \in [RowId -> Columns \cup {NoRow}]
      BY <1>1, <1>5, <1>10 DEF JobsShape, Writes
    <2>2. JobsShape'
      BY <1>1, <1>2, <1>3, <2>1 DEF JobsShape
    <2>3. stored' \subseteq stored \cup {r.event} /\ \A k \in Slots : Running(k)' <=> Running(k)
      BY <1>2, <1>3, <1>5 DEF Running
    <2>4. QED
      BY <1>3, <1>5, <1>10, <2>2, <2>3, RowWritten
  <1>11. QED
    BY <1>8, <1>9, <1>10

LEMMA DeleteStep ==
    ASSUME JobsInv, DeleteContract, UNCHANGED chain
    PROVE  JobsInv'
  <1>1. JobsShape
    BY DEF JobsInv
  <1>2. /\ rows' = [i \in RowId |-> NoRow] /\ requested' = requested \cup InTable
        /\ UNCHANGED <<file, stored, job, faults, erased, copied, raced, replaced>>
    BY DEF DeleteContract
  <1>3. JobsShape'
    BY <1>1, <1>2 DEF JobsShape
  <1>4. /\ requested \subseteq requested'
        /\ InTable \subseteq Events(file) \cup requested' \cup raced \cup replaced
    BY <1>2
  <1>5. QED
    BY <1>2, <1>3, <1>4, TableEmptied

\* A restart ends the jobs; their copies are gone with them.
LEMMA RestartStep ==
    ASSUME JobsInv, Restart, UNCHANGED chain
    PROVE  JobsInv'
  <1>1. JobsShape /\ IdsInv /\ ArchiveInv /\ NothingLost /\ EraseInv /\ RotationInv
    BY DEF JobsInv
  <1>2. /\ UNCHANGED <<chain, rows, file, stored, erased, copied, requested, raced, replaced, shaken>>
        /\ faults' \in Nat
    <2>1. faults \in Nat /\ faults > 0 /\ faults' = faults - 1
      BY <1>1 DEF Restart, Fault, JobsShape
    <2>2. UNCHANGED <<chain, rows, file, stored, erased, copied, requested, raced, replaced, shaken>>
      BY DEF Restart, history
    <2>3. QED
      BY <2>1, <2>2
  <1>3. job' = [j \in Slots |-> IF Running(j) THEN [NoJob EXCEPT !.kind = job[j].kind, !.pc = "failed"] ELSE job[j]]
    BY DEF Restart
  <1>4. ASSUME NEW j \in Slots, Running(j)
        PROVE  job'[j] = [kind |-> job[j].kind, pc |-> "failed", todo |-> {}, offset |-> 0]
    <2>1. PICK y : y = [NoJob EXCEPT !.kind = job[j].kind]
      OBVIOUS
    <2>2. y = [kind |-> job[j].kind, pc |-> "idle", todo |-> {}, offset |-> 0]
      BY <2>1 DEF NoJob
    <2>3. PICK z : z = [y EXCEPT !.pc = "failed"]
      OBVIOUS
    <2>4. z = [kind |-> job[j].kind, pc |-> "failed", todo |-> {}, offset |-> 0]
      BY <2>2, <2>3
    <2>5. job'[j] = z
      <3>1. job'[j] = [NoJob EXCEPT !.kind = job[j].kind, !.pc = "failed"]
        BY <1>3, <1>4
      <3>2. QED
        BY <2>1, <2>3, <3>1, Zenon
    <2>6. QED
      BY <2>4, <2>5
  <1>5. ASSUME NEW j \in Slots, ~Running(j)
        PROVE  job'[j] = job[j]
    BY <1>3, <1>5
  <1>6. \A j \in Slots : /\ job'[j].todo \subseteq job[j].todo /\ ~Running(j)' /\ job'[j].pc \notin {"rows", "delete"}
                         /\ Fits(job'[j].kind, job'[j].pc, job'[j].todo, job'[j].offset)
    <2> SUFFICES ASSUME NEW j \in Slots
                 PROVE  /\ job'[j].todo \subseteq job[j].todo /\ job'[j].pc \notin {"fetch", "rows", "delete"}
                        /\ Fits(job'[j].kind, job'[j].pc, job'[j].todo, job'[j].offset)
      BY DEF Running
    <2>1. Fits(job[j].kind, job[j].pc, job[j].todo, job[j].offset)
      BY <1>1 DEF JobsShape
    <2>2. CASE Running(j)
      <3>0. PICK k : k = job[j].kind
        OBVIOUS
      <3>1. /\ job'[j].kind = k /\ job'[j].pc = "failed" /\ job'[j].todo = {} /\ job'[j].offset = 0
        <4>1. job'[j] = [kind |-> k, pc |-> "failed", todo |-> {}, offset |-> 0]
          BY <1>4, <2>2, <3>0, Zenon
        <4>2. QED
          BY <4>1
      <3>2. QED
        BY <2>1, <3>0, <3>1 DEF Fits, Phases
    <2>3. CASE ~Running(j)
      BY <1>5, <2>1, <2>3 DEF Running
    <2>4. QED
      BY <2>2, <2>3
  <1>7. JobsShape'
    <2> DEFINE R == [kind : Kinds \cup {"none"}, pc : Phases, todo : SUBSET (Copies \cup Fetched), offset : Nat]
    <2>1. ASSUME NEW j \in Slots
          PROVE  job'[j] \in R
      <3>1. job[j] \in R /\ job[j].kind \in Kinds \cup {"none"}
        BY <1>1 DEF JobsShape, Fits
      <3>2. CASE Running(j)
        <4>1. PICK k \in Kinds \cup {"none"} : k = job[j].kind
          BY <3>1
        <4>2. job'[j] = [kind |-> k, pc |-> "failed", todo |-> {}, offset |-> 0]
          BY <1>4, <3>2, <4>1, Zenon
        <4>3. QED
          BY <4>1, <4>2 DEF Phases
      <3>3. CASE ~Running(j)
        BY <1>5, <3>1, <3>3
      <3>4. QED
        BY <3>2, <3>3
    <2>2. job' \in [Slots -> R]
      <3> HIDE DEF R
      <3>1. DOMAIN job' = Slots /\ job' = [j \in Slots |-> job'[j]]
        BY <1>3
      <3>2. QED
        BY <2>1, <3>1
    <2>3. QED
      BY <1>1, <1>2, <1>6, <2>2 DEF JobsShape
  <1>8. UNCHANGED <<Present, InTable>> /\ Taken' \subseteq Taken
    BY <1>2, <1>6 DEF Present, InTable, Taken
  <1>9. IdsInv'
    BY <1>1, <1>2, <1>8 DEF IdsInv
  <1>10. ArchiveInv' /\ RotationInv'
    BY <1>6 DEF ArchiveInv, RotationInv
  <1>11. NothingLost'
    BY <1>1, <1>2, <1>8 DEF NothingLost, Events
  <1>12. EraseInv'
    BY <1>1, <1>2, <1>6 DEF EraseInv
  <1>13. QED
    BY <1>7, <1>9, <1>10, <1>11, <1>12 DEF JobsInv
LEMMA JobsStart ==
    ASSUME JobsInit \/ JobsIdle
    PROVE  JobsInv
  <1>1. /\ file = {} /\ job = [j \in Slots |-> NoJob] /\ faults \in Nat
        /\ erased = {} /\ raced = {} /\ shaken = {}
    BY JobsAssumption DEF JobsInit, JobsIdle
  <1>2. /\ chain \subseteq Event /\ stored \subseteq chain
        /\ rows \in [RowId -> Columns \cup {NoRow}] /\ stored \subseteq InTable
    <2>1. CASE JobsIdle
      BY <2>1 DEF JobsIdle
    <2>2. CASE JobsInit
      <3>1. chain \subseteq Event /\ stored \subseteq chain
        BY <2>2 DEF JobsInit
      <3>2. PICK at \in [stored -> Usable] :
               /\ \A e, f \in stored : at[e] = at[f] => e = f
               /\ rows = [i \in RowId |->
                     IF \E e \in stored : at[e] = i
                     THEN [event |-> CHOOSE e \in stored : at[e] = i, hashed |-> 0, anon |-> FALSE, data |-> "old"]
                     ELSE NoRow]
        BY <2>2 DEF JobsInit
      <3>3. \A e \in stored : at[e] \in RowId
        BY <3>2 DEF Usable, Slice
      <3>4. ASSUME NEW i \in RowId
            PROVE  rows[i] \in Columns \cup {NoRow}
        <4>1. CASE \E e \in stored : at[e] = i
          <5>1. PICK f : f = CHOOSE e \in stored : at[e] = i
            OBVIOUS
          <5>2. f \in stored /\ f \in Event
            BY <3>1, <4>1, <5>1
          <5>3. rows[i] = [event |-> f, hashed |-> 0, anon |-> FALSE, data |-> "old"]
            BY <3>2, <4>1, <5>1
          <5>4. QED
            BY <5>2, <5>3 DEF Columns
        <4>2. CASE ~ \E e \in stored : at[e] = i
          BY <3>2, <4>2
        <4>3. QED
          BY <4>1, <4>2
      <3>5. rows \in [RowId -> Columns \cup {NoRow}]
        <4>1. rows = [i \in RowId |-> rows[i]]
          BY <3>2
        <4>2. QED
          BY <3>4, <4>1
      <3>6. ASSUME NEW e \in stored
            PROVE  e \in InTable
        <4>1. PICK i \in RowId : i = at[e]
          BY <3>3
        <4>2. PICK f : f = CHOOSE g \in stored : at[g] = i
          OBVIOUS
        <4>3. f \in stored /\ at[f] = i
          BY <4>1, <4>2
        <4>4. f = e
          BY <3>2, <4>1, <4>3
        <4>5. rows[i] = [event |-> f, hashed |-> 0, anon |-> FALSE, data |-> "old"]
          BY <3>2, <4>1, <4>2
        <4>6. rows[i].event = e /\ rows[i] # NoRow
          BY <4>4, <4>5 DEF NoRow
        <4>7. QED
          BY <4>6 DEF InTable, Present
      <3>7. QED
        BY <3>1, <3>5, <3>6
    <2>3. QED
      BY <2>1, <2>2
  <1>3. \A j \in Slots : job[j].kind = "none" /\ job[j].pc = "idle" /\ job[j].todo = {} /\ job[j].offset = 0
    BY <1>1 DEF NoJob
  <1>4. JobsShape
    <2>1. job \in [Slots -> [kind : Kinds \cup {"none"}, pc : Phases,
                             todo : SUBSET (Copies \cup Fetched), offset : Nat]]
      BY <1>1 DEF NoJob, Phases
    <2>2. \A j \in Slots : Fits(job[j].kind, job[j].pc, job[j].todo, job[j].offset)
      BY <1>3 DEF Fits, Phases
    <2>3. QED
      BY <1>1, <1>2, <2>1, <2>2 DEF JobsShape
  <1>5. Taken = {}
    BY <1>1, <1>3 DEF Taken
  <1>6. IdsInv
    BY <1>5 DEF IdsInv
  <1>7. ArchiveInv /\ RotationInv
    BY <1>3 DEF ArchiveInv, RotationInv
  <1>8. NothingLost
    BY <1>2 DEF NothingLost
  <1>9. EraseInv
    BY <1>1 DEF EraseInv
  <1>10. QED
    BY <1>4, <1>6, <1>7, <1>8, <1>9 DEF JobsInv

LEMMA JobsStep ==
    ASSUME JobsInv, JobsNext
    PROVE  JobsInv'
  <1>1. UNCHANGED chain
    BY DEF JobsNext
  <1>2. ASSUME NEW j \in Slots, Request(j) \/ JobStep(j)
        PROVE  JobsInv'
    BY <1>1, <1>2, StartStep, ReencryptStep, MaskStep, EraseStep, ArchiveStep, RestoreStep, ReplayStep
       DEF JobStep
  <1>3. QED
    BY <1>1, <1>2, StoreStep, DeleteStep, RestartStep DEF JobsNext

\* A batch is empty only when no row is at its offset or after.
LEMMA BatchEnds ==
    ASSUME JobsShape, NEW j \in Slots, Slice(Secret, job[j].offset, BatchSize) = {}, NEW i \in Secret
    PROVE  ~(Rank(i) >= job[j].offset)
  <1> DEFINE off == job[j].offset
             LT == {x \in RowId \X RowId : x[1] < x[2]}
             T == {h \in Secret : Rank(h) >= off}
             F == FirstRows(Secret, off, LT)
  <1>1. off \in Nat /\ BatchSize \in Nat /\ BatchSize > 0
    BY JobsAssumption DEF JobsShape, Fits
  <1>2. IsFiniteSet(Secret) /\ Secret \in SUBSET RowId /\ RowId \in SUBSET Nat
    BY JobsAssumption, FS_Subset DEF Secret
  <1>3. \A x, y \in Secret : <<x, y>> \in LT <=> x < y
    BY <1>2
  <1>4. Orders(Secret, LT)
    <2>1. \A x \in Secret : x \in Nat
      BY <1>2
    <2> HIDE DEF LT
    <2>2. QED
      BY <1>3, <2>1 DEF Orders
  <1>5. \A x \in Secret : Below(Secret, x, LT) = {h \in Secret : h < x}
    <2> HIDE DEF LT
    <2>1. QED
      BY <1>3 DEF Below
  <1> HIDE DEF LT
  <1>6. \A x \in Secret : Cardinality(Below(Secret, x, LT)) = Rank(x) /\ Rank(x) \in Nat
    BY <1>2, <1>5, BelowCount DEF Rank
  <1>7. Cardinality(F) <= off /\ Cardinality(F) \in Nat /\ IsFiniteSet(F)
    BY <1>1, <1>2, <1>4, FirstRowsCount, FirstRowsClosed
  <1>8. \A h \in Secret : Rank(h) < off => h \in F
    BY <1>6 DEF FirstRows, Below
  <1>9. ASSUME T # {}
        PROVE  FALSE
    <2>1. T \in SUBSET Nat
      BY <1>2
    <2>2. PICK x \in T : \A y \in T : x <= y
      BY <1>9, <2>1, LeastExists
    <2>3. x \in Secret /\ Rank(x) >= off /\ x \in Nat
      BY <2>1, <2>2
    <2>4. Below(Secret, x, LT) \in SUBSET F
      <3> SUFFICES ASSUME NEW h \in Secret, h < x
                   PROVE  h \in F
        BY <1>5, <2>3
      <3>1. h \in Nat /\ ~(x <= h)
        BY <1>2, <2>3
      <3>2. h \notin T
        BY <2>2, <3>1
      <3>3. Rank(h) < off
        BY <1>1, <1>6, <3>2
      <3>4. QED
        BY <1>8, <3>3
    <2>5. Rank(x) <= Cardinality(F)
      BY <1>6, <1>7, <2>3, <2>4, FS_Subset
    <2>6. off <= Rank(x) /\ Rank(x) < off + BatchSize
      BY <1>1, <1>6, <1>7, <2>3, <2>5
    <2>7. x \in Slice(Secret, off, BatchSize)
      BY <2>3, <2>6 DEF Slice, Rank
    <2>8. QED
      BY <2>7
  <1>10. QED
    BY <1>9

\* Only the job itself moves, in a step of a job.
LEMMA OneJobMoves ==
    ASSUME JobsShape, NEW k \in Slots, Request(k) \/ JobStep(k), NEW j \in Slots \ {k}
    PROVE  job'[j] = job[j]
  <1>1. \E kind, pc, C, o : Moves(k, kind, pc, C, o)
    <2>1. \/ \E pc : Goto(k, pc)
          \/ \E pc : End(k, pc)
          \/ \E pc, C : GotoWith(k, pc, C)
          \/ \E c, pc : Drop(k, c, pc)
          \/ \E kind : Start(k, kind)
          \/ ReencryptBatch(k) /\ ~Fail(k)
      <3>1. CASE Request(k)
        BY <3>1 DEF Request, StartReencrypt, StartMask, StartErase, StartArchive, StartRestore, StartReplay
      <3>2. CASE Fail(k)
        BY <3>2 DEF Fail
      <3>3. CASE ReencryptRow(k) \/ MaskFetch(k) \/ MaskRow(k) \/ EraseFetch(k) \/ EraseRow(k)
        BY <3>3, Zenon DEF ReencryptRow, MaskFetch, MaskRow, EraseFetch, EraseRow, Fail
      <3>4. CASE ArchiveSelect(k) \/ ArchivePut(k) \/ ArchiveDelete(k)
        BY <3>4, Zenon DEF ArchiveSelect, ArchivePut, ArchiveDelete, Fail
      <3>5. CASE RestoreFetch(k) \/ RestoreRow(k) \/ ReplayFetch(k) \/ ReplayRow(k)
        BY <3>5, Zenon DEF RestoreFetch, RestoreRow, ReplayFetch, ReplayRow, Fail
      <3>6. QED
        BY <3>1, <3>2, <3>3, <3>4, <3>5 DEF JobStep
    <2>2. ASSUME ReencryptBatch(k), ~Fail(k)
          PROVE  \E kind, pc, C, o : Moves(k, kind, pc, C, o)
      <3>1. PICK C, pc : job' = [job EXCEPT ![k].todo = C, ![k].offset = NextOffset(@), ![k].pc = pc]
        BY <2>2 DEF ReencryptBatch
      <3>2. job' = [job EXCEPT ![k].todo = C, ![k].offset = NextOffset(job[k].offset), ![k].pc = pc]
        BY <3>1 DEF JobsShape
      <3>3. PICK o : o = NextOffset(job[k].offset)
        OBVIOUS
      <3>4. job' = [job EXCEPT ![k].todo = C, ![k].offset = o, ![k].pc = pc]
        BY <3>2, <3>3
      <3>5. Moves(k, job[k].kind, pc, C, o)
        BY <3>4, MoveForms
      <3>6. QED
        BY <3>5
    <2>3. /\ \A pc : Goto(k, pc) => Moves(k, job[k].kind, pc, job[k].todo, job[k].offset)
          /\ \A pc : End(k, pc) => Moves(k, job[k].kind, pc, {}, 0)
          /\ \A pc, C : GotoWith(k, pc, C) => Moves(k, job[k].kind, pc, C, job[k].offset)
          /\ \A kind : Start(k, kind) => Moves(k, kind, "fetch", {}, 0)
      BY MoveForms
    <2>4. ASSUME NEW c, NEW pc, Drop(k, c, pc)
          PROVE  \E kind, q, C, o : Moves(k, kind, q, C, o)
      <3>1. PICK q, C : q = (IF job[k].todo \ {c} = {} THEN pc ELSE "rows") /\ C = job[k].todo \ {c}
        OBVIOUS
      <3>2. Moves(k, job[k].kind, q, C, job[k].offset)
        BY <2>4, <3>1, MoveForms
      <3>3. QED
        BY <3>2
    <2>5. QED
      BY <2>1, <2>2, <2>3, <2>4, Zenon
  <1>2. QED
    BY <1>1, MoveFacts

\* The promise of a re-encryption, from its invariant.
LEMMA RotationEnds ==
    ASSUME JobsInv, JobsNext, NEW j \in Slots, Step(j, "reencrypt", "fetch"), job'[j].pc = "done",
           j \notin shaken, NEW i \in RowId
    PROVE  rows'[i].data # "old"
  <1>1. JobsShape /\ RotationInv
    BY DEF JobsInv
  <1>2. job[j].kind = "reencrypt" /\ job[j].pc = "fetch" /\ Running(j)
    BY DEF Step, Running
  <1>3. job[j].todo = {} /\ job \in [Slots -> [kind : Kinds \cup {"none"}, pc : Phases,
                                       todo : SUBSET (Copies \cup Fetched), offset : Nat]]
    BY <1>1, <1>2 DEF JobsShape, Fits
  <1>4. job'[j] # job[j]
    BY <1>2
  <1>5. ~ (DeleteContract \/ StoreEvent)
    BY <1>4 DEF DeleteContract, StoreEvent
  <1>6. ~ Restart
    <2> SUFFICES ASSUME Restart
                 PROVE  FALSE
      OBVIOUS
    <2>1. job'[j] = [NoJob EXCEPT !.kind = job[j].kind, !.pc = "failed"]
      BY <1>2 DEF Restart
    <2>2. job'[j].pc = "failed"
      BY <2>1 DEF NoJob
    <2>3. QED
      BY <2>2
  <1>7. PICK k \in Slots : Request(k) \/ JobStep(k)
    BY <1>5, <1>6 DEF JobsNext
  <1>8. k = j
    BY <1>1, <1>4, <1>7, OneJobMoves
  <1>9. ~ Request(j)
    <2>1. \A x : Start(j, x) => job[j] = NoJob
      BY DEF Start
    <2>2. job[j] # NoJob
      BY <1>2 DEF NoJob
    <2>3. QED
      BY <2>1, <2>2 DEF Request, StartReencrypt, StartMask, StartErase, StartArchive, StartRestore, StartReplay
  <1>10. ReencryptBatch(j)
    BY <1>2, <1>7, <1>8, <1>9
       DEF JobStep, Step, ReencryptRow, MaskFetch, MaskRow, EraseFetch, EraseRow, ArchiveSelect, ArchivePut,
           ArchiveDelete, RestoreFetch, RestoreRow, ReplayFetch, ReplayRow
  <1>11. ~ Fail(j)
    <2> SUFFICES ASSUME Fail(j)
                 PROVE  FALSE
      OBVIOUS
    <2>1. Moves(j, job[j].kind, "failed", {}, 0)
      BY <1>1, MoveForms DEF Fail
    <2>2. QED
      BY <1>1, <2>1, MoveFacts
  <1> DEFINE B == Slice(Secret, job[j].offset, BatchSize)
             C == Snapshot(B)
             pc == IF B = {} THEN "done" ELSE "rows"
             o == NextOffset(job[j].offset)
  <1>12. rows' = rows /\ job' = [job EXCEPT ![j].todo = C, ![j].offset = NextOffset(@), ![j].pc = pc]
    BY <1>10, <1>11 DEF ReencryptBatch, Secret
  <1>13. job' = [job EXCEPT ![j].todo = C, ![j].offset = o, ![j].pc = pc]
    BY <1>3, <1>12
  <1>14. pc = "rows" \/ B = {}
    OBVIOUS
  <1> HIDE DEF pc, C, o
  <1>15. job'[j].pc = pc
    <2>1. Moves(j, job[j].kind, pc, C, o)
      BY <1>1, <1>13, MoveForms
    <2>2. QED
      BY <1>1, <2>1, MoveFacts
  <1>16. B = {}
    BY <1>14, <1>15
  <1>17. ASSUME rows[i].data = "old"
         PROVE  FALSE
    <2>1. i \in Secret
      BY <1>17 DEF Secret, Encrypted
    <2>2. i \in Ids(job[j].todo) \/ Rank(i) >= job[j].offset
      BY <1>1, <1>2, <1>17 DEF RotationInv
    <2>3. Rank(i) >= job[j].offset
      BY <1>3, <2>2 DEF Ids
    <2>4. QED
      BY <1>1, <1>16, <2>1, <2>3, BatchEnds
  <1>18. QED
    BY <1>12, <1>17
-----------------------------------------------------------------------------
(***************************************************************************)
(* The theorems.                                                           *)
(***************************************************************************)
LEMMA WalkKept ==
    ASSUME WalkInv, UNCHANGED pagesVars
    PROVE  WalkInv'
  <1>1. UNCHANGED <<ledgerOf, ordinalOf, walk, dir, table, stage, page, cursor, seen, steady, cuts, writes>>
    BY DEF pagesVars, columns
  <1>2. PagesTypeOK' /\ OrdinalsUnique'
    BY <1>1 DEF WalkInv, PagesTypeOK, OrdinalsUnique
  <1>3. RecentInv'
    BY <1>1 DEF WalkInv, RecentInv, RecentExact, Unseen, Behind, BeforeByKey, Ascends
  <1>4. LedgerInv'
    <2>1. CursorMissesExplained'
      BY <1>1 DEF WalkInv, LedgerInv, CursorMissesExplained, BeforeByKey, BeforeByOrdinal, Ascends
    <2>2. /\ \A r \in Row : Behind(r) <=> Behind(r)'
          /\ \A r \in Row : CutAfter(r) <=> CutAfter(r)'
          /\ \A r \in Row : CutBefore(r) <=> CutBefore(r)'
      BY <1>1 DEF Behind, CutAfter, CutBefore, BeforeByKey, BeforeByOrdinal, Ascends
    <2>3. QED
      BY <1>1, <2>1, <2>2 DEF WalkInv, LedgerInv, Unseen
  <1>5. ContractInv'
    <2>1. \A r \in table : RowsBefore(r)' = RowsBefore(r) /\ RowsUpTo(r)' = RowsUpTo(r)
      BY <1>1 DEF RowsBefore, RowsUpTo, Ascends
    <2>2. \A k : \A r \in table : Splits(k, r)' <=> Splits(k, r)
      BY <2>1 DEF Splits
    <2>3. QED
      BY <1>1, <2>1, <2>2 DEF WalkInv, ContractInv
  <1>6. QED
    BY <1>2, <1>3, <1>4, <1>5 DEF WalkInv

LEMMA JobsUnmoved ==
    ASSUME JobsInv, UNCHANGED jobsVars
    PROVE  JobsInv'
  <1>1. UNCHANGED <<chain, rows, file, stored, job, faults, erased, copied, requested, raced, replaced, shaken>>
    BY DEF jobsVars
  <1>2. UNCHANGED <<Present, InTable, Secret, Taken>> /\ \A i \in RowId : Rank(i)' = Rank(i)
    BY <1>1 DEF Present, InTable, Secret, Rank, Taken
  <1>3. JobsShape'
    BY <1>1 DEF JobsInv, JobsShape
  <1>4. IdsInv' /\ ArchiveInv'
    BY <1>1, <1>2 DEF JobsInv, IdsInv, ArchiveInv, Events
  <1>5. NothingLost' /\ EraseInv'
    BY <1>1, <1>2 DEF JobsInv, NothingLost, Events, EraseInv, Running
  <1>6. RotationInv'
    BY <1>1, <1>2 DEF JobsInv, RotationInv, Ids, Running
  <1>7. QED
    BY <1>3, <1>4, <1>5, <1>6 DEF JobsInv

LEMMA WalkStep ==
    ASSUME WalkInv, PagesNext
    PROVE  WalkInv'
  BY CursorStep, ContractStep, WriteStep DEF PagesNext, Page

\* The invariant of the events API holds in every state, for every table, page
\* limit and batch size and every number of writes, jobs and faults (the handlers
\* of /v1/events and /v1/admin, run_reencrypt_job, archive_date).
THEOREM ApiSafe == Spec => []ApiInv
  <1>1. Init => ApiInv
    BY WalkInit, JobsStart DEF Init, ApiInv
  <1>2. ApiInv /\ [Next]_vars => ApiInv'
    <2> SUFFICES ASSUME ApiInv, [Next]_vars
                 PROVE  ApiInv'
      OBVIOUS
    <2>1. user \in {"client", "admin"} /\ WalkInv /\ JobsInv
      BY DEF ApiInv
    <2>2. user' = user
      BY DEF Next, vars
    <2>3. \/ PagesNext /\ UNCHANGED jobsVars
          \/ JobsNext /\ UNCHANGED pagesVars
          \/ UNCHANGED pagesVars /\ UNCHANGED jobsVars
      BY DEF Next, vars
    <2>4. WalkInv' /\ JobsInv'
      BY <2>1, <2>3, WalkStep, WalkKept, JobsStep, JobsUnmoved
    <2>5. QED
      BY <2>1, <2>2, <2>4 DEF ApiInv
  <1>3. QED
    BY <1>1, <1>2, PTL DEF Spec

\* A walk keeps its types; a cursor it goes on from is that of a row at which a
\* page was cut (get_events, get_recent_events).
THEOREM WalkTypes == Spec => []PagesTypeOK
  <1>1. ApiInv => PagesTypeOK
    BY DEF ApiInv, WalkInv
  <1>2. QED
    BY <1>1, ApiSafe, PTL

\* A walk through /v1/events/recent returns no row twice, and every row that is
\* there all the time exactly once (get_recent_events).
THEOREM RecentWalksExact == Spec => []RecentExact
  <1>1. ApiInv => RecentExact
    BY DEF ApiInv, WalkInv, RecentInv, RecentExact
  <1>2. QED
    BY <1>1, ApiSafe, PTL

\* A walk through /v1/events by ledger misses or repeats a row only around a cut
\* where the order of the ordinals and the order of the ids disagree (get_events).
THEOREM CursorMissesAtCuts == Spec => []CursorMissesExplained
  <1>1. ApiInv => CursorMissesExplained
    BY DEF ApiInv, WalkInv, LedgerInv, CursorMissesExplained
  <1>2. QED
    BY <1>1, ApiSafe, PTL

\* While nothing is written, a walk by page numbers misses or repeats a row only
\* if a page ends inside its ledger (get_events_by_contract).
THEOREM ContractMissesAtSplits == Spec => []ContractMissesExplained
  <1>1. ApiInv => ContractMissesExplained
    BY ContractExplained DEF ApiInv
  <1>2. QED
    BY <1>1, ApiSafe, PTL

\* A stored event is in the table or in the archive file, or was deleted on
\* request, came between an archiver's SELECT and DELETE, or was in a file that
\* was replaced (archive_date).
THEOREM ArchivingLosesNothing == Spec => []NothingLost
  <1>1. ApiInv => NothingLost
    BY DEF ApiInv, JobsInv
  <1>2. QED
    BY <1>1, ApiSafe, PTL

\* An anonymised event is readable in the table again only if a copy was outside
\* the row, or it was fetched from the chain since (anonymize_event).
THEOREM ErasedStaysErased == Spec => []ErasureSticks
  <1>1. ApiInv => ErasureSticks
    BY DEF ApiInv, JobsInv, EraseInv, ErasureSticks, Present
  <1>2. QED
    BY <1>1, ApiSafe, PTL

\* A re-encryption that runs to its end leaves no row under the old key, unless
\* an encrypted row left or an old one came meanwhile, or a statement of it failed
\* (run_reencrypt_job).
THEOREM RotationLeavesNone == Spec => RotationComplete
  <1> DEFINE A == \A j \in Slots : Step(j, "reencrypt", "fetch") /\ job'[j].pc = "done" /\ j \notin shaken =>
                     \A i \in RowId : rows'[i].data # "old"
  <1>1. ApiInv /\ [Next]_vars => [A]_jobsVars
    <2> SUFFICES ASSUME ApiInv, [Next]_vars, ~ UNCHANGED jobsVars
                 PROVE  A
      OBVIOUS
    <2>1. JobsInv /\ JobsNext
      BY DEF ApiInv, Next, vars
    <2>2. QED
      BY <2>1, RotationEnds
  <1>2. QED
    BY <1>1, ApiSafe, PTL DEF Spec, RotationComplete
=============================================================================
