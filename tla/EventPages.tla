----------------------------- MODULE EventPages -----------------------------
(***************************************************************************)
(* A client walks through the events page by page while rows are stored    *)
(* and deleted: GET /v1/events (the first page by offset, the others by    *)
(* the cursor of the page before), GET /v1/events/recent (cursor) and      *)
(* GET /v1/events/contract/{id} (page numbers).                            *)
(*                                                                         *)
(* A row is its id: ids are random, so that the order of ids says nothing  *)
(* about the order in which rows were stored.  The three TOID columns      *)
(* tx_index, op_index and event_index are one ordinal, unique in a ledger, *)
(* or NULL in all three (rows the replay job stores).                      *)
(***************************************************************************)
EXTENDS Naturals, FiniteSets, FiniteSetsExt

CONSTANTS
    Row,         \* the ids, numbers
    Ledgers,     \* the ledgers of the rows
    Ordinals,    \* the ordinals of the rows of a ledger
    PageLimit,   \* the limit parameter, clamped to at least 1
    MaxWrites    \* bound: rows stored and deleted during the walk

Null == 0

ASSUME PagesAssumption ==
    /\ Row \subseteq Nat /\ IsFiniteSet(Row)
    /\ Ledgers \subseteq Nat /\ Ledgers # {} /\ Ordinals \subseteq Nat \ {Null}
    /\ PageLimit \in Nat \ {0} /\ MaxWrites \in Nat

\* The endpoint and its sort_by parameter.
Walks == {"ledger", "timestamp", "recent", "contract"}

VARIABLES
    ledgerOf, ordinalOf,  \* the columns of the rows
    table,    \* the rows that are stored
    walk,     \* the walk the client makes
    dir,      \* its sort parameter
    stage,    \* "first", "next", "done" or "refused"
    page,     \* the page parameter of the next request
    cursor,   \* the row whose columns the last cursor encodes
    seen,     \* how often the client got a row: 0, 1 or 2 for more than once
    \* history
    steady,   \* rows stored before the walk and never deleted
    cuts,     \* rows at which a page was cut and a cursor was given
    writes    \* rows stored and deleted during the walk

columns == <<ledgerOf, ordinalOf, walk, dir>>
pagesVars == <<columns, table, stage, page, cursor, seen, steady, cuts, writes>>

PagesTypeOK ==
    /\ ledgerOf \in [Row -> Ledgers] /\ ordinalOf \in [Row -> Ordinals \cup {Null}]
    /\ table \subseteq Row /\ steady \subseteq table
    /\ walk \in Walks /\ dir \in {"asc", "desc"}
    /\ stage \in {"first", "next", "done", "refused"}
    /\ page \in Nat \ {0}
    /\ cursor \in Row \cup {Null} /\ (stage = "next" /\ walk # "contract" => cursor \in cuts)
    /\ seen \in [Row -> 0..2]
    /\ cuts \subseteq Row
    /\ writes \in 0..MaxWrites

\* Only the cursor query reads the ordinals.
PagesInit ==
    /\ ledgerOf \in [Row -> Ledgers]
    /\ ordinalOf \in [Row -> Ordinals \cup {Null}]
    /\ \A r, q \in Row : r # q /\ ledgerOf[r] = ledgerOf[q] /\ ordinalOf[r] = ordinalOf[q] => ordinalOf[r] = Null
    /\ table \in {S \in SUBSET Row : Cardinality(Row \ S) <= MaxWrites}
    /\ walk \in Walks
    /\ walk # "ledger" => \A r \in Row : ordinalOf[r] = Null
    /\ dir \in IF walk = "recent" THEN {"desc"} ELSE {"asc", "desc"}
    /\ stage = "first" /\ page = 1 /\ cursor = Null
    /\ seen = [r \in Row |-> 0]
    /\ steady = table /\ cuts = {} /\ writes = 0

\* No walk at all.
PagesIdle ==
    /\ ledgerOf = [r \in Row |-> CHOOSE l \in Ledgers : TRUE] /\ ordinalOf = [r \in Row |-> Null]
    /\ table = {} /\ walk = "recent" /\ dir = "desc"
    /\ stage = "done" /\ page = 1 /\ cursor = Null
    /\ seen = [r \in Row |-> 0]
    /\ steady = {} /\ cuts = {} /\ writes = 0

-----------------------------------------------------------------------------
(***************************************************************************)
(* Orders                                                                  *)
(***************************************************************************)
Ascends(x, y) == IF dir = "asc" THEN x < y ELSE x > y

\* ORDER BY ledger, id: the offset query and /recent.  A ledger has one close
\* time, so that this is the order by timestamp and id as well.
BeforeByKey(r, q) ==
    \/ Ascends(ledgerOf[r], ledgerOf[q])
    \/ ledgerOf[r] = ledgerOf[q] /\ Ascends(r, q)

\* ORDER BY ledger, the TOID columns NULLS LAST, id: the cursor query.
BeforeByOrdinal(r, q) ==
    \/ Ascends(ledgerOf[r], ledgerOf[q])
    \/ /\ ledgerOf[r] = ledgerOf[q]
       /\ \/ ordinalOf[r] # Null /\ ordinalOf[q] = Null
          \/ ordinalOf[r] # Null /\ ordinalOf[q] # Null /\ Ascends(ordinalOf[r], ordinalOf[q])
          \/ ordinalOf[r] = Null /\ ordinalOf[q] = Null /\ Ascends(r, q)

\* Seeded bug: the row of the cursor is on the next page again.
PastOrAt(r) == r = cursor \/ BeforeByKey(cursor, r)
\* Seeded bug: the cursor compares ledgers only.
PastLedger(r) == Ascends(ledgerOf[cursor], ledgerOf[r])
\* WHERE (ledger, id) < (cursor), or > when ascending.
Past(r) == BeforeByKey(cursor, r)

\* The two orders as relations.
ByKey == {x \in Row \X Row : BeforeByKey(x[1], x[2])}
ByOrdinal == {x \in Row \X Row : BeforeByOrdinal(x[1], x[2])}

\* The first n rows of S in an order, and the last of them.
FirstRows(S, n, order) == {r \in S : Cardinality({q \in S : <<q, r>> \in order}) < n}
LastRow(S, order) == CHOOSE r \in S : \A q \in S \ {r} : <<q, r>> \in order

\* Seeded bug: the first page has number zero.
OffsetNext(n) == n * PageLimit
\* The offset of a page number.
Offset(n) == (n - 1) * PageLimit

\* LIMIT and OFFSET under ORDER BY ledger alone: the rows of a ledger come in
\* any order, and in another one at the next request.
LedgerClosed(Q) == \A r \in Q : \A q \in table : Ascends(ledgerOf[q], ledgerOf[r]) => q \in Q
OffsetPages(off) ==
    {P \in SUBSET table :
        /\ Cardinality(P) = Min({PageLimit, IF Cardinality(table) > off THEN Cardinality(table) - off ELSE 0})
        /\ \E Q \in SUBSET (table \ P) :
              /\ Cardinality(Q) = Min({off, Cardinality(table)})
              /\ LedgerClosed(Q) /\ LedgerClosed(Q \cup P)}

-----------------------------------------------------------------------------
(***************************************************************************)
(* Pages                                                                   *)
(***************************************************************************)
Got(P) == [r \in Row |-> IF r \in P THEN Min({seen[r] + 1, 2}) ELSE seen[r]]

\* The response ends the walk, or has the cursor of its last row.
GiveNone == stage' = "done" /\ UNCHANGED <<cursor, cuts>>
GiveCursor(r) == stage' = "next" /\ cursor' = r /\ cuts' = cuts \cup {r}

\* A full page has a next_cursor, whether or not rows follow.
Respond(P, order) ==
    /\ seen' = Got(P)
    /\ IF Cardinality(P) = PageLimit THEN GiveCursor(LastRow(P, order)) ELSE GiveNone

Idle == UNCHANGED <<columns, table, steady, writes>>

EventsFirst ==
    /\ walk \in {"ledger", "timestamp"} /\ stage = "first"
    /\ Respond(FirstRows(table, PageLimit, ByKey), ByKey)
    /\ UNCHANGED page /\ Idle

EventsNext ==
    /\ walk = "ledger" /\ stage = "next"
    /\ Respond(FirstRows({r \in table : Past(r)}, PageLimit, ByOrdinal), ByOrdinal)
    /\ UNCHANGED page /\ Idle

\* A cursor by timestamp or created_at: the value has colons of its own, so
\* that splitting the cursor in three leaves no id in the third part.
EventsRefused ==
    /\ walk = "timestamp" /\ stage = "next"
    /\ stage' = "refused"
    /\ UNCHANGED <<page, cursor, seen, cuts>> /\ Idle

\* /recent asks for one row more than it returns.
Ahead == IF stage = "first" THEN table ELSE {r \in table : Past(r)}
Returned(P) == FirstRows(P, PageLimit, ByKey)
\* Seeded bug: the cursor is that of the extra row.
NextCursorExtra(P) == LastRow(P, ByKey)
NextCursor(P) == LastRow(Returned(P), ByKey)

Recent ==
    /\ walk = "recent" /\ stage \in {"first", "next"}
    /\ LET P == FirstRows(Ahead, PageLimit + 1, ByKey)
       IN  /\ seen' = Got(Returned(P))
           /\ IF Cardinality(P) > PageLimit THEN GiveCursor(NextCursor(P)) ELSE GiveNone
    /\ UNCHANGED page /\ Idle

\* The client asks for page after page until there is none (404).
ByContract ==
    /\ walk = "contract" /\ stage \in {"first", "next"}
    /\ \E P \in OffsetPages(Offset(page)) :
          /\ seen' = Got(P)
          /\ stage' = IF P = {} THEN "done" ELSE "next"
    /\ page' = page + 1
    /\ UNCHANGED <<cursor, cuts>> /\ Idle

Page == EventsFirst \/ EventsNext \/ EventsRefused \/ Recent \/ ByContract

-----------------------------------------------------------------------------
(***************************************************************************)
(* The rest of the world                                                   *)
(***************************************************************************)
Write == stage \in {"first", "next"} /\ writes < MaxWrites /\ writes' = writes + 1

StoreRow ==
    /\ Write
    /\ \E r \in Row \ table : seen[r] = 0 /\ table' = table \cup {r}
    /\ UNCHANGED <<columns, stage, page, cursor, seen, steady, cuts>>

DeleteRow ==
    /\ Write
    /\ \E r \in table : table' = table \ {r} /\ steady' = steady \ {r}
    /\ UNCHANGED <<columns, stage, page, cursor, seen, cuts>>

PagesNext == Page \/ StoreRow \/ DeleteRow

-----------------------------------------------------------------------------
(***************************************************************************)
(* Properties                                                              *)
(***************************************************************************)
\* A walk through /v1/events/recent returns every row that is there all the
\* time exactly once, and no row twice, whatever is stored and deleted
\* meanwhile (get_recent_events).
RecentExact ==
    walk = "recent" =>
        /\ \A r \in Row : seen[r] <= 1
        /\ stage = "done" => \A r \in steady : seen[r] = 1

\* A cursor walk through /v1/events by ledger misses a row, or repeats one, only
\* where the order of the ordinals and the order of the ids disagree around a
\* row at which a page was cut: the cursor compares (ledger, id), the page is
\* in the order of the ordinals (get_events).
CursorMissesExplained ==
    walk = "ledger" =>
        /\ \A r \in Row : seen[r] > 1 => \E c \in cuts : BeforeByOrdinal(r, c) /\ BeforeByKey(c, r)
        /\ stage = "done" =>
              \A r \in steady : seen[r] = 0 => \E c \in cuts : BeforeByOrdinal(c, r) /\ BeforeByKey(r, c)

\* The number of rows before the ledger of a row and up to its end.
RowsBefore(r) == Cardinality({q \in table : Ascends(ledgerOf[q], ledgerOf[r])})
RowsUpTo(r) == RowsBefore(r) + Cardinality({q \in table : ledgerOf[q] = ledgerOf[r]})

\* While nothing is written, a walk by page numbers misses or repeats a row only
\* if a page boundary falls inside its ledger, whose rows have no order
\* (get_events_by_contract orders by ledger alone).
ContractMissesExplained ==
    walk = "contract" /\ writes = 0 /\ stage = "done" =>
        \A r \in table : seen[r] # 1 =>
            \E k \in 1..page : RowsBefore(r) < k * PageLimit /\ k * PageLimit < RowsUpTo(r)
=============================================================================
