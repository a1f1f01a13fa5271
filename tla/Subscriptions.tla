--------------------------- MODULE Subscriptions ---------------------------
(***************************************************************************)
(* Subscriptions and their delivery queue: the handlers of                 *)
(* src/src/subscriptions.rs and the two workers the process starts,        *)
(* run_email_delivery_worker and run_push_delivery_worker                  *)
(* (src/src/push_notification.rs).  Every replica runs both workers over   *)
(* the same tables, no worker claims the rows it selects, and the handlers *)
(* issue their statements one by one without a transaction.                *)
(*                                                                         *)
(* A subscription bears the name of the request that created it.           *)
(***************************************************************************)
EXTENDS Integers, FiniteSets

CONSTANTS
    Requests,    \* POST /subscriptions requests, in the order of the ids they create
    Keys,        \* Idempotency-Key values
    KeyOf,       \* the key of a request, or NoKey
    NoKey,
    Events,
    LedgerOf,    \* the ledger of an event
    Early,       \* events stored before the first request
    Froms,       \* from_ledger values clients ask for
    Mailers,     \* email workers, one per replica
    Pushers,     \* push workers, one per replica
    Addresses,   \* e-mail addresses
    Tokens,      \* push tokens
    Refusing,    \* those of both to which every send fails
    DailyLimit,  \* EMAIL_DAILY_LIMIT
    PageSize,    \* the LIMIT of the workers' SELECT
    MaxChanges,  \* bound: requests about existing subscriptions
    MaxFaults    \* bound: failed statements, failed sends, crashes

ASSUME SubscriptionsAssumption ==
    /\ Requests \subseteq Nat /\ IsFiniteSet(Requests)
    /\ NoKey \notin Keys /\ KeyOf \in [Requests -> Keys \cup {NoKey}]
    /\ LedgerOf \in [Events -> Nat \ {0}] /\ IsFiniteSet(Events)
    /\ Early \subseteq Events /\ Froms \subseteq Nat
    /\ Mailers \cap Pushers = {} /\ Addresses \cap Tokens = {}
    /\ Refusing \subseteq Addresses \cup Tokens
    /\ DailyLimit \in Nat \ {0} /\ PageSize \in Nat \ {0}
    /\ MaxChanges \in Nat /\ MaxFaults \in Nat

Workers == Mailers \cup Pushers
Ledgers == {LedgerOf[e] : e \in Events}
Nobody == -1    \* no subscription
NoLedger == 0
Off == "off"    \* the channel is disabled
NoRow == [sub |-> Nobody]

VARIABLES
    stored,   \* events in the events table
    phase,    \* a request: the statement it comes to next, or its outcome
    reply,    \* the subscription a request answered with
    cached,   \* idempotency_keys: the answer kept for a key
    stale,    \* keys whose answer is older than 24 hours
    status,   \* a subscription: "none", "active" or "cancelled"
    from,     \* from_ledger
    acked,    \* acked_ledger
    email,    \* email_address while email_enabled
    push,     \* push_token while push_enabled
    queue,    \* delivery_queue: the status of a subscription's row for an event
    acking,   \* the ledger of an ack between its two UPDATEs
    count,    \* email_send_counters: today's sends to an address, capped at the limit
    batch,    \* a worker: rows selected and not handled yet
    item,     \* the row in hand
    step,     \* "idle", "send" or "mark"
    dead,     \* tokens the push service no longer knows
    changes, faults,
    seen,     \* history: events stored when the request began
    forgotten, \* history: requests answered whose answer is no longer kept, or never was
    earlier,  \* history: requests whose answer was kept when the request began
    ackOK,    \* history: highest ledger whose ack was answered
    sentBy,   \* history: <<worker, subscription, event>> that went out
    lost      \* history: those of them whose mark was lost

requestVars == <<phase, reply, cached, stale, forgotten, seen, earlier>>
subVars == <<status, from, acked, email, push>>
workerVars == <<count, batch, item, step, dead>>
history == <<ackOK, sentBy, lost>>
vars == <<stored, requestVars, subVars, queue, acking, workerVars, changes, faults, history>>

Row == [sub : Requests, event : Events, to : Addresses \cup Tokens]
Outcomes == {"created", "replayed", "failed"}

TypeOK ==
    /\ stored \subseteq Events
    /\ phase \in [Requests -> {"new", "enqueue", "store"} \cup Outcomes]
    /\ reply \in [Requests -> Requests \cup {Nobody}]
    /\ cached \in [Keys -> Requests \cup {Nobody}]
    /\ stale \subseteq Keys /\ forgotten \subseteq Requests
    /\ status \in [Requests -> {"none", "active", "cancelled"}]
    /\ from \in [Requests -> Froms \cup {NoLedger}]
    /\ acked \in [Requests -> Ledgers \cup {NoLedger}]
    /\ email \in [Requests -> Addresses \cup {Off}]
    /\ push \in [Requests -> Tokens \cup {Off}]
    /\ queue \in [Requests -> [Events -> {"none", "pending", "delivered"}]]
    /\ acking \in [Requests -> Ledgers \cup {NoLedger}]
    /\ count \in [Addresses -> 0..DailyLimit]
    /\ batch \in [Workers -> SUBSET Row]
    /\ item \in [Workers -> Row \cup {NoRow}]
    /\ step \in [Workers -> {"idle", "send", "mark"}]
    /\ dead \subseteq Tokens
    /\ changes \in 0..MaxChanges /\ faults \in 0..MaxFaults
    /\ seen \in [Requests -> SUBSET Events] /\ earlier \in [Requests -> SUBSET Requests]
    /\ ackOK \in [Requests -> Ledgers \cup {NoLedger}]
    /\ sentBy \subseteq Workers \X Requests \X Events /\ lost \subseteq sentBy

Init ==
    /\ stored = Early
    /\ phase = [r \in Requests |-> "new"] /\ reply = [r \in Requests |-> Nobody]
    /\ cached = [k \in Keys |-> Nobody] /\ stale = {} /\ forgotten = {}
    /\ status = [r \in Requests |-> "none"]
    /\ from = [r \in Requests |-> NoLedger] /\ acked = [r \in Requests |-> NoLedger]
    /\ email = [r \in Requests |-> Off] /\ push = [r \in Requests |-> Off]
    /\ queue = [r \in Requests |-> [e \in Events |-> "none"]]
    /\ acking = [r \in Requests |-> NoLedger]
    /\ count = [a \in Addresses |-> 0]
    /\ batch = [w \in Workers |-> {}] /\ item = [w \in Workers |-> NoRow]
    /\ step = [w \in Workers |-> "idle"]
    /\ dead = {} /\ changes = MaxChanges /\ faults = MaxFaults
    /\ seen = [r \in Requests |-> {}] /\ earlier = [r \in Requests |-> {}]
    /\ ackOK = [r \in Requests |-> NoLedger]
    /\ sentBy = {} /\ lost = {}

-----------------------------------------------------------------------------
(***************************************************************************)
(* The environment.                                                        *)
(***************************************************************************)
\* The indexer stores an event.  It does not call enqueue_event, so that events
\* stored after the last request has filled its queue concern nothing here.
Index(e) ==
    /\ e \notin stored /\ stored' = stored \cup {e}
    /\ \E r \in Requests : phase[r] \in {"new", "enqueue"}
    /\ UNCHANGED <<requestVars, subVars, queue, acking, workerVars, changes, faults, history>>

Fault == faults > 0 /\ faults' = faults - 1

\* The counters are kept per address and CURRENT_DATE.
NewDay ==
    /\ count' = [a \in Addresses |-> 0]
    /\ UNCHANGED <<stored, requestVars, subVars, queue, acking, batch, item, step, dead,
                   changes, faults, history>>

\* The push service forgets a token (it is not asked about the refusing ones).
Expire(t) ==
    /\ t \notin dead \cup Refusing
    /\ Fault /\ dead' = dead \cup {t}
    /\ UNCHANGED <<stored, requestVars, subVars, queue, acking, count, batch, item, step,
                   changes, history>>

-----------------------------------------------------------------------------
(***************************************************************************)
(* create_subscription.                                                    *)
(***************************************************************************)
Answered(r) == phase[r] \in {"created", "replayed"}
Answers(k) == {q \in Requests : Answered(q) /\ KeyOf[q] = k}

\* A kept answer comes of age: DEFAULT_TTL, 24 hours.
Lapse(k) ==
    /\ cached[k] # Nobody /\ k \notin stale
    /\ \E r \in Requests : KeyOf[r] = k /\ phase[r] = "new"    \* else it concerns nobody
    /\ stale' = stale \cup {k}
    /\ forgotten' = forgotten \cup Answers(k)
    /\ UNCHANGED <<stored, phase, reply, cached, seen, earlier, subVars, queue, acking,
                   workerVars, changes, faults, history>>

\* remove_expired: DELETE FROM idempotency_keys WHERE created_at < cutoff.
Purge(k) ==
    /\ k \in stale
    /\ stale' = stale \ {k}
    /\ cached' = [cached EXCEPT ![k] = Nobody]
    /\ UNCHANGED <<stored, phase, reply, forgotten, seen, earlier, subVars, queue, acking,
                   workerVars, changes, faults, history>>

\* Seeded bug: the answer is kept before the queue is filled.
ThenSwapped(p) == CASE p = "insert" -> "store" [] p = "store" -> "enqueue" [] p = "enqueue" -> "created"

\* The statements in their order.
Then(p) == CASE p = "insert" -> "enqueue" [] p = "enqueue" -> "store" [] p = "store" -> "created"

Goes(r, p) ==
    /\ phase' = [phase EXCEPT ![r] = p]
    /\ reply' = [reply EXCEPT ![r] = IF p = "created" THEN r ELSE @]

\* An answer of age counts as absent.
Kept(r) == IF KeyOf[r] \in Keys \ stale THEN cached[KeyOf[r]] ELSE Nobody

\* idempotency::lookup: an answer kept for the key is replayed.
Replay(r) ==
    /\ phase[r] = "new" /\ Kept(r) # Nobody
    /\ phase' = [phase EXCEPT ![r] = "replayed"]
    /\ reply' = [reply EXCEPT ![r] = Kept(r)]
    /\ UNCHANGED <<stored, cached, stale, forgotten, seen, earlier, subVars, queue, acking,
                   workerVars, changes, faults, history>>

\* No answer is kept: INSERT INTO subscriptions.
Insert(r, l) ==
    /\ phase[r] = "new" /\ Kept(r) = Nobody
    /\ status' = [status EXCEPT ![r] = "active"]
    /\ from' = [from EXCEPT ![r] = l]
    /\ seen' = [seen EXCEPT ![r] = stored]
    /\ earlier' = [earlier EXCEPT ![r] = {q \in Requests : Answered(q)} \ forgotten]
    /\ Goes(r, Then("insert"))
    /\ UNCHANGED <<stored, cached, stale, forgotten, acked, email, push, queue, acking, workerVars,
                   changes, faults, history>>

\* INSERT INTO delivery_queue SELECT ... FROM events WHERE ledger >= from_ledger.
Enqueue(r) ==
    /\ phase[r] = "enqueue"
    /\ queue' = [queue EXCEPT ![r] = [e \in Events |->
                    IF e \in stored /\ LedgerOf[e] >= from[r] THEN "pending" ELSE @[e]]]
    /\ Goes(r, Then("enqueue"))
    /\ UNCHANGED <<stored, cached, stale, forgotten, seen, earlier, subVars, acking, workerVars,
                   changes, faults, history>>

\* Seeded bug: the answer is not kept.
KeepNothing(r) == UNCHANGED cached

\* ON CONFLICT (key) DO NOTHING: the row of the first answer stays, of age or not.
Keep(r) ==
    cached' = [k \in Keys |-> IF k = KeyOf[r] /\ cached[k] = Nobody THEN r ELSE cached[k]]

\* idempotency::store and the answer.
Store(r) ==
    /\ phase[r] = "store" /\ Keep(r) /\ Goes(r, Then("store"))
    /\ forgotten' = IF KeyOf[r] \in stale THEN forgotten \cup {r} ELSE forgotten
    /\ UNCHANGED <<stored, stale, seen, earlier, subVars, queue, acking, workerVars, changes, faults, history>>

\* A statement fails (or the process dies): what was done stays.
Abandon(r) ==
    /\ phase[r] \in {"new", "enqueue", "store"}
    /\ Fault /\ phase' = [phase EXCEPT ![r] = "failed"]
    /\ UNCHANGED <<stored, reply, cached, stale, forgotten, seen, earlier, subVars, queue, acking,
                   workerVars, changes, history>>

-----------------------------------------------------------------------------
(***************************************************************************)
(* Requests about a subscription, by a client that knows its id.           *)
(***************************************************************************)
Known(r) == \E q \in Requests : reply[q] = r

Ask(r) == Known(r) /\ changes > 0 /\ changes' = changes - 1

\* cancel_subscription.
Cancel(r) ==
    /\ Ask(r) /\ status[r] = "active"
    /\ status' = [status EXCEPT ![r] = "cancelled"]
    /\ UNCHANGED <<stored, requestVars, from, acked, email, push, queue, acking, workerVars,
                   faults, history>>

\* update_subscription_email.
SetEmail(r, a) ==
    /\ Ask(r) /\ status[r] = "active" /\ email' = [email EXCEPT ![r] = a]
    /\ UNCHANGED <<stored, requestVars, status, from, acked, push, queue, acking, workerVars,
                   faults, history>>

\* update_subscription_push.
SetPush(r, t) ==
    /\ Ask(r) /\ status[r] = "active" /\ push' = [push EXCEPT ![r] = t]
    /\ UNCHANGED <<stored, requestVars, status, from, acked, email, queue, acking, workerVars,
                   faults, history>>

\* ack_subscription, first UPDATE: forward only, and only while active.
AckAdvance(r, l) ==
    /\ Ask(r) /\ acking[r] = NoLedger
    /\ acked' = [acked EXCEPT ![r] = IF status[r] = "active" /\ @ < l THEN l ELSE @]
    /\ acking' = [acking EXCEPT ![r] = l]
    /\ UNCHANGED <<stored, requestVars, status, from, email, push, queue, workerVars,
                   faults, history>>

\* Seeded bug: a cancelled or overtaken ack leaves the queue alone.
AckedRowsAdvancing(r) == {e \in Events : LedgerOf[e] <= acking[r] /\ acking[r] = acked[r]}

\* The rows an ack settles.
AckedRows(r) == {e \in Events : LedgerOf[e] <= acking[r]}

\* Second UPDATE: pending rows up to the ledger are done, whatever the first one did.
AckMark(r) ==
    /\ acking[r] # NoLedger
    /\ queue' = [queue EXCEPT ![r] = [e \in Events |->
                    IF @[e] = "pending" /\ e \in AckedRows(r) THEN "delivered" ELSE @[e]]]
    /\ ackOK' = [ackOK EXCEPT ![r] = IF @ < acking[r] THEN acking[r] ELSE @]
    /\ acking' = [acking EXCEPT ![r] = NoLedger]
    /\ UNCHANGED <<stored, requestVars, subVars, workerVars, changes, faults, sentBy, lost>>

AckAbandon(r) ==
    /\ acking[r] # NoLedger /\ Fault
    /\ acking' = [acking EXCEPT ![r] = NoLedger]
    /\ UNCHANGED <<stored, requestVars, subVars, queue, workerVars, changes, history>>

-----------------------------------------------------------------------------
(***************************************************************************)
(* The workers.                                                            *)
(***************************************************************************)
Target(w, r) == IF w \in Mailers THEN email[r] ELSE push[r]

\* Seeded bug: the row's status is not looked at.
PendingAny(r) == {e \in Events : queue[r][e] # "none"}

Pending(r) == {e \in Events : queue[r][e] = "pending"}

\* Subscriptions the worker's SELECT joins with a pending row.
Eligible(w) == {r \in Requests : status[r] = "active" /\ Target(w, r) # Off /\ Pending(r) # {}}

\* LIMIT, ORDER BY s.id.
FirstPage(subs) == {r \in subs : Cardinality({q \in subs : q < r}) < PageSize}

\* DISTINCT ON (s.id) ... ORDER BY dq.ledger ASC: one row per subscription.
Oldest(r) == {e \in Pending(r) : \A d \in Pending(r) : LedgerOf[e] <= LedgerOf[d]}

\* A tick: the rows are read, and no lock on them is kept.
Select(w) ==
    /\ step[w] = "idle" /\ batch[w] = {}
    /\ LET page == FirstPage(Eligible(w)) IN
       /\ page # {}
       /\ \E pick \in [page -> Events] :
            /\ \A r \in page : pick[r] \in Oldest(r)
            /\ batch' = [batch EXCEPT ![w] =
                  {[sub |-> r, event |-> pick[r], to |-> Target(w, r)] : r \in page}]
    /\ UNCHANGED <<stored, requestVars, subVars, queue, acking, count, item, step, dead,
                   changes, faults, history>>

\* The rows are handled in the order they were read.
IsNext(w, row) == row \in batch[w] /\ \A other \in batch[w] : row.sub <= other.sub

\* check_and_increment_email_rate_limit, after the increment.
Allowed(a) == count[a] + 1 <= DailyLimit

\* The counter goes up whether or not the send is allowed.
TakeMail(w, row) ==
    /\ w \in Mailers /\ step[w] = "idle" /\ IsNext(w, row)
    /\ batch' = [batch EXCEPT ![w] = @ \ {row}]
    /\ count' = [count EXCEPT ![row.to] = IF @ < DailyLimit THEN @ + 1 ELSE @]
    /\ item' = [item EXCEPT ![w] = IF Allowed(row.to) THEN row ELSE NoRow]
    /\ step' = [step EXCEPT ![w] = IF Allowed(row.to) THEN "send" ELSE "idle"]
    /\ UNCHANGED <<stored, requestVars, subVars, queue, acking, dead, changes, faults, history>>

TakePush(w, row) ==
    /\ w \in Pushers /\ step[w] = "idle" /\ IsNext(w, row)
    /\ batch' = [batch EXCEPT ![w] = @ \ {row}]
    /\ item' = [item EXCEPT ![w] = row]
    /\ step' = [step EXCEPT ![w] = "send"]
    /\ UNCHANGED <<stored, requestVars, subVars, queue, acking, count, dead, changes, faults, history>>

Rest(w) == item' = [item EXCEPT ![w] = NoRow] /\ step' = [step EXCEPT ![w] = "idle"]

\* The counter cannot be raised: the row is passed over.
CheckFails(w, row) ==
    /\ w \in Mailers /\ step[w] = "idle" /\ IsNext(w, row) /\ Fault
    /\ batch' = [batch EXCEPT ![w] = @ \ {row}]
    /\ UNCHANGED <<stored, requestVars, subVars, queue, acking, count, item, step, dead,
                   changes, history>>

\* The message is accepted.
Send(w) ==
    /\ step[w] = "send" /\ item[w].to \notin dead \cup Refusing
    /\ sentBy' = sentBy \cup {<<w, item[w].sub, item[w].event>>}
    /\ step' = [step EXCEPT ![w] = "mark"]
    /\ UNCHANGED <<stored, requestVars, subVars, queue, acking, count, batch, item, dead,
                   changes, faults, ackOK, lost>>

\* Seeded bug: a failed send is marked too.
AfterFailureMark(w) == step' = [step EXCEPT ![w] = "mark"] /\ UNCHANGED item

\* A failed send is logged; the row stays pending.
AfterFailure(w) == Rest(w)

SendFails(w) ==
    /\ step[w] = "send" /\ Fault /\ AfterFailure(w)
    /\ UNCHANGED <<stored, requestVars, subVars, queue, acking, count, batch, dead, changes, history>>

\* A send that can only fail: the provider is not configured, its JWT cannot be
\* signed, the mail server refuses the address.  Nothing counts the attempts.
Refused(w) ==
    /\ step[w] = "send" /\ item[w].to \in Refusing /\ AfterFailure(w)
    /\ UNCHANGED <<stored, requestVars, subVars, queue, acking, count, batch, dead, changes,
                   faults, history>>

\* Seeded bug: a rejected token stays.
ClearTokenNever(r) == UNCHANGED push

\* SET push_token = NULL, push_enabled = false WHERE id = $1, whatever token is there now.
ClearToken(r) == push' = [push EXCEPT ![r] = Off]

\* The push service rejects the token.
Reject(w) ==
    /\ step[w] = "send" /\ item[w].to \in dead \ Refusing
    /\ ClearToken(item[w].sub) /\ Rest(w)
    /\ UNCHANGED <<stored, requestVars, status, from, acked, email, queue, acking, count, batch,
                   dead, changes, faults, history>>

\* UPDATE delivery_queue SET status = 'delivered'.
Mark(w) ==
    /\ step[w] = "mark"
    /\ queue' = [queue EXCEPT ![item[w].sub][item[w].event] = "delivered"]
    /\ Rest(w)
    /\ UNCHANGED <<stored, requestVars, subVars, acking, count, batch, dead, changes, faults, history>>

MarkLost(w) ==
    lost' = IF step[w] = "mark" THEN lost \cup {<<w, item[w].sub, item[w].event>>} ELSE lost

\* The UPDATE's error is ignored.
MarkFails(w) ==
    /\ step[w] = "mark" /\ Fault /\ Rest(w) /\ MarkLost(w)
    /\ UNCHANGED <<stored, requestVars, subVars, queue, acking, count, batch, dead, changes,
                   ackOK, sentBy>>

\* The replica dies and starts again.
Crash(w) ==
    /\ Fault /\ batch' = [batch EXCEPT ![w] = {}] /\ Rest(w) /\ MarkLost(w)
    /\ UNCHANGED <<stored, requestVars, subVars, queue, acking, count, dead, changes,
                   ackOK, sentBy>>

-----------------------------------------------------------------------------
Work(w) ==
    \/ Select(w) \/ Send(w) \/ Refused(w) \/ Reject(w) \/ Mark(w)
    \/ \E row \in batch[w] : TakeMail(w, row) \/ TakePush(w, row)

Next ==
    \/ \E e \in Events : Index(e)
    \/ NewDay \/ \E t \in Tokens : Expire(t)
    \/ \E k \in Keys : Lapse(k) \/ Purge(k)
    \/ \E r \in Requests :
          \/ Replay(r) \/ Enqueue(r) \/ Store(r) \/ Abandon(r)
          \/ \E l \in Froms : Insert(r, l)
          \/ \E l \in Ledgers : AckAdvance(r, l)
          \/ Cancel(r) \/ AckMark(r) \/ AckAbandon(r)
          \/ \E a \in Addresses \cup {Off} : SetEmail(r, a)
          \/ \E t \in Tokens \cup {Off} : SetPush(r, t)
    \/ \E w \in Workers :
          \/ Work(w) \/ SendFails(w) \/ MarkFails(w) \/ Crash(w)
          \/ \E row \in batch[w] : CheckFails(w, row)

Spec == Init /\ [][Next]_vars

\* The workers' tickers go on, sends end, days pass.  No client has to do anything.
Fairness == WF_vars(NewDay) /\ \A w \in Workers : WF_vars(Work(w))

FairSpec == Spec /\ Fairness

-----------------------------------------------------------------------------
(***************************************************************************)
(* Properties                                                              *)
(***************************************************************************)

Sent == {<<x[2], x[3]>> : x \in sentBy}

\* A row leaves the queue only because some channel sent its event or because
\* the client acked its ledger: no failed send, lost mark or crash of either
\* worker takes a row out.
DeliveredExplained ==
    \A r \in Requests, e \in Events : queue[r][e] = "delivered" =>
        <<r, e>> \in Sent \/ LedgerOf[e] <= ackOK[r]

\* After an ack was answered no row up to its ledger is pending, even if an
\* earlier ack of the same ledger failed half way or the ack is an old one.
AckSettles ==
    \A r \in Requests, e \in Events :
        queue[r][e] = "pending" => LedgerOf[e] > ackOK[r]

\* A subscription that a client was told of has every event stored before its
\* creation began, from from_ledger on, in its queue: a retry never replays a
\* half-made subscription.
QueueComplete ==
    \A q \in Requests : LET r == reply[q] IN
        r # Nobody =>
            \A e \in seen[r] : LedgerOf[e] >= from[r] => queue[r][e] # "none"

\* No second subscription for a key while the answer to an earlier request with
\* it is kept, which is 24 hours.  (Requests that overlap both create one; an
\* answer that meets a row of age in the table is not kept at all.)
AnsweredOnce ==
    \A r \in Requests : \A q \in earlier[r] :
        KeyOf[r] = KeyOf[q] /\ KeyOf[r] # NoKey => status[r] = "none"

\* A worker sends an event to a subscription again only if its mark was lost:
\* duplicates come from other workers or from failures, never from retries.
NoResend ==
    [][\A w \in Workers : step[w] = "send" /\ step'[w] = "mark" =>
          <<w, item[w].sub, item[w].event>> \notin sentBy \ lost]_vars

Waiting(r, e) ==
    queue[r][e] = "pending" /\ status[r] = "active" /\ (email[r] # Off \/ push[r] # Off)

\* The worker's sends to r all fail, or subscriptions whose sends all fail fill
\* the page before r's row comes up.
Blocked(w, r) ==
    \/ Target(w, r) \in Refusing
    \/ Cardinality({q \in Eligible(w) : q < r /\ Target(w, q) \in Refusing}) >= PageSize

Stuck(r) == \A w \in Workers : Target(w, r) # Off => Blocked(w, r)

\* A pending row of an active subscription with a channel does not stay: it is
\* delivered or acked, or the subscription is cancelled or loses its channels,
\* despite the daily limit, the page limit and tokens that expired.  The only
\* rows left are those no channel can ever deliver or reach: the workers put off
\* no failed row, and such a row keeps its place in the page for ever.
PendingResolved ==
    \A r \in Requests, e \in Events : []<>~Waiting(r, e) \/ <>[]Stuck(r)
=============================================================================
