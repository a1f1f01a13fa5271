------------------------ MODULE SubscriptionsProofs ------------------------
(***************************************************************************)
(* Proofs about Subscriptions for any number of requests, keys, events and *)
(* workers, any daily and page limit, any faults.                          *)
(***************************************************************************)
EXTENDS Subscriptions, TLAPS

-----------------------------------------------------------------------------
(***************************************************************************)
(* The inductive invariant.                                                *)
(***************************************************************************)
\* The row of a subscription is not there before it is enqueued.
QueueInv(r) == phase[r] \in {"new", "enqueue"} => \A e \in Events : queue[r][e] = "none"

\* The statements of create_subscription in their order.
CreateInv(r) ==
    /\ phase[r] = "enqueue" => seen[r] \subseteq stored
    /\ phase[r] \in {"store", "created"} =>
          \A e \in seen[r] : LedgerOf[e] >= from[r] => queue[r][e] # "none"

\* A request with the key would be answered from the cache.
Held(k) == cached[k] # Nobody /\ k \notin stale

\* Clients and the idempotency cache know subscriptions that are complete, and
\* an answer that was not forgotten is held.
AnswerInv(r) ==
    /\ reply[r] # Nobody => phase[reply[r]] = "created"
    /\ acking[r] # NoLedger \/ ackOK[r] # NoLedger => phase[r] = "created"
    /\ Answered(r) /\ KeyOf[r] \in Keys /\ r \notin forgotten => Held(KeyOf[r])
    /\ \A q \in earlier[r] : KeyOf[r] = KeyOf[q] => KeyOf[r] = NoKey

CacheInv == \A k \in Keys : cached[k] # Nobody => phase[cached[k]] = "created"

\* A row is delivered or pending for a reason.
RowInv(r) ==
    \A e \in Events :
        /\ queue[r][e] = "delivered" => <<r, e>> \in Sent \/ LedgerOf[e] <= ackOK[r]
        /\ queue[r][e] = "pending" => LedgerOf[e] > ackOK[r]

RequestInv(r) == QueueInv(r) /\ CreateInv(r) /\ AnswerInv(r) /\ RowInv(r)

Sending(w, r, e) == <<w, r, e>> \in sentBy \ lost

\* A worker has one row per subscription, in its batch or in its hand; it has
\* sent none of them, but for the one it is about to mark.
WorkerInv(w) ==
    /\ \A row \in batch[w] :
          queue[row.sub][row.event] # "none" /\ ~Sending(w, row.sub, row.event)
    /\ \A row, other \in batch[w] : row.sub = other.sub => row = other
    /\ step[w] \in {"send", "mark"} =>
          /\ item[w] \in Row /\ queue[item[w].sub][item[w].event] # "none"
          /\ \A row \in batch[w] : row.sub # item[w].sub
    /\ step[w] = "send" => ~Sending(w, item[w].sub, item[w].event)
    /\ step[w] = "mark" => <<w, item[w].sub, item[w].event>> \in sentBy
    /\ \A r \in Requests, e \in Events : Sending(w, r, e) =>
          \/ queue[r][e] = "delivered"
          \/ step[w] = "mark" /\ item[w].sub = r /\ item[w].event = e

SubscriptionsInv ==
    /\ TypeOK /\ CacheInv
    /\ \A r \in Requests : RequestInv(r)
    /\ \A w \in Workers : WorkerInv(w)

-----------------------------------------------------------------------------
(***************************************************************************)
(* Types.                                                                  *)
(***************************************************************************)
LEMMA FaultBudget ==
    ASSUME faults \in 0..MaxFaults, Fault
    PROVE  faults' \in 0..MaxFaults
  BY SubscriptionsAssumption DEF Fault

LEMMA RequestIds ==
    ASSUME NEW r \in Requests
    PROVE  r \in Nat /\ r # Nobody
  BY SubscriptionsAssumption DEF Nobody

LEMMA InitTypes == Init => TypeOK
  BY SubscriptionsAssumption DEF Init, TypeOK, Nobody, NoLedger, Off, NoRow

EnvironmentStep ==
    \/ (\E e \in Events : Index(e)) \/ NewDay \/ \E t \in Tokens : Expire(t)
    \/ \E k \in Keys : Lapse(k) \/ Purge(k)

LEMMA EnvironmentTypes ==
    ASSUME TypeOK, EnvironmentStep
    PROVE  TypeOK'
  <1>1. ASSUME NEW e \in Events, Index(e) PROVE TypeOK'
    BY <1>1 DEF TypeOK, Index, requestVars, subVars, workerVars, history
  <1>2. ASSUME NewDay PROVE TypeOK'
    BY <1>2, SubscriptionsAssumption DEF TypeOK, NewDay, requestVars, subVars, history
  <1>3. ASSUME NEW t \in Tokens, Expire(t) PROVE TypeOK'
    BY <1>3, FaultBudget DEF TypeOK, Expire, requestVars, subVars, history
  <1>4. ASSUME NEW k \in Keys, Lapse(k) \/ Purge(k) PROVE TypeOK'
    <2>1. /\ cached' \in [Keys -> Requests \cup {Nobody}]
          /\ stale' \subseteq Keys /\ forgotten' \subseteq Requests
      BY <1>4 DEF TypeOK, Lapse, Purge, Answers
    <2>2. QED
      BY <1>4, <2>1 DEF TypeOK, Lapse, Purge, subVars, workerVars, history
  <1>5. QED
    BY <1>1, <1>2, <1>3, <1>4 DEF EnvironmentStep

CreateStep(r) ==
    \/ Replay(r) \/ Enqueue(r) \/ Store(r) \/ Abandon(r)
    \/ \E l \in Froms : Insert(r, l)

LEMMA CreateTypes ==
    ASSUME TypeOK, NEW r \in Requests, CreateStep(r)
    PROVE  TypeOK'
  <1>1. CASE Replay(r)
    <2>1. Kept(r) \in Requests \cup {Nobody}
      BY DEF Kept, TypeOK
    <2>2. QED
      BY <1>1, <2>1 DEF TypeOK, Replay, subVars, workerVars, history, Outcomes
  <1>2. ASSUME NEW l \in Froms, Insert(r, l) PROVE TypeOK'
    <2>1. phase' \in [Requests -> {"new", "enqueue", "store"} \cup Outcomes] /\ reply' = reply
      BY <1>2 DEF TypeOK, Insert, Goes, Then
    <2>2. /\ status' \in [Requests -> {"none", "active", "cancelled"}]
          /\ from' \in [Requests -> Froms \cup {NoLedger}]
          /\ seen' \in [Requests -> SUBSET Events] /\ earlier' \in [Requests -> SUBSET Requests]
      BY <1>2 DEF TypeOK, Insert
    <2>3. QED
      BY <1>2, <2>1, <2>2 DEF TypeOK, Insert, workerVars, history
  <1>3. CASE Enqueue(r)
    <2>1. phase' \in [Requests -> {"new", "enqueue", "store"} \cup Outcomes] /\ reply' = reply
      BY <1>3 DEF TypeOK, Enqueue, Goes, Then
    <2>2. queue' \in [Requests -> [Events -> {"none", "pending", "delivered"}]]
      BY <1>3 DEF TypeOK, Enqueue
    <2>3. QED
      BY <1>3, <2>1, <2>2 DEF TypeOK, Enqueue, subVars, workerVars, history
  <1>4. CASE Store(r)
    <2>1. phase' \in [Requests -> {"new", "enqueue", "store"} \cup Outcomes]
      BY <1>4 DEF TypeOK, Store, Goes, Then, Outcomes
    <2>2. reply' \in [Requests -> Requests \cup {Nobody}]
      BY <1>4 DEF TypeOK, Store, Goes
    <2>3. cached' \in [Keys -> Requests \cup {Nobody}] /\ forgotten' \subseteq Requests
      BY <1>4 DEF TypeOK, Store, Keep
    <2>4. QED
      BY <1>4, <2>1, <2>2, <2>3 DEF TypeOK, Store, subVars, workerVars, history
  <1>5. CASE Abandon(r)
    BY <1>5, FaultBudget DEF TypeOK, Abandon, subVars, workerVars, history, Outcomes
  <1>6. QED
    BY <1>1, <1>2, <1>3, <1>4, <1>5 DEF CreateStep

ClientStep(r) ==
    \/ \E l \in Ledgers : AckAdvance(r, l)
    \/ Cancel(r) \/ AckMark(r) \/ AckAbandon(r)
    \/ \E a \in Addresses \cup {Off} : SetEmail(r, a)
    \/ \E t \in Tokens \cup {Off} : SetPush(r, t)

LEMMA ClientTypes ==
    ASSUME TypeOK, NEW r \in Requests, ClientStep(r)
    PROVE  TypeOK'
  <1>1. Ask(r) => changes' \in 0..MaxChanges
    BY SubscriptionsAssumption DEF TypeOK, Ask
  <1>2. ASSUME NEW l \in Ledgers, AckAdvance(r, l) PROVE TypeOK'
    <2>1. acked' \in [Requests -> Ledgers \cup {NoLedger}] /\ acking' \in [Requests -> Ledgers \cup {NoLedger}]
      BY <1>2 DEF TypeOK, AckAdvance
    <2>2. QED
      BY <1>1, <1>2, <2>1 DEF TypeOK, AckAdvance, requestVars, workerVars, history
  <1>3. CASE Cancel(r)
    BY <1>1, <1>3 DEF TypeOK, Cancel, requestVars, workerVars, history
  <1>4. CASE AckMark(r)
    <2>1. queue' \in [Requests -> [Events -> {"none", "pending", "delivered"}]]
      BY <1>4 DEF TypeOK, AckMark
    <2>2. ackOK' \in [Requests -> Ledgers \cup {NoLedger}] /\ acking' \in [Requests -> Ledgers \cup {NoLedger}]
      BY <1>4 DEF TypeOK, AckMark
    <2>3. QED
      BY <1>4, <2>1, <2>2 DEF TypeOK, AckMark, requestVars, subVars, workerVars
  <1>5. CASE AckAbandon(r)
    BY <1>5, FaultBudget DEF TypeOK, AckAbandon, requestVars, subVars, workerVars, history
  <1>6. ASSUME NEW a \in Addresses \cup {Off}, SetEmail(r, a) PROVE TypeOK'
    BY <1>1, <1>6 DEF TypeOK, SetEmail, requestVars, workerVars, history
  <1>7. ASSUME NEW t \in Tokens \cup {Off}, SetPush(r, t) PROVE TypeOK'
    BY <1>1, <1>7 DEF TypeOK, SetPush, requestVars, workerVars, history
  <1>8. QED
    BY <1>2, <1>3, <1>4, <1>5, <1>6, <1>7 DEF ClientStep

TakeStep(w) ==
    \/ Select(w)
    \/ \E row \in batch[w] : TakeMail(w, row) \/ TakePush(w, row) \/ CheckFails(w, row)

LEMMA TakeTypes ==
    ASSUME TypeOK, NEW w \in Workers, TakeStep(w)
    PROVE  TypeOK'
  <1>1. batch[w] \subseteq Row
    BY DEF TypeOK
  <1>2. CASE Select(w)
    <2>1. PICK pick \in [FirstPage(Eligible(w)) -> Events] :
            batch' = [batch EXCEPT ![w] =
              {[sub |-> r, event |-> pick[r], to |-> Target(w, r)] : r \in FirstPage(Eligible(w))}]
      BY <1>2 DEF Select
    <2>2. ASSUME NEW r \in FirstPage(Eligible(w))
          PROVE  [sub |-> r, event |-> pick[r], to |-> Target(w, r)] \in Row
      <3>1. r \in Requests /\ Target(w, r) # Off
        BY DEF FirstPage, Eligible
      <3>2. Target(w, r) \in Addresses \cup Tokens
        BY <3>1 DEF Target, TypeOK
      <3>3. QED
        BY <3>1, <3>2 DEF Row
    <2>3. batch' \in [Workers -> SUBSET Row]
      BY <2>1, <2>2 DEF TypeOK
    <2>4. QED
      BY <1>2, <2>3 DEF TypeOK, Select, requestVars, subVars, history
  <1>3. ASSUME NEW row \in batch[w], TakeMail(w, row) PROVE TypeOK'
    <2>1. count' \in [Addresses -> 0..DailyLimit]
      <3>1. count' = [count EXCEPT ![row.to] = IF @ < DailyLimit THEN @ + 1 ELSE @]
        BY <1>3 DEF TakeMail
      <3>2. \A a \in Addresses : count[a] \in 0..DailyLimit
        BY DEF TypeOK
      <3>3. \A a \in Addresses : (IF count[a] < DailyLimit THEN count[a] + 1 ELSE count[a]) \in 0..DailyLimit
        BY <3>2, SubscriptionsAssumption
      <3>4. QED
        BY <3>1, <3>3 DEF TypeOK
    <2>2. /\ batch' \in [Workers -> SUBSET Row] /\ item' \in [Workers -> Row \cup {NoRow}]
          /\ step' \in [Workers -> {"idle", "send", "mark"}]
      BY <1>1, <1>3 DEF TypeOK, TakeMail
    <2>3. QED
      BY <1>3, <2>1, <2>2 DEF TypeOK, TakeMail, requestVars, subVars, history
  <1>4. ASSUME NEW row \in batch[w], TakePush(w, row) PROVE TypeOK'
    <2>1. /\ batch' \in [Workers -> SUBSET Row] /\ item' \in [Workers -> Row \cup {NoRow}]
          /\ step' \in [Workers -> {"idle", "send", "mark"}]
      BY <1>1, <1>4 DEF TypeOK, TakePush
    <2>2. QED
      BY <1>4, <2>1 DEF TypeOK, TakePush, requestVars, subVars, history
  <1>5. ASSUME NEW row \in batch[w], CheckFails(w, row) PROVE TypeOK'
    <2>1. batch' \in [Workers -> SUBSET Row]
      BY <1>1, <1>5 DEF TypeOK, CheckFails
    <2>2. QED
      BY <1>5, <2>1, FaultBudget DEF TypeOK, CheckFails, requestVars, subVars, history
  <1>6. QED
    BY <1>2, <1>3, <1>4, <1>5 DEF TakeStep

SendStep(w) ==
    \/ Send(w) \/ Refused(w) \/ Reject(w) \/ Mark(w)
    \/ SendFails(w) \/ MarkFails(w) \/ Crash(w)

LEMMA SendTypes ==
    ASSUME TypeOK, NEW w \in Workers, WorkerInv(w), SendStep(w)
    PROVE  TypeOK'
  <1>1. step[w] \in {"send", "mark"} =>
          item[w].sub \in Requests /\ item[w].event \in Events /\ item[w].to \in Addresses \cup Tokens
    BY DEF WorkerInv, Row
  <1>2. Rest(w) => /\ item' \in [Workers -> Row \cup {NoRow}]
                   /\ step' \in [Workers -> {"idle", "send", "mark"}]
    BY DEF Rest, TypeOK
  <1>3. CASE Send(w)
    <2>1. <<w, item[w].sub, item[w].event>> \in Workers \X Requests \X Events
      BY <1>1, <1>3 DEF Send
    <2>2. step' \in [Workers -> {"idle", "send", "mark"}]
      BY <1>3 DEF TypeOK, Send
    <2>3. QED
      BY <1>3, <2>1, <2>2 DEF TypeOK, Send, requestVars, subVars
  <1>4. CASE Reject(w)
    <2>1. push' \in [Requests -> Tokens \cup {Off}]
      BY <1>4 DEF TypeOK, Reject, ClearToken
    <2>2. QED
      BY <1>2, <1>4, <2>1 DEF TypeOK, Reject, requestVars, history
  <1>5. CASE Mark(w)
    <2>1. queue' \in [Requests -> [Events -> {"none", "pending", "delivered"}]]
      BY <1>5 DEF TypeOK, Mark
    <2>2. QED
      BY <1>2, <1>5, <2>1 DEF TypeOK, Mark, requestVars, subVars, history
  <1>6. CASE SendFails(w) \/ Refused(w)
    <2>1. faults' \in 0..MaxFaults
      BY <1>6, FaultBudget DEF TypeOK, SendFails, Refused
    <2>2. QED
      BY <1>2, <1>6, <2>1 DEF TypeOK, SendFails, Refused, AfterFailure, requestVars, subVars, history
  <1>7. ASSUME WorkerInv(w), MarkLost(w) PROVE lost' \subseteq sentBy
    BY <1>7 DEF MarkLost, WorkerInv, TypeOK
  <1>8. CASE MarkFails(w)
    <2>1. lost' \subseteq sentBy
      BY <1>7, <1>8 DEF MarkFails
    <2>2. QED
      BY <1>2, <1>8, <2>1, FaultBudget DEF TypeOK, MarkFails, requestVars, subVars
  <1>9. CASE Crash(w)
    <2>1. lost' \subseteq sentBy
      BY <1>7, <1>9 DEF Crash
    <2>2. batch' \in [Workers -> SUBSET Row]
      BY <1>9 DEF TypeOK, Crash
    <2>3. QED
      BY <1>2, <1>9, <2>1, <2>2, FaultBudget DEF TypeOK, Crash, requestVars, subVars
  <1>10. QED
    BY <1>3, <1>4, <1>5, <1>6, <1>8, <1>9 DEF SendStep

-----------------------------------------------------------------------------
(***************************************************************************)
(* What a step leaves alone.                                               *)
(***************************************************************************)
\* Rows do not leave the queue, and a delivered one stays delivered.
QueueForward ==
    \A r \in Requests, e \in Events :
        /\ queue[r][e] # "none" => queue'[r][e] # "none"
        /\ queue[r][e] = "delivered" => queue'[r][e] = "delivered"

\* Complete subscriptions stay, and answers that are not forgotten stay held.
AnswersStay ==
    /\ \A q \in Requests : phase[q] = "created" => phase'[q] = "created"
    /\ forgotten \subseteq forgotten'
    /\ \A q \in Requests :
          Answered(q) /\ q \notin forgotten' /\ KeyOf[q] \in Keys /\ Held(KeyOf[q]) => Held(KeyOf[q])'

LEMMA ForwardWhenSame == UNCHANGED queue => QueueForward
  BY DEF QueueForward

LEMMA StayWhenSame == UNCHANGED <<phase, cached, stale, forgotten>> => AnswersStay
  BY DEF AnswersStay, Held

LEMMA RequestStays ==
    ASSUME TypeOK, NEW r \in Requests, RequestInv(r), AnswersStay,
           phase'[r] = phase[r], queue'[r] = queue[r], seen'[r] = seen[r], from'[r] = from[r],
           reply'[r] = reply[r], acking'[r] = acking[r], ackOK'[r] = ackOK[r],
           earlier'[r] = earlier[r], stored \subseteq stored', sentBy \subseteq sentBy'
    PROVE  RequestInv(r)'
  <1>1. QueueInv(r)' /\ CreateInv(r)'
    BY DEF RequestInv, QueueInv, CreateInv
  <1>2. AnswerInv(r)'
    <2>1. reply'[r] # Nobody => phase'[reply'[r]] = "created"
      BY DEF RequestInv, AnswerInv, AnswersStay, TypeOK
    <2>2. Answered(r)' /\ KeyOf[r] \in Keys /\ r \notin forgotten' => Held(KeyOf[r])'
      BY DEF RequestInv, AnswerInv, AnswersStay, Answered
    <2>3. QED
      BY <2>1, <2>2 DEF RequestInv, AnswerInv, TypeOK
  <1>3. RowInv(r)'
    BY DEF RequestInv, RowInv, Sent
  <1>4. QED
    BY <1>1, <1>2, <1>3 DEF RequestInv

LEMMA CacheStays ==
    ASSUME TypeOK, CacheInv, AnswersStay, \A k \in Keys : cached'[k] \in {cached[k], Nobody}
    PROVE  CacheInv'
  BY DEF CacheInv, AnswersStay, TypeOK

LEMMA WorkerStays ==
    ASSUME TypeOK, NEW w \in Workers, WorkerInv(w), QueueForward,
           batch'[w] = batch[w], item'[w] = item[w], step'[w] = step[w],
           \A r \in Requests, e \in Events :
              /\ <<w, r, e>> \in sentBy' <=> <<w, r, e>> \in sentBy
              /\ <<w, r, e>> \in lost' <=> <<w, r, e>> \in lost
    PROVE  WorkerInv(w)'
  <1>1. \A r \in Requests, e \in Events : Sending(w, r, e)' <=> Sending(w, r, e)
    BY DEF Sending
  <1>2. \A row \in batch[w] : row.sub \in Requests /\ row.event \in Events
    BY DEF TypeOK, Row
  <1>3. step[w] \in {"send", "mark"} => item[w].sub \in Requests /\ item[w].event \in Events
    BY DEF WorkerInv, Row
  <1>4. \A row \in batch'[w] :
          queue'[row.sub][row.event] # "none" /\ ~Sending(w, row.sub, row.event)'
    BY <1>1, <1>2 DEF WorkerInv, QueueForward
  <1>5. /\ \A row, other \in batch'[w] : row.sub = other.sub => row = other
        /\ step'[w] \in {"send", "mark"} =>
              /\ item'[w] \in Row /\ queue'[item'[w].sub][item'[w].event] # "none"
              /\ \A row \in batch'[w] : row.sub # item'[w].sub
        /\ step'[w] = "send" => ~Sending(w, item[w].sub, item[w].event)'
        /\ step'[w] = "mark" => <<w, item'[w].sub, item'[w].event>> \in sentBy'
    BY <1>1, <1>3 DEF WorkerInv, QueueForward
  <1>6. \A r \in Requests, e \in Events : Sending(w, r, e)' =>
          \/ queue'[r][e] = "delivered"
          \/ step'[w] = "mark" /\ item'[w].sub = r /\ item'[w].event = e
    BY <1>1 DEF WorkerInv, QueueForward
  <1>7. QED
    BY <1>4, <1>5, <1>6 DEF WorkerInv

\* A step that touches neither the queue nor a worker.
LEMMA WorkersStay ==
    ASSUME SubscriptionsInv, QueueForward, UNCHANGED <<batch, item, step, sentBy, lost>>
    PROVE  \A w \in Workers : WorkerInv(w)'
  BY WorkerStays DEF SubscriptionsInv

-----------------------------------------------------------------------------
(***************************************************************************)
(* The steps.                                                              *)
(***************************************************************************)
LEMMA InitInv == Init => SubscriptionsInv
  <1> SUFFICES ASSUME Init PROVE SubscriptionsInv
    OBVIOUS
  <1>1. TypeOK /\ CacheInv
    BY InitTypes DEF Init, CacheInv
  <1>2. ASSUME NEW r \in Requests PROVE RequestInv(r)
    <2>1. QueueInv(r) /\ CreateInv(r) /\ AnswerInv(r)
      BY DEF Init, QueueInv, CreateInv, AnswerInv, Answered
    <2>2. RowInv(r)
      BY DEF Init, RowInv
    <2>3. QED
      BY <2>1, <2>2 DEF RequestInv
  <1>3. ASSUME NEW w \in Workers PROVE WorkerInv(w)
    BY DEF Init, WorkerInv, Sending
  <1>4. QED
    BY <1>1, <1>2, <1>3 DEF SubscriptionsInv

LEMMA EnvironmentKeepsInv ==
    ASSUME SubscriptionsInv, EnvironmentStep
    PROVE  SubscriptionsInv'
  <1>1. /\ stored \subseteq stored'
        /\ UNCHANGED <<phase, reply, seen, earlier, from, queue, acking, ackOK,
                       batch, item, step, sentBy, lost>>
    BY DEF EnvironmentStep, Index, NewDay, Expire, Lapse, Purge, requestVars, subVars, workerVars, history
  <1>2. TypeOK' /\ TypeOK /\ QueueForward
    BY <1>1, EnvironmentTypes, ForwardWhenSame DEF SubscriptionsInv
  <1>3. AnswersStay /\ \A k \in Keys : cached'[k] \in {cached[k], Nobody}
    <2>1. CASE UNCHANGED <<cached, stale, forgotten>>
      BY <1>1, <2>1, StayWhenSame
    <2>2. ASSUME NEW k \in Keys, Lapse(k) PROVE AnswersStay /\ cached' = cached
      BY <1>1, <2>2 DEF Lapse, AnswersStay, Held, Answers
    <2>3. ASSUME NEW k \in Keys, Purge(k)
          PROVE  AnswersStay /\ \A j \in Keys : cached'[j] \in {cached[j], Nobody}
      <3>1. k \in stale /\ \A j \in Keys : cached'[j] = IF j = k THEN Nobody ELSE cached[j]
        BY <1>2, <2>3 DEF Purge, TypeOK
      <3>2. forgotten' = forgotten /\ stale' \subseteq stale
        BY <2>3 DEF Purge
      <3>3. QED
        BY <1>1, <3>1, <3>2 DEF AnswersStay, Held
    <2>4. QED
      BY <2>1, <2>2, <2>3 DEF EnvironmentStep, Index, NewDay, Expire, requestVars
  <1>4. \A r \in Requests : RequestInv(r)'
    BY <1>1, <1>2, <1>3, RequestStays DEF SubscriptionsInv
  <1>5. CacheInv'
    BY <1>2, <1>3, CacheStays DEF SubscriptionsInv
  <1>6. QED
    BY <1>1, <1>2, <1>4, <1>5, WorkersStay DEF SubscriptionsInv

\* create_subscription: one request at a time.
LEMMA CreateKeepsInv ==
    ASSUME SubscriptionsInv, NEW r \in Requests, CreateStep(r), AnswersStay, QueueForward,
           CacheInv', RequestInv(r)',
           \A q \in Requests : q # r =>
              /\ phase'[q] = phase[q] /\ queue'[q] = queue[q] /\ seen'[q] = seen[q]
              /\ from'[q] = from[q] /\ reply'[q] = reply[q] /\ earlier'[q] = earlier[q]
    PROVE  SubscriptionsInv'
  <1>1. UNCHANGED <<stored, acking, ackOK, batch, item, step, sentBy, lost>>
    BY DEF CreateStep, Replay, Insert, Enqueue, Store, Abandon, workerVars, history
  <1>2. TypeOK /\ TypeOK'
    BY CreateTypes DEF SubscriptionsInv
  <1>3. ASSUME NEW q \in Requests PROVE RequestInv(q)'
    BY <1>1, <1>2, RequestStays DEF SubscriptionsInv
  <1>4. QED
    BY <1>1, <1>2, <1>3, WorkersStay DEF SubscriptionsInv

LEMMA ReplayKeepsInv ==
    ASSUME SubscriptionsInv, NEW r \in Requests, Replay(r)
    PROVE  SubscriptionsInv'
  <1>1. /\ TypeOK /\ CacheInv /\ RequestInv(r) /\ phase[r] = "new" /\ Kept(r) # Nobody
        /\ phase' = [phase EXCEPT ![r] = "replayed"] /\ reply' = [reply EXCEPT ![r] = Kept(r)]
        /\ UNCHANGED <<stored, cached, stale, forgotten, seen, earlier, from, queue, acking, ackOK, sentBy>>
    BY DEF SubscriptionsInv, Replay, subVars, history
  <1>2. phase'[r] = "replayed" /\ reply'[r] = Kept(r) /\ \A q \in Requests : q # r => phase'[q] = phase[q]
    BY <1>1 DEF TypeOK
  <1>3. AnswersStay /\ QueueForward
    BY <1>1, <1>2, ForwardWhenSame DEF AnswersStay, Held, Answered
  <1>4. CacheInv'
    BY <1>1, <1>3, CacheStays
  <1>5. KeyOf[r] \in Keys /\ Kept(r) = cached[KeyOf[r]] /\ Held(KeyOf[r])'
    BY <1>1 DEF Kept, Held
  <1>6. phase'[Kept(r)] = "created"
    <2>1. phase[Kept(r)] = "created" /\ Kept(r) \in Requests
      BY <1>1, <1>5 DEF CacheInv, TypeOK
    <2>2. QED
      BY <1>3, <2>1 DEF AnswersStay
  <1>7. RequestInv(r)'
    <2>1. QueueInv(r)' /\ CreateInv(r)'
      BY <1>2 DEF QueueInv, CreateInv
    <2>2. AnswerInv(r)'
      BY <1>1, <1>2, <1>5, <1>6 DEF AnswerInv, RequestInv, Answered
    <2>3. RowInv(r)'
      BY <1>1 DEF RequestInv, RowInv, Sent
    <2>4. QED
      BY <2>1, <2>2, <2>3 DEF RequestInv
  <1>8. \A q \in Requests : q # r => phase'[q] = phase[q] /\ reply'[q] = reply[q]
    BY <1>1 DEF TypeOK
  <1>9. QED
    BY <1>1, <1>3, <1>4, <1>7, <1>8, CreateKeepsInv DEF CreateStep

LEMMA InsertKeepsInv ==
    ASSUME SubscriptionsInv, NEW r \in Requests, NEW l \in Froms, Insert(r, l)
    PROVE  SubscriptionsInv'
  <1>1. /\ TypeOK /\ CacheInv /\ RequestInv(r) /\ phase[r] = "new" /\ Kept(r) = Nobody
        /\ phase' = [phase EXCEPT ![r] = "enqueue"] /\ reply' = reply
        /\ from' = [from EXCEPT ![r] = l] /\ seen' = [seen EXCEPT ![r] = stored]
        /\ earlier' = [earlier EXCEPT ![r] = {q \in Requests : Answered(q)} \ forgotten]
        /\ UNCHANGED <<stored, cached, stale, forgotten, queue, acking, ackOK, sentBy>>
    BY DEF SubscriptionsInv, Insert, Goes, Then, history, TypeOK
  <1>2. /\ phase'[r] = "enqueue" /\ seen'[r] = stored /\ earlier'[r] = {q \in Requests : Answered(q)} \ forgotten
        /\ \A q \in Requests : q # r => /\ phase'[q] = phase[q] /\ seen'[q] = seen[q]
                                       /\ from'[q] = from[q] /\ earlier'[q] = earlier[q]
    BY <1>1 DEF TypeOK
  <1>3. AnswersStay /\ QueueForward
    BY <1>1, <1>2, ForwardWhenSame DEF AnswersStay, Held, Answered
  <1>4. CacheInv'
    BY <1>1, <1>3, CacheStays
  <1>5. \A q \in earlier'[r] : KeyOf[r] = KeyOf[q] => KeyOf[r] = NoKey
    <2> SUFFICES ASSUME NEW q \in Requests, Answered(q), q \notin forgotten, KeyOf[r] = KeyOf[q], KeyOf[r] # NoKey
                 PROVE  FALSE
      BY <1>2
    <2>1. KeyOf[q] \in Keys
      BY SubscriptionsAssumption
    <2>2. Held(KeyOf[q])
      BY <2>1 DEF SubscriptionsInv, RequestInv, AnswerInv
    <2>3. QED
      BY <1>1, <2>1, <2>2 DEF Kept, Held
  <1>6. RequestInv(r)'
    <2>1. QueueInv(r)' /\ CreateInv(r)'
      BY <1>1, <1>2 DEF RequestInv, QueueInv, CreateInv
    <2>2. acking'[r] = NoLedger /\ ackOK'[r] = NoLedger
      BY <1>1 DEF RequestInv, AnswerInv
    <2>3. reply'[r] # Nobody => phase'[reply'[r]] = "created"
      BY <1>1, <1>3 DEF RequestInv, AnswerInv, AnswersStay, TypeOK
    <2>4. AnswerInv(r)'
      BY <1>2, <1>5, <2>2, <2>3 DEF AnswerInv, Answered
    <2>5. RowInv(r)'
      BY <1>1 DEF RequestInv, RowInv, Sent
    <2>6. QED
      BY <2>1, <2>4, <2>5 DEF RequestInv
  <1>7. QED
    BY <1>1, <1>2, <1>3, <1>4, <1>6, CreateKeepsInv DEF CreateStep

LEMMA EnqueueKeepsInv ==
    ASSUME SubscriptionsInv, NEW r \in Requests, Enqueue(r)
    PROVE  SubscriptionsInv'
  <1>1. /\ TypeOK /\ CacheInv /\ RequestInv(r) /\ phase[r] = "enqueue"
        /\ phase' = [phase EXCEPT ![r] = "store"] /\ reply' = reply
        /\ UNCHANGED <<stored, cached, stale, forgotten, seen, from, earlier, acking, ackOK, sentBy>>
    BY DEF SubscriptionsInv, Enqueue, Goes, Then, history, subVars, TypeOK
  <1>2. phase'[r] = "store" /\ \A q \in Requests : q # r => phase'[q] = phase[q]
    BY <1>1 DEF TypeOK
  <1>3. /\ \A e \in Events : queue[r][e] = "none"
        /\ acking[r] = NoLedger /\ ackOK[r] = NoLedger /\ seen[r] \subseteq stored
    BY <1>1 DEF RequestInv, QueueInv, AnswerInv, CreateInv
  <1>4. /\ \A e \in Events : queue'[r][e] = IF e \in stored /\ LedgerOf[e] >= from[r] THEN "pending" ELSE "none"
        /\ \A q \in Requests : q # r => queue'[q] = queue[q]
    <2>1. queue \in [Requests -> [Events -> {"none", "pending", "delivered"}]]
      BY <1>1 DEF TypeOK
    <2>2. queue' = [queue EXCEPT ![r] = [e \in Events |->
             IF e \in stored /\ LedgerOf[e] >= from[r] THEN "pending" ELSE queue[r][e]]]
      BY <2>1 DEF Enqueue
    <2>3. QED
      BY <1>3, <2>1, <2>2
  <1>5. AnswersStay
    BY <1>1, <1>2 DEF AnswersStay, Held, Answered
  <1>6. QueueForward
    BY <1>3, <1>4 DEF QueueForward
  <1>7. CacheInv'
    BY <1>1, <1>5, CacheStays
  <1>8. RequestInv(r)'
    <2>1. QueueInv(r)'
      BY <1>2 DEF QueueInv
    <2>2. CreateInv(r)'
      BY <1>1, <1>2, <1>3, <1>4 DEF CreateInv, TypeOK
    <2>3. reply'[r] # Nobody => phase'[reply'[r]] = "created"
      BY <1>1, <1>5 DEF RequestInv, AnswerInv, AnswersStay, TypeOK
    <2>4. AnswerInv(r)'
      BY <1>1, <1>2, <1>3, <2>3 DEF RequestInv, AnswerInv, Answered
    <2>5. RowInv(r)'
      BY <1>1, <1>3, <1>4, SubscriptionsAssumption DEF RowInv, NoLedger
    <2>6. QED
      BY <2>1, <2>2, <2>4, <2>5 DEF RequestInv
  <1>9. QED
    BY <1>1, <1>2, <1>4, <1>5, <1>6, <1>7, <1>8, CreateKeepsInv DEF CreateStep

LEMMA StoreKeepsInv ==
    ASSUME SubscriptionsInv, NEW r \in Requests, Store(r)
    PROVE  SubscriptionsInv'
  <1>1. /\ TypeOK /\ CacheInv /\ RequestInv(r) /\ phase[r] = "store" /\ Keep(r)
        /\ phase' = [phase EXCEPT ![r] = "created"] /\ reply' = [reply EXCEPT ![r] = r]
        /\ forgotten' = IF KeyOf[r] \in stale THEN forgotten \cup {r} ELSE forgotten
        /\ UNCHANGED <<stored, stale, seen, earlier, from, queue, acking, ackOK, sentBy>>
    BY DEF SubscriptionsInv, Store, Goes, Then, history, subVars
  <1>2. /\ phase'[r] = "created" /\ reply'[r] = r
        /\ \A q \in Requests : q # r => phase'[q] = phase[q] /\ reply'[q] = reply[q]
    BY <1>1 DEF TypeOK
  <1>3. \A k \in Keys : cached'[k] = IF k = KeyOf[r] /\ cached[k] = Nobody THEN r ELSE cached[k]
    BY <1>1 DEF Keep
  <1>4. AnswersStay /\ QueueForward
    BY <1>1, <1>2, <1>3, ForwardWhenSame, RequestIds DEF AnswersStay, Held
  <1>5. CacheInv'
    <2> SUFFICES ASSUME NEW k \in Keys, cached'[k] # Nobody
                 PROVE  phase'[cached'[k]] = "created"
      BY DEF CacheInv
    <2>1. CASE cached[k] = Nobody
      BY <1>2, <1>3, <2>1
    <2>2. CASE cached[k] # Nobody
      BY <1>1, <1>3, <1>4, <2>2 DEF CacheInv, AnswersStay, TypeOK
    <2>3. QED
      BY <2>1, <2>2
  <1>6. RequestInv(r)'
    <2>1. QueueInv(r)' /\ CreateInv(r)'
      BY <1>1, <1>2 DEF RequestInv, QueueInv, CreateInv
    <2>2. KeyOf[r] \in Keys /\ r \notin forgotten' => Held(KeyOf[r])'
      BY <1>1, <1>3, RequestIds DEF Held
    <2>3. AnswerInv(r)'
      BY <1>1, <1>2, <2>2 DEF RequestInv, AnswerInv
    <2>4. RowInv(r)'
      BY <1>1 DEF RequestInv, RowInv, Sent
    <2>5. QED
      BY <2>1, <2>3, <2>4 DEF RequestInv
  <1>7. QED
    BY <1>1, <1>2, <1>4, <1>5, <1>6, CreateKeepsInv DEF CreateStep

LEMMA AbandonKeepsInv ==
    ASSUME SubscriptionsInv, NEW r \in Requests, Abandon(r)
    PROVE  SubscriptionsInv'
  <1>1. /\ TypeOK /\ CacheInv /\ RequestInv(r) /\ phase[r] \in {"new", "enqueue", "store"}
        /\ phase' = [phase EXCEPT ![r] = "failed"]
        /\ UNCHANGED <<stored, reply, cached, stale, forgotten, seen, earlier, from, queue, acking, ackOK, sentBy>>
    BY DEF SubscriptionsInv, Abandon, history, subVars
  <1>2. phase'[r] = "failed" /\ \A q \in Requests : q # r => phase'[q] = phase[q]
    BY <1>1 DEF TypeOK
  <1>3. AnswersStay /\ QueueForward
    BY <1>1, <1>2, ForwardWhenSame DEF AnswersStay, Held, Answered
  <1>4. CacheInv'
    BY <1>1, <1>3, CacheStays
  <1>5. RequestInv(r)'
    <2>1. QueueInv(r)' /\ CreateInv(r)'
      BY <1>2 DEF QueueInv, CreateInv
    <2>2. reply'[r] # Nobody => phase'[reply'[r]] = "created"
      BY <1>1, <1>3 DEF RequestInv, AnswerInv, AnswersStay, TypeOK
    <2>3. AnswerInv(r)'
      BY <1>1, <1>2, <2>2 DEF RequestInv, AnswerInv, Answered
    <2>4. RowInv(r)'
      BY <1>1 DEF RequestInv, RowInv, Sent
    <2>5. QED
      BY <2>1, <2>3, <2>4 DEF RequestInv
  <1>6. QED
    BY <1>1, <1>2, <1>3, <1>4, <1>5, CreateKeepsInv DEF CreateStep

\* The requests about a subscription: only an ack touches the queue.
LEMMA ClientKeepsInv ==
    ASSUME SubscriptionsInv, NEW r \in Requests, ClientStep(r)
    PROVE  SubscriptionsInv'
  <1>1. /\ TypeOK /\ TypeOK' /\ RequestInv(r) /\ CacheInv
        /\ UNCHANGED <<stored, phase, reply, cached, stale, forgotten, seen, earlier, from, sentBy, lost, batch, item, step>>
    BY ClientTypes
       DEF SubscriptionsInv, ClientStep, AckAdvance, Cancel, AckMark, AckAbandon, SetEmail, SetPush,
           requestVars, subVars, workerVars, history
  <1>2. AnswersStay /\ CacheInv'
    BY <1>1, StayWhenSame, CacheStays
  <1>3. CASE UNCHANGED <<queue, acking, ackOK>>
    BY <1>1, <1>2, <1>3, RequestStays, ForwardWhenSame, WorkersStay DEF SubscriptionsInv
  <1>4. ASSUME NEW l \in Ledgers, AckAdvance(r, l) PROVE SubscriptionsInv'
    <2>1. UNCHANGED <<queue, ackOK>> /\ \A q \in Requests : q # r => acking'[q] = acking[q]
      BY <1>1, <1>4 DEF AckAdvance, TypeOK, history
    <2>2. phase[r] = "created"
      BY <1>4, RequestIds DEF AckAdvance, Ask, Known, SubscriptionsInv, RequestInv, AnswerInv
    <2>3. RequestInv(r)'
      <3>1. QueueInv(r)' /\ CreateInv(r)' /\ RowInv(r)'
        BY <1>1, <2>1 DEF RequestInv, QueueInv, CreateInv, RowInv, Sent
      <3>2. AnswerInv(r)'
        BY <1>1, <2>2 DEF RequestInv, AnswerInv, Answered, Held
      <3>3. QED
        BY <3>1, <3>2 DEF RequestInv
    <2>4. \A q \in Requests : RequestInv(q)'
      BY <1>1, <1>2, <2>1, <2>3, RequestStays DEF SubscriptionsInv
    <2>5. QED
      BY <1>1, <1>2, <2>1, <2>4, ForwardWhenSame, WorkersStay DEF SubscriptionsInv
  <1>5. CASE AckAbandon(r)
    <2>1. UNCHANGED <<queue, ackOK>> /\ acking'[r] = NoLedger /\ \A q \in Requests : q # r => acking'[q] = acking[q]
      BY <1>1, <1>5 DEF AckAbandon, TypeOK, history
    <2>2. RequestInv(r)'
      <3>1. QueueInv(r)' /\ CreateInv(r)' /\ RowInv(r)'
        BY <1>1, <2>1 DEF RequestInv, QueueInv, CreateInv, RowInv, Sent
      <3>2. AnswerInv(r)'
        BY <1>1, <2>1 DEF RequestInv, AnswerInv, Answered, Held
      <3>3. QED
        BY <3>1, <3>2 DEF RequestInv
    <2>3. \A q \in Requests : RequestInv(q)'
      BY <1>1, <1>2, <2>1, <2>2, RequestStays DEF SubscriptionsInv
    <2>4. QED
      BY <1>1, <1>2, <2>1, <2>3, ForwardWhenSame, WorkersStay DEF SubscriptionsInv
  <1>6. CASE AckMark(r)
    <2>1. /\ acking[r] # NoLedger /\ acking'[r] = NoLedger
          /\ ackOK'[r] = IF ackOK[r] < acking[r] THEN acking[r] ELSE ackOK[r]
          /\ \A q \in Requests : q # r => acking'[q] = acking[q] /\ ackOK'[q] = ackOK[q]
      BY <1>1, <1>6 DEF AckMark, TypeOK
    <2>2. /\ \A e \in Events : queue'[r][e] =
                IF queue[r][e] = "pending" /\ LedgerOf[e] <= acking[r] THEN "delivered" ELSE queue[r][e]
          /\ \A q \in Requests : q # r => queue'[q] = queue[q]
      <3>1. queue \in [Requests -> [Events -> {"none", "pending", "delivered"}]]
        BY <1>1 DEF TypeOK
      <3>2. queue' = [queue EXCEPT ![r] = [e \in Events |->
               IF queue[r][e] = "pending" /\ e \in AckedRows(r) THEN "delivered" ELSE queue[r][e]]]
        BY <1>6, <3>1 DEF AckMark
      <3>3. QED
        BY <3>1, <3>2 DEF AckedRows
    <2>3. QueueForward
      BY <2>2 DEF QueueForward
    <2>4. ackOK[r] \in Nat /\ acking[r] \in Nat /\ \A e \in Events : LedgerOf[e] \in Nat
      BY <1>1, SubscriptionsAssumption DEF TypeOK, Ledgers, NoLedger
    <2>5. RequestInv(r)'
      <3>1. phase[r] = "created"
        BY <1>1, <2>1 DEF RequestInv, AnswerInv
      <3>2. QueueInv(r)'
        BY <1>1, <3>1 DEF QueueInv
      <3>3. CreateInv(r)'
        BY <1>1, <2>2, <3>1 DEF RequestInv, CreateInv, TypeOK
      <3>4. AnswerInv(r)'
        BY <1>1, <3>1 DEF RequestInv, AnswerInv, Answered, Held
      <3>5. RowInv(r)'
        <4> SUFFICES ASSUME NEW e \in Events
                     PROVE  /\ queue'[r][e] = "delivered" => <<r, e>> \in Sent' \/ LedgerOf[e] <= ackOK'[r]
                            /\ queue'[r][e] = "pending" => LedgerOf[e] > ackOK'[r]
          BY DEF RowInv
        <4>1. Sent' = Sent
          BY <1>1 DEF Sent
        <4>2. /\ queue[r][e] = "delivered" => <<r, e>> \in Sent \/ LedgerOf[e] <= ackOK[r]
              /\ queue[r][e] = "pending" => LedgerOf[e] > ackOK[r]
          BY <1>1 DEF RequestInv, RowInv
        <4>3. QED
          BY <2>1, <2>2, <2>4, <4>1, <4>2
      <3>6. QED
        BY <3>2, <3>3, <3>4, <3>5 DEF RequestInv
    <2>6. \A q \in Requests : RequestInv(q)'
      BY <1>1, <1>2, <2>1, <2>2, <2>5, RequestStays DEF SubscriptionsInv
    <2>7. QED
      BY <1>1, <1>2, <2>3, <2>6, WorkersStay DEF SubscriptionsInv
  <1>7. QED
    BY <1>3, <1>4, <1>5, <1>6 DEF ClientStep, Cancel, SetEmail, SetPush, history

-----------------------------------------------------------------------------
\* A worker's step keeps the invariant when it keeps the worker's own part, and
\* marks at most rows that were sent.
LEMMA OneWorkerMoves ==
    ASSUME SubscriptionsInv, NEW w \in Workers, TypeOK', WorkerInv(w)', QueueForward,
           UNCHANGED <<stored, phase, reply, cached, stale, forgotten, seen, earlier, from, acking, ackOK>>,
           sentBy \subseteq sentBy',
           \A r \in Requests, e \in Events :
              queue'[r][e] # queue[r][e] =>
                 queue[r][e] # "none" /\ queue'[r][e] = "delivered" /\ <<r, e>> \in Sent,
           \A v \in Workers : v # w =>
              /\ batch'[v] = batch[v] /\ item'[v] = item[v] /\ step'[v] = step[v]
              /\ \A r \in Requests, e \in Events :
                    /\ <<v, r, e>> \in sentBy' <=> <<v, r, e>> \in sentBy
                    /\ <<v, r, e>> \in lost' <=> <<v, r, e>> \in lost
    PROVE  SubscriptionsInv'
  <1>1. TypeOK /\ AnswersStay
    BY StayWhenSame DEF SubscriptionsInv
  <1>2. CacheInv'
    BY <1>1, CacheStays DEF SubscriptionsInv
  <1>3. ASSUME NEW v \in Workers PROVE WorkerInv(v)'
    BY <1>1, WorkerStays DEF SubscriptionsInv
  <1>4. ASSUME NEW r \in Requests PROVE RequestInv(r)'
    <2>1. RequestInv(r)
      BY DEF SubscriptionsInv
    <2>2. QueueInv(r)'
      BY <2>1 DEF RequestInv, QueueInv
    <2>3. CreateInv(r)'
      BY <1>1, <2>1 DEF RequestInv, CreateInv, QueueForward, TypeOK
    <2>4. AnswerInv(r)'
      BY <2>1 DEF RequestInv, AnswerInv, Answered, Held
    <2>5. RowInv(r)'
      <3>1. Sent \subseteq Sent'
        BY DEF Sent
      <3>2. QED
        BY <2>1, <3>1 DEF RequestInv, RowInv
    <2>6. QED
      BY <2>2, <2>3, <2>4, <2>5 DEF RequestInv
  <1>5. QED
    BY <1>2, <1>3, <1>4 DEF SubscriptionsInv

LEMMA SelectKeepsInv ==
    ASSUME SubscriptionsInv, NEW w \in Workers, Select(w)
    PROVE  SubscriptionsInv'
  <1>1. /\ TypeOK /\ TypeOK' /\ WorkerInv(w) /\ step[w] = "idle"
        /\ UNCHANGED <<stored, phase, reply, cached, stale, forgotten, seen, earlier, from, acking, ackOK, queue,
                       item, step, sentBy, lost>>
    BY TakeTypes DEF SubscriptionsInv, TakeStep, Select, requestVars, subVars, history
  <1>2. PICK pick \in [FirstPage(Eligible(w)) -> Events] :
          /\ \A r \in FirstPage(Eligible(w)) : pick[r] \in Oldest(r)
          /\ batch' = [batch EXCEPT ![w] =
                {[sub |-> r, event |-> pick[r], to |-> Target(w, r)] : r \in FirstPage(Eligible(w))}]
    BY DEF Select
  <1>3. /\ batch'[w] = {[sub |-> r, event |-> pick[r], to |-> Target(w, r)] : r \in FirstPage(Eligible(w))}
        /\ \A v \in Workers : v # w => batch'[v] = batch[v]
    BY <1>1, <1>2 DEF TypeOK
  <1>4. \A row, other \in batch'[w] : row.sub = other.sub => row = other
    BY <1>3
  <1>5. ASSUME NEW row \in batch'[w]
        PROVE  queue[row.sub][row.event] = "pending" /\ ~Sending(w, row.sub, row.event)
    <2>1. PICK r \in FirstPage(Eligible(w)) : row = [sub |-> r, event |-> pick[r], to |-> Target(w, r)]
      BY <1>3
    <2>2. r \in Requests /\ pick[r] \in Events /\ queue[r][pick[r]] = "pending"
      BY <1>2 DEF FirstPage, Eligible, Oldest, Pending
    <2>3. ~Sending(w, r, pick[r])
      BY <1>1, <2>2 DEF WorkerInv
    <2>4. QED
      BY <2>1, <2>2, <2>3
  <1>6. WorkerInv(w)'
    <2>1. \A r \in Requests, e \in Events : Sending(w, r, e)' <=> Sending(w, r, e)
      BY <1>1 DEF Sending
    <2>2. \A row \in batch'[w] :
            queue'[row.sub][row.event] # "none" /\ ~Sending(w, row.sub, row.event)'
      BY <1>1, <1>5 DEF Sending
    <2>3. \A r \in Requests, e \in Events : Sending(w, r, e)' => queue'[r][e] = "delivered"
      BY <1>1, <2>1 DEF WorkerInv
    <2>4. QED
      BY <1>1, <1>4, <2>2, <2>3 DEF WorkerInv
  <1>7. QED
    BY <1>1, <1>3, <1>6, ForwardWhenSame, OneWorkerMoves

\* A row is taken from the batch, to be sent or to be passed over.
LEMMA TakeKeepsInv ==
    ASSUME SubscriptionsInv, NEW w \in Workers, NEW row \in batch[w],
           TakeMail(w, row) \/ TakePush(w, row) \/ CheckFails(w, row)
    PROVE  SubscriptionsInv'
  <1>1. /\ TypeOK /\ TypeOK' /\ WorkerInv(w) /\ step[w] = "idle"
        /\ UNCHANGED <<stored, phase, reply, cached, stale, forgotten, seen, earlier, from, acking, ackOK, queue,
                       sentBy, lost>>
        /\ batch' = [batch EXCEPT ![w] = batch[w] \ {row}]
    BY TakeTypes DEF SubscriptionsInv, TakeStep, TakeMail, TakePush, CheckFails, requestVars, subVars, history, TypeOK
  <1>2. batch'[w] = batch[w] \ {row} /\ \A v \in Workers : v # w => batch'[v] = batch[v]
    BY <1>1 DEF TypeOK
  <1>3. /\ step'[w] = "idle" \/ (step'[w] = "send" /\ item'[w] = row)
        /\ \A v \in Workers : v # w => step'[v] = step[v] /\ item'[v] = item[v]
    BY <1>1 DEF TakeMail, TakePush, CheckFails, TypeOK
  <1>4. row \in Row
    BY <1>1 DEF TypeOK
  <1>5. WorkerInv(w)'
    <2>1. \A r, e : Sending(w, r, e)' <=> Sending(w, r, e)
      BY <1>1 DEF Sending
    <2>2. \A other \in batch'[w] :
            queue'[other.sub][other.event] # "none" /\ ~Sending(w, other.sub, other.event)'
      BY <1>1, <1>2, <2>1 DEF WorkerInv
    <2>3. /\ \A other, third \in batch'[w] : other.sub = third.sub => other = third
          /\ \A other \in batch'[w] : other.sub # row.sub
      BY <1>1, <1>2 DEF WorkerInv
    <2>4. \A r \in Requests, e \in Events : Sending(w, r, e)' => queue'[r][e] = "delivered"
      BY <1>1, <2>1 DEF WorkerInv
    <2>5. queue'[row.sub][row.event] # "none" /\ ~Sending(w, row.sub, row.event)'
      BY <1>1, <2>1 DEF WorkerInv
    <2>6. CASE step'[w] = "idle"
      BY <2>2, <2>3, <2>4, <2>6 DEF WorkerInv
    <2>7. CASE step'[w] = "send" /\ item'[w] = row
      BY <1>4, <2>2, <2>3, <2>4, <2>5, <2>7 DEF WorkerInv, Sending
    <2>8. QED
      BY <1>3, <2>6, <2>7
  <1>6. QED
    BY <1>1, <1>2, <1>3, <1>5, ForwardWhenSame, OneWorkerMoves

LEMMA SendKeepsInv ==
    ASSUME SubscriptionsInv, NEW w \in Workers, Send(w)
    PROVE  SubscriptionsInv'
  <1> DEFINE x == <<w, item[w].sub, item[w].event>>
  <1>1. /\ TypeOK /\ TypeOK' /\ WorkerInv(w) /\ step[w] = "send" /\ sentBy' = sentBy \cup {x}
        /\ UNCHANGED <<stored, phase, reply, cached, stale, forgotten, seen, earlier, from, acking, ackOK, queue,
                       batch, item, lost>>
    BY SendTypes DEF SubscriptionsInv, SendStep, Send, requestVars, subVars
  <1>2. step'[w] = "mark" /\ \A v \in Workers : v # w => step'[v] = step[v]
    BY <1>1 DEF Send, TypeOK
  <1>3. item[w] \in Row /\ item[w].sub \in Requests /\ item[w].event \in Events
    BY <1>1 DEF WorkerInv, Row
  <1>4. \A r, e : Sending(w, r, e)' => Sending(w, r, e) \/ (r = item[w].sub /\ e = item[w].event)
    BY <1>1 DEF Sending
  <1>5. WorkerInv(w)'
    <2>1. \A row \in batch'[w] :
            queue'[row.sub][row.event] # "none" /\ ~Sending(w, row.sub, row.event)'
      BY <1>1, <1>4 DEF WorkerInv
    <2>2. \A r \in Requests, e \in Events : Sending(w, r, e)' =>
            queue'[r][e] = "delivered" \/ (item'[w].sub = r /\ item'[w].event = e)
      BY <1>1, <1>4 DEF WorkerInv
    <2>3. QED
      BY <1>1, <1>2, <1>3, <2>1, <2>2 DEF WorkerInv
  <1>6. \A v \in Workers : v # w =>
          \A r \in Requests, e \in Events : <<v, r, e>> \in sentBy' <=> <<v, r, e>> \in sentBy
    BY <1>1
  <1>7. QED
    BY <1>1, <1>2, <1>5, <1>6, ForwardWhenSame, OneWorkerMoves

\* A worker comes to rest.
LEMMA RestsIdle ==
    ASSUME TypeOK, NEW w \in Workers, Rest(w)
    PROVE  /\ step'[w] = "idle"
           /\ \A v \in Workers : v # w => step'[v] = step[v] /\ item'[v] = item[v]
  BY DEF Rest, TypeOK

LEMMA NoSendKeepsInv ==
    ASSUME SubscriptionsInv, NEW w \in Workers, Reject(w) \/ SendFails(w) \/ Refused(w)
    PROVE  SubscriptionsInv'
  <1>1. /\ TypeOK /\ TypeOK' /\ WorkerInv(w) /\ step[w] = "send" /\ Rest(w)
        /\ UNCHANGED <<stored, phase, reply, cached, stale, forgotten, seen, earlier, from, acking, ackOK, queue,
                       batch, sentBy, lost>>
    BY SendTypes DEF SubscriptionsInv, SendStep, Reject, SendFails, Refused, AfterFailure, requestVars, subVars, history
  <1>2. WorkerInv(w)'
    BY <1>1, RestsIdle DEF WorkerInv, Sending
  <1>3. QED
    BY <1>1, <1>2, RestsIdle, ForwardWhenSame, OneWorkerMoves

LEMMA MarkKeepsInv ==
    ASSUME SubscriptionsInv, NEW w \in Workers, Mark(w)
    PROVE  SubscriptionsInv'
  <1> DEFINE r == item[w].sub
             e == item[w].event
  <1>1. /\ TypeOK /\ TypeOK' /\ WorkerInv(w) /\ step[w] = "mark" /\ Rest(w)
        /\ queue' = [queue EXCEPT ![r][e] = "delivered"]
        /\ UNCHANGED <<stored, phase, reply, cached, stale, forgotten, seen, earlier, from, acking, ackOK,
                       batch, sentBy, lost>>
    BY SendTypes DEF SubscriptionsInv, SendStep, Mark, requestVars, subVars, history
  <1>2. r \in Requests /\ e \in Events /\ queue[r][e] # "none" /\ <<w, r, e>> \in sentBy
    BY <1>1 DEF WorkerInv, Row
  <1> HIDE DEF r, e
  <1>3. \A q \in Requests, d \in Events :
          queue'[q][d] = IF q = r /\ d = e THEN "delivered" ELSE queue[q][d]
    BY <1>1, <1>2 DEF TypeOK
  <1>4. QueueForward
    BY <1>2, <1>3 DEF QueueForward
  <1>5. <<r, e>> \in Sent
    BY <1>2 DEF Sent
  <1>6. WorkerInv(w)'
    <2>1. \A q, d : Sending(w, q, d)' <=> Sending(w, q, d)
      BY <1>1 DEF Sending
    <2>2. \A row \in batch'[w] :
            queue'[row.sub][row.event] # "none" /\ ~Sending(w, row.sub, row.event)'
      <3>1. \A row \in batch[w] : row.sub \in Requests /\ row.event \in Events
        BY <1>1 DEF TypeOK, Row
      <3>2. QED
        BY <1>1, <1>4, <2>1, <3>1 DEF WorkerInv, QueueForward
    <2>3. \A q \in Requests, d \in Events : Sending(w, q, d)' => queue'[q][d] = "delivered"
      BY <1>1, <1>3, <2>1 DEF WorkerInv, r, e
    <2>4. QED
      BY <1>1, <2>2, <2>3, RestsIdle DEF WorkerInv
  <1>7. QED
    BY <1>1, <1>2, <1>3, <1>4, <1>5, <1>6, RestsIdle, OneWorkerMoves

LEMMA LoseKeepsInv ==
    ASSUME SubscriptionsInv, NEW w \in Workers, MarkFails(w) \/ Crash(w)
    PROVE  SubscriptionsInv'
  <1>1. /\ TypeOK /\ TypeOK' /\ WorkerInv(w) /\ Rest(w) /\ MarkLost(w)
        /\ UNCHANGED <<stored, phase, reply, cached, stale, forgotten, seen, earlier, from, acking, ackOK,
                       queue, sentBy>>
    BY SendTypes DEF SubscriptionsInv, SendStep, MarkFails, Crash, requestVars, subVars
  <1>2. batch'[w] \subseteq batch[w] /\ \A v \in Workers : v # w => batch'[v] = batch[v]
    BY <1>1 DEF MarkFails, Crash, TypeOK
  <1>3. /\ lost \subseteq lost'
        /\ \A v \in Workers : v # w => \A r, e : <<v, r, e>> \in lost' <=> <<v, r, e>> \in lost
        /\ step[w] = "mark" => <<w, item[w].sub, item[w].event>> \in lost'
    BY <1>1 DEF MarkLost
  <1>4. WorkerInv(w)'
    <2>1. \A r, e : Sending(w, r, e)' => Sending(w, r, e)
      BY <1>1, <1>3 DEF Sending
    <2>2. \A r \in Requests, e \in Events : Sending(w, r, e)' => queue'[r][e] = "delivered"
      <3> SUFFICES ASSUME NEW r \in Requests, NEW e \in Events, Sending(w, r, e)'
                   PROVE  queue[r][e] = "delivered"
        BY <1>1
      <3>1. ~(step[w] = "mark" /\ item[w].sub = r /\ item[w].event = e)
        BY <1>3 DEF Sending
      <3>2. QED
        BY <1>1, <2>1, <3>1 DEF WorkerInv
    <2>3. \A row \in batch'[w] :
            queue'[row.sub][row.event] # "none" /\ ~Sending(w, row.sub, row.event)'
      BY <1>1, <1>2, <2>1 DEF WorkerInv
    <2>4. \A row, other \in batch'[w] : row.sub = other.sub => row = other
      BY <1>1, <1>2 DEF WorkerInv
    <2>5. QED
      BY <1>1, <2>2, <2>3, <2>4, RestsIdle DEF WorkerInv
  <1>5. QED
    BY <1>1, <1>2, <1>3, <1>4, RestsIdle, ForwardWhenSame, OneWorkerMoves

LEMMA NextInv == SubscriptionsInv /\ [Next]_vars => SubscriptionsInv'
  <1> SUFFICES ASSUME SubscriptionsInv, [Next]_vars PROVE SubscriptionsInv'
    OBVIOUS
  <1>1. CASE UNCHANGED vars
    <2>1. /\ UNCHANGED <<stored, phase, reply, cached, stale, forgotten, seen, earlier, from, queue, acking, ackOK,
                         batch, item, step, sentBy, lost>>
      BY <1>1 DEF vars, requestVars, subVars, workerVars, history
    <2>2. TypeOK /\ TypeOK' /\ AnswersStay /\ QueueForward
      <3>1. TypeOK'
        BY <1>1 DEF SubscriptionsInv, TypeOK, vars, requestVars, subVars, workerVars, history
      <3>2. QED
        BY <2>1, <3>1, StayWhenSame, ForwardWhenSame DEF SubscriptionsInv
    <2>3. (\A r \in Requests : RequestInv(r)') /\ CacheInv'
      BY <2>1, <2>2, RequestStays, CacheStays DEF SubscriptionsInv
    <2>4. QED
      BY <2>1, <2>2, <2>3, WorkersStay DEF SubscriptionsInv
  <1>2. CASE EnvironmentStep
    BY <1>2, EnvironmentKeepsInv
  <1>3. ASSUME NEW r \in Requests, CreateStep(r) PROVE SubscriptionsInv'
    BY <1>3, ReplayKeepsInv, InsertKeepsInv, EnqueueKeepsInv, StoreKeepsInv, AbandonKeepsInv DEF CreateStep
  <1>4. ASSUME NEW r \in Requests, ClientStep(r) PROVE SubscriptionsInv'
    BY <1>4, ClientKeepsInv
  <1>5. ASSUME NEW w \in Workers, TakeStep(w) PROVE SubscriptionsInv'
    BY <1>5, SelectKeepsInv, TakeKeepsInv DEF TakeStep
  <1>6. ASSUME NEW w \in Workers, SendStep(w) PROVE SubscriptionsInv'
    BY <1>6, SendKeepsInv, NoSendKeepsInv, MarkKeepsInv, LoseKeepsInv DEF SendStep
  <1>7. Next => \/ EnvironmentStep
                \/ \E r \in Requests : CreateStep(r) \/ ClientStep(r)
                \/ \E w \in Workers : TakeStep(w) \/ SendStep(w)
    BY DEF Next, Work, EnvironmentStep, CreateStep, ClientStep, TakeStep, SendStep
  <1>8. QED
    BY <1>1, <1>2, <1>3, <1>4, <1>5, <1>6, <1>7

LEMMA SubscriptionsInvariance == Spec => []SubscriptionsInv
  BY InitInv, NextInv, PTL DEF Spec

-----------------------------------------------------------------------------
(***************************************************************************)
(* The theorems.                                                           *)
(***************************************************************************)
\* The tables, requests and workers keep their types: in particular a worker
\* never sends or marks without a row in its hand.
THEOREM SubscriptionsTypes == Spec => []TypeOK
  BY SubscriptionsInvariance, PTL DEF SubscriptionsInv

\* The workers' UPDATE and ack_subscription: a row leaves the queue only because
\* some channel sent its event or the client acked its ledger.
THEOREM DeliveriesExplained == Spec => []DeliveredExplained
  <1>1. SubscriptionsInv => DeliveredExplained
    BY DEF SubscriptionsInv, RequestInv, RowInv, DeliveredExplained
  <1>2. QED
    BY <1>1, SubscriptionsInvariance, PTL

\* ack_subscription: once an ack is answered no row up to its ledger is pending,
\* although the two UPDATEs are not one transaction and the queue of another
\* subscription may be filled between them.
THEOREM AcksSettle == Spec => []AckSettles
  <1>1. SubscriptionsInv => AckSettles
    BY DEF SubscriptionsInv, RequestInv, RowInv, AckSettles
  <1>2. QED
    BY <1>1, SubscriptionsInvariance, PTL

\* create_subscription and the idempotency cache: a client is never told of a
\* subscription whose queue lacks an event stored before it was created.
THEOREM QueuesComplete == Spec => []QueueComplete
  <1>1. SubscriptionsInv => QueueComplete
    <2> SUFFICES ASSUME SubscriptionsInv, NEW q \in Requests, reply[q] # Nobody,
                        NEW e \in seen[reply[q]], LedgerOf[e] >= from[reply[q]]
                 PROVE  queue[reply[q]][e] # "none"
      BY DEF QueueComplete
    <2>1. reply[q] \in Requests /\ phase[reply[q]] = "created"
      BY DEF SubscriptionsInv, TypeOK, RequestInv, AnswerInv
    <2>2. QED
      BY <2>1 DEF SubscriptionsInv, RequestInv, CreateInv
  <1>2. QED
    BY <1>1, SubscriptionsInvariance, PTL

\* Idempotency-Key: while the answer to a request with a key is kept, no later one
\* with the same key makes a second subscription.  What is kept, and until when,
\* is the cache's business: answers come of age, rows of age stay in the way of
\* new ones until they are purged, and concurrent requests race for the first.
THEOREM KeysAnsweredOnce == Spec => []AnsweredOnce
  <1>1. SubscriptionsInv => AnsweredOnce
    BY DEF SubscriptionsInv, RequestInv, AnswerInv, AnsweredOnce
  <1>2. QED
    BY <1>1, SubscriptionsInvariance, PTL

\* run_email_delivery_worker and run_push_delivery_worker: no worker sends an
\* event to a subscription a second time unless its mark was lost.
THEOREM WorkersDoNotResend == Spec => NoResend
  <1>1. SubscriptionsInv /\ [Next]_vars =>
          [\A w \in Workers : step[w] = "send" /\ step'[w] = "mark" =>
              <<w, item[w].sub, item[w].event>> \notin sentBy \ lost]_vars
    BY DEF SubscriptionsInv, WorkerInv, Sending
  <1>2. QED
    BY <1>1, SubscriptionsInvariance, PTL DEF Spec, NoResend
=============================================================================
