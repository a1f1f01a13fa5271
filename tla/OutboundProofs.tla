-------------------------- MODULE OutboundProofs --------------------------
(***************************************************************************)
(* Proofs about Outbound for any number of events, any channel capacity,   *)
(* limits, buffer sizes and schedules, and any number of faults.           *)
(***************************************************************************)
EXTENDS Outbound, FiniteSetTheorems, TLAPS

-----------------------------------------------------------------------------
(***************************************************************************)
(* The inductive invariant.                                                *)
(***************************************************************************)
Increasing(seq) == \A i, j \in 1..Len(seq) : i < j => seq[i] < seq[j]

\* Events a task may still hand over.
Owed(e) ==
    \/ e >= pos
    \/ configured = "webhook" /\ task[e] \in {"none", "check", "try"}
    \/ configured = "redis" /\ e \in Buffered \cup {hand}
    \/ configured = "email" /\ e \in Members(pending) \cup Members(outgoing)

\* Every arrival of an event that is still owed was reported as a failure.
CopyInv == \A e \in Event : Copies(e) <= (IF Owed(e) THEN 0 ELSE 1) + echoes[e]

\* A delivery that has ended left a trace, and so did one that never began.
WebhookInv ==
    /\ Running \subseteq WebhookEvents
    /\ \A e \in Event : task[e] # "none" => e < pos
    /\ \A e \in Event : task[e] = "ok" => Took(e)
    /\ \A e \in Event :
          task[e] = "ended" => e \notin WebhookEvents \/ e \in retries \cup failures \cup unrecorded \/ Took(e)
    /\ configured = "webhook" => \A e \in 1..(pos - 1) : task[e] = "none" => e \in missed

\* The publisher's control state.
RedisControl ==
    /\ mode = "idle" <=> hand = 0
    /\ mode = "drain" => buffer # <<>> /\ attempt = 0
    /\ mode = "publish" => buffer = <<>> /\ attempt < MaxRetries

\* The stream, then the buffer, then the event in hand, are in sending order.
RedisOrder ==
    /\ Increasing(buffer) /\ hand < pos
    /\ \A b \in Buffered : b < pos /\ (hand # 0 => b < hand)
    /\ configured = "redis" =>
          /\ \A i, j \in 1..Len(arrived) : i < j => arrived[i] <= arrived[j]
          /\ \A e \in Event : Took(e) =>
                e < pos /\ (hand # 0 => e <= hand) /\ \A b \in Buffered : e <= b

\* A message is the whole buffer or one critical event.
MailInv ==
    /\ Increasing(pending) /\ \A i \in 1..Len(pending) : pending[i] < pos
    /\ digest => outgoing = pending /\ outgoing # <<>>
    /\ ~digest /\ outgoing # <<>> =>
          /\ Len(outgoing) = 1 /\ outgoing[1] < pos
          /\ outgoing[1] \notin Members(pending)

\* A digest that was begun is remembered for as long as it counts.
DigestInv ==
    /\ schedule.kind = "immediate" => digests = 0
    /\ schedule.kind = "hourly_digest" /\ digests > 0 => sentHour
    /\ schedule.kind = "daily_digest" /\ digests > 0 => sentDay /\ slot >= schedule.at
    /\ OneDigest

OutboundInv ==
    /\ TypeOK /\ pos <= sent + 1
    /\ CopyInv /\ WebhookInv /\ RedisControl /\ RedisOrder /\ MailInv /\ DigestInv
    /\ Accounted

-----------------------------------------------------------------------------
(***************************************************************************)
(* The channel and the remote end.                                         *)
(***************************************************************************)
LEMMA CopiesFinite ==
    ASSUME NEW seq \in Seq(Event), NEW e
    PROVE  /\ IsFiniteSet({i \in 1..Len(seq) : seq[i] = e})
           /\ Cardinality({i \in 1..Len(seq) : seq[i] = e}) \in Nat
  <1>1. IsFiniteSet(1..Len(seq))
    BY FS_Interval
  <1>2. {i \in 1..Len(seq) : seq[i] = e} \in SUBSET (1..Len(seq))
    OBVIOUS
  <1>3. QED
    BY <1>1, <1>2, FS_Subset, FS_CardinalityType

\* A batch without repetitions adds one occurrence of each of its members.
LEMMA CopiesOfConcat ==
    ASSUME NEW seq \in Seq(Event), NEW batch \in Seq(Event), NEW e,
           \A i, j \in 1..Len(batch) : batch[i] = e /\ batch[j] = e => i = j
    PROVE  Cardinality({i \in 1..Len(seq \o batch) : (seq \o batch)[i] = e})
              <= Cardinality({i \in 1..Len(seq) : seq[i] = e})
                 + (IF \E i \in 1..Len(batch) : batch[i] = e THEN 1 ELSE 0)
  <1> DEFINE Old == {i \in 1..Len(seq) : seq[i] = e}
             New == {i \in 1..Len(seq \o batch) : (seq \o batch)[i] = e}
  <1>1. IsFiniteSet(Old) /\ Cardinality(Old) \in Nat
    BY CopiesFinite
  <1>2. CASE \E i \in 1..Len(batch) : batch[i] = e
    <2>1. PICK k \in 1..Len(batch) : batch[k] = e
      BY <1>2
    <2>2. New = Old \cup {Len(seq) + k}
      BY <2>1
    <2>3. Cardinality(New) <= Cardinality(Old) + 1
      <3> HIDE DEF New, Old
      <3>1. Cardinality(Old \cup {Len(seq) + k}) =
               IF Len(seq) + k \in Old THEN Cardinality(Old) ELSE Cardinality(Old) + 1
        BY <1>1, FS_AddElement
      <3>2. QED
        BY <1>1, <2>2, <3>1
    <2>4. QED
      BY <1>2, <2>3
  <1>3. CASE ~ \E i \in 1..Len(batch) : batch[i] = e
    <2>1. New = Old
      BY <1>3
    <2>2. Cardinality(New) = Cardinality(Old)
      BY <2>1
    <2>3. Cardinality(New) <= Cardinality(Old) + 0
      <3> HIDE DEF New, Old
      <3>1. QED
        BY <1>1, <2>2
    <2>4. QED
      BY <1>3, <2>3
  <1>4. QED
    BY <1>2, <1>3

\* What an answer, or a lost one, leaves at the remote end.
LEMMA BatchArrives ==
    ASSUME BroadcastTypeOK, NEW batch \in Seq(Event), Accepted(batch) \/ Failed(batch)
    PROVE  /\ up' = up /\ arrived' \in Seq(Event) /\ echoes' \in [Event -> Nat] /\ faults' \in Nat
           /\ \A e \in Event : Took(e) => Took(e)'
           /\ Accepted(batch) => \A i \in 1..Len(batch) : Took(batch[i])'
           /\ \/ arrived' = arrived
              \/ arrived' = arrived \o batch
  <1>1. arrived' = arrived \/ arrived' = arrived \o batch
    BY DEF Accepted, Failed
  <1>2. arrived \in Seq(Event)
    BY DEF BroadcastTypeOK
  <1>3. arrived' \in Seq(Event)
    <2>1. arrived \o batch \in Seq(Event)
      BY <1>2
    <2>2. QED
      BY <1>1, <1>2, <2>1
  <1>4. ASSUME NEW e \in Event, Took(e)
        PROVE  Took(e)'
    <2>1. PICK i \in 1..Len(arrived) : arrived[i] = e
      BY <1>4 DEF Took
    <2>2. i \in 1..Len(arrived') /\ arrived'[i] = e
      BY <1>1, <1>2, <2>1
    <2>3. QED
      BY <2>2 DEF Took
  <1>5. ASSUME Accepted(batch), NEW i \in 1..Len(batch)
        PROVE  Took(batch[i])'
    <2>1. arrived' = arrived \o batch
      BY <1>5 DEF Accepted
    <2>2. Len(arrived) + i \in 1..Len(arrived') /\ arrived'[Len(arrived) + i] = batch[i]
      BY <1>2, <2>1
    <2>3. QED
      BY <2>2 DEF Took
  <1>6. echoes' \in [Event -> Nat] /\ up' = up /\ faults' \in Nat
    <2>1. CASE Accepted(batch)
      BY <2>1 DEF BroadcastTypeOK, Accepted
    <2>2. CASE Failed(batch) /\ ~up
      BY <2>2 DEF BroadcastTypeOK, Failed
    <2>3. CASE Failed(batch) /\ up
      <3>1. \A e \in Event :
               echoes[e] + (IF \E i \in 1..Len(batch) : batch[i] = e THEN 1 ELSE 0) \in Nat
        BY DEF BroadcastTypeOK
      <3>2. echoes' = [e \in Event |->
               echoes[e] + IF \E i \in 1..Len(batch) : batch[i] = e THEN 1 ELSE 0]
        BY <2>3 DEF Failed
      <3>3. up' = up /\ faults' \in Nat
        BY <2>3 DEF Failed, Fault, BroadcastTypeOK
      <3>4. QED
        BY <3>1, <3>2, <3>3
    <2>4. QED
      BY <2>1, <2>2, <2>3
  <1>7. QED
    BY <1>1, <1>3, <1>4, <1>5, <1>6

\* Steps that hand nothing over keep the copies explained.
LEMMA SilentCopies ==
    ASSUME CopyInv, UNCHANGED <<arrived, echoes>>, BroadcastTypeOK,
           \A e \in Event : Owed(e)' => Owed(e)
    PROVE  CopyInv'
  <1> SUFFICES ASSUME NEW e \in Event
               PROVE  Copies(e)' <= (IF Owed(e)' THEN 0 ELSE 1) + echoes'[e]
    BY DEF CopyInv
  <1>1. Copies(e)' = Copies(e)
    BY DEF Copies
  <1>2. Copies(e) \in Nat /\ echoes[e] \in Nat
    BY CopiesFinite DEF Copies, BroadcastTypeOK
  <1>3. Copies(e) <= (IF Owed(e) THEN 0 ELSE 1) + echoes[e]
    BY DEF CopyInv
  <1>4. QED
    BY <1>1, <1>2, <1>3

\* A task hands over what it owes, and owes what it hands over no longer if it
\* is told that it arrived.
LEMMA BatchCopies ==
    ASSUME CopyInv, BroadcastTypeOK, NEW batch \in Seq(Event), Increasing(batch),
           \A i \in 1..Len(batch) : Owed(batch[i]),
           \A e \in Event : Owed(e)' => Owed(e),
           \/ Failed(batch)
           \/ Accepted(batch) /\ \A i \in 1..Len(batch) : ~ Owed(batch[i])'
    PROVE  CopyInv'
  <1> SUFFICES ASSUME NEW e \in Event
               PROVE  Copies(e)' <= (IF Owed(e)' THEN 0 ELSE 1) + echoes'[e]
    BY DEF CopyInv
  <1> DEFINE more == IF \E i \in 1..Len(batch) : batch[i] = e THEN 1 ELSE 0
  <1>1. Copies(e) <= (IF Owed(e) THEN 0 ELSE 1) + echoes[e]
    BY DEF CopyInv
  <1>2. Copies(e) \in Nat /\ echoes[e] \in Nat
    BY CopiesFinite DEF Copies, BroadcastTypeOK
  <1>3. CASE arrived' = arrived /\ echoes' = echoes
    BY <1>3, SilentCopies DEF CopyInv
  <1>4. CASE arrived' = arrived \o batch
    <2>1. \A i, j \in 1..Len(batch) : batch[i] = e /\ batch[j] = e => i = j
      <3>1. SUFFICES ASSUME NEW i \in 1..Len(batch), NEW j \in 1..Len(batch),
                            batch[i] = e, batch[j] = e, i # j
                     PROVE  FALSE
        OBVIOUS
      <3>2. i < j \/ j < i
        BY <3>1
      <3>3. batch[i] < batch[j] \/ batch[j] < batch[i]
        BY <3>2 DEF Increasing
      <3>4. e \in Int
        BY DEF Event
      <3>5. QED
        BY <3>1, <3>3, <3>4
    <2>2. arrived \in Seq(Event)
      BY DEF BroadcastTypeOK
    <2>3. Copies(e)' <= Copies(e) + more
      <3>1. Cardinality({i \in 1..Len(arrived \o batch) : (arrived \o batch)[i] = e})
               <= Cardinality({i \in 1..Len(arrived) : arrived[i] = e}) + more
        BY <2>1, <2>2, CopiesOfConcat
      <3>2. QED
        BY <1>4, <3>1 DEF Copies
    <2>4. Copies(e)' \in Nat
      <3>1. arrived' \in Seq(Event)
        BY <1>4, <2>2
      <3>2. QED
        BY <3>1, CopiesFinite DEF Copies
    <2>5. more = 1 => Owed(e)
      OBVIOUS
    <2>6. CASE Failed(batch) /\ echoes' # echoes
      <3>1. echoes'[e] = echoes[e] + more
        BY <2>6 DEF Failed
      <3>2. QED
        <4> HIDE DEF more
        <4>1. more \in {0, 1}
          BY DEF more
        <4>2. QED
          BY <1>1, <1>2, <2>3, <2>4, <2>5, <3>1, <4>1
    <2>7. CASE Accepted(batch) /\ \A i \in 1..Len(batch) : ~ Owed(batch[i])'
      <3>1. echoes' = echoes
        BY <2>7 DEF Accepted
      <3>2. more = 1 => ~ Owed(e)'
        BY <2>7
      <3>3. QED
        <4> HIDE DEF more
        <4>1. more \in {0, 1}
          BY DEF more
        <4>2. QED
          BY <1>1, <1>2, <2>3, <2>4, <2>5, <3>1, <3>2, <4>1
    <2>8. CASE Failed(batch) /\ echoes' = echoes
      <3>1. CASE ~up /\ UNCHANGED <<arrived, echoes, faults>>
        BY <1>3, <3>1
      <3>2. CASE up
        <4>1. echoes'[e] = echoes[e] + more
          BY <2>8, <3>2 DEF Failed
        <4>2. more = 0
          BY <1>2, <2>8, <4>1
        <4>3. QED
          BY <1>1, <1>2, <2>3, <2>4, <2>8, <4>2
      <3>3. QED
        BY <2>8, <3>1, <3>2 DEF Failed
    <2>9. QED
      BY <2>6, <2>7, <2>8
  <1>5. QED
    BY <1>3, <1>4 DEF Accepted, Failed

\* The receiver's position and what it was too late for.
LEMMA LagJumps ==
    ASSUME BroadcastTypeOK, Lag
    PROVE  /\ pos' = sent - Capacity + 1 /\ pos < pos' /\ pos' <= sent + 1
           /\ missed \subseteq missed'
           /\ \A e \in 1..(pos' - 1) : e \in 1..(pos - 1) \/ e \in missed'
           /\ pos' \in 1..(MaxEvents + 1) /\ missed' \subseteq Event
  <1>1. Cardinality(pos..sent) = IF pos > sent THEN 0 ELSE sent - pos + 1
    BY FS_Interval DEF BroadcastTypeOK
  <1>2. sent - pos + 1 > Capacity /\ pos <= sent
    BY <1>1, BroadcastAssumption DEF Lag, Unread, BroadcastTypeOK
  <1>3. QED
    BY <1>2, BroadcastAssumption DEF Lag, BroadcastTypeOK, Event

\* What a step of another task leaves of a task's own state.
LEMMA WebhookAside ==
    ASSUME OutboundInv, UNCHANGED <<configured, webhookVars>>, pos' \in Int, pos <= pos',
           \A e \in Event : Took(e) => Took(e)',
           configured = "webhook" =>
              missed \subseteq missed' /\ \A e \in 1..(pos' - 1) : e \in 1..(pos - 1) \/ e \in missed'
    PROVE  WebhookTypeOK' /\ WebhookInv'
  <1>1. WebhookTypeOK'
    BY DEF OutboundInv, TypeOK, WebhookTypeOK, webhookVars
  <1>2. \A e \in Event : e < pos => e < pos'
    BY DEF OutboundInv, TypeOK, BroadcastTypeOK, Event
  <1>4. WebhookInv'
    BY <1>2 DEF OutboundInv, TypeOK, WebhookInv, Running, webhookVars
  <1>5. QED
    BY <1>1, <1>4

LEMMA RedisAside ==
    ASSUME OutboundInv, UNCHANGED <<configured, redisVars>>, pos' \in Int, pos <= pos',
           configured = "redis" => UNCHANGED arrived
    PROVE  RedisTypeOK' /\ RedisControl' /\ RedisOrder'
  <1>1. RedisTypeOK' /\ RedisControl'
    BY DEF OutboundInv, TypeOK, RedisTypeOK, RedisControl, redisVars
  <1>2. \A n \in Int : n < pos => n < pos'
    BY DEF OutboundInv, TypeOK, BroadcastTypeOK
  <1>3. hand \in Int /\ Buffered \subseteq Int /\ Event \subseteq Int
    <2>1. \A n \in Event \cup {0} : n \in Int
      BY DEF Event
    <2>2. QED
      BY <2>1 DEF OutboundInv, TypeOK, RedisTypeOK, Buffered
  <1>4. Buffered' = Buffered /\ (configured = "redis" => \A e \in Event : Took(e)' => Took(e))
    BY DEF Buffered, redisVars, Took
  <1>5. UNCHANGED <<configured, buffer, hand>>
    BY DEF redisVars
  <1>6. RedisOrder'
    BY <1>2, <1>3, <1>4, <1>5 DEF OutboundInv, RedisOrder, Increasing
  <1>7. QED
    BY <1>1, <1>6

LEMMA MailAside ==
    ASSUME OutboundInv, UNCHANGED digestVars, pos' \in Int, pos <= pos'
    PROVE  DigestTypeOK' /\ MailInv' /\ DigestInv'
  <1>1. DigestTypeOK' /\ DigestInv'
    BY DEF OutboundInv, TypeOK, DigestTypeOK, DigestInv, OneDigest, digestVars
  <1>2. \A n \in Int : n < pos => n < pos'
    BY DEF OutboundInv, TypeOK, BroadcastTypeOK
  <1>3. /\ \A i \in 1..Len(pending) : pending[i] \in Int
        /\ \A i \in 1..Len(outgoing) : outgoing[i] \in Int
    <2>1. \A n \in Event : n \in Int
      BY DEF Event
    <2>2. QED
      BY <2>1 DEF OutboundInv, TypeOK, DigestTypeOK
  <1>4. UNCHANGED <<pending, outgoing, digest>>
    BY DEF digestVars
  <1>5. MailInv'
    BY <1>2, <1>3, <1>4 DEF OutboundInv, MailInv, Increasing, Members
  <1>6. QED
    BY <1>1, <1>5

LEMMA WebhookTraces ==
    ASSUME WebhookTypeOK, BroadcastTypeOK, WebhookInv, configured = "webhook"
    PROVE  Accounted
  <1> SUFFICES ASSUME NEW e \in 1..(pos - 1)
               PROVE  e \in missed \/ WebhookAccounts(e)
    BY DEF Accounted, Accounts
  <1>1. e \in Event
    BY BroadcastAssumption DEF BroadcastTypeOK, Event
  <1>2. QED
    BY <1>1 DEF WebhookTypeOK, WebhookInv, WebhookAccounts, Running

-----------------------------------------------------------------------------
(***************************************************************************)
(* The first state, and the rest of the world.                             *)
(***************************************************************************)
LEMMA OutboundInvInit ==
    Init => OutboundInv
  <1> SUFFICES ASSUME Init
               PROVE  OutboundInv
    OBVIOUS
  <1> USE DEF Init
  <1>1. BroadcastTypeOK /\ pos <= sent + 1
    BY OutboundAssumption, BroadcastAssumption DEF BroadcastInit, BroadcastTypeOK
  <1>2. WebhookTypeOK
    <2>1. tries \in [Event -> 0..MaxAttempts]
      BY WebhookAssumption DEF WebhookInit
    <2>2. task \in [Event -> {"none", "check", "try", "ok", "fail", "ended"}]
      BY DEF WebhookInit
    <2>3. window \in 0..(MinuteLimit + 1)
      BY WebhookAssumption DEF WebhookInit
    <2>4. QED
      BY <2>1, <2>2, <2>3 DEF WebhookInit, WebhookTypeOK
  <1>3. RedisTypeOK
    BY RedisAssumption DEF RedisInit, RedisTypeOK
  <1>4. DigestTypeOK
    <2>1. (slot >= schedule.at) \in BOOLEAN
      OBVIOUS
    <2>2. pending \in Seq(Event) /\ outgoing \in Seq(Event)
      BY DEF DigestInit
    <2>3. QED
      BY <2>1, <2>2 DEF DigestInit, DigestTypeOK
  <1>5. CopyInv
    <2> SUFFICES ASSUME NEW e \in Event
                 PROVE  Copies(e) <= (IF Owed(e) THEN 0 ELSE 1) + echoes[e]
      BY DEF CopyInv
    <2>1. {i \in 1..Len(arrived) : arrived[i] = e} = {}
      BY DEF BroadcastInit
    <2>2. Copies(e) = 0 /\ echoes[e] = 0
      BY <2>1, FS_EmptySet DEF Copies, BroadcastInit
    <2>3. QED
      BY <2>2
  <1>6. WebhookInv
    BY DEF WebhookInit, WebhookInv, Running, BroadcastInit
  <1>7. RedisControl /\ RedisOrder
    BY RedisAssumption
       DEF RedisInit, RedisControl, RedisOrder, BroadcastInit, Increasing, Buffered, Took
  <1>8. MailInv
    BY DEF DigestInit, MailInv, Increasing
  <1>9. DigestInv
    BY DEF DigestInit, DigestInv, OneDigest
  <1>10. Accounted
    BY DEF Accounted, BroadcastInit
  <1>11. QED
    BY <1>1, <1>2, <1>3, <1>4, <1>5, <1>6, <1>7, <1>8, <1>9, <1>10 DEF OutboundInv, TypeOK

LEMMA WorldStep ==
    ASSUME OutboundInv, World, UNCHANGED <<configured, webhookVars, redisVars, digestVars>>
    PROVE  OutboundInv'
  <1>1. BroadcastTypeOK
    BY DEF OutboundInv, TypeOK
  <1>2. /\ BroadcastTypeOK' /\ pos <= pos' /\ pos' <= sent' + 1 /\ UNCHANGED <<arrived, echoes>>
        /\ missed \subseteq missed' /\ \A e \in 1..(pos' - 1) : e \in 1..(pos - 1) \/ e \in missed'
    <2>1. CASE Announce
      BY <1>1, <2>1, BroadcastAssumption
         DEF Announce, BroadcastTypeOK, OutboundInv, remoteVars
    <2>2. CASE Lag
      <3>1. UNCHANGED <<sent, arrived, echoes, up, faults>>
        BY <2>2 DEF Lag, remoteVars
      <3>2. pos <= pos' /\ pos' <= sent' + 1
        BY <1>1, <2>2, <3>1, LagJumps DEF BroadcastTypeOK
      <3>3. QED
        BY <1>1, <2>2, <3>1, <3>2, LagJumps DEF BroadcastTypeOK
    <2>3. CASE Outage
      <3>1. up' \in BOOLEAN
        BY <2>3 DEF Outage
      <3>2. faults' \in Nat
        BY <1>1, <2>3 DEF Outage, Fault, BroadcastTypeOK
      <3>3. UNCHANGED <<sent, pos, missed, arrived, echoes>>
        BY <2>3 DEF Outage, channelVars
      <3>4. BroadcastTypeOK'
        BY <1>1, <3>1, <3>2, <3>3 DEF BroadcastTypeOK
      <3>5. pos \in Int /\ sent \in Int
        BY <1>1 DEF BroadcastTypeOK
      <3>6. QED
        BY <3>3, <3>4, <3>5 DEF OutboundInv
    <2>4. CASE Recovery
      BY <1>1, <2>4 DEF Recovery, BroadcastTypeOK, OutboundInv, channelVars
    <2>5. QED
      BY <2>1, <2>2, <2>3, <2>4 DEF World
  <1>3. \A e \in Event : Took(e) <=> Took(e)'
    BY <1>2 DEF Took
  <1>4. pos \in Int /\ pos' \in Int
    BY <1>1, <1>2 DEF BroadcastTypeOK
  <1>5. CopyInv'
    <2>1. \A e \in Event : Owed(e)' => Owed(e)
      BY <1>2, <1>4
         DEF Owed, Event, Buffered, Members, webhookVars, redisVars, digestVars
    <2>2. QED
      BY <1>1, <1>2, <2>1, SilentCopies DEF OutboundInv
  <1>6. WebhookTypeOK' /\ WebhookInv'
    BY <1>2, <1>3, <1>4, WebhookAside
  <1>7. RedisTypeOK' /\ RedisControl' /\ RedisOrder'
    BY <1>2, <1>4, RedisAside
  <1>8. DigestTypeOK' /\ MailInv' /\ DigestInv'
    BY <1>2, <1>4, MailAside
  <1>9. Accounted'
    <2> SUFFICES ASSUME NEW e \in 1..(pos' - 1), e \notin missed'
                 PROVE  Accounts(e)'
      BY DEF Accounted
    <2>0. e \in 1..(pos - 1) /\ e \notin missed
      BY <1>2
    <2>1. e \in Event
      BY <1>1, <2>0, BroadcastAssumption DEF BroadcastTypeOK, Event
    <2>2. Accounts(e)
      BY <2>0 DEF OutboundInv, Accounted
    <2>3. QED
      BY <1>3, <2>1, <2>2
         DEF Accounts, WebhookAccounts, RedisAccounts, MailAccounts, Running, Buffered, Members,
             webhookVars, redisVars, digestVars
  <1>10. configured' \in Tasks
    BY DEF OutboundInv, TypeOK
  <1>11. QED
    BY <1>2, <1>5, <1>6, <1>7, <1>8, <1>9, <1>10 DEF OutboundInv, TypeOK

-----------------------------------------------------------------------------
(***************************************************************************)
(* Steps of a task on the channel.                                         *)
(***************************************************************************)
\* Receiving an event, and a restart.
LEMMA ReceiveMoves ==
    ASSUME OutboundInv, NEW e \in Event, Receive(e), UNCHANGED <<remoteVars, faults>>
    PROVE  /\ BroadcastTypeOK' /\ e = pos /\ pos' = pos + 1 /\ pos' <= sent' + 1
           /\ UNCHANGED <<missed, arrived, echoes>>
  <1>1. BroadcastTypeOK
    BY DEF OutboundInv, TypeOK
  <1>2. e = pos /\ pos' = pos + 1 /\ UNCHANGED <<sent, missed, up, arrived, echoes, faults>>
    BY DEF Receive, remoteVars
  <1>3. pos <= sent
    BY <1>1 DEF Receive, Unread, BroadcastTypeOK
  <1>4. pos' \in 1..(MaxEvents + 1) /\ pos' <= sent' + 1
    BY <1>1, <1>2, <1>3, BroadcastAssumption DEF BroadcastTypeOK
  <1>5. QED
    BY <1>1, <1>2, <1>4 DEF BroadcastTypeOK

LEMMA ReconnectMoves ==
    ASSUME OutboundInv, Reconnect
    PROVE  /\ BroadcastTypeOK' /\ pos <= pos' /\ pos' <= sent' + 1
           /\ UNCHANGED <<arrived, echoes>> /\ missed \subseteq missed'
           /\ \A e \in 1..(pos' - 1) : e \in 1..(pos - 1) \/ e \in missed'
  <1>1. BroadcastTypeOK /\ pos <= sent + 1
    BY DEF OutboundInv, TypeOK
  <1>2. /\ missed' = missed \cup pos..sent /\ pos' = sent + 1
        /\ UNCHANGED <<sent, up, arrived, echoes>>
    BY DEF Reconnect, remoteVars, Unread
  <1>3. faults' \in Nat
    BY <1>1 DEF Reconnect, Fault, BroadcastTypeOK
  <1>4. /\ pos' \in 1..(MaxEvents + 1) /\ missed' \subseteq Event
        /\ pos <= pos' /\ pos' <= sent' + 1
    BY <1>1, <1>2, BroadcastAssumption DEF BroadcastTypeOK, Event
  <1>5. \A e \in 1..(pos' - 1) : e \in 1..(pos - 1) \/ e \in missed'
    BY <1>1, <1>2 DEF BroadcastTypeOK
  <1>6. BroadcastTypeOK'
    BY <1>1, <1>2, <1>3, <1>4 DEF BroadcastTypeOK
  <1>7. QED
    BY <1>2, <1>4, <1>5, <1>6

\* A request to the remote end.
LEMMA RequestMoves ==
    ASSUME OutboundInv, NEW batch \in Seq(Event), Accepted(batch) \/ Failed(batch),
           UNCHANGED channelVars
    PROVE  /\ BroadcastTypeOK' /\ UNCHANGED <<pos, missed, sent>> /\ pos' <= sent' + 1
           /\ \A e \in Event : Took(e) => Took(e)'
           /\ Accepted(batch) => \A i \in 1..Len(batch) : Took(batch[i])'
  <1>1. BroadcastTypeOK /\ pos <= sent + 1
    BY DEF OutboundInv, TypeOK
  <1>2. UNCHANGED <<pos, missed, sent>>
    BY DEF channelVars
  <1>3. /\ up' = up /\ arrived' \in Seq(Event) /\ echoes' \in [Event -> Nat] /\ faults' \in Nat
        /\ \A e \in Event : Took(e) => Took(e)'
        /\ Accepted(batch) => \A i \in 1..Len(batch) : Took(batch[i])'
    BY <1>1, BatchArrives
  <1>4. BroadcastTypeOK'
    BY <1>1, <1>2, <1>3 DEF BroadcastTypeOK
  <1>5. QED
    BY <1>1, <1>2, <1>3, <1>4

\* A step that only uses up a fault.
LEMMA QuietMoves ==
    ASSUME OutboundInv, UNCHANGED <<channelVars, remoteVars>>, faults' = faults \/ Fault
    PROVE  /\ BroadcastTypeOK' /\ pos' <= sent' + 1
           /\ UNCHANGED <<pos, missed, sent, arrived, echoes>>
           /\ \A e \in Event : Took(e) <=> Took(e)'
  <1>1. BroadcastTypeOK /\ pos <= sent + 1
    BY DEF OutboundInv, TypeOK
  <1>2. UNCHANGED <<pos, missed, sent, up, arrived, echoes>>
    BY DEF channelVars, remoteVars
  <1>3. faults' \in Nat
    BY <1>1 DEF Fault, BroadcastTypeOK
  <1>4. BroadcastTypeOK'
    BY <1>1, <1>2, <1>3 DEF BroadcastTypeOK
  <1>5. QED
    BY <1>1, <1>2, <1>4 DEF Took

\* What is left to show of a step of the webhook task.
LEMMA WebhookRest ==
    ASSUME OutboundInv, configured = "webhook", UNCHANGED <<configured, redisVars, digestVars>>,
           BroadcastTypeOK', pos <= pos', pos' <= sent' + 1,
           CopyInv', WebhookTypeOK', WebhookInv'
    PROVE  OutboundInv'
  <1>1. pos' \in Int
    BY DEF BroadcastTypeOK
  <1>2. RedisTypeOK' /\ RedisControl' /\ RedisOrder'
    BY <1>1, RedisAside
  <1>3. DigestTypeOK' /\ MailInv' /\ DigestInv'
    BY <1>1, MailAside
  <1>4. Accounted'
    <2>1. (WebhookTypeOK /\ BroadcastTypeOK /\ WebhookInv /\ configured = "webhook" => Accounted)'
      BY WebhookTraces, PTL
    <2>2. QED
      BY <2>1
  <1>5. configured' \in Tasks
    BY DEF OutboundInv, TypeOK
  <1>6. QED
    BY <1>2, <1>3, <1>4, <1>5 DEF OutboundInv, TypeOK

\* A step of one delivery: e leaves the state it was in, the others stay.
Passage(e, from, to) == task[e] = from /\ task' = [task EXCEPT ![e] = to]

\* The steps of a delivery that do not talk to the endpoint.
LEMMA DeliveryBookkeeping ==
    ASSUME OutboundInv, configured = "webhook", UNCHANGED <<configured, redisVars, digestVars>>,
           NEW e \in Event,
           \/ Suppress(e) \/ Admit(e) \/ Defer(e) \/ DeferLost(e) \/ AdmitUnchecked(e)
           \/ RecordSuccess(e) \/ RecordFailure(e) \/ RecordFails(e)
    PROVE  OutboundInv'
  <1>1. WebhookTypeOK /\ WebhookInv /\ CopyInv /\ BroadcastTypeOK
    BY DEF OutboundInv, TypeOK
  <1>2. /\ UNCHANGED <<channelVars, remoteVars, tries, suppressed>>
        /\ faults' = faults \/ Fault
    BY DEF Suppress, Admit, Defer, DeferLost, AdmitUnchecked, RecordSuccess, RecordFailure,
           RecordFails, NotSuppressed, broadcastVars
  <1>3. /\ retries \subseteq retries' /\ failures \subseteq failures' /\ unrecorded \subseteq unrecorded'
        /\ retries' \subseteq retries \cup {e} /\ failures' \subseteq failures \cup {e}
        /\ unrecorded' \subseteq unrecorded \cup {e}
    BY DEF Suppress, Admit, Defer, DeferLost, AdmitUnchecked, RecordSuccess, RecordFailure,
           RecordFails, Deferred
  <1>4. \/ Passage(e, "check", "ended") /\ e \in retries' \cup unrecorded'
        \/ Passage(e, "check", "try")
        \/ Passage(e, "ok", "ended")
        \/ Passage(e, "fail", "ended") /\ e \in failures' \cup unrecorded'
    <2>1. CASE Suppress(e) \/ Defer(e) \/ DeferLost(e)
      BY <2>1 DEF Suppress, Defer, DeferLost, Deferred, Goes, Passage
    <2>2. CASE Admit(e) \/ AdmitUnchecked(e) \/ RecordSuccess(e)
      BY <2>2 DEF Admit, AdmitUnchecked, RecordSuccess, Goes, Passage
    <2>3. CASE RecordFailure(e) \/ RecordFails(e)
      BY <2>3 DEF RecordFailure, RecordFails, Goes, Passage
    <2>4. QED
      BY <2>1, <2>2, <2>3
  <1>5. window' \in 0..(MinuteLimit + 1)
    <2>1. window' = window \/ window' = Counted
      BY DEF Suppress, Admit, Defer, DeferLost, AdmitUnchecked, RecordSuccess, RecordFailure,
             RecordFails, Count
    <2>2. Counted \in 0..(MinuteLimit + 1)
      BY <1>1, WebhookAssumption DEF Counted, WebhookTypeOK
    <2>3. QED
      BY <1>1, <2>1, <2>2 DEF WebhookTypeOK
  <1>6. minute' \in BOOLEAN
    <2>1. minute' = minute \/ minute' = TRUE
      BY DEF Suppress, Admit, Defer, DeferLost, AdmitUnchecked, RecordSuccess, RecordFailure,
             RecordFails, Count
    <2>2. QED
      BY <1>1, <2>1 DEF WebhookTypeOK
  <1>7. backoff' \in BOOLEAN
    <2>1. backoff' = backoff \/ backoff' = FALSE \/ backoff' = (backoff \/ window > 0)
      BY DEF Suppress, Admit, Defer, DeferLost, AdmitUnchecked, RecordSuccess, RecordFailure,
             RecordFails
    <2>2. QED
      BY <1>1, <2>1 DEF WebhookTypeOK
  <1>8. BroadcastTypeOK' /\ pos' <= sent' + 1 /\ UNCHANGED <<pos, missed, sent, arrived, echoes>>
        /\ \A x \in Event : Took(x) <=> Took(x)'
    BY <1>2, QuietMoves
  <1>9. /\ \A x \in Event : x # e => task'[x] = task[x]
        /\ task' \in [Event -> {"none", "check", "try", "ok", "fail", "ended"}]
        /\ task[e] \in {"check", "ok", "fail"} /\ task'[e] \in {"try", "ended"}
        /\ task'[e] = "try" => task[e] = "check"
        /\ task'[e] = "ended" => task[e] = "ok" \/ e \in retries' \cup failures' \cup unrecorded'
    BY <1>1, <1>4 DEF Passage, WebhookTypeOK
  <1>10. e \in WebhookEvents
    BY <1>1, <1>9 DEF WebhookInv, Running
  <1>11. WebhookTypeOK'
    BY <1>1, <1>2, <1>3, <1>5, <1>6, <1>7, <1>9, <1>10 DEF WebhookTypeOK
  <1>12. CopyInv'
    <2>1. \A x \in Event : Owed(x)' => Owed(x)
      BY <1>8, <1>9 DEF Owed
    <2>2. QED
      BY <1>1, <1>8, <2>1, SilentCopies
  <1>13. WebhookInv'
    <2>1. (Running \subseteq WebhookEvents)'
      BY <1>1, <1>9, <1>10 DEF WebhookInv, Running
    <2>2. ASSUME NEW x \in Event
          PROVE  /\ task'[x] = "ok" => Took(x)'
                 /\ task'[x] = "ended" =>
                       x \notin WebhookEvents \/ x \in retries' \cup failures' \cup unrecorded' \/ Took(x)'
                 /\ x \in 1..(pos' - 1) /\ task'[x] = "none" => x \in missed'
                 /\ task'[x] # "none" => x < pos'
      BY <1>1, <1>3, <1>8, <1>9 DEF WebhookInv
    <2>3. \A x \in 1..(pos' - 1) : x \in Event
      BY <1>8, BroadcastAssumption DEF BroadcastTypeOK, Event
    <2>4. QED
      BY <2>1, <2>2, <2>3 DEF WebhookInv
  <1>14. pos <= pos'
    BY <1>1, <1>8 DEF BroadcastTypeOK
  <1>15. QED
    BY <1>8, <1>11, <1>12, <1>13, <1>14, WebhookRest

\* The attempts, and what starts and ends deliveries.
LEMMA WebhookStep ==
    ASSUME OutboundInv, configured = "webhook", UNCHANGED <<configured, redisVars, digestVars>>,
           WebhookNext
    PROVE  OutboundInv'
  <1>1. WebhookTypeOK /\ WebhookInv /\ CopyInv /\ BroadcastTypeOK
    BY DEF OutboundInv, TypeOK
  <1>2. \A x \in 1..(pos - 1) : x \in Event
    BY <1>1, BroadcastAssumption DEF BroadcastTypeOK, Event
  <1>3. ASSUME NEW e \in Event, WebhookReceive(e)
        PROVE  OutboundInv'
    <2>1. /\ BroadcastTypeOK' /\ e = pos /\ pos' = pos + 1 /\ pos' <= sent' + 1
          /\ UNCHANGED <<missed, arrived, echoes>>
      BY <1>3, ReceiveMoves DEF WebhookReceive
    <2>2. UNCHANGED <<tries, window, minute, backoff, retries, failures, suppressed, unrecorded>>
      BY <1>3 DEF WebhookReceive
    <2>3. /\ task' \in [Event -> {"none", "check", "try", "ok", "fail", "ended"}]
          /\ \A x \in Event : x # e => task'[x] = task[x]
          /\ task'[e] = IF e \in WebhookEvents THEN "check" ELSE "ended"
      BY <1>1, <1>3 DEF WebhookReceive, Goes, Passes, WebhookTypeOK
    <2>4. WebhookTypeOK'
      BY <1>1, <2>2, <2>3 DEF WebhookTypeOK
    <2>5. pos \in Int
      BY <1>1 DEF BroadcastTypeOK
    <2>6. CopyInv'
      <3>1. \A x \in Event : Owed(x)' => Owed(x)
        BY <2>1, <2>3, <2>5 DEF Owed, Event
      <3>2. QED
        BY <1>1, <2>1, <3>1, SilentCopies
    <2>7. WebhookInv'
      <3>1. \A x \in Event : Took(x) => Took(x)'
        BY <2>1 DEF Took
      <3>2. (Running \subseteq WebhookEvents)'
        BY <1>1, <2>3 DEF WebhookInv, Running
      <3>3. ASSUME NEW x \in Event
            PROVE  /\ task'[x] = "ok" => Took(x)'
                   /\ task'[x] = "ended" =>
                         x \notin WebhookEvents \/ x \in retries' \cup failures' \cup unrecorded' \/ Took(x)'
        BY <1>1, <2>2, <2>3, <3>1 DEF WebhookInv
      <3>6. \A x \in Event : task'[x] # "none" => x < pos'
        BY <1>1, <2>1, <2>3, <2>5 DEF WebhookInv, Event
      <3>4. ASSUME NEW x \in 1..(pos' - 1), task'[x] = "none"
            PROVE  x \in missed'
        <4>1. x # e /\ x \in 1..(pos - 1)
          BY <2>1, <2>3, <2>5, <3>4
        <4>2. QED
          BY <1>1, <1>2, <2>1, <2>3, <3>4, <4>1 DEF WebhookInv
      <3>5. QED
        BY <3>2, <3>3, <3>4, <3>6 DEF WebhookInv
    <2>8. QED
      BY <2>1, <2>4, <2>5, <2>6, <2>7, WebhookRest
  <1>4. ASSUME NEW e \in Event, Deliver(e) \/ Attempt(e)
        PROVE  OutboundInv'
    <2>1. /\ <<e>> \in Seq(Event) /\ Len(<<e>>) = 1 /\ <<e>>[1] = e
          /\ Accepted(<<e>>) \/ Failed(<<e>>)
          /\ UNCHANGED <<channelVars, window, minute, backoff, retries, failures, suppressed, unrecorded>>
      BY <1>4 DEF Deliver, Attempt
    <2>2. /\ BroadcastTypeOK' /\ UNCHANGED <<pos, missed, sent>> /\ pos' <= sent' + 1
          /\ \A x \in Event : Took(x) => Took(x)'
          /\ Accepted(<<e>>) => Took(e)'
      <3>1. /\ BroadcastTypeOK' /\ UNCHANGED <<pos, missed, sent>> /\ pos' <= sent' + 1
            /\ \A x \in Event : Took(x) => Took(x)'
            /\ Accepted(<<e>>) => \A i \in 1..Len(<<e>>) : Took(<<e>>[i])'
        BY <2>1, RequestMoves
      <3>2. 1 \in 1..Len(<<e>>)
        BY <2>1
      <3>3. Accepted(<<e>>) => Took(<<e>>[1])'
        BY <3>1, <3>2
      <3>4. QED
        BY <2>1, <3>1, <3>3
    <2>3. /\ task[e] = "try" /\ task'[e] \in {"ok", "fail", "try"}
          /\ task' \in [Event -> {"none", "check", "try", "ok", "fail", "ended"}]
          /\ \A x \in Event : x # e => task'[x] = task[x]
          /\ \/ Accepted(<<e>>) /\ task'[e] = "ok"
             \/ Failed(<<e>>) /\ task'[e] # "ok"
      BY <1>1, <1>4 DEF Deliver, Attempt, Goes, WebhookTypeOK
    <2>4. tries' \in [Event -> 0..MaxAttempts]
      <3>1. tries' = tries \/ tries' = [tries EXCEPT ![e] = IF @ < MaxAttempts THEN @ + 1 ELSE @]
        BY <1>4 DEF Deliver, Attempt
      <3>2. QED
        BY <1>1, <3>1, WebhookAssumption DEF WebhookTypeOK
    <2>5. WebhookTypeOK'
      BY <1>1, <2>1, <2>3, <2>4 DEF WebhookTypeOK
    <2>6. CopyInv'
      <3>1. Increasing(<<e>>)
        BY <2>1 DEF Increasing
      <3>2. \A i \in 1..Len(<<e>>) : Owed(<<e>>[i])
        BY <2>1, <2>3 DEF Owed
      <3>3. \A x \in Event : Owed(x)' => Owed(x)
        BY <2>2, <2>3 DEF Owed
      <3>4. task'[e] = "ok" => ~ Owed(e)'
        BY <1>1, <2>2, <2>3 DEF Owed, WebhookInv, Event, BroadcastTypeOK
      <3>5. \A i \in 1..Len(<<e>>) : <<e>>[i] = e
        BY <2>1
      <3>6. Failed(<<e>>) \/ (Accepted(<<e>>) /\ \A i \in 1..Len(<<e>>) : ~ Owed(<<e>>[i])')
        BY <2>3, <3>4, <3>5
      <3>7. QED
        BY <1>1, <2>1, <3>1, <3>2, <3>3, <3>6, BatchCopies
    <2>7. WebhookInv'
      <3>1. (Running \subseteq WebhookEvents)'
        BY <1>1, <2>3 DEF WebhookInv, Running
      <3>2. QED
        BY <1>1, <1>2, <2>1, <2>2, <2>3, <3>1 DEF WebhookInv
    <2>8. pos <= pos'
      BY <1>1, <2>2 DEF BroadcastTypeOK
    <2>9. QED
      BY <2>2, <2>5, <2>6, <2>7, <2>8, WebhookRest
  <1>5. CASE Minute \/ BackoffEnds
    <2>1. /\ UNCHANGED <<channelVars, remoteVars, faults>>
          /\ UNCHANGED <<task, tries, window, retries, failures, suppressed, unrecorded>>
      BY <1>5 DEF Minute, BackoffEnds, broadcastVars
    <2>2. minute' \in BOOLEAN /\ backoff' \in BOOLEAN
      BY <1>1, <1>5 DEF Minute, BackoffEnds, WebhookTypeOK
    <2>3. /\ BroadcastTypeOK' /\ pos' <= sent' + 1
          /\ UNCHANGED <<pos, missed, sent, arrived, echoes>>
          /\ \A x \in Event : Took(x) <=> Took(x)'
      BY <2>1, QuietMoves
    <2>4. WebhookTypeOK'
      BY <1>1, <2>1, <2>2 DEF WebhookTypeOK
    <2>5. WebhookInv'
      BY <1>1, <2>1, <2>3 DEF WebhookInv, Running
    <2>6. CopyInv'
      BY <1>1, <2>1, <2>3, SilentCopies DEF Owed
    <2>7. pos <= pos'
      BY <1>1, <2>3 DEF BroadcastTypeOK
    <2>8. QED
      BY <2>3, <2>4, <2>5, <2>6, <2>7, WebhookRest
  <1>6. CASE WebhookRestart
    <2>1. /\ BroadcastTypeOK' /\ pos <= pos' /\ pos' <= sent' + 1
          /\ UNCHANGED <<arrived, echoes>> /\ missed \subseteq missed'
          /\ \A x \in 1..(pos' - 1) : x \in 1..(pos - 1) \/ x \in missed'
      BY <1>6, ReconnectMoves DEF WebhookRestart
    <2>2. /\ unrecorded' = unrecorded \cup Running
          /\ task' = [x \in Event |-> IF x \in Running THEN "ended" ELSE task[x]]
          /\ UNCHANGED <<tries, window, minute, backoff, retries, failures, suppressed>>
      BY <1>6 DEF WebhookRestart
    <2>3. WebhookTypeOK'
      BY <1>1, <2>2 DEF WebhookTypeOK, Running
    <2>4. \A x \in Event : Took(x) <=> Took(x)'
      BY <2>1 DEF Took
    <2>5. CopyInv'
      <3>1. \A x \in Event : Owed(x)' => Owed(x)
        BY <1>1, <2>1, <2>2 DEF Owed, Event, BroadcastTypeOK
      <3>2. QED
        BY <1>1, <2>1, <3>1, SilentCopies
    <2>6. WebhookInv'
      <3>1. \A x \in Event : task'[x] = IF x \in Running THEN "ended" ELSE task[x]
        BY <2>2
      <3>2. Running' = {}
        BY <3>1 DEF Running
      <3>3. ASSUME NEW x \in Event
            PROVE  /\ task'[x] = "ok" => Took(x)'
                   /\ task'[x] = "ended" =>
                         x \notin WebhookEvents \/ x \in retries' \cup failures' \cup unrecorded' \/ Took(x)'
        BY <1>1, <2>2, <2>4, <3>1 DEF WebhookInv
      <3>4. ASSUME NEW x \in 1..(pos' - 1), task'[x] = "none"
            PROVE  x \in missed'
        BY <1>1, <1>2, <2>1, <3>1, <3>4 DEF WebhookInv
      <3>5. \A x \in Event : task'[x] # "none" => x < pos'
        BY <1>1, <2>1, <3>1 DEF WebhookInv, Running, Event, BroadcastTypeOK
      <3>6. QED
        BY <3>2, <3>3, <3>4, <3>5 DEF WebhookInv
    <2>7. QED
      BY <2>1, <2>3, <2>5, <2>6, WebhookRest
  <1>7. QED
    BY <1>3, <1>4, <1>5, <1>6, DeliveryBookkeeping DEF WebhookNext, Delivery

-----------------------------------------------------------------------------
(***************************************************************************)
(* Steps of the Redis publisher.                                           *)
(***************************************************************************)
LEMMA RedisRest ==
    ASSUME OutboundInv, configured = "redis", UNCHANGED <<configured, webhookVars, digestVars>>,
           BroadcastTypeOK', pos <= pos', pos' <= sent' + 1, \A e \in Event : Took(e) => Took(e)',
           CopyInv', RedisTypeOK', RedisControl', RedisOrder', Accounted'
    PROVE  OutboundInv'
  <1>1. pos' \in Int
    BY DEF BroadcastTypeOK
  <1>2. WebhookTypeOK' /\ WebhookInv'
    BY <1>1, WebhookAside
  <1>3. DigestTypeOK' /\ MailInv' /\ DigestInv'
    BY <1>1, MailAside
  <1>4. configured' \in Tasks
    BY DEF OutboundInv, TypeOK
  <1>5. QED
    BY <1>2, <1>3, <1>4 DEF OutboundInv, TypeOK

\* The buffer keeps its order when its first element leaves.
LEMMA TailOfBuffer ==
    ASSUME NEW seq \in Seq(Event), seq # <<>>, Increasing(seq)
    PROVE  /\ Head(seq) = seq[1] /\ seq[1] \in Event /\ 1 \in 1..Len(seq)
           /\ Tail(seq) \in Seq(Event) /\ Len(Tail(seq)) = Len(seq) - 1 /\ Increasing(Tail(seq))
           /\ \A j \in 1..Len(Tail(seq)) : j + 1 \in 1..Len(seq) /\ Tail(seq)[j] = seq[j + 1]
           /\ \A j \in 1..Len(Tail(seq)) : seq[1] < Tail(seq)[j]
           /\ \A j \in 1..Len(seq) : j = 1 \/ (j - 1 \in 1..Len(Tail(seq)) /\ seq[j] = Tail(seq)[j - 1])
  <1>1. /\ Head(seq) = seq[1] /\ seq[1] \in Event /\ 1 \in 1..Len(seq)
        /\ Tail(seq) \in Seq(Event) /\ Len(Tail(seq)) = Len(seq) - 1
    OBVIOUS
  <1>2. \A j \in 1..Len(Tail(seq)) : j + 1 \in 1..Len(seq) /\ Tail(seq)[j] = seq[j + 1]
    OBVIOUS
  <1>3. \A j \in 1..Len(seq) : j = 1 \/ (j - 1 \in 1..Len(Tail(seq)) /\ seq[j] = Tail(seq)[j - 1])
    BY <1>1, <1>2
  <1>4. Increasing(Tail(seq))
    <2> SUFFICES ASSUME NEW i \in 1..Len(Tail(seq)), NEW j \in 1..Len(Tail(seq)), i < j
                 PROVE  Tail(seq)[i] < Tail(seq)[j]
      BY DEF Increasing
    <2>1. i + 1 \in 1..Len(seq) /\ j + 1 \in 1..Len(seq) /\ i + 1 < j + 1
      BY <1>2
    <2>2. seq[i + 1] < seq[j + 1]
      BY <2>1 DEF Increasing
    <2>3. QED
      BY <1>2, <2>2
  <1>5. \A j \in 1..Len(Tail(seq)) : seq[1] < Tail(seq)[j]
    BY <1>1, <1>2 DEF Increasing
  <1>6. QED
    BY <1>1, <1>2, <1>3, <1>4, <1>5

\* ... and when a later event is put behind the others.
LEMMA EndOfBuffer ==
    ASSUME NEW seq \in Seq(Event), NEW e \in Event, Increasing(seq),
           \A j \in 1..Len(seq) : seq[j] < e
    PROVE  /\ Append(seq, e) \in Seq(Event) /\ Len(Append(seq, e)) = Len(seq) + 1
           /\ Increasing(Append(seq, e))
           /\ \A j \in 1..Len(seq) : Append(seq, e)[j] = seq[j]
           /\ Append(seq, e)[Len(seq) + 1] = e
           /\ \A j \in 1..Len(Append(seq, e)) : j = Len(seq) + 1 \/ j \in 1..Len(seq)
  <1>1. /\ Append(seq, e) \in Seq(Event) /\ Len(Append(seq, e)) = Len(seq) + 1
        /\ \A j \in 1..Len(seq) : Append(seq, e)[j] = seq[j]
        /\ Append(seq, e)[Len(seq) + 1] = e
    OBVIOUS
  <1>2. \A j \in 1..Len(Append(seq, e)) : j = Len(seq) + 1 \/ j \in 1..Len(seq)
    BY <1>1
  <1>3. Increasing(Append(seq, e))
    <2> SUFFICES ASSUME NEW i \in 1..Len(Append(seq, e)), NEW j \in 1..Len(Append(seq, e)), i < j
                 PROVE  Append(seq, e)[i] < Append(seq, e)[j]
      BY DEF Increasing
    <2>1. i \in 1..Len(seq)
      BY <1>1, <1>2
    <2>2. CASE j = Len(seq) + 1
      BY <1>1, <2>1, <2>2
    <2>3. CASE j \in 1..Len(seq)
      BY <1>1, <2>1, <2>3 DEF Increasing
    <2>4. QED
      BY <1>2, <2>2, <2>3
  <1>4. QED
    BY <1>1, <1>2, <1>3

\* buffer_event: nothing leaves the buffer unseen, and its order stays.
LEMMA BufferEventKeeps ==
    ASSUME RedisTypeOK, RedisOrder, pos \in Int, hand # 0, BufferEvent
    PROVE  /\ buffer' \in Seq(Event) /\ Increasing(buffer')
           /\ Len(buffer') <= (IF BufferMax > 0 THEN BufferMax ELSE 1)
           /\ dropped' \subseteq Event /\ dropped \subseteq dropped'
           /\ Buffered' \subseteq Buffered \cup {hand}
           /\ Buffered \cup {hand} \subseteq Buffered' \cup dropped'
           /\ hand' = 0 /\ mode' = "idle"
  <1> DEFINE base == IF Full THEN Tail(buffer) ELSE buffer
  <1>1. buffer \in Seq(Event) /\ Increasing(buffer) /\ hand \in Event
    BY DEF RedisTypeOK, RedisOrder
  <1>2. /\ base \in Seq(Event) /\ Increasing(base) /\ dropped' \subseteq Event /\ dropped \subseteq dropped'
        /\ Len(base) + 1 <= (IF BufferMax > 0 THEN BufferMax ELSE 1)
        /\ \A j \in 1..Len(base) : base[j] \in Buffered
        /\ \A b \in Buffered : b \in dropped' \/ \E j \in 1..Len(base) : b = base[j]
    <2>1. CASE Full
      <3>1. buffer # <<>> /\ base = Tail(buffer) /\ dropped' = dropped \cup {Head(buffer)}
        BY <2>1 DEF Full, BufferEvent
      <3>2. Len(base) + 1 = Len(buffer)
        BY <1>1, <3>1, TailOfBuffer
      <3>3. Len(base) + 1 <= (IF BufferMax > 0 THEN BufferMax ELSE 1)
        BY <3>2 DEF RedisTypeOK
      <3>4. base \in Seq(Event) /\ Increasing(base) /\ Head(buffer) = buffer[1] /\ buffer[1] \in Event
        BY <1>1, <3>1, TailOfBuffer
      <3>5. \A j \in 1..Len(base) : base[j] \in Buffered
        BY <1>1, <3>1, TailOfBuffer DEF Buffered
      <3>6. \A b \in Buffered : b \in dropped' \/ \E j \in 1..Len(base) : b = base[j]
        <4> SUFFICES ASSUME NEW k \in 1..Len(buffer), buffer[k] \notin dropped'
                     PROVE  \E j \in 1..Len(base) : buffer[k] = base[j]
          BY DEF Buffered
        <4>1. k # 1
          BY <3>1, <3>4
        <4>2. k - 1 \in 1..Len(base) /\ buffer[k] = base[k - 1]
          BY <1>1, <3>1, <4>1, TailOfBuffer
        <4>3. QED
          BY <4>2
      <3>7. QED
        BY <3>1, <3>3, <3>4, <3>5, <3>6 DEF RedisTypeOK
    <2>2. CASE ~ Full
      <3>1. base = buffer /\ dropped' = dropped
        BY <2>2 DEF BufferEvent
      <3>2. Len(base) + 1 <= (IF BufferMax > 0 THEN BufferMax ELSE 1)
        <4>1. buffer = <<>> \/ Len(buffer) < BufferMax
          BY <1>1, <2>2, RedisAssumption DEF Full
        <4>2. QED
          BY <1>1, <3>1, <4>1, RedisAssumption
      <3>3. QED
        BY <1>1, <3>1, <3>2 DEF RedisTypeOK, Buffered
    <2>3. QED
      BY <2>1, <2>2
  <1>3. buffer' = Append(base, hand) /\ hand' = 0 /\ mode' = "idle"
    BY DEF BufferEvent
  <1> HIDE DEF base
  <1>4. \A j \in 1..Len(base) : base[j] < hand
    BY <1>2 DEF RedisOrder, Buffered
  <1>5. /\ buffer' \in Seq(Event) /\ Increasing(buffer') /\ Len(buffer') = Len(base) + 1
        /\ \A j \in 1..Len(base) : buffer'[j] = base[j]
        /\ buffer'[Len(base) + 1] = hand
        /\ \A j \in 1..Len(buffer') : j = Len(base) + 1 \/ j \in 1..Len(base)
    BY <1>1, <1>2, <1>3, <1>4, EndOfBuffer
  <1>6. Buffered' \subseteq Buffered \cup {hand}
    <2> SUFFICES ASSUME NEW j \in 1..Len(buffer')
                 PROVE  buffer'[j] \in Buffered \cup {hand}
      BY DEF Buffered
    <2>1. QED
      BY <1>2, <1>5
  <1>7. Buffered \cup {hand} \subseteq Buffered' \cup dropped'
    <2>1. \A j \in 1..Len(base) : base[j] \in Buffered'
      <3> SUFFICES ASSUME NEW j \in 1..Len(base)
                   PROVE  base[j] \in Buffered'
        OBVIOUS
      <3>1. j \in 1..Len(buffer') /\ buffer'[j] = base[j]
        BY <1>2, <1>5
      <3>2. QED
        BY <3>1 DEF Buffered
    <2>2. hand \in Buffered'
      <3>1. Len(base) + 1 \in 1..Len(buffer')
        BY <1>2, <1>5
      <3>2. QED
        BY <1>5, <3>1 DEF Buffered
    <2>3. QED
      BY <1>2, <2>1, <2>2
  <1>8. Len(buffer') <= (IF BufferMax > 0 THEN BufferMax ELSE 1)
    BY <1>2, <1>5
  <1>9. QED
    BY <1>2, <1>3, <1>5, <1>6, <1>7, <1>8

\* What is appended to the stream comes last.
LEMMA StreamAppends ==
    ASSUME BroadcastTypeOK, NEW h \in Event, Accepted(<<h>>) \/ Failed(<<h>>),
           \A i, j \in 1..Len(arrived) : i < j => arrived[i] <= arrived[j],
           \A e \in Event : Took(e) => e <= h
    PROVE  /\ \A i, j \in 1..Len(arrived') : i < j => arrived'[i] <= arrived'[j]
           /\ \A e \in Event : Took(e)' => Took(e) \/ e = h
  <1>1. arrived \in Seq(Event)
    BY DEF BroadcastTypeOK
  <1>2. CASE arrived' = arrived
    BY <1>2 DEF Took
  <1>3. CASE arrived' = arrived \o <<h>>
    <2>1. /\ Len(arrived') = Len(arrived) + 1 /\ arrived'[Len(arrived) + 1] = h
          /\ \A i \in 1..Len(arrived) : arrived'[i] = arrived[i]
      BY <1>1, <1>3
    <2>2. \A i \in 1..Len(arrived') : i \in 1..Len(arrived) \/ i = Len(arrived) + 1
      BY <1>1, <2>1
    <2>3. \A i \in 1..Len(arrived) : arrived[i] \in Event /\ arrived[i] <= h
      BY <1>1 DEF Took
    <2>4. ASSUME NEW i \in 1..Len(arrived'), NEW j \in 1..Len(arrived'), i < j
          PROVE  arrived'[i] <= arrived'[j]
      <3>1. i \in 1..Len(arrived)
        BY <1>1, <2>1, <2>2, <2>4
      <3>2. CASE j \in 1..Len(arrived)
        BY <2>1, <2>4, <3>1, <3>2
      <3>3. CASE j = Len(arrived) + 1
        BY <2>1, <2>3, <3>1, <3>3
      <3>4. QED
        BY <2>2, <3>2, <3>3
    <2>5. \A e \in Event : Took(e)' => Took(e) \/ e = h
      BY <2>1, <2>2 DEF Took
    <2>6. QED
      BY <2>4, <2>5
  <1>4. QED
    BY <1>2, <1>3 DEF Accepted, Failed

\* The parts of Accounted', from what the step keeps.
LEMMA RedisTraces ==
    ASSUME OutboundInv, configured = "redis", configured' = configured, missed \subseteq missed',
           \A e \in Event : Took(e) => Took(e)',
           \A e \in 1..(pos' - 1) : e \in 1..(pos - 1) \/ e \in missed' \/ e = hand',
           \A e \in Event : e \in Buffered \cup {hand} \cup dropped \cup aborted =>
              e \in Buffered' \cup {hand'} \cup dropped' \cup aborted' \/ Took(e)'
    PROVE  Accounted'
  <1> SUFFICES ASSUME NEW e \in 1..(pos' - 1), e \notin missed', e # hand'
               PROVE  RedisAccounts(e)'
    BY DEF Accounted, Accounts, RedisAccounts
  <1>1. e \in 1..(pos - 1)
    OBVIOUS
  <1>2. e \in Event
    BY <1>1, BroadcastAssumption DEF OutboundInv, TypeOK, BroadcastTypeOK, Event
  <1>3. RedisAccounts(e)
    BY <1>1 DEF OutboundInv, Accounted, Accounts
  <1>4. QED
    BY <1>2, <1>3 DEF RedisAccounts

\* A request that appends the oldest event the publisher holds.
LEMMA RedisRequest ==
    ASSUME OutboundInv, configured = "redis",
           UNCHANGED <<configured, channelVars, webhookVars, digestVars, aborted>>,
           NEW h \in Event, h \in Buffered \cup {hand}, hand # 0, \A b \in Buffered \cup {hand} : h <= b,
           Failed(<<h>>) \/ (Accepted(<<h>>) /\ h \notin Buffered' \cup {hand'}),
           RedisTypeOK', RedisControl', Increasing(buffer'),
           Buffered' \subseteq Buffered \cup {hand}, dropped \subseteq dropped', hand' \in {0, hand},
           hand' # 0 => Buffered' \subseteq Buffered,
           \A e \in Buffered \cup {hand} : e \in Buffered' \cup {hand'} \cup dropped' \/ (Accepted(<<h>>) /\ e = h)
    PROVE  OutboundInv'
  <1>1. BroadcastTypeOK /\ RedisTypeOK /\ RedisOrder /\ CopyInv
    BY DEF OutboundInv, TypeOK
  <1>2. pos \in Int /\ Event \subseteq Int /\ hand \in Event /\ Buffered \subseteq Event
    <2>1. pos \in Int /\ Event \subseteq Int /\ hand \in Event
      BY <1>1 DEF BroadcastTypeOK, RedisTypeOK, Event
    <2>2. Buffered \subseteq Event
      BY <1>1 DEF RedisTypeOK, Buffered
    <2>3. QED
      BY <2>1, <2>2
  <1>3. /\ <<h>> \in Seq(Event) /\ Len(<<h>>) = 1 /\ <<h>>[1] = h
        /\ Increasing(<<h>>) /\ \A i \in 1..Len(<<h>>) : <<h>>[i] = h
    BY DEF Increasing
  <1>4. /\ BroadcastTypeOK' /\ UNCHANGED <<pos, missed, sent>> /\ pos' <= sent' + 1
        /\ \A e \in Event : Took(e) => Took(e)'
        /\ Accepted(<<h>>) => Took(h)'
    <2>1. /\ BroadcastTypeOK' /\ UNCHANGED <<pos, missed, sent>> /\ pos' <= sent' + 1
          /\ \A e \in Event : Took(e) => Took(e)'
          /\ Accepted(<<h>>) => \A i \in 1..Len(<<h>>) : Took(<<h>>[i])'
      BY <1>3, RequestMoves
    <2>2. 1 \in 1..Len(<<h>>)
      BY <1>3
    <2>3. Accepted(<<h>>) => Took(<<h>>[1])'
      BY <2>1, <2>2
    <2>4. QED
      BY <1>3, <2>1, <2>3
  <1>5. h < pos /\ \A e \in Event : Took(e) => e <= h
    BY <1>1 DEF RedisOrder
  <1>6. /\ \A i, j \in 1..Len(arrived') : i < j => arrived'[i] <= arrived'[j]
        /\ \A e \in Event : Took(e)' => Took(e) \/ e = h
    <2>1. \A i, j \in 1..Len(arrived) : i < j => arrived[i] <= arrived[j]
      BY <1>1 DEF RedisOrder
    <2>2. QED
      BY <1>1, <1>5, <2>1, StreamAppends
  <1>7. RedisOrder'
    <2>1. hand' < pos' /\ \A b \in Buffered' : b < pos' /\ (hand' # 0 => b < hand')
      BY <1>1, <1>2, <1>4 DEF RedisOrder, BroadcastTypeOK
    <2>2. \A e \in Event : Took(e)' =>
             e < pos' /\ (hand' # 0 => e <= hand') /\ \A b \in Buffered' : e <= b
      BY <1>1, <1>2, <1>4, <1>5, <1>6 DEF RedisOrder
    <2>3. QED
      BY <1>6, <2>1, <2>2 DEF RedisOrder
  <1>8. CopyInv'
    <2>1. \A i \in 1..Len(<<h>>) : Owed(<<h>>[i])
      BY <1>3 DEF Owed
    <2>2. \A e \in Event : Owed(e)' => Owed(e)
      BY <1>2, <1>4 DEF Owed, Event
    <2>3. h \notin Buffered' \cup {hand'} => ~ Owed(h)'
      BY <1>2, <1>4, <1>5 DEF Owed
    <2>4. Failed(<<h>>) \/ (Accepted(<<h>>) /\ \A i \in 1..Len(<<h>>) : ~ Owed(<<h>>[i])')
      BY <1>3, <2>3
    <2>5. QED
      BY <1>1, <1>3, <2>1, <2>2, <2>4, BatchCopies
  <1>9. Accounted'
    BY <1>2, <1>4, RedisTraces
  <1>10. pos <= pos'
    BY <1>2, <1>4
  <1>11. QED
    BY <1>4, <1>7, <1>8, <1>9, <1>10, RedisRest

LEMMA RedisStep ==
    ASSUME OutboundInv, configured = "redis", UNCHANGED <<configured, webhookVars, digestVars>>,
           RedisNext
    PROVE  OutboundInv'
  <1>1. BroadcastTypeOK /\ RedisTypeOK /\ RedisControl /\ RedisOrder /\ CopyInv
    BY DEF OutboundInv, TypeOK
  <1>2. /\ pos \in Int /\ Event \subseteq Int /\ 0 \notin Event
        /\ buffer \in Seq(Event) /\ Buffered \subseteq Event
    <2>1. pos \in Int /\ Event \subseteq Int /\ 0 \notin Event
      BY <1>1 DEF BroadcastTypeOK, Event
    <2>2. buffer \in Seq(Event) /\ Buffered \subseteq Event
      BY <1>1 DEF RedisTypeOK, Buffered
    <2>3. QED
      BY <2>1, <2>2
  <1>3. /\ hand < pos /\ \A b \in Buffered : b < pos /\ (hand # 0 => b < hand)
        /\ \A e \in Event : Took(e) =>
              e < pos /\ (hand # 0 => e <= hand) /\ \A b \in Buffered : e <= b
    BY <1>1 DEF RedisOrder
  <1>4. ASSUME NEW e \in Event, RedisReceive(e)
        PROVE  OutboundInv'
    <2>1. /\ BroadcastTypeOK' /\ e = pos /\ pos' = pos + 1 /\ pos' <= sent' + 1
          /\ UNCHANGED <<missed, arrived, echoes>>
      BY <1>4, ReceiveMoves DEF RedisReceive
    <2>2. /\ mode = "idle" /\ hand' = e /\ attempt' = 0 /\ UNCHANGED <<buffer, dropped, aborted>>
          /\ mode' = IF buffer = <<>> THEN "publish" ELSE "drain"
      BY <1>4 DEF RedisReceive
    <2>3. Buffered' = Buffered /\ \A x \in Event : Took(x) <=> Took(x)'
      BY <2>1, <2>2 DEF Buffered, Took
    <2>4. hand = 0
      BY <1>1, <2>2 DEF RedisControl
    <2>5. RedisTypeOK' /\ RedisControl'
      BY <1>1, <1>2, <2>2, RedisAssumption DEF RedisTypeOK, RedisControl
    <2>6. RedisOrder'
      BY <1>1, <1>2, <1>3, <2>1, <2>2, <2>3 DEF RedisOrder
    <2>7. CopyInv'
      <3>1. \A x \in Event : Owed(x)' => Owed(x)
        BY <1>2, <2>1, <2>2, <2>3 DEF Owed
      <3>2. QED
        BY <1>1, <2>1, <3>1, SilentCopies
    <2>8. Accounted'
      <3>1. \A x \in 1..(pos' - 1) : x \in 1..(pos - 1) \/ x = hand'
        BY <1>2, <2>1, <2>2
      <3>2. QED
        BY <1>2, <2>1, <2>2, <2>3, <2>4, <3>1, RedisTraces
    <2>9. pos <= pos'
      BY <1>2, <2>1
    <2>10. QED
      BY <2>1, <2>3, <2>5, <2>6, <2>7, <2>8, <2>9, RedisRest
  <1>5. CASE RedisRestart
    <2>1. /\ BroadcastTypeOK' /\ pos <= pos' /\ pos' <= sent' + 1
          /\ UNCHANGED <<arrived, echoes>> /\ missed \subseteq missed'
          /\ \A x \in 1..(pos' - 1) : x \in 1..(pos - 1) \/ x \in missed'
      BY <1>5, ReconnectMoves DEF RedisRestart
    <2>2. /\ aborted' = aborted \cup Buffered \cup ({hand} \ {0}) /\ dropped' = dropped
          /\ buffer' = <<>> /\ hand' = 0 /\ mode' = "idle" /\ attempt' = 0
      BY <1>5 DEF RedisRestart
    <2>3. Buffered' = {} /\ \A x \in Event : Took(x) <=> Took(x)'
      BY <2>1, <2>2 DEF Buffered, Took
    <2>4. RedisTypeOK' /\ RedisControl'
      BY <1>1, <1>2, <2>2, RedisAssumption DEF RedisTypeOK, RedisControl
    <2>5. pos' \in Int
      BY <2>1 DEF BroadcastTypeOK
    <2>6. RedisOrder'
      <3>1. Increasing(buffer')
        BY <2>2 DEF Increasing
      <3>2. 0 < pos'
        BY <1>2, <2>1, <2>5 DEF BroadcastTypeOK
      <3>3. QED
        BY <1>1, <1>2, <1>3, <2>1, <2>2, <2>3, <2>5, <3>1, <3>2 DEF RedisOrder
    <2>7. CopyInv'
      <3>1. \A x \in Event : Owed(x)' => Owed(x)
        BY <1>2, <2>1, <2>2, <2>3, <2>5 DEF Owed
      <3>2. QED
        BY <1>1, <2>1, <3>1, SilentCopies
    <2>8. Accounted'
      BY <1>2, <2>1, <2>2, <2>3, RedisTraces
    <2>9. QED
      BY <2>1, <2>3, <2>4, <2>6, <2>7, <2>8, RedisRest
  <1>6. ASSUME mode = "drain"
        PROVE  /\ buffer # <<>> /\ hand \in Event /\ attempt = 0
               /\ Head(buffer) \in Buffered /\ \A b \in Buffered \cup {hand} : Head(buffer) <= b
    <2>1. buffer # <<>> /\ hand # 0 /\ hand \in Event /\ attempt = 0
      BY <1>1, <1>6 DEF RedisControl, RedisTypeOK
    <2>2. Increasing(buffer)
      BY <1>1 DEF RedisOrder
    <2>3. Head(buffer) = buffer[1] /\ 1 \in 1..Len(buffer)
      BY <1>2, <2>1, <2>2, TailOfBuffer
    <2>4. Head(buffer) \in Buffered
      BY <2>3 DEF Buffered
    <2>5. \A j \in 1..Len(buffer) : Head(buffer) <= buffer[j]
      <3> SUFFICES ASSUME NEW j \in 1..Len(buffer)
                   PROVE  buffer[1] <= buffer[j]
        BY <2>3
      <3>0. buffer[1] \in Event /\ buffer[j] \in Event
        BY <1>2, <2>3
      <3>1. buffer[1] \in Int
        BY <1>2, <3>0
      <3>2. 1 < j => buffer[1] < buffer[j]
        BY <2>2, <2>3 DEF Increasing
      <3>3. buffer[j] \in Int
        BY <1>2, <3>0
      <3>4. j = 1 \/ 1 < j
        OBVIOUS
      <3>5. QED
        BY <3>1, <3>2, <3>3, <3>4
    <2>6. Head(buffer) <= hand
      <3>1. Head(buffer) \in Int /\ hand \in Int
        BY <1>2, <2>1, <2>4
      <3>2. Head(buffer) < hand
        BY <1>3, <2>1, <2>4
      <3>3. QED
        BY <3>1, <3>2
    <2>7. \A b \in Buffered : Head(buffer) <= b
      BY <2>5 DEF Buffered
    <2>8. QED
      BY <2>1, <2>4, <2>6, <2>7
  <1>7. ASSUME mode = "publish"
        PROVE  hand \in Event /\ buffer = <<>> /\ Buffered = {} /\ attempt < MaxRetries
    BY <1>1, <1>7 DEF RedisControl, RedisTypeOK, Buffered
  <1>8. CASE Drain
    <2> DEFINE h == Head(buffer)
    <2>1. /\ mode = "drain" /\ Accepted(<<h>>) /\ buffer' = Tail(buffer)
          /\ mode' = (IF Tail(buffer) = <<>> THEN "publish" ELSE "drain")
          /\ UNCHANGED <<channelVars, hand, attempt, dropped, aborted>>
      BY <1>8 DEF Drain
    <2>2. /\ buffer # <<>> /\ hand \in Event /\ h \in Buffered /\ attempt = 0
          /\ \A b \in Buffered \cup {hand} : h <= b
      BY <1>6, <2>1
    <2>3. Increasing(buffer)
      BY <1>1 DEF RedisOrder
    <2>4. /\ h = buffer[1] /\ buffer' \in Seq(Event) /\ Len(buffer') = Len(buffer) - 1 /\ Increasing(buffer')
          /\ \A j \in 1..Len(buffer') : j + 1 \in 1..Len(buffer) /\ buffer'[j] = buffer[j + 1]
          /\ \A j \in 1..Len(buffer') : h < buffer'[j]
          /\ \A j \in 1..Len(buffer) : j = 1 \/ (j - 1 \in 1..Len(buffer') /\ buffer[j] = buffer'[j - 1])
      BY <1>2, <2>1, <2>2, <2>3, TailOfBuffer
    <2> HIDE DEF h
    <2>5. RedisTypeOK'
      <3>1. Len(buffer') <= (IF BufferMax > 0 THEN BufferMax ELSE 1)
        BY <1>1, <1>2, <2>4, RedisAssumption DEF RedisTypeOK
      <3>2. QED
        BY <1>1, <2>1, <2>4, <3>1 DEF RedisTypeOK
    <2>6. RedisControl'
      BY <1>1, <1>2, <2>1, <2>2, RedisAssumption DEF RedisControl
    <2>7. Buffered' \subseteq Buffered /\ \A e \in Buffered : e \in Buffered' \/ e = h
      BY <2>4 DEF Buffered
    <2>8. h \notin Buffered' \cup {hand'}
      <3>1. h \in Int /\ h < hand
        BY <1>2, <1>3, <2>2
      <3>2. \A j \in 1..Len(buffer') : buffer'[j] # h
        BY <2>4, <3>1
      <3>3. QED
        BY <1>2, <2>1, <2>2, <3>1, <3>2 DEF Buffered
    <2>9. h \in Event /\ hand # 0 /\ hand' = hand
      BY <1>2, <2>1, <2>2
    <2>10. QED
      BY <2>1, <2>2, <2>4, <2>5, <2>6, <2>7, <2>8, <2>9, RedisRequest
  <1>9. CASE DrainFails
    <2> DEFINE h == Head(buffer)
    <2>1. /\ mode = "drain" /\ Failed(<<h>>) /\ BufferEvent
          /\ UNCHANGED <<channelVars, attempt, aborted>>
      BY <1>9 DEF DrainFails, StopDraining
    <2>2. /\ hand \in Event /\ h \in Buffered /\ \A b \in Buffered \cup {hand} : h <= b
      BY <1>6, <2>1
    <2> HIDE DEF h
    <2>3. h \in Event /\ hand # 0
      BY <1>2, <2>2
    <2>4. /\ buffer' \in Seq(Event) /\ Increasing(buffer')
          /\ Len(buffer') <= (IF BufferMax > 0 THEN BufferMax ELSE 1)
          /\ dropped' \subseteq Event /\ dropped \subseteq dropped'
          /\ Buffered' \subseteq Buffered \cup {hand}
          /\ Buffered \cup {hand} \subseteq Buffered' \cup dropped'
          /\ hand' = 0 /\ mode' = "idle"
      BY <1>1, <1>2, <2>1, <2>3, BufferEventKeeps
    <2>5. RedisTypeOK' /\ RedisControl'
      BY <1>1, <2>1, <2>4 DEF RedisTypeOK, RedisControl
    <2>6. QED
      BY <2>1, <2>2, <2>3, <2>4, <2>5, RedisRequest
  <1>10. CASE Publish
    <2>1. /\ mode = "publish" /\ Accepted(<<hand>>) /\ hand' = 0 /\ mode' = "idle"
          /\ UNCHANGED <<channelVars, buffer, attempt, dropped, aborted>>
      BY <1>10 DEF Publish
    <2>2. hand \in Event /\ hand # 0 /\ Buffered = {} /\ Buffered' = {}
      BY <1>2, <1>7, <2>1 DEF Buffered
    <2>3. RedisTypeOK' /\ RedisControl'
      BY <1>1, <2>1 DEF RedisTypeOK, RedisControl
    <2>4. Increasing(buffer')
      BY <1>1, <2>1 DEF RedisOrder
    <2>5. \A b \in Buffered \cup {hand} : hand <= b
      BY <1>2, <2>2
    <2>6. QED
      BY <2>1, <2>2, <2>3, <2>4, <2>5, RedisRequest
  <1>11. CASE PublishFails
    <2>1. /\ mode = "publish" /\ Failed(<<hand>>) /\ attempt' = attempt + 1
          /\ UNCHANGED <<channelVars, aborted>>
      BY <1>11 DEF PublishFails
    <2>2. hand \in Event /\ hand # 0 /\ Buffered = {} /\ attempt < MaxRetries
      BY <1>2, <1>7, <2>1
    <2>3. attempt' \in 0..MaxRetries
      BY <1>1, <2>1, <2>2, RedisAssumption DEF RedisTypeOK
    <2>4. \A b \in Buffered \cup {hand} : hand <= b
      BY <1>2, <2>2
    <2>5. CASE attempt + 1 < MaxRetries /\ UNCHANGED <<buffer, hand, mode, dropped>>
      <3>1. RedisTypeOK' /\ RedisControl'
        BY <1>1, <2>1, <2>3, <2>5 DEF RedisTypeOK, RedisControl
      <3>2. Increasing(buffer') /\ Buffered' = Buffered
        BY <1>1, <2>5 DEF RedisOrder, Buffered
      <3>3. QED
        BY <2>1, <2>2, <2>4, <2>5, <3>1, <3>2, RedisRequest
    <2>6. CASE BufferEvent
      <3>1. /\ buffer' \in Seq(Event) /\ Increasing(buffer')
            /\ Len(buffer') <= (IF BufferMax > 0 THEN BufferMax ELSE 1)
            /\ dropped' \subseteq Event /\ dropped \subseteq dropped'
            /\ Buffered' \subseteq Buffered \cup {hand}
            /\ Buffered \cup {hand} \subseteq Buffered' \cup dropped'
            /\ hand' = 0 /\ mode' = "idle"
        BY <1>1, <1>2, <2>2, <2>6, BufferEventKeeps
      <3>2. RedisTypeOK' /\ RedisControl'
        BY <1>1, <2>1, <2>3, <3>1 DEF RedisTypeOK, RedisControl
      <3>3. QED
        BY <2>1, <2>2, <2>4, <3>1, <3>2, RedisRequest
    <2>7. QED
      BY <1>11, <2>5, <2>6 DEF PublishFails
  <1>12. QED
    BY <1>4, <1>5, <1>8, <1>9, <1>10, <1>11 DEF RedisNext

-----------------------------------------------------------------------------
(***************************************************************************)
(* Steps of the e-mail notifier.                                           *)
(***************************************************************************)
\* The time of day moves on by one slot, or to midnight.
LEMMA NextSlot ==
    ASSUME NEW n \in Nat \ {0}, NEW s \in 0..(n - 1)
    PROVE  (s + 1) % n = IF s + 1 = n THEN 0 ELSE s + 1
  <1>1. CASE s + 1 = n
    BY <1>1
  <1>2. CASE s + 1 < n
    BY <1>2
  <1>3. QED
    BY <1>1, <1>2

LEMMA ScheduleTypes ==
    ASSUME NEW sch \in Schedules
    PROVE  sch.kind \in {"immediate", "hourly_digest", "daily_digest"} /\ sch.at \in Int
  BY DigestAssumption DEF Schedules

LEMMA MailRest ==
    ASSUME OutboundInv, configured = "email", UNCHANGED <<configured, webhookVars, redisVars>>,
           BroadcastTypeOK', pos <= pos', pos' <= sent' + 1, \A e \in Event : Took(e) => Took(e)',
           CopyInv', DigestTypeOK', MailInv', DigestInv', Accounted'
    PROVE  OutboundInv'
  <1>1. pos' \in Int
    BY DEF BroadcastTypeOK
  <1>2. WebhookTypeOK' /\ WebhookInv'
    BY <1>1, WebhookAside
  <1>3. RedisTypeOK' /\ RedisControl' /\ RedisOrder'
    BY <1>1, RedisAside
  <1>4. configured' \in Tasks
    BY DEF OutboundInv, TypeOK
  <1>5. QED
    BY <1>2, <1>3, <1>4 DEF OutboundInv, TypeOK

\* The parts of Accounted', from what the step keeps.
LEMMA MailTraces ==
    ASSUME OutboundInv, configured = "email", configured' = configured, missed \subseteq missed',
           \A e \in Event : Took(e) => Took(e)',
           \A e \in 1..(pos' - 1) :
              e \in 1..(pos - 1) \/ e \in missed' \/ e \in Members(pending') \cup Members(outgoing'),
           \A e \in Event : e \in Members(pending) \cup Members(outgoing) \cup mailFailed \cup mailAborted =>
              \/ e \in Members(pending') \cup Members(outgoing') \cup mailFailed' \cup mailAborted'
              \/ Took(e)'
    PROVE  Accounted'
  <1> SUFFICES ASSUME NEW e \in 1..(pos' - 1), e \notin missed',
                      e \notin Members(pending') \cup Members(outgoing')
               PROVE  MailAccounts(e)'
    BY DEF Accounted, Accounts, MailAccounts, Members
  <1>1. e \in 1..(pos - 1)
    OBVIOUS
  <1>2. e \in Event
    BY <1>1, BroadcastAssumption DEF OutboundInv, TypeOK, BroadcastTypeOK, Event
  <1>3. MailAccounts(e)
    BY <1>1 DEF OutboundInv, Accounted, Accounts
  <1>4. QED
    BY <1>2, <1>3 DEF MailAccounts, Members

LEMMA MailStep ==
    ASSUME OutboundInv, configured = "email", UNCHANGED <<configured, webhookVars, redisVars>>,
           DigestNext
    PROVE  OutboundInv'
  <1>1. BroadcastTypeOK /\ DigestTypeOK /\ MailInv /\ DigestInv /\ CopyInv
    BY DEF OutboundInv, TypeOK
  <1>2. /\ pos \in Int /\ Event \subseteq Int /\ slot \in Int
        /\ pending \in Seq(Event) /\ outgoing \in Seq(Event)
    BY <1>1 DEF BroadcastTypeOK, DigestTypeOK, Event, Slot
  <1>3. /\ schedule.kind \in {"immediate", "hourly_digest", "daily_digest"} /\ schedule.at \in Int
        /\ digests \in Nat
    BY <1>1, ScheduleTypes DEF DigestTypeOK
  <1>4. Members(pending) \subseteq Event /\ Members(outgoing) \subseteq Event
    BY <1>2 DEF Members
  <1>5. \A e \in Members(pending) \cup Members(outgoing) : e < pos
    <2>1. \A e \in Members(pending) : e < pos
      BY <1>1 DEF MailInv, Members
    <2>2. \A i \in 1..Len(outgoing) : outgoing[i] < pos
      <3>1. CASE digest
        BY <1>1, <3>1 DEF MailInv
      <3>2. CASE ~ digest /\ outgoing # <<>>
        <4>1. Len(outgoing) = 1 /\ outgoing[1] < pos
          BY <1>1, <3>2 DEF MailInv
        <4>2. QED
          BY <4>1
      <3>3. CASE outgoing = <<>>
        BY <3>3
      <3>4. QED
        BY <3>1, <3>2, <3>3
    <2>3. QED
      BY <2>1, <2>2 DEF Members
  <1>6. ASSUME NEW e \in Event, MailReceive(e)
        PROVE  OutboundInv'
    <2>1. /\ BroadcastTypeOK' /\ e = pos /\ pos' = pos + 1 /\ pos' <= sent' + 1
          /\ UNCHANGED <<missed, arrived, echoes>>
      BY <1>6, ReceiveMoves DEF MailReceive
    <2>2. /\ outgoing = <<>> /\ Members(outgoing) = {}
          /\ UNCHANGED <<schedule, quiet, slot, ticked, sentHour, sentDay, digest, mailFailed, mailAborted, digests>>
      BY <1>6 DEF MailReceive, Members
    <2>3. \A x \in Event : Took(x) <=> Took(x)'
      BY <2>1 DEF Took
    <2>4. ~ digest
      BY <1>1, <2>2 DEF MailInv
    <2>11. \A i \in 1..Len(pending) : pending[i] < pos + 1
      <3> SUFFICES ASSUME NEW i \in 1..Len(pending)
                   PROVE  pending[i] < pos + 1
        OBVIOUS
      <3>1. pending[i] \in Event /\ pending[i] < pos
        BY <1>1, <1>2 DEF MailInv
      <3>2. pending[i] \in Int
        BY <1>2, <3>1
      <3>3. QED
        BY <1>2, <3>1, <3>2
    <2>5. /\ pending' \in Seq(Event) /\ outgoing' \in Seq(Event) /\ MailInv'
          /\ Members(pending) \subseteq Members(pending')
          /\ Members(pending') \cup Members(outgoing') = Members(pending) \cup {e}
      <3>1. CASE e \in Critical
        <4>1. outgoing' = <<e>> /\ pending' = pending
          BY <1>6, <3>1 DEF MailReceive
        <4>2. outgoing' \in Seq(Event) /\ Len(outgoing') = 1 /\ outgoing'[1] = e
          BY <4>1
        <4>3. e \notin Members(pending)
          BY <1>2, <1>4, <1>5, <2>1
        <4>4. Members(outgoing') = {e}
          BY <4>2 DEF Members
        <4>5. Increasing(pending') /\ \A i \in 1..Len(pending') : pending'[i] < pos'
          BY <1>1, <2>1, <2>11, <4>1 DEF MailInv
        <4>6. MailInv'
          BY <1>2, <2>1, <2>2, <2>4, <4>1, <4>2, <4>3, <4>5 DEF MailInv
        <4>7. QED
          BY <1>2, <4>1, <4>2, <4>4, <4>6
      <3>2. CASE e \notin Critical
        <4>1. outgoing' = <<>> /\ pending' = Append(pending, e)
          BY <1>6, <2>2, <3>2 DEF MailReceive
        <4>2. Increasing(pending) /\ \A i \in 1..Len(pending) : pending[i] < e
          BY <1>1, <2>1 DEF MailInv
        <4>3. /\ pending' \in Seq(Event) /\ Len(pending') = Len(pending) + 1 /\ Increasing(pending')
              /\ \A j \in 1..Len(pending) : pending'[j] = pending[j]
              /\ pending'[Len(pending) + 1] = e
              /\ \A j \in 1..Len(pending') : j = Len(pending) + 1 \/ j \in 1..Len(pending)
          BY <1>2, <4>1, <4>2, EndOfBuffer
        <4>4. Len(pending) \in Nat
          BY <1>2
        <4>5. /\ \A j \in 1..Len(pending) : j \in 1..Len(pending')
              /\ Len(pending) + 1 \in 1..Len(pending')
          BY <4>3, <4>4
        <4>6. Members(pending') = Members(pending) \cup {e} /\ Members(outgoing') = {}
          BY <4>1, <4>3, <4>5 DEF Members
        <4>7. \A i \in 1..Len(pending') : pending'[i] < pos'
          <5>1. e < pos'
            BY <1>2, <2>1
          <5>2. QED
            BY <2>1, <2>11, <4>3, <5>1
        <4>8. MailInv'
          BY <2>2, <2>4, <4>1, <4>3, <4>7 DEF MailInv
        <4>9. QED
          BY <1>2, <2>2, <4>1, <4>3, <4>6, <4>8
      <3>3. QED
        BY <3>1, <3>2
    <2>6. DigestTypeOK' /\ DigestInv'
      BY <1>1, <2>2, <2>5 DEF DigestTypeOK, DigestInv, OneDigest
    <2>7. CopyInv'
      <3>1. \A x \in Event : Owed(x)' => Owed(x)
        <4> SUFFICES ASSUME NEW x \in Event, Owed(x)'
                     PROVE  Owed(x)
          OBVIOUS
        <4>1. x \in Int
          BY <1>2
        <4>2. x >= pos' \/ x \in Members(pending') \cup Members(outgoing')
          BY DEF Owed
        <4>3. x >= pos \/ x \in Members(pending)
          BY <1>2, <2>1, <2>5, <4>1, <4>2
        <4>4. QED
          BY <4>3 DEF Owed
      <3>2. QED
        BY <1>1, <2>1, <3>1, SilentCopies
    <2>8. Accounted'
      <3>1. \A x \in 1..(pos' - 1) : x \in 1..(pos - 1) \/ x = e
        BY <1>2, <2>1
      <3>2. QED
        BY <2>1, <2>2, <2>3, <2>5, <3>1, MailTraces
    <2>9. pos <= pos'
      BY <1>2, <2>1
    <2>10. QED
      BY <2>1, <2>3, <2>5, <2>6, <2>7, <2>8, <2>9, MailRest
  <1>7. CASE Clock
    <2>1. /\ UNCHANGED <<channelVars, remoteVars, faults, schedule, quiet, pending, outgoing, digest,
                         mailFailed, mailAborted>>
          /\ slot' = (slot + 1) % Slots /\ ticked' = FALSE
          /\ sentHour' = (sentHour /\ ~ (slot' % SlotsPerHour = 0))
          /\ sentDay' = (sentDay /\ ~ (slot' = 0))
          /\ digests' = IF slot' = 0 \/ (slot' % SlotsPerHour = 0 /\ schedule.kind = "hourly_digest")
                        THEN 0 ELSE digests
      BY <1>7 DEF Clock, broadcastVars
    <2>2. /\ BroadcastTypeOK' /\ pos' <= sent' + 1
          /\ UNCHANGED <<pos, missed, sent, arrived, echoes>>
          /\ \A x \in Event : Took(x) <=> Took(x)'
      BY <2>1, QuietMoves
    <2>3. slot' \in Slot /\ (slot' = 0 \/ slot' = slot + 1)
      <3>1. Slots \in Nat /\ Slots > 0 /\ slot \in 0..(Slots - 1)
        <4>1. Slots \in Int
          BY DigestAssumption DEF Slots
        <4>2. slot \in 0..(Slots - 1)
          BY <1>1 DEF DigestTypeOK, Slot
        <4>3. QED
          BY <4>1, <4>2
      <3>2. slot' = IF slot + 1 = Slots THEN 0 ELSE slot + 1
        <4> HIDE DEF Slots
        <4>1. QED
          BY <2>1, <3>1, NextSlot
      <3>3. QED
        BY <3>1, <3>2 DEF Slot
    <2>4. DigestTypeOK'
      <3>1. digests' \in Nat
        BY <1>3, <2>1
      <3>2. ticked' \in BOOLEAN /\ sentHour' \in BOOLEAN /\ sentDay' \in BOOLEAN
        BY <2>1
      <3>3. QED
        BY <1>1, <2>1, <2>3, <3>1, <3>2 DEF DigestTypeOK
    <2>5. MailInv'
      BY <1>1, <2>1, <2>2 DEF MailInv, Increasing, Members
    <2>6. DigestInv'
      <3>1. digests' = 0 \/ digests' = digests
        BY <2>1
      <3>2. OneDigest' /\ (schedule'.kind = "immediate" => digests' = 0)
        BY <1>1, <2>1, <3>1 DEF DigestInv, OneDigest
      <3>3. schedule'.kind = "hourly_digest" /\ digests' > 0 => sentHour'
        <4> SUFFICES ASSUME schedule.kind = "hourly_digest", digests' > 0
                     PROVE  sentHour'
          BY <2>1
        <4>1. ~ (slot' % SlotsPerHour = 0) /\ digests' = digests
          BY <2>1
        <4>2. sentHour
          BY <1>1, <4>1 DEF DigestInv
        <4>3. QED
          BY <2>1, <4>1, <4>2
      <3>4. schedule'.kind = "daily_digest" /\ digests' > 0 => sentDay' /\ slot' >= schedule'.at
        <4> SUFFICES ASSUME schedule.kind = "daily_digest", digests' > 0
                     PROVE  sentDay' /\ slot' >= schedule.at
          BY <2>1
        <4>1. slot' # 0 /\ digests' = digests
          BY <2>1
        <4>2. sentDay /\ slot >= schedule.at
          BY <1>1, <4>1 DEF DigestInv
        <4>3. slot' >= schedule.at
          BY <1>2, <1>3, <2>3, <4>1, <4>2
        <4>4. sentDay'
          BY <2>1, <4>1, <4>2
        <4>5. QED
          BY <4>3, <4>4
      <3>5. QED
        BY <3>2, <3>3, <3>4 DEF DigestInv
    <2>7. CopyInv'
      <3>1. \A x \in Event : Owed(x)' => Owed(x)
        BY <2>1, <2>2 DEF Owed
      <3>2. QED
        BY <1>1, <2>2, <3>1, SilentCopies
    <2>8. Accounted'
      BY <2>1, <2>2, MailTraces
    <2>9. pos <= pos'
      BY <1>2, <2>2
    <2>10. QED
      BY <2>2, <2>4, <2>5, <2>6, <2>7, <2>8, <2>9, MailRest
  <1>8. CASE Tick
    <2>1. /\ UNCHANGED <<channelVars, remoteVars, faults, schedule, quiet, slot, pending,
                         mailFailed, mailAborted>>
          /\ outgoing = <<>> /\ ticked' = TRUE
      BY <1>8 DEF Tick, broadcastVars
    <2>2. /\ BroadcastTypeOK' /\ pos' <= sent' + 1
          /\ UNCHANGED <<pos, missed, sent, arrived, echoes>>
          /\ \A x \in Event : Took(x) <=> Took(x)'
      BY <2>1, QuietMoves
    <2>3. ~ digest /\ Members(outgoing) = {}
      BY <1>1, <2>1 DEF MailInv, Members
    <2>4. /\ DigestTypeOK' /\ MailInv' /\ DigestInv'
          /\ Members(outgoing') \subseteq Members(pending)
      <3>1. CASE ~ Flushes
        <4>0. UNCHANGED <<sentHour, sentDay, outgoing, digest, digests>>
          BY <1>8, <3>1 DEF Tick
        <4>1. DigestTypeOK' /\ DigestInv'
          BY <1>1, <2>1, <4>0 DEF DigestTypeOK, DigestInv, OneDigest
        <4>2. MailInv'
          BY <1>1, <2>1, <2>2, <4>0 DEF MailInv
        <4>3. QED
          BY <2>3, <4>0, <4>1, <4>2
      <3>2. CASE Flushes
        <4>1. /\ sentHour' = TRUE /\ sentDay' = (slot >= schedule.at)
              /\ outgoing' = pending /\ digest' = TRUE /\ pending # <<>> /\ IsDue
              /\ digests' = IF schedule.kind = "immediate" THEN 0 ELSE digests + 1
          BY <1>8, <3>2 DEF Tick, Remember, Flushes
        <4>2. digests' \in Nat
          BY <1>3, <4>1
        <4>3. sentHour' \in BOOLEAN /\ sentDay' \in BOOLEAN /\ ticked' \in BOOLEAN /\ digest' \in BOOLEAN
          BY <2>1, <4>1
        <4>4. DigestTypeOK'
          BY <1>1, <2>1, <4>1, <4>2, <4>3 DEF DigestTypeOK
        <4>5. MailInv'
          BY <1>1, <2>1, <2>2, <4>1 DEF MailInv
        <4>6. DigestInv'
          <5>1. CASE schedule.kind = "immediate"
            BY <2>1, <4>1, <5>1 DEF DigestInv, OneDigest
          <5>2. CASE schedule.kind = "hourly_digest"
            <6>1. ~ sentHour
              BY <4>1, <5>2 DEF IsDue
            <6>2. digests' = 1
              BY <1>1, <1>3, <4>1, <5>2, <6>1 DEF DigestInv
            <6>3. QED
              BY <2>1, <4>1, <5>2, <6>2 DEF DigestInv, OneDigest
          <5>3. CASE schedule.kind = "daily_digest"
            <6>1. ~ sentDay /\ slot >= schedule.at
              BY <4>1, <5>3 DEF IsDue
            <6>2. digests' = 1
              BY <1>1, <1>3, <4>1, <5>3, <6>1 DEF DigestInv
            <6>3. sentDay' /\ slot' >= schedule'.at
              BY <2>1, <4>1, <6>1
            <6>4. QED
              BY <2>1, <5>3, <6>2, <6>3 DEF DigestInv, OneDigest
          <5>4. QED
            BY <1>3, <5>1, <5>2, <5>3
        <4>7. QED
          BY <4>1, <4>4, <4>5, <4>6
      <3>3. QED
        BY <3>1, <3>2
    <2>5. CopyInv'
      <3>1. \A x \in Event : Owed(x)' => Owed(x)
        BY <2>1, <2>2, <2>4 DEF Owed
      <3>2. QED
        BY <1>1, <2>2, <3>1, SilentCopies
    <2>6. Accounted'
      BY <2>1, <2>2, <2>3, MailTraces
    <2>7. pos <= pos'
      BY <1>2, <2>2
    <2>8. QED
      BY <2>2, <2>4, <2>5, <2>6, <2>7, MailRest
  <1>9. CASE MailSent
    <2>0. PICK batch \in Seq(Event) : batch = outgoing
      BY <1>2
    <2>1. /\ Accepted(batch) \/ Failed(batch)
          /\ outgoing # <<>>
          /\ outgoing' = <<>> /\ digest' = FALSE /\ pending' = (IF digest THEN <<>> ELSE pending)
          /\ UNCHANGED <<channelVars, schedule, quiet, slot, ticked, sentHour, sentDay, mailAborted, digests>>
      BY <1>9, <2>0 DEF MailSent, Cleared
    <2>2. /\ BroadcastTypeOK' /\ UNCHANGED <<pos, missed, sent>> /\ pos' <= sent' + 1
          /\ \A x \in Event : Took(x) => Took(x)'
          /\ Accepted(batch) => \A i \in 1..Len(batch) : Took(batch[i])'
      BY <2>1, RequestMoves
    <2>3. /\ mailFailed \subseteq mailFailed' /\ mailFailed' \subseteq Event
          /\ Accepted(batch) \/ (Failed(batch) /\ Members(batch) \subseteq mailFailed')
      BY <1>1, <1>4, <1>9, <2>0 DEF MailSent, DigestTypeOK
    <2>4. /\ Members(outgoing') = {} /\ Members(pending') \subseteq Members(pending)
          /\ Members(pending') \cap Members(batch) = {}
          /\ Members(pending) \subseteq Members(pending') \cup Members(batch)
          /\ Increasing(batch)
      <3>1. Members(<<>>) = {}
        BY DEF Members
      <3>2. CASE digest
        BY <1>1, <2>0, <2>1, <3>1, <3>2 DEF MailInv
      <3>3. CASE ~ digest
        <4>1. Len(outgoing) = 1 /\ outgoing[1] \notin Members(pending) /\ pending' = pending
          BY <1>1, <2>1, <3>3 DEF MailInv
        <4>2. Members(outgoing) = {outgoing[1]}
          BY <4>1 DEF Members
        <4>3. Increasing(outgoing)
          BY <4>1 DEF Increasing
        <4>4. QED
          BY <2>0, <2>1, <3>1, <4>1, <4>2, <4>3
      <3>4. QED
        BY <3>2, <3>3
    <2>5. DigestTypeOK' /\ DigestInv'
      <3>1. pending' \in Seq(Event) /\ outgoing' \in Seq(Event)
        BY <1>2, <2>1
      <3>2. DigestTypeOK'
        BY <1>1, <2>1, <2>3, <3>1 DEF DigestTypeOK
      <3>3. DigestInv'
        BY <1>1, <2>1 DEF DigestInv, OneDigest
      <3>4. QED
        BY <3>2, <3>3
    <2>6. MailInv'
      <3>1. CASE digest
        BY <2>1, <3>1 DEF MailInv, Increasing
      <3>2. CASE ~ digest
        BY <1>1, <2>1, <2>2, <3>2 DEF MailInv
      <3>3. QED
        BY <3>1, <3>2
    <2>7. CopyInv'
      <3>1. \A x \in Event : Owed(x)' => Owed(x)
        BY <2>1, <2>2, <2>4 DEF Owed
      <3>2. \A i \in 1..Len(batch) : batch[i] \in Members(batch)
        BY DEF Members
      <3>3. \A i \in 1..Len(batch) : Owed(batch[i])
        BY <2>0, <3>2 DEF Owed
      <3>4. ASSUME NEW x \in Members(batch)
            PROVE  ~ Owed(x)'
        <4>1. x \in Event /\ x < pos /\ x \notin Members(pending') \cup Members(outgoing')
          BY <1>4, <1>5, <2>0, <2>4
        <4>2. x \in Int
          BY <1>2, <4>1
        <4>3. ~ (x >= pos')
          BY <1>2, <2>2, <4>1, <4>2
        <4>4. QED
          BY <4>1, <4>3 DEF Owed
      <3>5. \A i \in 1..Len(batch) : ~ Owed(batch[i])'
        BY <3>2, <3>4
      <3>6. QED
        BY <1>1, <2>1, <2>4, <3>1, <3>3, <3>5, BatchCopies
    <2>8. Accounted'
      <3>1. Accepted(batch) => \A x \in Members(batch) : Took(x)'
        BY <2>2 DEF Members
      <3>2. QED
        BY <2>0, <2>1, <2>2, <2>3, <2>4, <3>1, MailTraces
    <2>9. pos <= pos'
      BY <1>2, <2>2
    <2>10. QED
      BY <2>2, <2>5, <2>6, <2>7, <2>8, <2>9, MailRest
  <1>10. CASE MailRestart
    <2>1. /\ BroadcastTypeOK' /\ pos <= pos' /\ pos' <= sent' + 1
          /\ UNCHANGED <<arrived, echoes>> /\ missed \subseteq missed'
          /\ \A x \in 1..(pos' - 1) : x \in 1..(pos - 1) \/ x \in missed'
      BY <1>10, ReconnectMoves DEF MailRestart
    <2>2. /\ mailAborted' = mailAborted \cup Members(pending) \cup Members(outgoing)
          /\ pending' = <<>> /\ outgoing' = <<>> /\ digest' = FALSE /\ ticked' = FALSE
          /\ UNCHANGED <<schedule, quiet, slot, mailFailed, digests>>
          /\ sentHour' = TRUE /\ sentDay' = (slot >= schedule.at)
      BY <1>10 DEF MailRestart, Remember
    <2>3. \A x \in Event : Took(x) <=> Took(x)'
      BY <2>1 DEF Took
    <2>4. Members(pending') = {} /\ Members(outgoing') = {}
      BY <2>2 DEF Members
    <2>5. DigestTypeOK'
      <3>1. /\ sentDay' \in BOOLEAN
            /\ sentHour' \in BOOLEAN
            /\ digest' \in BOOLEAN
            /\ ticked' \in BOOLEAN
        <4>1. sentHour' = TRUE /\ digest' = FALSE /\ ticked' = FALSE
          BY <2>2
        <4>2. sentDay' \in BOOLEAN
          BY <2>2
        <4>3. QED
          BY <4>1, <4>2
      <3>2. pending' \in Seq(Event) /\ outgoing' \in Seq(Event) /\ mailAborted' \subseteq Event
        BY <1>1, <1>4, <2>2 DEF DigestTypeOK
      <3>3. QED
        BY <1>1, <2>2, <3>1, <3>2 DEF DigestTypeOK
    <2>6. MailInv'
      BY <2>2 DEF MailInv, Increasing
    <2>7. DigestInv'
      BY <1>1, <2>2 DEF DigestInv, OneDigest
    <2>8. CopyInv'
      <3>1. \A x \in Event : x >= pos' => x >= pos
        BY <1>2, <2>1 DEF BroadcastTypeOK, Event
      <3>2. \A x \in Event : Owed(x)' => Owed(x)
        BY <2>1, <2>4, <3>1 DEF Owed
      <3>3. QED
        BY <1>1, <2>1, <3>2, SilentCopies
    <2>9. Accounted'
      BY <2>1, <2>2, <2>3, MailTraces
    <2>10. QED
      BY <2>1, <2>3, <2>5, <2>6, <2>7, <2>8, <2>9, MailRest
  <1>11. QED
    BY <1>6, <1>7, <1>8, <1>9, <1>10 DEF DigestNext

-----------------------------------------------------------------------------
LEMMA OutboundInvNext ==
    OutboundInv /\ [Next]_vars => OutboundInv'
  <1> SUFFICES ASSUME OutboundInv, [Next]_vars
               PROVE  OutboundInv'
    OBVIOUS
  <1>1. CASE UNCHANGED vars
    <2>1. UNCHANGED <<configured, webhookVars, redisVars, digestVars, sent, pos, missed, up, arrived,
                      echoes, faults>>
      BY <1>1 DEF vars, broadcastVars, channelVars, remoteVars
    <2>2. TypeOK'
      BY <2>1
         DEF OutboundInv, TypeOK, BroadcastTypeOK, WebhookTypeOK, RedisTypeOK, DigestTypeOK,
             webhookVars, redisVars, digestVars
    <2>3. \A e \in Event : (Owed(e)' <=> Owed(e)) /\ (Took(e)' <=> Took(e))
      BY <2>1 DEF Owed, Took, Buffered, Members, webhookVars, redisVars, digestVars
    <2>4. CopyInv'
      BY <2>1, <2>3, SilentCopies DEF OutboundInv, TypeOK
    <2>5. WebhookInv' /\ RedisControl' /\ RedisOrder' /\ MailInv' /\ DigestInv' /\ (pos <= sent + 1)'
      <3>1. pos \in Int /\ pos' = pos /\ sent' = sent
        BY <2>1 DEF OutboundInv, TypeOK, BroadcastTypeOK
      <3>2. pos <= pos' /\ missed \subseteq missed' /\ \A e \in 1..(pos' - 1) : e \in 1..(pos - 1)
        BY <2>1, <3>1
      <3>3. WebhookInv'
        BY <2>1, <2>3, <3>1, <3>2, WebhookAside
      <3>4. RedisControl' /\ RedisOrder'
        BY <2>1, <3>1, <3>2, RedisAside
      <3>5. MailInv' /\ DigestInv'
        BY <2>1, <3>1, <3>2, MailAside
      <3>6. QED
        BY <3>1, <3>3, <3>4, <3>5 DEF OutboundInv
    <2>6. Accounted'
      <3> SUFFICES ASSUME NEW e \in 1..(pos - 1), e \notin missed
                   PROVE  Accounts(e)'
        BY <2>1 DEF Accounted
      <3>1. Accounts(e) /\ e \in Event
        BY BroadcastAssumption DEF OutboundInv, TypeOK, BroadcastTypeOK, Accounted, Event
      <3>2. QED
        BY <2>1, <2>3, <3>1
           DEF Accounts, WebhookAccounts, RedisAccounts, MailAccounts, Running, Buffered, Members,
               webhookVars, redisVars, digestVars
    <2>7. QED
      BY <2>2, <2>4, <2>5, <2>6 DEF OutboundInv
  <1>2. CASE World /\ UNCHANGED <<configured, webhookVars, redisVars, digestVars>>
    BY <1>2, WorldStep
  <1>3. QED
    BY <1>1, <1>2, WebhookStep, RedisStep, MailStep DEF Next

\* The invariant holds in every reachable state.
THEOREM OutboundSafe == Spec => []OutboundInv
  <1>1. QED
    BY OutboundInvInit, OutboundInvNext, PTL DEF Spec

\* Every variable of the outbound tasks keeps its type: the Redis buffer never
\* grows beyond max_buffer_size, a delivery counts no more than max_attempts.
THEOREM OutboundTypes == Spec => []TypeOK
  <1>1. OutboundInv => TypeOK
    BY DEF OutboundInv
  <1>2. QED
    BY <1>1, OutboundSafe, PTL

\* Whatever its receiver has passed, a task delivered it, still has it, put it
\* into a table, or lost it to one of the causes the code logs.
THEOREM NothingVanishes == Spec => []Accounted
  <1>1. OutboundInv => Accounted
    BY DEF OutboundInv
  <1>2. QED
    BY <1>1, OutboundSafe, PTL

\* No task of main repeats a delivery it was told had succeeded: execute_with_retry,
\* publish_with_retry, try_drain_buffer and the cleared digest buffer together.
THEOREM CopiesWereReportedFailed == Spec => []NoExtraCopies
  <1>1. OutboundInv => NoExtraCopies
    <2> SUFFICES ASSUME OutboundInv, NEW e \in Event
                 PROVE  Copies(e) <= 1 + echoes[e]
      BY DEF NoExtraCopies
    <2>1. Copies(e) \in Nat /\ echoes[e] \in Nat
      BY CopiesFinite DEF Copies, OutboundInv, TypeOK, BroadcastTypeOK
    <2>2. Copies(e) <= (IF Owed(e) THEN 0 ELSE 1) + echoes[e]
      BY DEF OutboundInv, CopyInv
    <2>3. QED
      BY <2>1, <2>2
  <1>2. QED
    BY <1>1, OutboundSafe, PTL

\* The Redis publisher appends events in the order in which they were sent,
\* whatever was buffered, drained, retried or dropped.
THEOREM StreamStaysOrdered == Spec => []StreamOrdered
  <1>1. OutboundInv => StreamOrdered
    <2> SUFFICES ASSUME OutboundInv, configured = "redis", NEW i \in 1..(Len(arrived) - 1)
                 PROVE  arrived[i] <= arrived[i + 1]
      BY DEF StreamOrdered
    <2>1. i \in 1..Len(arrived) /\ i + 1 \in 1..Len(arrived) /\ i < i + 1
      BY DEF OutboundInv, TypeOK, BroadcastTypeOK
    <2>2. QED
      BY <2>1 DEF OutboundInv, RedisOrder
  <1>2. QED
    BY <1>1, OutboundSafe, PTL

\* EmailNotifier sends one digest an hour or a day, although last_sent is not
\* persisted and the process may restart at any time.
THEOREM DigestsAreSingle == Spec => []OneDigest
  <1>1. OutboundInv => OneDigest
    BY DEF OutboundInv, DigestInv
  <1>2. QED
    BY <1>1, OutboundSafe, PTL
=============================================================================
