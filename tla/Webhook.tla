------------------------------ MODULE Webhook ------------------------------
(***************************************************************************)
(* Webhook delivery: the receiving task of src/src/main.rs, which spawns   *)
(* one deliver_with_retry_policy (src/src/webhook.rs) per event, the row   *)
(* of rate_limit_endpoints all of them share, and execute_with_retry of    *)
(* src/src/retry_policy.rs.                                                *)
(*                                                                         *)
(* A minute and the backoff's length are abstracted to whether they have   *)
(* passed; the health label of the endpoint is left out.                   *)
(***************************************************************************)
EXTENDS Broadcast

CONSTANTS
    WebhookEvents,  \* events the contract and content filters let through
    MinuteLimit,    \* per_minute_limit
    MaxAttempts     \* max_attempts of the retry policy

ASSUME WebhookAssumption ==
    WebhookEvents \subseteq Event /\ MinuteLimit \in Nat \ {0} /\ MaxAttempts \in Nat

VARIABLES
    task,        \* a delivery: "none", "check", "try", "ok", "fail" or "ended"
    tries,       \* failed attempts
    window,      \* window_count, 0 without a row, counted up to MinuteLimit + 1
    minute,      \* window_start is less than a minute ago
    backoff,     \* backoff_until is in the future
    retries,     \* webhook_retry_queue
    failures,    \* webhook_failures
    suppressed,  \* the URL is on the suppression list
    unrecorded   \* history: deliveries given up without a row: suppressed, or the INSERT failed, or aborted

webhookVars == <<task, tries, window, minute, backoff, retries, failures, suppressed, unrecorded>>

WebhookTypeOK ==
    /\ task \in [Event -> {"none", "check", "try", "ok", "fail", "ended"}]
    /\ tries \in [Event -> 0..MaxAttempts]
    /\ window \in 0..(MinuteLimit + 1) /\ minute \in BOOLEAN /\ backoff \in BOOLEAN
    /\ retries \subseteq WebhookEvents /\ failures \subseteq WebhookEvents
    /\ suppressed \in BOOLEAN /\ unrecorded \subseteq Event

WebhookInit ==
    /\ task = [e \in Event |-> "none"] /\ tries = [e \in Event |-> 0]
    /\ window = 0 /\ minute = FALSE /\ backoff = FALSE
    /\ retries = {} /\ failures = {} /\ suppressed \in BOOLEAN
    /\ unrecorded = {}

Goes(e, state) == task' = [task EXCEPT ![e] = state]

-----------------------------------------------------------------------------
Passes(e) == e \in WebhookEvents

\* The receiving task gets an event and spawns its delivery.
WebhookReceive(e) ==
    /\ Receive(e) /\ Goes(e, IF Passes(e) THEN "check" ELSE "ended")
    /\ UNCHANGED <<remoteVars, faults, tries, window, minute, backoff, retries, failures,
                   suppressed, unrecorded>>

\* The URL is suppressed: nothing is sent or recorded.
Suppress(e) ==
    /\ task[e] = "check" /\ suppressed /\ Goes(e, "ended")
    /\ unrecorded' = unrecorded \cup {e}
    /\ UNCHANGED <<broadcastVars, tries, window, minute, backoff, retries, failures,
                   suppressed>>

\* A suppression check that fails is passed.
NotSuppressed == IF suppressed THEN Fault ELSE UNCHANGED faults

\* window_count after the upsert.
Counted == IF ~minute THEN 1 ELSE IF window <= MinuteLimit THEN window + 1 ELSE window

Count == window' = Counted /\ minute' = TRUE

\* endpoint_rate_limited returns a time to retry at.
Limited == backoff \/ Counted > MinuteLimit

\* The delivery may go ahead.
Admit(e) ==
    /\ task[e] = "check" /\ NotSuppressed /\ ~Limited
    /\ Count /\ Goes(e, "try")
    /\ UNCHANGED <<channelVars, remoteVars, tries, backoff, retries, failures, suppressed, unrecorded>>

\* Seeded bug: a limited delivery is skipped.
DeferredNever(e) == UNCHANGED retries

\* enqueue_endpoint_retry.
Deferred(e) == retries' = retries \cup {e}

\* It may not: it goes into the retry queue.  Nothing reads that queue.
Defer(e) ==
    /\ task[e] = "check" /\ NotSuppressed /\ Limited
    /\ Count /\ Goes(e, "ended") /\ Deferred(e)
    /\ UNCHANGED <<channelVars, remoteVars, tries, backoff, failures, suppressed, unrecorded>>

\* The INSERT into the retry queue fails.
DeferLost(e) ==
    /\ task[e] = "check" /\ ~suppressed /\ Fault /\ Limited
    /\ Count /\ Goes(e, "ended") /\ unrecorded' = unrecorded \cup {e}
    /\ UNCHANGED <<channelVars, remoteVars, tries, backoff, retries, failures, suppressed>>

\* The rate-limit statement fails: the delivery goes ahead uncounted.
AdmitUnchecked(e) ==
    /\ task[e] = "check" /\ ~suppressed /\ Fault /\ Goes(e, "try")
    /\ UNCHANGED <<channelVars, remoteVars, tries, window, minute, backoff, retries, failures,
                   suppressed, unrecorded>>

-----------------------------------------------------------------------------
\* execute_with_retry: an attempt that is answered with success.
Deliver(e) ==
    /\ task[e] = "try" /\ Accepted(<<e>>) /\ Goes(e, "ok")
    /\ UNCHANGED <<channelVars, tries, window, minute, backoff, retries, failures, suppressed, unrecorded>>

\* At least one attempt is made.
Exhausted(n) == n >= MaxAttempts

\* One that is not.
Attempt(e) ==
    /\ task[e] = "try" /\ Failed(<<e>>)
    /\ tries' = [tries EXCEPT ![e] = IF @ < MaxAttempts THEN @ + 1 ELSE @]
    /\ Goes(e, IF Exhausted(tries[e] + 1) THEN "fail" ELSE "try")
    /\ UNCHANGED <<channelVars, window, minute, backoff, retries, failures, suppressed, unrecorded>>

\* record_endpoint_success ends the backoff; a failed UPDATE is ignored.
RecordSuccess(e) ==
    /\ task[e] = "ok" /\ Goes(e, "ended")
    /\ \/ backoff' = FALSE /\ UNCHANGED faults
       \/ Fault /\ UNCHANGED backoff
    /\ UNCHANGED <<channelVars, remoteVars, tries, window, minute, retries, failures,
                   suppressed, unrecorded>>

\* record_endpoint_failure and the INSERT into webhook_failures.  (enqueue_dlq
\* is called without a subscription and always fails.)
RecordFailure(e) ==
    /\ task[e] = "fail" /\ Goes(e, "ended")
    /\ backoff' = (backoff \/ window > 0)
    /\ failures' = failures \cup {e}
    /\ UNCHANGED <<broadcastVars, tries, window, minute, retries, suppressed, unrecorded>>

\* The INSERT fails.
RecordFails(e) ==
    /\ task[e] = "fail" /\ Fault /\ Goes(e, "ended")
    /\ backoff' = (backoff \/ window > 0)
    /\ unrecorded' = unrecorded \cup {e}
    /\ UNCHANGED <<channelVars, remoteVars, tries, window, minute, retries, failures,
                   suppressed>>

-----------------------------------------------------------------------------
\* Time passes.
Minute ==
    /\ minute /\ minute' = FALSE
    /\ UNCHANGED <<broadcastVars, task, tries, window, backoff, retries, failures, suppressed, unrecorded>>

BackoffEnds ==
    /\ backoff /\ backoff' = FALSE
    /\ UNCHANGED <<broadcastVars, task, tries, window, minute, retries, failures, suppressed, unrecorded>>

Running == {e \in Event : task[e] \in {"check", "try", "ok", "fail"}}

\* The process restarts: deliveries under way end where they are.
WebhookRestart ==
    /\ Reconnect
    /\ unrecorded' = unrecorded \cup Running
    /\ task' = [e \in Event |-> IF e \in Running THEN "ended" ELSE task[e]]
    /\ UNCHANGED <<tries, window, minute, backoff, retries, failures, suppressed>>

-----------------------------------------------------------------------------
Delivery(e) ==
    \/ Suppress(e) \/ Admit(e) \/ Defer(e)
    \/ Deliver(e) \/ Attempt(e) \/ RecordSuccess(e) \/ RecordFailure(e)

WebhookNext ==
    \/ \E e \in Event :
          \/ WebhookReceive(e) \/ Delivery(e)
          \/ DeferLost(e) \/ AdmitUnchecked(e) \/ RecordFails(e)
    \/ Minute \/ BackoffEnds \/ WebhookRestart

-----------------------------------------------------------------------------
\* What has become of an event.
WebhookAccounts(e) ==
    \/ e \notin WebhookEvents \/ e \in Running \cup retries \cup failures \cup unrecorded
    \/ Took(e)
=============================================================================
