------------------------------ MODULE Outbound ------------------------------
(***************************************************************************)
(* The tasks main starts on the broadcast channel, each if it is           *)
(* configured: webhook delivery, the Redis publisher, the e-mail notifier. *)
(* They have a receiver each and share nothing else, so that every         *)
(* behaviour of one task is one in which only this task is configured.     *)
(***************************************************************************)
EXTENDS Webhook, RedisPublisher, EmailDigest

CONSTANT MaxFaults  \* bound: the faults that a task meets

Tasks == {"webhook", "redis", "email"}

ASSUME OutboundAssumption == MaxFaults \in [Tasks -> Nat]

VARIABLE configured  \* the task that is configured

vars == <<configured, broadcastVars, webhookVars, redisVars, digestVars>>

TypeOK ==
    /\ configured \in Tasks
    /\ BroadcastTypeOK /\ WebhookTypeOK /\ RedisTypeOK /\ DigestTypeOK

\* The configuration is part of the initial state; a task that is not
\* configured stays in its first state.
Init ==
    /\ configured \in Tasks
    /\ faults = MaxFaults[configured]
    /\ BroadcastInit /\ WebhookInit /\ RedisInit /\ DigestInit
    /\ configured # "webhook" => ~suppressed
    /\ configured # "email" => schedule.kind = "immediate" /\ quiet = <<0, 0>> /\ slot = 0

\* The rest of the world.
World == Announce \/ Lag \/ Outage \/ Recovery

Next ==
    /\ UNCHANGED configured
    /\ \/ World /\ UNCHANGED <<webhookVars, redisVars, digestVars>>
       \/ configured = "webhook" /\ WebhookNext /\ UNCHANGED <<redisVars, digestVars>>
       \/ configured = "redis" /\ RedisNext /\ UNCHANGED <<webhookVars, digestVars>>
       \/ configured = "email" /\ DigestNext /\ UNCHANGED <<webhookVars, redisVars>>

Spec == Init /\ [][Next]_vars

\* Statements, requests and messages end (their clients have timeouts), time
\* passes and the notifier's interval ticks.
Fairness ==
    /\ \A e \in Event :
          WF_vars(configured = "webhook" /\ Delivery(e) /\ UNCHANGED <<configured, redisVars, digestVars>>)
    /\ WF_vars(configured = "email" /\ Clock /\ UNCHANGED <<configured, webhookVars, redisVars>>)
    /\ WF_vars(configured = "email" /\ Tick /\ UNCHANGED <<configured, webhookVars, redisVars>>)
    /\ WF_vars(configured = "email" /\ MailSent /\ UNCHANGED <<configured, webhookVars, redisVars>>)

FairSpec == Spec /\ Fairness

-----------------------------------------------------------------------------
(***************************************************************************)
(* Properties of all tasks                                                 *)
(***************************************************************************)
Accounts(e) ==
    CASE configured = "webhook" -> WebhookAccounts(e)
      [] configured = "redis" -> RedisAccounts(e)
      [] configured = "email" -> MailAccounts(e)

\* An event the receiver has passed is never silently gone: the remote end has
\* it, the task or a table has it, or it was lost to a named cause - lag, a
\* restart, suppression, a failed statement, a full buffer, a failed message.
Accounted == \A e \in 1..(pos - 1) : e \in missed \/ Accounts(e)

\* The remote end gets an event again only after it took it and the task was
\* told otherwise: no task repeats what it knows to be delivered.
NoExtraCopies == \A e \in Event : Copies(e) <= 1 + echoes[e]

\* The Redis stream is in the order in which the events were sent, whatever was
\* buffered, drained, retried or dropped: an event appended twice, because an
\* answer was lost, is appended twice in a row.
StreamOrdered ==
    configured = "redis" => \A i \in 1..(Len(arrived) - 1) : arrived[i] <= arrived[i + 1]

\* Events a task holds in memory only: webhook deliveries under way, and those
\* collected for a digest that has a time to go out.
Held == Running \cup (IF Compatible THEN Members(pending) ELSE {})

\* No event stays in a task's memory: attempts of a delivery are bounded, and
\* what is collected goes out (or is lost with the process).  A daily digest
\* whose hours up to midnight are all quiet is never sent: is_due looks at
\* today's scheduled time only.
HandedOn == \A e \in Event : e \in Held ~> e \notin Held
=============================================================================
