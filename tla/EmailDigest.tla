---------------------------- MODULE EmailDigest ----------------------------
(***************************************************************************)
(* EmailNotifier::spawn of src/src/email.rs: events are collected and sent *)
(* as a digest when the schedule says so and it is not quiet hours;        *)
(* critical events are sent at once.                                       *)
(*                                                                         *)
(* The day is divided into slots, one tick of the batch interval each.     *)
(* last_sent is kept as whether it lies in this hour, and whether it is    *)
(* past this day's scheduled time, which is all that is_due asks.  The     *)
(* custom_cron schedule is left out.                                       *)
(***************************************************************************)
EXTENDS Broadcast

CONSTANTS
    SlotsPerHour,
    HoursPerDay,
    Critical       \* events of critical priority

ASSUME DigestAssumption ==
    SlotsPerHour \in Nat \ {0} /\ HoursPerDay \in Nat \ {0} /\ Critical \subseteq Event

Slots == SlotsPerHour * HoursPerDay
Slot == 0..(Slots - 1)

Schedules ==
    {[kind |-> k, at |-> 0] : k \in {"immediate", "hourly_digest"}}
    \cup {[kind |-> "daily_digest", at |-> h * SlotsPerHour] : h \in 0..(HoursPerDay - 1)}

VARIABLES
    schedule,     \* configured
    quiet,        \* configured: <<start, end>>, disabled if they are equal
    slot,         \* the time of day
    ticked,       \* the interval's tick in this slot has been handled
    sentHour,     \* last_sent is in this hour
    sentDay,      \* last_sent is past today's scheduled time
    pending,      \* events_buffer
    outgoing,     \* events being sent
    digest,       \* ... and they are the whole buffer
    mailFailed,   \* history: events of a message that could not be sent
    mailAborted,  \* history: events in memory when the process ended
    digests       \* history: digests begun in this hour (hourly) or since midnight (daily)

digestVars == <<schedule, quiet, slot, ticked, sentHour, sentDay, pending, outgoing, digest,
                mailFailed, mailAborted, digests>>

DigestTypeOK ==
    /\ schedule \in Schedules /\ quiet \in Slot \X Slot /\ slot \in Slot
    /\ ticked \in BOOLEAN /\ sentHour \in BOOLEAN /\ sentDay \in BOOLEAN
    /\ pending \in Seq(Event) /\ outgoing \in Seq(Event) /\ digest \in BOOLEAN
    /\ mailFailed \subseteq Event /\ mailAborted \subseteq Event
    /\ digests \in Nat

DigestInit ==
    /\ schedule \in Schedules /\ quiet \in Slot \X Slot /\ slot \in Slot
    /\ ticked = FALSE
    /\ sentHour = TRUE /\ sentDay = (slot >= schedule.at)
    /\ pending = <<>> /\ outgoing = <<>> /\ digest = FALSE
    /\ mailFailed = {} /\ mailAborted = {} /\ digests = 0

Members(seq) == {seq[i] : i \in 1..Len(seq)}

-----------------------------------------------------------------------------
\* Seeded bug: a daily digest is due in its scheduled slot only.
IsDueExactly ==
    CASE schedule.kind = "immediate" -> TRUE
      [] schedule.kind = "hourly_digest" -> ~sentHour
      [] schedule.kind = "daily_digest" -> slot = schedule.at /\ ~sentDay

\* Schedule::is_due.
IsDue ==
    CASE schedule.kind = "immediate" -> TRUE
      [] schedule.kind = "hourly_digest" -> ~sentHour
      [] schedule.kind = "daily_digest" -> slot >= schedule.at /\ ~sentDay

\* QuietHours::contains; QuietHours::parse disables an empty window.
Contains(s) ==
    IF quiet[1] < quiet[2] THEN quiet[1] <= s /\ s < quiet[2]
    ELSE quiet[1] # quiet[2] /\ (s >= quiet[1] \/ s < quiet[2])

-----------------------------------------------------------------------------
\* Time passes.  The task has looked at every tick, unless it was busy sending
\* (missed ticks are skipped).
Clock ==
    /\ ticked \/ outgoing # <<>>
    /\ slot' = (slot + 1) % Slots /\ ticked' = FALSE
    /\ LET newHour == slot' % SlotsPerHour = 0
           newDay == slot' = 0
       IN /\ sentHour' = (sentHour /\ ~newHour)
          /\ sentDay' = (sentDay /\ ~newDay)
          /\ digests' = IF newDay \/ (newHour /\ schedule.kind = "hourly_digest") THEN 0 ELSE digests
    /\ UNCHANGED <<broadcastVars, schedule, quiet, pending, outgoing, digest, mailFailed, mailAborted>>

\* An event comes.
MailReceive(e) ==
    /\ outgoing = <<>> /\ Receive(e)
    /\ IF e \in Critical
       THEN outgoing' = <<e>> /\ UNCHANGED pending
       ELSE pending' = Append(pending, e) /\ UNCHANGED outgoing
    /\ UNCHANGED <<remoteVars, faults, schedule, quiet, slot, ticked, sentHour, sentDay, digest,
                   mailFailed, mailAborted, digests>>

\* Seeded bug: last_sent is not updated.
RememberNothing == UNCHANGED <<sentHour, sentDay>>

\* last_sent = now.
Remember == sentHour' = TRUE /\ sentDay' = (slot >= schedule.at)

Flushes == pending # <<>> /\ IsDue /\ ~Contains(slot)

\* A tick: the buffer is sent, or kept for a later tick.
Tick ==
    /\ outgoing = <<>> /\ ~ticked /\ ticked' = TRUE
    /\ \/ /\ Flushes /\ Remember
          /\ outgoing' = pending /\ digest' = TRUE
          /\ digests' = IF schedule.kind = "immediate" THEN 0 ELSE digests + 1
       \/ ~Flushes /\ UNCHANGED <<sentHour, sentDay, outgoing, digest, digests>>
    /\ UNCHANGED <<broadcastVars, schedule, quiet, slot, pending, mailFailed, mailAborted>>

\* Seeded bug: the buffer survives.
ClearedNever == UNCHANGED pending

\* The buffer is cleared after a digest, sent or not.
Cleared == pending' = IF digest THEN <<>> ELSE pending

\* send_batch_email returns; its failures are only logged.
MailSent ==
    /\ outgoing # <<>>
    /\ \/ Accepted(outgoing) /\ UNCHANGED mailFailed
       \/ Failed(outgoing) /\ mailFailed' = mailFailed \cup Members(outgoing)
    /\ Cleared /\ outgoing' = <<>> /\ digest' = FALSE
    /\ UNCHANGED <<channelVars, schedule, quiet, slot, ticked, sentHour, sentDay, mailAborted, digests>>

\* The process restarts: last_sent is the time of the start.
MailRestart ==
    /\ Reconnect /\ Remember
    /\ mailAborted' = mailAborted \cup Members(pending) \cup Members(outgoing)
    /\ pending' = <<>> /\ outgoing' = <<>> /\ digest' = FALSE /\ ticked' = FALSE
    /\ UNCHANGED <<schedule, quiet, slot, mailFailed, digests>>

DigestNext ==
    \/ \E e \in Event : MailReceive(e)
    \/ Clock \/ Tick \/ MailSent \/ MailRestart

-----------------------------------------------------------------------------
\* What has become of an event.
MailAccounts(e) ==
    e \in Members(pending) \cup Members(outgoing) \cup mailFailed \cup mailAborted \/ Took(e)

\* No more than one digest a day, or an hour, however often the process restarts.
OneDigest == digests <= 1

\* The schedule has a time outside quiet hours: for a daily digest, one between
\* the scheduled hour and midnight.
Compatible == \E s \in Slot : s >= schedule.at /\ ~Contains(s)
=============================================================================
