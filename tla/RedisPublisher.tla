--------------------------- MODULE RedisPublisher ---------------------------
(***************************************************************************)
(* The Redis Streams publisher of src/src/queue_publisher.rs: a task that  *)
(* appends each event to a stream, keeps the newest events in memory while *)
(* Redis is unreachable, and drains them when the next event comes.        *)
(***************************************************************************)
EXTENDS Broadcast

CONSTANTS
    BufferMax,  \* max_buffer_size
    MaxRetries  \* MAX_RETRIES

ASSUME RedisAssumption == BufferMax \in Nat /\ MaxRetries \in Nat \ {0}

VARIABLES
    buffer,   \* events kept in memory, oldest first
    mode,     \* "idle", "drain" or "publish"
    hand,     \* the event received, 0 if none
    attempt,  \* failed attempts of publish_with_retry
    dropped,  \* history: events that fell out of the full buffer
    aborted   \* history: events in memory when the process ended

redisVars == <<buffer, mode, hand, attempt, dropped, aborted>>

RedisTypeOK ==
    /\ buffer \in Seq(Event) /\ Len(buffer) <= (IF BufferMax > 0 THEN BufferMax ELSE 1)
    /\ mode \in {"idle", "drain", "publish"} /\ hand \in Event \cup {0}
    /\ attempt \in 0..MaxRetries /\ dropped \subseteq Event /\ aborted \subseteq Event

RedisInit ==
    /\ buffer = <<>> /\ mode = "idle" /\ hand = 0 /\ attempt = 0
    /\ dropped = {} /\ aborted = {}

Buffered == {buffer[i] : i \in 1..Len(buffer)}

-----------------------------------------------------------------------------
\* An event comes: what is buffered goes first.
RedisReceive(e) ==
    /\ mode = "idle" /\ Receive(e)
    /\ hand' = e /\ attempt' = 0
    /\ mode' = IF buffer = <<>> THEN "publish" ELSE "drain"
    /\ UNCHANGED <<remoteVars, faults, buffer, dropped, aborted>>

Full == buffer # <<>> /\ Len(buffer) >= BufferMax

\* buffer_event: the oldest event makes room.
BufferEvent ==
    /\ buffer' = Append(IF Full THEN Tail(buffer) ELSE buffer, hand)
    /\ dropped' = IF Full THEN dropped \cup {Head(buffer)} ELSE dropped
    /\ hand' = 0 /\ mode' = "idle"

\* try_drain_buffer: the oldest event is appended to the stream.
Drain ==
    /\ mode = "drain" /\ Accepted(<<Head(buffer)>>)
    /\ buffer' = Tail(buffer)
    /\ mode' = IF Tail(buffer) = <<>> THEN "publish" ELSE "drain"
    /\ UNCHANGED <<channelVars, hand, attempt, dropped, aborted>>

\* Seeded bug: the event in hand is published although the drain failed.
GiveUpDraining ==
    /\ mode' = "publish" /\ UNCHANGED <<buffer, hand, dropped>>

\* Still unreachable: the event in hand is buffered behind the others.
StopDraining == BufferEvent

DrainFails ==
    /\ mode = "drain" /\ Failed(<<Head(buffer)>>) /\ StopDraining
    /\ UNCHANGED <<channelVars, attempt, aborted>>

\* publish_with_retry.
Publish ==
    /\ mode = "publish" /\ Accepted(<<hand>>)
    /\ hand' = 0 /\ mode' = "idle"
    /\ UNCHANGED <<channelVars, buffer, attempt, dropped, aborted>>

PublishFails ==
    /\ mode = "publish" /\ Failed(<<hand>>)
    /\ attempt' = attempt + 1
    /\ \/ attempt + 1 < MaxRetries /\ UNCHANGED <<buffer, hand, mode, dropped>>
       \/ attempt + 1 >= MaxRetries /\ BufferEvent
    /\ UNCHANGED <<channelVars, aborted>>

\* The process restarts: what is in memory is gone.
RedisRestart ==
    /\ Reconnect
    /\ aborted' = aborted \cup Buffered \cup ({hand} \ {0})
    /\ buffer' = <<>> /\ hand' = 0 /\ mode' = "idle" /\ attempt' = 0
    /\ UNCHANGED dropped

RedisNext ==
    \/ \E e \in Event : RedisReceive(e)
    \/ Drain \/ DrainFails \/ Publish \/ PublishFails \/ RedisRestart

-----------------------------------------------------------------------------
\* What has become of an event.
RedisAccounts(e) == e \in Buffered \cup {hand} \cup dropped \cup aborted \/ Took(e)
=============================================================================
