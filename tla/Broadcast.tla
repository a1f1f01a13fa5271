----------------------------- MODULE Broadcast -----------------------------
(***************************************************************************)
(* One receiver of the process's broadcast channel (src/src/main.rs:225)   *)
(* as the outbound tasks use it, and the remote end the task talks to.     *)
(* The channel keeps the last Capacity events; a receiver that falls       *)
(* further behind is told so and goes on with the oldest event kept.       *)
(*                                                                         *)
(* Events bear the number under which they were sent.                      *)
(***************************************************************************)
EXTENDS Integers, Sequences, FiniteSets

CONSTANTS
    MaxEvents,  \* bound: events sent
    Capacity    \* of the channel

ASSUME BroadcastAssumption ==
    MaxEvents \in Nat /\ Capacity \in Nat \ {0}

Event == 1..MaxEvents

VARIABLES
    sent,     \* number of events sent so far
    pos,      \* the next event to receive
    missed,   \* history: events the receiver was too late for
    up,       \* the remote end can be reached
    arrived,  \* what the remote end took, in its order
    echoes,   \* history: an event's arrivals that were reported as failures
    faults    \* failed statements, lost answers, outages and restarts still to come

channelVars == <<sent, pos, missed>>
remoteVars == <<up, arrived, echoes>>
broadcastVars == <<channelVars, remoteVars, faults>>

BroadcastTypeOK ==
    /\ sent \in 0..MaxEvents /\ pos \in 1..(MaxEvents + 1)
    /\ missed \subseteq Event
    /\ up \in BOOLEAN /\ arrived \in Seq(Event)
    /\ echoes \in [Event -> Nat] /\ faults \in Nat

BroadcastInit ==
    /\ sent = 0 /\ pos = 1 /\ missed = {}
    /\ up = TRUE /\ arrived = <<>> /\ echoes = [e \in Event |-> 0]

Fault == faults > 0 /\ faults' = faults - 1

-----------------------------------------------------------------------------
\* The indexer sends an event.
Announce ==
    /\ sent < MaxEvents /\ sent' = sent + 1
    /\ UNCHANGED <<pos, missed, remoteVars, faults>>

Unread == pos..sent

\* recv() returns Lagged.
Lag ==
    /\ Cardinality(Unread) > Capacity
    /\ pos' = sent - Capacity + 1
    /\ missed' = missed \cup pos..(sent - Capacity)
    /\ UNCHANGED <<sent, remoteVars, faults>>

\* recv() returns e.
Receive(e) ==
    /\ e = pos /\ e \in Unread /\ Cardinality(Unread) <= Capacity
    /\ pos' = pos + 1
    /\ UNCHANGED <<sent, missed>>

\* The process ends (its tasks are aborted) and starts again with a new channel.
Reconnect ==
    /\ Fault
    /\ missed' = missed \cup Unread /\ pos' = sent + 1
    /\ UNCHANGED <<sent, remoteVars>>

\* An outage of the remote end begins or ends.
Outage == up /\ Fault /\ up' = FALSE /\ UNCHANGED <<channelVars, arrived, echoes>>
Recovery == ~up /\ up' = TRUE /\ UNCHANGED <<channelVars, arrived, echoes, faults>>

-----------------------------------------------------------------------------
(***************************************************************************)
(* A request to the remote end that hands over the events of a sequence.   *)
(***************************************************************************)
Accepted(batch) ==
    /\ up /\ arrived' = arrived \o batch
    /\ UNCHANGED <<up, echoes, faults>>

\* It cannot be reached, or it took the events and the answer is an error or lost.
Failed(batch) ==
    /\ UNCHANGED up
    /\ \/ ~up /\ UNCHANGED <<arrived, echoes, faults>>
       \/ /\ up /\ Fault /\ arrived' = arrived \o batch
          /\ echoes' = [e \in Event |->
                echoes[e] + IF \E i \in 1..Len(batch) : batch[i] = e THEN 1 ELSE 0]

Took(e) == \E i \in 1..Len(arrived) : arrived[i] = e
Copies(e) == Cardinality({i \in 1..Len(arrived) : arrived[i] = e})
=============================================================================
