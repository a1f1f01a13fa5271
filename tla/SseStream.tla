----------------------------- MODULE SseStream -----------------------------
(***************************************************************************)
(* The live event streams of one server process: the replay ring buffer    *)
(* (src/src/sse_ring_buffer.rs), the broadcast channel the indexer tasks   *)
(* write to, and the handlers that serve it to clients                     *)
(* (stream_events_internal, stream_events_multi and ws_stream_events in    *)
(* src/src/handlers).                                                      *)
(*                                                                         *)
(* An event is the number of its push into the ring buffer, which stands   *)
(* for the UUID it gets there.  Handlers run on several threads: the       *)
(* checks, the replay snapshot and the subscription are separate steps.    *)
(* One tenant: the tenant filter of the live stream is left out.           *)
(***************************************************************************)
EXTENDS Integers, Sequences, FiniteSets, FiniteSetsExt

CONSTANTS
    Producers,        \* indexer tasks that share ring buffer and channel
    Clients,          \* stream clients
    Kind,             \* a client's endpoint: "sse", "multi" or "ws"
    IpOf,             \* a client's address
    Wanted,           \* the events a client's filter lets through
    RingCapacity,     \* config.sse_ring_buffer_capacity
    ChannelCapacity,  \* capacity of the broadcast channel
    ReplayLimit,      \* config.sse_replay_limit
    MaxConns,         \* state.sse_max_connections
    MaxPerIp,         \* config.sse_max_connections_per_ip, 0 for no limit
    MaxLag,           \* config.sse_max_lag_before_disconnect, 0 for never
    Restarts,         \* whether the process may be restarted
    MaxEvents         \* bound: events pushed during a behaviour

ASSUME SseAssumption ==
    /\ IsFiniteSet(Clients) /\ Kind \in [Clients -> {"sse", "multi", "ws"}]
    /\ Wanted \in [Clients -> SUBSET (1..MaxEvents)]
    /\ RingCapacity \in Nat \ {0} /\ ChannelCapacity \in Nat \ {0}
    /\ ReplayLimit \in Nat /\ MaxConns \in Nat /\ MaxPerIp \in Nat /\ MaxLag \in Nat
    /\ Restarts \in BOOLEAN /\ MaxEvents \in Nat

VARIABLES
    pushed,    \* events pushed so far; the ring holds (evicted, pushed]
    evicted,   \* the newest event the ring has dropped
    sent,      \* the events in the order the channel got them
    inflight,  \* [Producers -> event]: pushed and not yet sent, 0 if none
    conns,     \* state.sse_connections
    perIp,     \* state.sse_connections_per_ip
    stopping,  \* the shutdown signal is set
    phase,     \* where a client's request is
    last,      \* the Last-Event-ID a client would send, 0 if it is no UUID
    queue,     \* replayed events the stream has yet to yield
    snap,      \* the events replayed on this connection
    doubt,     \* those of them not yet sent when the snapshot was taken
    rx,        \* position in sent of the receiver (of the snapshot, before)
    start,     \* history: position of the first event with an id, -1 before it
    got,       \* history: events a client received
    excused    \* history: events missed for one of the causes named below

ringVars   == <<pushed, evicted, sent, inflight>>
countVars  == <<conns, perIp>>
streamVars == <<queue, snap, doubt, rx>>
history    == <<start, got, excused>>
vars == <<ringVars, countVars, stopping, phase, last, streamVars, history>>

Events == 1..MaxEvents
Ips == {IpOf[c] : c \in Clients}
Phases == {"away", "total", "ip", "counting", "counted", "refused", "query", "snap", "live",
           "closing", "ended"}

TypeOK ==
    /\ pushed \in 0..MaxEvents /\ evicted \in 0..pushed
    /\ sent \in Seq(Events) /\ inflight \in [Producers -> 0..MaxEvents]
    /\ conns \in Nat /\ perIp \in [Ips -> Nat]
    /\ stopping \in BOOLEAN
    /\ phase \in [Clients -> Phases]
    /\ last \in [Clients -> 0..MaxEvents]
    /\ queue \in [Clients -> SUBSET Events]
    /\ snap \in [Clients -> SUBSET Events] /\ doubt \in [Clients -> SUBSET Events]
    /\ rx \in [Clients -> 0..Len(sent)]
    /\ start \in [Clients -> -1..Len(sent)]
    /\ got \in [Clients -> SUBSET Events] /\ excused \in [Clients -> SUBSET Events]

Init ==
    /\ pushed = 0 /\ evicted = 0 /\ sent = <<>>
    /\ inflight = [p \in Producers |-> 0]
    /\ conns = 0 /\ perIp = [a \in Ips |-> 0]
    /\ stopping = FALSE
    /\ phase = [c \in Clients |-> "away"]
    /\ last = [c \in Clients |-> 0]
    /\ queue = [c \in Clients |-> {}]
    /\ snap = [c \in Clients |-> {}]
    /\ doubt = [c \in Clients |-> {}]
    /\ rx = [c \in Clients |-> 0]
    /\ start = [c \in Clients |-> -1]
    /\ got = [c \in Clients |-> {}]
    /\ excused = [c \in Clients |-> {}]

-----------------------------------------------------------------------------
(***************************************************************************)
(* An indexer task announces an event: ring buffer first, then channel.    *)
(***************************************************************************)

\* SseRingBuffer::push: the oldest event makes room for the new one.
Push(p) ==
    /\ inflight[p] = 0 /\ pushed < MaxEvents
    /\ pushed' = pushed + 1
    /\ evicted' = IF pushed - evicted >= RingCapacity THEN evicted + 1 ELSE evicted
    /\ inflight' = [inflight EXCEPT ![p] = pushed + 1]
    /\ UNCHANGED <<sent, countVars, stopping, phase, last, streamVars, history>>

Send(p) ==
    /\ inflight[p] # 0
    /\ sent' = Append(sent, inflight[p])
    /\ inflight' = [inflight EXCEPT ![p] = 0]
    /\ UNCHANGED <<pushed, evicted, countVars, stopping, phase, last, streamVars, history>>

-----------------------------------------------------------------------------
(***************************************************************************)
(* Admission.  A refused request changes nothing.                          *)
(***************************************************************************)
CheckTotal(c) ==
    /\ phase[c] = "away" /\ Kind[c] # "ws"
    /\ conns < MaxConns
    /\ phase' = [phase EXCEPT ![c] = "total"]
    /\ UNCHANGED <<ringVars, countVars, stopping, last, streamVars, history>>

CheckIp(c) ==
    /\ phase[c] = "total"
    /\ phase' = [phase EXCEPT ![c] =
                    IF MaxPerIp > 0 /\ perIp[IpOf[c]] >= MaxPerIp THEN "away" ELSE "ip"]
    /\ UNCHANGED <<ringVars, countVars, stopping, last, streamVars, history>>

\* The per-address counter goes up, and then the total: two atomic updates,
\* each visible to other requests.
CountIp(c) ==
    /\ phase[c] = "ip"
    /\ perIp' = IF MaxPerIp > 0 THEN [perIp EXCEPT ![IpOf[c]] = @ + 1] ELSE perIp
    /\ phase' = [phase EXCEPT ![c] = "counting"]
    /\ UNCHANGED <<ringVars, conns, stopping, last, streamVars, history>>

\* Seeded bug: a WebSocket is counted out and was never counted in.
CountSseOnly(c) == conns' = IF Kind[c] = "ws" THEN conns ELSE conns + 1

CountIn(c) == conns' = conns + 1
CountOut(c) == conns' = conns - 1

Count(c) ==
    /\ phase[c] = "counting"
    /\ CountIn(c)
    /\ phase' = [phase EXCEPT ![c] = "counted"]
    /\ UNCHANGED <<ringVars, perIp, stopping, last, streamVars, history>>

IpOut(c) ==
    perIp' = IF MaxPerIp > 0 /\ perIp[IpOf[c]] > 0 THEN [perIp EXCEPT ![IpOf[c]] = @ - 1] ELSE perIp

\* The connection is gone and with it what the stream held.
Depart(c) ==
    /\ phase' = [phase EXCEPT ![c] = "away"]
    /\ queue' = [queue EXCEPT ![c] = {}]
    /\ snap' = [snap EXCEPT ![c] = {}]
    /\ doubt' = [doubt EXCEPT ![c] = {}]
    /\ rx' = [rx EXCEPT ![c] = 0]
    /\ UNCHANGED last

\* The contract id is invalid (the multi stream looks before it counts): the
\* per-address counter goes down, and then the total.
Invalid(c) ==
    /\ phase[c] = "counted" /\ Kind[c] = "sse"
    /\ IpOut(c)
    /\ phase' = [phase EXCEPT ![c] = "refused"]
    /\ UNCHANGED <<ringVars, conns, stopping, last, streamVars, history>>

Refuse(c) ==
    /\ phase[c] = "refused"
    /\ CountOut(c) /\ Depart(c)
    /\ UNCHANGED <<ringVars, perIp, stopping, history>>

-----------------------------------------------------------------------------
(***************************************************************************)
(* Replay after Last-Event-ID, then subscription to the channel.           *)
(***************************************************************************)
InRing(e) == evicted < e /\ e <= pushed

\* Seeded bug: the event after the last one is skipped.
EventsSinceNext(e) == (e + 2)..pushed

\* SseRingBuffer::events_since, when the ring still has e.
EventsSince(e) == (e + 1)..pushed

\* The first ReplayLimit events of S, in ring order.
Taken(S) == {e \in S : Cardinality({f \in S : f < e}) < ReplayLimit}

Sent == {sent[k] : k \in 1..Len(sent)}

\* The ring is read once.  Given up here: everything sent before, if the id is no
\* UUID or has left the ring; what exceeds the limit; what another task had
\* pushed before the last event received and sent after it.
TakeReplay(c) ==
    LET hit == last[c] # 0 /\ InRing(last[c])
        wanted == IF hit THEN EventsSince(last[c]) \cap Wanted[c] ELSE {}
    IN /\ phase[c] = "counted"
       /\ queue' = [queue EXCEPT ![c] = Taken(wanted)]
       /\ snap' = [snap EXCEPT ![c] = Taken(wanted)]
       /\ doubt' = [doubt EXCEPT ![c] = Taken(wanted) \cap {inflight[p] : p \in Producers}]
       /\ rx' = [rx EXCEPT ![c] = Len(sent)]
       /\ excused' = [excused EXCEPT ![c] =
             @ \cup IF hit THEN {e \in Sent : e < last[c]} \cup (wanted \ Taken(wanted)) ELSE Sent]
       /\ phase' = [phase EXCEPT ![c] =
             IF last[c] # 0 /\ Taken(wanted) = {} THEN "query" ELSE "snap"]
       /\ UNCHANGED <<ringVars, countVars, stopping, last, start, got>>

\* The fallback of an id that has left the ring: rows newer than the one whose
\* events.id is the client's id.  A ring buffer UUID is drawn at the push and is
\* no row's id, so the query has no rows and nothing is replayed, although the
\* comment before it and docs/sse-reconnection.md promise up to
\* SSE_REPLAY_LIMIT events here.  The query is awaited.
QueryAnswered(c) ==
    /\ phase[c] = "query"
    /\ phase' = [phase EXCEPT ![c] = "snap"]
    /\ UNCHANGED <<ringVars, countVars, stopping, last, streamVars, history>>

\* Seeded bug: the receiver also gets the message before it.
SubscribedBack(c) == IF Len(sent) > 0 THEN Len(sent) - 1 ELSE 0

\* event_tx.subscribe(): messages sent from now on.
SubscribedAt(c) == Len(sent)

\* What was sent since the snapshot is in neither replay nor channel.
Subscribe(c) ==
    /\ phase[c] = "snap"
    /\ excused' = [excused EXCEPT ![c] = @ \cup {sent[k] : k \in (rx[c] + 1)..Len(sent)}]
    /\ rx' = [rx EXCEPT ![c] = SubscribedAt(c)]
    /\ phase' = [phase EXCEPT ![c] = "live"]
    /\ UNCHANGED <<ringVars, countVars, stopping, last, queue, snap, doubt, start, got>>

\* A WebSocket is neither limited nor replayed to, and has no per-address count.
WsConnect(c) ==
    /\ phase[c] = "away" /\ Kind[c] = "ws"
    /\ CountIn(c)
    /\ rx' = [rx EXCEPT ![c] = Len(sent)]
    /\ phase' = [phase EXCEPT ![c] = "live"]
    /\ UNCHANGED <<ringVars, perIp, stopping, last, queue, snap, doubt, history>>

-----------------------------------------------------------------------------
(***************************************************************************)
(* The stream.                                                             *)
(***************************************************************************)

\* A replayed frame carries "<tx_hash>-<ledger>" for its id, which is no UUID:
\* the ring stores the event before the UUID is put into it.
ReplayFrame(c) ==
    /\ phase[c] = "live" /\ queue[c] # {}
    /\ LET e == Min(queue[c])
       IN /\ queue' = [queue EXCEPT ![c] = @ \ {e}]
          /\ got' = [got EXCEPT ![c] = @ \cup {e}]
    /\ last' = [last EXCEPT ![c] = 0]
    /\ UNCHANGED <<ringVars, countVars, stopping, phase, snap, doubt, rx, start, excused>>

Behind(c) == Len(sent) - rx[c]

\* A live frame carries the ring buffer's UUID; a WebSocket keeps none.
Receive(c) ==
    /\ phase[c] = "live" /\ queue[c] = {}
    /\ Behind(c) \in 1..ChannelCapacity
    /\ rx' = [rx EXCEPT ![c] = @ + 1]
    /\ LET e == sent[rx[c] + 1]
       IN IF e \in Wanted[c]
          THEN /\ got' = [got EXCEPT ![c] = @ \cup {e}]
               /\ last' = IF Kind[c] = "ws" THEN last ELSE [last EXCEPT ![c] = e]
               /\ start' = IF Kind[c] = "ws" \/ start[c] # -1 THEN start
                           ELSE [start EXCEPT ![c] = rx[c] + 1]
          ELSE UNCHANGED <<got, last, start>>
    /\ UNCHANGED <<ringVars, countVars, stopping, phase, queue, snap, doubt, excused>>

\* Messages the channel has overwritten before the receiver read them.
Overwritten(c) == Behind(c) - ChannelCapacity

\* RecvError::Lagged(n): a lag notice, and the end of the stream for a
\* WebSocket and for a client too far behind.
Lagged(c) ==
    LET n == Overwritten(c)
    IN /\ phase[c] = "live" /\ queue[c] = {} /\ Behind(c) > ChannelCapacity
       /\ rx' = [rx EXCEPT ![c] = @ + n]
       /\ excused' = [excused EXCEPT ![c] =
             @ \cup {sent[k] : k \in (rx[c] + 1)..(Len(sent) - ChannelCapacity)}]
       /\ phase' = [phase EXCEPT ![c] =
             IF Kind[c] = "ws" \/ (MaxLag > 0 /\ n >= MaxLag) THEN "closing" ELSE @]
       /\ UNCHANGED <<ringVars, countVars, stopping, last, queue, snap, doubt, start, got>>

\* "server shutting down": the multi stream does not listen for it.
ShutdownClose(c) ==
    /\ stopping /\ phase[c] = "live" /\ queue[c] = {} /\ Kind[c] = "sse"
    /\ phase' = [phase EXCEPT ![c] = "closing"]
    /\ UNCHANGED <<ringVars, countVars, stopping, last, streamVars, history>>

\* The stream yields None: the total goes down, and then the per-address counter.
EndStream(c) ==
    /\ phase[c] = "closing" /\ Kind[c] # "ws"
    /\ CountOut(c)
    /\ phase' = [phase EXCEPT ![c] = "ended"]
    /\ UNCHANGED <<ringVars, perIp, stopping, last, streamVars, history>>

ForgetIp(c) ==
    /\ phase[c] = "ended" /\ Kind[c] # "ws"
    /\ IpOut(c) /\ Depart(c)
    /\ UNCHANGED <<ringVars, conns, stopping, history>>

\* The client disconnects: the server drops the request's future or its
\* stream, and the clean-up at the stream's end never runs.
Leave(c) ==
    /\ phase[c] \in {"query", "live", "closing"} /\ Kind[c] # "ws"
    /\ Depart(c)
    /\ UNCHANGED <<ringVars, countVars, stopping, history>>

\* A WebSocket ends, by itself or after the client left.
WsLeave(c) ==
    /\ phase[c] \in {"live", "closing"} /\ Kind[c] = "ws"
    /\ CountOut(c) /\ Depart(c)
    /\ UNCHANGED <<ringVars, perIp, stopping, history>>

-----------------------------------------------------------------------------
(***************************************************************************)
(* Shutdown and restart of the process; clients keep their last id.        *)
(***************************************************************************)
Stop ==
    /\ Restarts /\ ~stopping
    /\ stopping' = TRUE
    /\ UNCHANGED <<ringVars, countVars, phase, last, streamVars, history>>

\* Ring buffer, channel and counters start empty.
Restart ==
    /\ Restarts
    /\ evicted' = pushed /\ inflight' = [p \in Producers |-> 0]
    /\ conns' = 0 /\ perIp' = [a \in Ips |-> 0]
    /\ stopping' = FALSE
    /\ phase' = [c \in Clients |-> "away"]
    /\ queue' = [c \in Clients |-> {}]
    /\ snap' = [c \in Clients |-> {}]
    /\ doubt' = [c \in Clients |-> {}]
    /\ rx' = [c \in Clients |-> 0]
    /\ UNCHANGED <<pushed, sent, last, history>>

Request(c) ==
    \/ CheckTotal(c) \/ CheckIp(c) \/ CountIp(c) \/ Count(c) \/ Invalid(c) \/ Refuse(c)
    \/ TakeReplay(c) \/ QueryAnswered(c) \/ Subscribe(c) \/ WsConnect(c)

Stream(c) ==
    \/ ReplayFrame(c) \/ Receive(c) \/ Lagged(c) \/ ShutdownClose(c)
    \/ EndStream(c) \/ ForgetIp(c)

Next ==
    \/ \E p \in Producers : Push(p) \/ Send(p)
    \/ \E c \in Clients : Request(c) \/ Stream(c) \/ Leave(c) \/ WsLeave(c)
    \/ Stop \/ Restart

Spec == Init /\ [][Next]_vars

-----------------------------------------------------------------------------
(***************************************************************************)
(* Properties                                                              *)
(***************************************************************************)
\* The clients the total and the per-address counter stand for.
Open == {"counted", "query", "snap", "live", "closing"}
InTotal(c) == phase[c] \in Open \cup {"refused"}
InIp(c) == Kind[c] # "ws" /\ phase[c] \in Open \cup {"counting", "ended"}

Passed(c) == {sent[k] : k \in (start[c] + 1)..rx[c]} \cap Wanted[c]
Streaming(c) == phase[c] = "live" /\ start[c] # -1

\* An event a streaming client's position has moved past was received, waits
\* in the replay, or was missed for a cause the model names: a lag notice, an
\* id that is no UUID (the documented replay is then not tried) or has left the
\* ring (the documented database fallback then finds nothing), the replay
\* limit, an overtaking push, or a send between the replay snapshot and the
\* subscription.
MissesExplained ==
    \A c \in Clients : Streaming(c) => Passed(c) \subseteq got[c] \cup queue[c] \cup excused[c]

\* On one connection a replayed event arrives a second time, through the
\* channel, only if it was between push and send when the replay was read.
\* Nothing is said of events of an earlier connection: one that a later push
\* overtook on its way to the channel may be replayed after a reconnect.
DuplicatesInFlight ==
    \A c \in Clients : phase[c] = "live" =>
        snap[c] \cap ({sent[k] : k \in (rx[c] + 1)..Len(sent)} \cup {inflight[p] : p \in Producers})
          \subseteq doubt[c]

\* The counters never fall below the connections that are open, in all and per
\* address: no decrement underflows, and a limit is never raised by a client
\* that was counted out twice.  (They may stay above: a client that leaves is
\* not counted out.)
CountersCover ==
    /\ conns >= Cardinality({c \in Clients : InTotal(c)})
    /\ MaxPerIp > 0 => \A a \in Ips :
          perIp[a] >= Cardinality({c \in Clients : InIp(c) /\ IpOf[c] = a})
=============================================================================
