---------------------------- MODULE RpcFailover ----------------------------
(***************************************************************************)
(* Endpoint selection and failover of src/src/rpc_endpoints.rs and         *)
(* SorobanRpcClient::call_with_failover in src/src/indexer.rs.  A call     *)
(* tries the endpoints in an order computed when it begins, while the      *)
(* background probe (and any other caller of the same client) measures,    *)
(* disables and revives endpoints.                                         *)
(*                                                                         *)
(* The recent latencies of an endpoint are abstracted to their median.     *)
(***************************************************************************)
EXTENDS Integers, FiniteSets

CONSTANTS
    Endpoints,   \* indices of the configured URLs, primary first
    Callers,     \* concurrent calls of call_with_failover
    MaxErrors,   \* MAX_CONSECUTIVE_ERRORS
    Latencies,   \* medians told apart
    MaxChanges   \* bound: changes of the endpoints' health

ASSUME RpcAssumption ==
    /\ Endpoints \subseteq Nat /\ Endpoints # {} /\ IsFiniteSet(Endpoints)
    /\ MaxErrors \in Nat \ {0}
    /\ Latencies \subseteq Nat /\ Latencies # {}
    /\ MaxChanges \in Nat

NoLatency == -1

VARIABLES
    server,       \* an endpoint: "ok", "refuses" (answers getEvents with a JSON-RPC error) or "down"
    errors,       \* consecutive_errors, counted up to MaxErrors
    unavailable,  \* endpoints marked unavailable
    p50,          \* median of the recent probe latencies
    idle,         \* ticks since an endpoint was probed, 2 if it never was
    probe,        \* a probe: "none", "sent", or the answer under way
    left,         \* a call: endpoints it has not tried yet
    order,        \* its order, computed by candidates()
    trying,       \* the endpoint it waits for
    answer,       \* "idle", "sent", the answer under way, or the call's result
    rpcErr,       \* some endpoint has answered the call with a JSON-RPC error
    steady,       \* history: endpoints that were "ok" ever since the call began
    changes       \* health changes still to come

healthVars == <<errors, unavailable, p50>>
probeVars == <<idle, probe>>
callVars == <<left, order, trying, answer, rpcErr>>
vars == <<server, healthVars, probeVars, callVars, steady, changes>>

Results == {"result", "rpc_error", "transport_error"}
NoEndpoint == -1

TypeOK ==
    /\ server \in [Endpoints -> {"ok", "refuses", "down"}]
    /\ errors \in [Endpoints -> 0..MaxErrors] /\ unavailable \subseteq Endpoints
    /\ p50 \in [Endpoints -> Latencies \cup {NoLatency}]
    /\ idle \in [Endpoints -> 0..2]
    /\ probe \in [Endpoints -> {"none", "sent", "ok", "down"}]
    /\ left \in [Callers -> SUBSET Endpoints]
    /\ order \in [Callers -> [Endpoints -> Nat]]
    /\ trying \in [Callers -> Endpoints \cup {NoEndpoint}]
    /\ answer \in [Callers -> {"idle", "next", "sent", "ok", "refuses", "down"} \cup Results]
    /\ rpcErr \in [Callers -> BOOLEAN]
    /\ steady \in [Callers -> SUBSET Endpoints]
    /\ changes \in 0..MaxChanges

Init ==
    /\ server \in [Endpoints -> {"ok", "refuses", "down"}]
    /\ errors = [e \in Endpoints |-> 0] /\ unavailable = {}
    /\ p50 = [e \in Endpoints |-> NoLatency]
    /\ idle = [e \in Endpoints |-> 2]
    /\ probe = [e \in Endpoints |-> "none"]
    /\ left = [c \in Callers |-> {}]
    /\ order = [c \in Callers |-> [e \in Endpoints |-> 0]]
    /\ trying = [c \in Callers |-> NoEndpoint]
    /\ answer = [c \in Callers |-> "idle"]
    /\ rpcErr = [c \in Callers |-> FALSE]
    /\ steady = [c \in Callers |-> {}]
    /\ changes = MaxChanges

-----------------------------------------------------------------------------
\* An endpoint starts or stops answering.
Change(e, s) ==
    /\ changes > 0 /\ server[e] # s
    /\ changes' = changes - 1
    /\ server' = [server EXCEPT ![e] = s]
    /\ steady' = [c \in Callers |-> IF s = "ok" THEN steady[c] ELSE steady[c] \ {e}]
    /\ UNCHANGED <<healthVars, probeVars, callVars>>

-----------------------------------------------------------------------------
(***************************************************************************)
(* RpcEndpoints.                                                           *)
(***************************************************************************)

RecordSuccess(e) ==
    /\ errors' = [errors EXCEPT ![e] = 0]
    /\ unavailable' = unavailable \ {e}

\* The streak reaches MaxErrors: the endpoint is marked and its samples go.
Disables(e) == e \notin unavailable /\ errors[e] + 1 >= MaxErrors

RecordFailure(e) ==
    /\ errors' = [errors EXCEPT ![e] = IF @ < MaxErrors THEN @ + 1 ELSE @]
    /\ unavailable' = IF Disables(e) THEN unavailable \cup {e} ELSE unavailable
    /\ p50' = [p50 EXCEPT ![e] = IF Disables(e) THEN NoLatency ELSE @]

\* candidates(): available first, then those without a recent error, then by
\* median (unmeasured last), then by index.
Before(d, e) ==
    LET bit(b) == IF b THEN 1 ELSE 0
        rank(f) == <<bit(f \in unavailable), bit(errors[f] > 0),
                     bit(p50[f] = NoLatency), p50[f], f>>
    IN \E k \in 1..5 : rank(d)[k] < rank(e)[k] /\ \A m \in 1..(k - 1) : rank(d)[m] = rank(e)[m]

Place(e) == Cardinality({d \in Endpoints : Before(d, e)})

-----------------------------------------------------------------------------
(***************************************************************************)
(* One call of call_with_failover.                                         *)
(***************************************************************************)

\* Seeded bug: endpoints marked unavailable are not tried at all.
CandidatesAvailable == Endpoints \ unavailable

\* Unavailable endpoints are candidates too, as a last resort.
Candidates == Endpoints

Call(c) ==
    /\ answer[c] \in {"idle"} \cup Results
    /\ left' = [left EXCEPT ![c] = Candidates]
    /\ order' = [order EXCEPT ![c] = [e \in Endpoints |-> Place(e)]]
    /\ answer' = [answer EXCEPT ![c] = "next"]
    /\ rpcErr' = [rpcErr EXCEPT ![c] = FALSE]
    /\ steady' = [steady EXCEPT ![c] = {e \in Endpoints : server[e] = "ok"}]
    /\ UNCHANGED <<server, healthVars, probeVars, trying, changes>>

\* post_once to the next candidate.
Try(c, e) ==
    /\ answer[c] = "next" /\ e \in left[c]
    /\ \A d \in left[c] : order[c][e] <= order[c][d]
    /\ left' = [left EXCEPT ![c] = @ \ {e}]
    /\ trying' = [trying EXCEPT ![c] = e]
    /\ answer' = [answer EXCEPT ![c] = "sent"]
    /\ UNCHANGED <<server, healthVars, probeVars, order, rpcErr, steady, changes>>

\* The endpoint takes the request; the answer travels back.
Serve(c) ==
    /\ answer[c] = "sent"
    /\ answer' = [answer EXCEPT ![c] = server[trying[c]]]
    /\ UNCHANGED <<server, healthVars, probeVars, left, order, trying, rpcErr, steady, changes>>

\* "returned in preference to a transport error".
Failure(c) == IF rpcErr'[c] THEN "rpc_error" ELSE "transport_error"

\* The answer arrives.  A JSON-RPC error leaves the endpoint's health alone.
Receive(c) ==
    /\ answer[c] \in {"ok", "refuses", "down"}
    /\ rpcErr' = [rpcErr EXCEPT ![c] = @ \/ answer[c] = "refuses"]
    /\ answer' = [answer EXCEPT ![c] = IF @ = "ok" THEN "result"
                                       ELSE IF left[c] = {} THEN Failure(c) ELSE "next"]
    /\ CASE answer[c] = "ok" -> RecordSuccess(trying[c]) /\ UNCHANGED p50
         [] answer[c] = "down" -> RecordFailure(trying[c])
         [] OTHER -> UNCHANGED healthVars
    /\ trying' = [trying EXCEPT ![c] = NoEndpoint]
    /\ UNCHANGED <<server, probeVars, left, order, steady, changes>>

-----------------------------------------------------------------------------
(***************************************************************************)
(* RpcLatencyProbe.                                                        *)
(***************************************************************************)
\* Seeded bug: endpoints marked unavailable are not probed.
DueAvailable(e, ticks) == e \notin unavailable /\ ticks >= 1

\* due_for_probe: every tick, or every second one while unavailable.
Due(e, ticks) == ticks >= IF e \in unavailable THEN 2 ELSE 1

\* A tick of the probe loop, once the probes of the last one are over.
Tick ==
    /\ \A e \in Endpoints : probe[e] = "none"
    /\ LET aged == [e \in Endpoints |-> IF idle[e] < 2 THEN idle[e] + 1 ELSE 2]
           due == {e \in Endpoints : Due(e, aged[e])}
       IN /\ probe' = [e \in Endpoints |-> IF e \in due THEN "sent" ELSE "none"]
          /\ idle' = [e \in Endpoints |-> IF e \in due THEN 0 ELSE aged[e]]
    /\ UNCHANGED <<server, healthVars, callVars, steady, changes>>

\* An endpoint that refuses getEvents still answers getLatestLedger.
ServeProbe(e) ==
    /\ probe[e] = "sent"
    /\ probe' = [probe EXCEPT ![e] = IF server[e] = "down" THEN "down" ELSE "ok"]
    /\ UNCHANGED <<server, healthVars, idle, callVars, steady, changes>>

\* record_latency or record_failure.
EndProbe(e) ==
    /\ probe[e] \in {"ok", "down"}
    /\ \/ /\ probe[e] = "ok" /\ RecordSuccess(e)
          /\ \E m \in Latencies : p50' = [p50 EXCEPT ![e] = m]
       \/ probe[e] = "down" /\ RecordFailure(e)
    /\ probe' = [probe EXCEPT ![e] = "none"]
    /\ UNCHANGED <<server, idle, callVars, steady, changes>>

-----------------------------------------------------------------------------
Probe(e) == ServeProbe(e) \/ EndProbe(e)
Progress(c) == Serve(c) \/ Receive(c) \/ \E e \in Endpoints : Try(c, e)

Next ==
    \/ \E e \in Endpoints, s \in {"ok", "refuses", "down"} : Change(e, s)
    \/ \E c \in Callers : Call(c) \/ Progress(c)
    \/ Tick \/ \E e \in Endpoints : Probe(e)

Spec == Init /\ [][Next]_vars

\* Requests and probes have timeouts, so each of them ends; the probe's ticker
\* goes on.  Nobody needs to call.
Fairness ==
    /\ \A c \in Callers : WF_vars(Progress(c))
    /\ WF_vars(Tick) /\ \A e \in Endpoints : WF_vars(Probe(e))

FairSpec == Spec /\ Fairness

-----------------------------------------------------------------------------
(***************************************************************************)
(* Properties                                                              *)
(***************************************************************************)

\* A call fails only if no endpoint was healthy all along: an endpoint that
\* other calls or late probe answers have marked unavailable is still tried.
NoSpuriousFailure ==
    \A c \in Callers : answer[c] \in {"rpc_error", "transport_error"} => steady[c] = {}

\* An endpoint that answers from some time on is eventually available for good.
Revived ==
    \A e \in Endpoints : <>[](server[e] # "down") => <>[](e \notin unavailable)

\* Once one endpoint answers for good and another is down for good, new calls
\* eventually stop going to the dead one first.
RoutesAround ==
    \A d, e \in Endpoints :
        <>[](server[e] # "down" /\ server[d] = "down") => <>[](Before(e, d))
=============================================================================
