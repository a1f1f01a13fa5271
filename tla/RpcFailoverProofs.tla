------------------------- MODULE RpcFailoverProofs -------------------------
(***************************************************************************)
(* Proofs about RpcFailover for any number of endpoints and callers, any   *)
(* error limit, any latencies and any changes of the endpoints' health.    *)
(***************************************************************************)
EXTENDS RpcFailover, FiniteSetTheorems, TLAPS

-----------------------------------------------------------------------------
(***************************************************************************)
(* The order of the candidates.                                            *)
(***************************************************************************)
Bit(b) == IF b THEN 1 ELSE 0

\* The key that candidates() sorts by.
Rank(f) == <<Bit(f \in unavailable), Bit(errors[f] > 0), Bit(p50[f] = NoLatency), p50[f], f>>

LEMMA RankTypes ==
    ASSUME TypeOK, NEW f \in Endpoints
    PROVE  /\ Rank(f)[1] \in Int /\ Rank(f)[2] \in Int /\ Rank(f)[3] \in Int
           /\ Rank(f)[4] \in Int /\ Rank(f)[5] \in Int /\ Rank(f)[5] = f
  <1>1. f \in Int /\ p50[f] \in Latencies \cup {NoLatency}
    BY RpcAssumption DEF TypeOK
  <1>2. p50[f] \in Int
    <2>1. NoLatency \in Int
      BY DEF NoLatency
    <2>2. Latencies \cup {NoLatency} \subseteq Int
      BY <2>1, RpcAssumption
    <2>3. QED
      BY <1>1, <2>2
  <1>3. QED
    BY <1>1, <1>2 DEF Rank, Bit

\* Before compares the keys from the left.
LEMMA BeforeIsLexicographic ==
    ASSUME TypeOK, NEW d \in Endpoints, NEW e \in Endpoints
    PROVE  Before(d, e) <=>
             LET a == Rank(d)
                 b == Rank(e)
             IN  \/ a[1] < b[1]
                 \/ a[1] = b[1] /\ a[2] < b[2]
                 \/ a[1] = b[1] /\ a[2] = b[2] /\ a[3] < b[3]
                 \/ a[1] = b[1] /\ a[2] = b[2] /\ a[3] = b[3] /\ a[4] < b[4]
                 \/ a[1] = b[1] /\ a[2] = b[2] /\ a[3] = b[3] /\ a[4] = b[4] /\ a[5] < b[5]
  <1> DEFINE a == Rank(d)
             b == Rank(e)
             P(k) == a[k] < b[k] /\ \A m \in 1..(k - 1) : a[m] = b[m]
  <1>1. Before(d, e) <=> \E k \in 1..5 : P(k)
    BY DEF Before, Rank, Bit
  <1>2. 1..5 = {1, 2, 3, 4, 5}
    OBVIOUS
  <1>3. 1..(1 - 1) = {} /\ 1..(2 - 1) = {1} /\ 1..(3 - 1) = {1, 2} /\ 1..(4 - 1) = {1, 2, 3}
        /\ 1..(5 - 1) = {1, 2, 3, 4}
    OBVIOUS
  <1> HIDE DEF a, b
  <1>4. /\ P(1) <=> a[1] < b[1]
        /\ P(2) <=> a[1] = b[1] /\ a[2] < b[2]
        /\ P(3) <=> a[1] = b[1] /\ a[2] = b[2] /\ a[3] < b[3]
        /\ P(4) <=> a[1] = b[1] /\ a[2] = b[2] /\ a[3] = b[3] /\ a[4] < b[4]
        /\ P(5) <=> a[1] = b[1] /\ a[2] = b[2] /\ a[3] = b[3] /\ a[4] = b[4] /\ a[5] < b[5]
    BY <1>3
  <1> HIDE DEF P
  <1>5. (\E k \in 1..5 : P(k)) <=> P(1) \/ P(2) \/ P(3) \/ P(4) \/ P(5)
    BY <1>2
  <1>6. QED
    BY <1>1, <1>4, <1>5 DEF a, b

\* RpcEndpoints::candidates sorts by a strict total order: no two endpoints tie,
\* so that the order of a call is determined by what is known when it begins.
THEOREM CandidatesTotallyOrdered ==
    ASSUME TypeOK, NEW d \in Endpoints, NEW e \in Endpoints, NEW f \in Endpoints
    PROVE  /\ ~Before(d, d)
           /\ Before(d, e) /\ Before(e, f) => Before(d, f)
           /\ d = e \/ Before(d, e) \/ Before(e, d)
  <1>1. ~Before(d, d)
    BY BeforeIsLexicographic, RankTypes
  <1>2. Before(d, e) /\ Before(e, f) => Before(d, f)
    BY BeforeIsLexicographic, RankTypes
  <1>3. d = e \/ Before(d, e) \/ Before(e, d)
    BY BeforeIsLexicographic, RankTypes
  <1>4. QED
    BY <1>1, <1>2, <1>3

\* A place is a number, and of two endpoints the earlier one has the lower place.
LEMMA PlaceType ==
    ASSUME NEW e
    PROVE  Place(e) \in Nat /\ IsFiniteSet({d \in Endpoints : Before(d, e)})
  <1>1. IsFiniteSet({d \in Endpoints : Before(d, e)})
    BY FS_Subset, RpcAssumption
  <1>2. QED
    BY <1>1, FS_CardinalityType DEF Place

\* The places that a call keeps follow the order: of two endpoints the better
\* one is tried first, whatever is measured meanwhile.
THEOREM PlacesFollowOrder ==
    ASSUME TypeOK, NEW d \in Endpoints, NEW e \in Endpoints, Before(d, e)
    PROVE  Place(d) < Place(e)
  <1> DEFINE D == {x \in Endpoints : Before(x, d)}
             E == {x \in Endpoints : Before(x, e)}
  <1>1. D \subseteq E
    BY CandidatesTotallyOrdered
  <1>2. d \in E /\ d \notin D
    BY CandidatesTotallyOrdered
  <1>3. IsFiniteSet(D) /\ IsFiniteSet(E)
    BY PlaceType
  <1> HIDE DEF D, E
  <1>4. D \in SUBSET E /\ E # D
    BY <1>1, <1>2
  <1>5. Cardinality(D) <= Cardinality(E) /\ Cardinality(E) # Cardinality(D)
    BY <1>3, <1>4, FS_Subset
  <1>6. Cardinality(D) \in Nat /\ Cardinality(E) \in Nat
    BY <1>3, FS_CardinalityType
  <1>7. QED
    BY <1>5, <1>6 DEF Place, D, E

-----------------------------------------------------------------------------
(***************************************************************************)
(* The inductive invariant.                                                *)
(***************************************************************************)
Failures == {"rpc_error", "transport_error"}

\* An endpoint that was healthy all along has not been tried, or is being tried
\* and will not answer with an error.
CallInv(c) ==
    /\ \A e \in steady[c] : server[e] = "ok"
    /\ answer[c] \in {"sent", "ok", "refuses", "down"} => trying[c] \in Endpoints
    /\ answer[c] \in {"next", "refuses", "down"} => steady[c] \subseteq left[c]
    /\ answer[c] = "sent" => steady[c] \subseteq left[c] \cup {trying[c]}
    /\ answer[c] \in Failures => steady[c] = {}

\* An endpoint is marked when its streak is at the limit, and has then no samples.
MarkInv(e) ==
    /\ e \in unavailable <=> errors[e] = MaxErrors
    /\ e \in unavailable => p50[e] = NoLatency

FailoverInv ==
    /\ TypeOK
    /\ \A c \in Callers : CallInv(c)
    /\ \A e \in Endpoints : MarkInv(e)

LEMMA InitInv == Init => FailoverInv
  <1> SUFFICES ASSUME Init PROVE FailoverInv
    OBVIOUS
  <1>1. TypeOK
    BY RpcAssumption DEF Init, TypeOK, NoEndpoint, Results
  <1>2. \A c \in Callers : CallInv(c)
    BY DEF Init, CallInv, Failures
  <1>3. \A e \in Endpoints : MarkInv(e)
    BY RpcAssumption DEF Init, MarkInv
  <1>4. QED
    BY <1>1, <1>2, <1>3 DEF FailoverInv

-----------------------------------------------------------------------------
(***************************************************************************)
(* Health records.                                                         *)
(***************************************************************************)
HealthTypes ==
    /\ errors \in [Endpoints -> 0..MaxErrors] /\ unavailable \subseteq Endpoints
    /\ p50 \in [Endpoints -> Latencies \cup {NoLatency}]

LEMMA SuccessKeepsMarks ==
    ASSUME FailoverInv, NEW e \in Endpoints, RecordSuccess(e),
           \/ UNCHANGED p50
           \/ \E m \in Latencies : p50' = [p50 EXCEPT ![e] = m]
    PROVE  HealthTypes' /\ \A d \in Endpoints : MarkInv(d)'
  <1>1. HealthTypes /\ \A d \in Endpoints : MarkInv(d)
    BY DEF FailoverInv, TypeOK, HealthTypes
  <1>2. errors' \in [Endpoints -> 0..MaxErrors] /\ unavailable' \subseteq Endpoints
    BY <1>1, RpcAssumption DEF HealthTypes, RecordSuccess
  <1>3. /\ p50' \in [Endpoints -> Latencies \cup {NoLatency}]
        /\ \A d \in Endpoints : d # e => p50'[d] = p50[d]
    BY <1>1 DEF HealthTypes
  <1>4. ASSUME NEW d \in Endpoints PROVE MarkInv(d)'
    <2>1. CASE d = e
      BY <1>1, <2>1, RpcAssumption DEF MarkInv, RecordSuccess, HealthTypes
    <2>2. CASE d # e
      BY <1>1, <1>3, <2>2 DEF MarkInv, RecordSuccess, HealthTypes
    <2>3. QED
      BY <2>1, <2>2
  <1>5. QED
    BY <1>2, <1>3, <1>4 DEF HealthTypes

LEMMA FailureKeepsMarks ==
    ASSUME FailoverInv, NEW e \in Endpoints, RecordFailure(e)
    PROVE  HealthTypes' /\ \A d \in Endpoints : MarkInv(d)'
  <1>1. HealthTypes /\ \A d \in Endpoints : MarkInv(d)
    BY DEF FailoverInv, TypeOK, HealthTypes
  <1>2. errors[e] \in 0..MaxErrors /\ MaxErrors \in Nat \ {0}
    BY <1>1, RpcAssumption DEF HealthTypes
  <1>3. /\ errors' \in [Endpoints -> 0..MaxErrors]
        /\ errors'[e] = IF errors[e] < MaxErrors THEN errors[e] + 1 ELSE errors[e]
        /\ \A d \in Endpoints : d # e => errors'[d] = errors[d]
    BY <1>1, <1>2 DEF HealthTypes, RecordFailure
  <1>4. /\ p50' \in [Endpoints -> Latencies \cup {NoLatency}]
        /\ p50'[e] = IF Disables(e) THEN NoLatency ELSE p50[e]
        /\ \A d \in Endpoints : d # e => p50'[d] = p50[d]
    BY <1>1 DEF HealthTypes, RecordFailure
  <1>5. unavailable' = IF Disables(e) THEN unavailable \cup {e} ELSE unavailable
    BY DEF RecordFailure
  <1>6. ASSUME NEW d \in Endpoints PROVE MarkInv(d)'
    <2>1. CASE d = e
      BY <1>1, <1>2, <1>3, <1>4, <1>5, <2>1 DEF MarkInv, Disables
    <2>2. CASE d # e
      BY <1>1, <1>3, <1>4, <1>5, <2>2 DEF MarkInv
    <2>3. QED
      BY <2>1, <2>2
  <1>7. QED
    BY <1>1, <1>3, <1>4, <1>5, <1>6 DEF HealthTypes

LEMMA MarksStay ==
    ASSUME FailoverInv, UNCHANGED healthVars
    PROVE  HealthTypes' /\ \A d \in Endpoints : MarkInv(d)'
  BY DEF FailoverInv, TypeOK, HealthTypes, MarkInv, healthVars

LEMMA CallStays ==
    ASSUME NEW c, CallInv(c), server' = server, steady'[c] = steady[c],
           answer'[c] = answer[c], trying'[c] = trying[c], left'[c] = left[c]
    PROVE  CallInv(c)'
  BY DEF CallInv

-----------------------------------------------------------------------------
(***************************************************************************)
(* The steps.                                                              *)
(***************************************************************************)
LEMMA ChangeKeepsInv ==
    ASSUME FailoverInv, NEW e \in Endpoints, NEW s \in {"ok", "refuses", "down"}, Change(e, s)
    PROVE  FailoverInv'
  <1>1. TypeOK
    BY DEF FailoverInv
  <1>2. TypeOK'
    BY <1>1, RpcAssumption DEF TypeOK, Change, healthVars, probeVars, callVars
  <1>3. UNCHANGED healthVars
    BY DEF Change
  <1>4. ASSUME NEW c \in Callers PROVE CallInv(c)'
    <2>1. CallInv(c) /\ steady'[c] \subseteq steady[c] /\ (s # "ok" => e \notin steady'[c])
      BY DEF FailoverInv, Change
    <2>2. steady[c] \subseteq Endpoints
      BY <1>1 DEF TypeOK
    <2>3. \A d \in steady'[c] : server'[d] = "ok"
      BY <1>1, <2>1, <2>2 DEF Change, CallInv, TypeOK
    <2>4. QED
      BY <2>1, <2>3 DEF CallInv, Change, callVars
  <1>5. QED
    BY <1>2, <1>3, <1>4, MarksStay DEF FailoverInv

LEMMA CallKeepsInv ==
    ASSUME FailoverInv, NEW c \in Callers, Call(c)
    PROVE  FailoverInv'
  <1>1. TypeOK
    BY DEF FailoverInv
  <1>2. [e \in Endpoints |-> Place(e)] \in [Endpoints -> Nat]
    BY PlaceType
  <1>3. TypeOK'
    BY <1>1, <1>2 DEF TypeOK, Call, healthVars, probeVars, Candidates
  <1>4. UNCHANGED healthVars
    BY DEF Call
  <1>5. ASSUME NEW k \in Callers PROVE CallInv(k)'
    <2>1. CASE k = c
      BY <1>1, <2>1 DEF Call, CallInv, TypeOK, Candidates, Failures
    <2>2. CASE k # c
      BY <1>1, <2>2, CallStays DEF FailoverInv, Call, TypeOK
    <2>3. QED
      BY <2>1, <2>2
  <1>6. QED
    BY <1>3, <1>4, <1>5, MarksStay DEF FailoverInv

LEMMA TryKeepsInv ==
    ASSUME FailoverInv, NEW c \in Callers, NEW e \in Endpoints, Try(c, e)
    PROVE  FailoverInv'
  <1>1. TypeOK
    BY DEF FailoverInv
  <1>2. TypeOK'
    BY <1>1 DEF TypeOK, Try, healthVars, probeVars
  <1>3. UNCHANGED healthVars
    BY DEF Try
  <1>4. ASSUME NEW k \in Callers PROVE CallInv(k)'
    <2>1. CASE k = c
      <3>1. /\ answer[c] = "next" /\ answer'[c] = "sent" /\ trying'[c] = e
            /\ left'[c] = left[c] \ {e} /\ steady' = steady /\ server' = server
        BY <1>1 DEF Try, TypeOK
      <3>2. QED
        BY <2>1, <3>1 DEF FailoverInv, CallInv, Failures
    <2>2. CASE k # c
      BY <1>1, <2>2, CallStays DEF FailoverInv, Try, TypeOK
    <2>3. QED
      BY <2>1, <2>2
  <1>5. QED
    BY <1>2, <1>3, <1>4, MarksStay DEF FailoverInv

LEMMA ServeKeepsInv ==
    ASSUME FailoverInv, NEW c \in Callers, Serve(c)
    PROVE  FailoverInv'
  <1>1. TypeOK /\ CallInv(c) /\ trying[c] \in Endpoints
    BY DEF FailoverInv, Serve, CallInv
  <1>2. server[trying[c]] \in {"ok", "refuses", "down"}
    BY <1>1 DEF TypeOK
  <1>3. TypeOK'
    BY <1>1, <1>2 DEF TypeOK, Serve, healthVars, probeVars
  <1>4. UNCHANGED healthVars
    BY DEF Serve
  <1>5. ASSUME NEW k \in Callers PROVE CallInv(k)'
    <2>1. CASE k = c
      <3>1. /\ answer[c] = "sent" /\ answer'[c] = server[trying[c]] /\ trying' = trying
            /\ left' = left /\ steady' = steady /\ server' = server
        BY <1>1 DEF Serve, TypeOK
      <3>2. answer'[c] # "ok" => trying[c] \notin steady[c]
        BY <1>1, <3>1 DEF CallInv
      <3>3. QED
        BY <1>1, <1>2, <2>1, <3>1, <3>2 DEF CallInv, Failures
    <2>2. CASE k # c
      BY <1>1, <2>2, CallStays DEF FailoverInv, Serve, TypeOK
    <2>3. QED
      BY <2>1, <2>2
  <1>6. QED
    BY <1>3, <1>4, <1>5, MarksStay DEF FailoverInv

LEMMA ReceiveKeepsInv ==
    ASSUME FailoverInv, NEW c \in Callers, Receive(c)
    PROVE  FailoverInv'
  <1>1. TypeOK /\ CallInv(c) /\ trying[c] \in Endpoints
    BY DEF FailoverInv, Receive, CallInv
  <1>2. HealthTypes' /\ \A d \in Endpoints : MarkInv(d)'
    <2>1. CASE answer[c] = "ok"
      BY <1>1, <2>1, SuccessKeepsMarks DEF Receive
    <2>2. CASE answer[c] = "down"
      BY <1>1, <2>2, FailureKeepsMarks DEF Receive
    <2>3. CASE answer[c] = "refuses"
      BY <1>1, <2>3, MarksStay DEF Receive
    <2>4. QED
      BY <2>1, <2>2, <2>3 DEF Receive
  <1>3. rpcErr' \in [Callers -> BOOLEAN]
    BY <1>1 DEF TypeOK, Receive
  <1> DEFINE to == IF answer[c] = "ok" THEN "result" ELSE IF left[c] = {} THEN Failure(c) ELSE "next"
  <1>4. answer' = [answer EXCEPT ![c] = to]
    BY DEF Receive
  <1>5. to \in {"next"} \cup Results
    BY DEF Failure, Results
  <1>6. TypeOK'
    BY <1>1, <1>2, <1>3, <1>4, <1>5 DEF TypeOK, HealthTypes, Receive, probeVars
  <1>7. ASSUME NEW k \in Callers PROVE CallInv(k)'
    <2>1. CASE k = c
      <3>1. answer'[c] = to /\ left' = left /\ steady' = steady /\ server' = server
        BY <1>1, <1>4 DEF Receive, TypeOK
      <3>2. CASE answer[c] = "ok"
        BY <1>1, <2>1, <3>1, <3>2 DEF CallInv, Failures
      <3>3. CASE answer[c] # "ok"
        <4>1. steady[c] \subseteq left[c]
          BY <1>1, <3>3 DEF CallInv, Receive
        <4>2. to \in Failures => left[c] = {}
          BY <3>3 DEF Failures
        <4>3. QED
          BY <1>1, <1>5, <2>1, <3>1, <4>1, <4>2 DEF CallInv, Failures, Results
      <3>4. QED
        BY <3>2, <3>3
    <2>2. CASE k # c
      BY <1>1, <2>2, CallStays DEF FailoverInv, Receive, TypeOK
    <2>3. QED
      BY <2>1, <2>2
  <1>8. QED
    BY <1>2, <1>6, <1>7 DEF FailoverInv

LEMMA ProbeKeepsInv ==
    ASSUME FailoverInv, Tick \/ \E e \in Endpoints : Probe(e)
    PROVE  FailoverInv'
  <1>1. TypeOK /\ UNCHANGED <<server, callVars, steady, changes>>
    BY DEF FailoverInv, Tick, Probe, ServeProbe, EndProbe
  <1>2. HealthTypes' /\ \A d \in Endpoints : MarkInv(d)'
    <2>1. CASE UNCHANGED healthVars
      BY <2>1, MarksStay
    <2>2. ASSUME NEW e \in Endpoints, EndProbe(e)
          PROVE  HealthTypes' /\ \A d \in Endpoints : MarkInv(d)'
      BY <2>2, SuccessKeepsMarks, FailureKeepsMarks DEF EndProbe
    <2>3. QED
      BY <2>1, <2>2 DEF Tick, Probe, ServeProbe
  <1>3. idle' \in [Endpoints -> 0..2] /\ probe' \in [Endpoints -> {"none", "sent", "ok", "down"}]
    <2>1. CASE Tick
      BY <1>1, <2>1 DEF TypeOK, Tick
    <2>2. ASSUME NEW e \in Endpoints, Probe(e)
          PROVE  idle' \in [Endpoints -> 0..2] /\ probe' \in [Endpoints -> {"none", "sent", "ok", "down"}]
      BY <1>1, <2>2 DEF TypeOK, Probe, ServeProbe, EndProbe
    <2>3. QED
      BY <2>1, <2>2
  <1>4. TypeOK'
    BY <1>1, <1>2, <1>3 DEF TypeOK, HealthTypes, callVars
  <1>5. \A c \in Callers : CallInv(c)'
    BY <1>1, CallStays DEF FailoverInv, callVars
  <1>6. QED
    BY <1>2, <1>4, <1>5 DEF FailoverInv

LEMMA NextInv == FailoverInv /\ [Next]_vars => FailoverInv'
  <1> SUFFICES ASSUME FailoverInv, [Next]_vars PROVE FailoverInv'
    OBVIOUS
  <1>1. CASE UNCHANGED vars
    <2>1. TypeOK' /\ UNCHANGED healthVars /\ UNCHANGED <<server, steady, callVars>>
      BY <1>1 DEF vars, healthVars, probeVars, callVars, FailoverInv, TypeOK
    <2>2. QED
      BY <2>1, MarksStay, CallStays DEF FailoverInv, callVars
  <1>2. CASE Next
    BY <1>2, ChangeKeepsInv, CallKeepsInv, TryKeepsInv, ServeKeepsInv, ReceiveKeepsInv, ProbeKeepsInv
       DEF Next, Progress
  <1>3. QED
    BY <1>1, <1>2

LEMMA FailoverInvariance == Spec => []FailoverInv
  BY InitInv, NextInv, PTL DEF Spec

-----------------------------------------------------------------------------
(***************************************************************************)
(* The theorems.                                                           *)
(***************************************************************************)
\* The variables of the endpoints, the probe and the calls keep their types.
THEOREM FailoverTypes == Spec => []TypeOK
  BY FailoverInvariance, PTL DEF FailoverInv

\* call_with_failover: a call fails only if no endpoint was healthy all along,
\* whatever other calls and late probe answers do to the marks meanwhile.
THEOREM FailuresAreReal == Spec => []NoSpuriousFailure
  <1>1. FailoverInv => NoSpuriousFailure
    BY DEF FailoverInv, CallInv, Failures, NoSpuriousFailure
  <1>2. QED
    BY <1>1, FailoverInvariance, PTL

\* record_failure, record_success and record_latency: an endpoint is marked
\* unavailable exactly while its streak of errors is at the limit, and a marked
\* one has no old samples that could rank it when it comes back.
THEOREM MarkedMeansStreak == Spec => [](\A e \in Endpoints : MarkInv(e))
  BY FailoverInvariance, PTL DEF FailoverInv
=============================================================================
