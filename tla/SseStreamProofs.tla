-------------------------- MODULE SseStreamProofs --------------------------
(***************************************************************************)
(* Proofs about SseStream for any number of indexer tasks and clients, any *)
(* capacities and limits, any filters and any number of events.            *)
(***************************************************************************)
EXTENDS SseStream, FiniteSetTheorems, WellFoundedInduction, TLAPS

-----------------------------------------------------------------------------
(***************************************************************************)
(* The inductive invariant.                                                *)
(***************************************************************************)
Flying == {inflight[p] : p \in Producers}
Unread(c) == {sent[k] : k \in (rx[c] + 1)..Len(sent)}

\* What the channel got, and what is on its way to it, was pushed before.
RingInv ==
    /\ \A k \in 1..Len(sent) : sent[k] <= pushed
    /\ \A p \in Producers : inflight[p] <= pushed

\* A replayed event that can still come through the channel was in flight.
ReplayInv(c) ==
    /\ \A e \in snap[c] : e <= pushed
    /\ snap[c] \cap (Unread(c) \cup Flying) \subseteq doubt[c]

\* From the replay snapshot on, what lies behind the client's position is
\* accounted for.
PassInv(c) ==
    /\ last[c] # 0 => last[c] \in got[c]
    /\ Kind[c] = "ws" => start[c] = -1
    /\ phase[c] \in {"query", "snap", "live"} /\ start[c] # -1 =>
          Passed(c) \subseteq got[c] \cup queue[c] \cup excused[c]

StreamInv ==
    /\ TypeOK /\ RingInv /\ CountersCover
    /\ \A c \in Clients : ReplayInv(c) /\ PassInv(c)

-----------------------------------------------------------------------------
(***************************************************************************)
(* Helpers.                                                                *)
(***************************************************************************)
\* Every set of numbers that is not empty has a least one.
LEMMA LeastExists ==
    ASSUME NEW S \in SUBSET Nat, S # {}
    PROVE  \E x \in S : \A y \in S : x <= y
  <1>1. IsWellFoundedOn(OpToRel(<, Nat), Nat)
    BY NatLessThanWellFounded
  <1>2. PICK x \in S : \A y \in S : ~(<<y, x>> \in OpToRel(<, Nat))
    BY <1>1, WFMin
  <1>3. \A y \in S : ~(y < x)
    BY <1>2 DEF OpToRel
  <1>4. QED
    BY <1>3

LEMMA MinIsMember ==
    ASSUME NEW S \in SUBSET Nat, S # {}
    PROVE  Min(S) \in S
  <1>1. \E x \in S : \A y \in S : x <= y
    BY LeastExists
  <1>2. QED
    BY <1>1 DEF Min

LEMMA EventsAreNat == Events \subseteq Nat /\ \A e \in Events : e \in 0..MaxEvents /\ e # 0
  BY SseAssumption DEF Events

LEMMA SentFacts ==
    ASSUME TypeOK
    PROVE  /\ Len(sent) \in Nat /\ \A k \in 1..Len(sent) : sent[k] \in Events
           /\ Sent \subseteq Events
  BY DEF TypeOK, Sent

-----------------------------------------------------------------------------
(***************************************************************************)
(* The connection counters.                                                *)
(***************************************************************************)
Total == {c \in Clients : InTotal(c)}
AtIp(a) == {c \in Clients : InIp(c) /\ IpOf[c] = a}
TotalCovered == conns >= Cardinality(Total)
IpCovered == MaxPerIp > 0 => \A a \in Ips : perIp[a] >= Cardinality(AtIp(a))

LEMMA SomeClients ==
    ASSUME NEW S \in SUBSET Clients
    PROVE  IsFiniteSet(S) /\ Cardinality(S) \in Nat
  BY FS_Subset, FS_CardinalityType, SseAssumption

LEMMA CoverMeans == CountersCover <=> TotalCovered /\ IpCovered
  BY DEF CountersCover, TotalCovered, IpCovered, Total, AtIp

LEMMA CoverMeansNext == CountersCover' <=> TotalCovered' /\ IpCovered'
  BY DEF CountersCover, TotalCovered, IpCovered, Total, AtIp

\* A bound on a set of clients bounds its subsets, and moves with one client.
LEMMA FewerClients ==
    ASSUME NEW S \in SUBSET Clients, NEW T \in SUBSET S, NEW n \in Nat, n >= Cardinality(S)
    PROVE  n >= Cardinality(T)
  BY SomeClients, FS_Subset

LEMMA OneMoreClient ==
    ASSUME NEW c \in Clients, NEW S \in SUBSET Clients, NEW T \in SUBSET (S \cup {c}),
           NEW n \in Nat, n >= Cardinality(S)
    PROVE  n + 1 >= Cardinality(T)
  <1>1. IsFiniteSet(S \cup {c}) /\ Cardinality(S \cup {c}) <= Cardinality(S) + 1
    BY SomeClients, FS_AddElement
  <1>2. Cardinality(T) <= Cardinality(S \cup {c})
    BY <1>1, FS_Subset
  <1>3. S \cup {c} \in SUBSET Clients /\ T \in SUBSET Clients
    OBVIOUS
  <1>4. Cardinality(T) \in Nat /\ Cardinality(S \cup {c}) \in Nat /\ Cardinality(S) \in Nat
    BY <1>3, SomeClients
  <1>5. QED
    BY <1>1, <1>2, <1>4

LEMMA OneClientLess ==
    ASSUME NEW S \in SUBSET Clients, NEW c \in S, NEW T \in SUBSET (S \ {c}),
           NEW n \in Nat, n >= Cardinality(S)
    PROVE  n - 1 >= Cardinality(T) /\ n > 0
  <1>1. IsFiniteSet(S) /\ IsFiniteSet(S \ {c}) /\ Cardinality(S \ {c}) = Cardinality(S) - 1
    BY SomeClients, FS_RemoveElement
  <1>2. Cardinality(T) <= Cardinality(S \ {c})
    BY <1>1, FS_Subset
  <1>3. S \ {c} \in SUBSET Clients /\ T \in SUBSET Clients
    OBVIOUS
  <1>4. Cardinality(T) \in Nat /\ Cardinality(S \ {c}) \in Nat /\ Cardinality(S) \in Nat
    BY <1>3, SomeClients
  <1>5. QED
    BY <1>1, <1>2, <1>4

\* The total: it stays while no client joins, and follows one that does.
LEMMA TotalStays ==
    ASSUME TypeOK, TotalCovered, conns' = conns, \A d \in Clients : InTotal(d)' => InTotal(d)
    PROVE  TotalCovered'
  <1>1. Total \in SUBSET Clients /\ Total' \in SUBSET Total /\ conns \in Nat
    BY DEF Total, TypeOK
  <1>2. QED
    BY <1>1, FewerClients DEF TotalCovered

LEMMA TotalUp ==
    ASSUME TypeOK, TotalCovered, NEW c \in Clients, conns' = conns + 1,
           \A d \in Clients : d # c => (InTotal(d)' => InTotal(d))
    PROVE  TotalCovered' /\ conns' \in Nat
  <1>1. Total \in SUBSET Clients /\ Total' \in SUBSET (Total \cup {c}) /\ conns \in Nat
    BY DEF Total, TypeOK
  <1>2. QED
    BY <1>1, OneMoreClient DEF TotalCovered

LEMMA TotalDown ==
    ASSUME TypeOK, TotalCovered, NEW c \in Clients, conns' = conns - 1, InTotal(c), ~InTotal(c)',
           \A d \in Clients : d # c => (InTotal(d)' => InTotal(d))
    PROVE  TotalCovered' /\ conns' \in Nat
  <1>1. /\ Total \in SUBSET Clients /\ c \in Total /\ Total' \in SUBSET (Total \ {c})
        /\ conns \in Nat
    BY DEF Total, TypeOK
  <1>2. conns - 1 >= Cardinality(Total') /\ conns > 0
    BY <1>1, OneClientLess DEF TotalCovered
  <1>3. QED
    BY <1>1, <1>2 DEF TotalCovered

\* The counters per address, likewise.
LEMMA IpStays ==
    ASSUME TypeOK, IpCovered, perIp' = perIp, \A d \in Clients : InIp(d)' => InIp(d)
    PROVE  IpCovered'
  <1> SUFFICES ASSUME MaxPerIp > 0, NEW a \in Ips PROVE perIp[a] >= Cardinality(AtIp(a)')
    BY DEF IpCovered
  <1>1. AtIp(a) \in SUBSET Clients /\ AtIp(a)' \in SUBSET AtIp(a) /\ perIp[a] \in Nat
    BY DEF AtIp, TypeOK
  <1>2. QED
    BY <1>1, FewerClients DEF IpCovered

LEMMA IpUp ==
    ASSUME TypeOK, IpCovered, NEW c \in Clients,
           perIp' = IF MaxPerIp > 0 THEN [perIp EXCEPT ![IpOf[c]] = @ + 1] ELSE perIp,
           \A d \in Clients : d # c => (InIp(d)' => InIp(d))
    PROVE  IpCovered' /\ perIp' \in [Ips -> Nat]
  <1>1. /\ perIp \in [Ips -> Nat] /\ IpOf[c] \in Ips /\ perIp' \in [Ips -> Nat]
    BY DEF TypeOK, Ips
  <1>2. ASSUME MaxPerIp > 0, NEW a \in Ips PROVE perIp'[a] >= Cardinality(AtIp(a)')
    <2>1. AtIp(a) \in SUBSET Clients /\ perIp[a] \in Nat /\ perIp[a] >= Cardinality(AtIp(a))
      BY <1>1, <1>2 DEF AtIp, IpCovered
    <2>2. CASE a = IpOf[c]
      <3>1. AtIp(a)' \in SUBSET (AtIp(a) \cup {c}) /\ perIp'[a] = perIp[a] + 1
        BY <1>1, <1>2, <2>2 DEF AtIp
      <3>2. QED
        BY <2>1, <3>1, OneMoreClient
    <2>3. CASE a # IpOf[c]
      <3>1. AtIp(a)' \in SUBSET AtIp(a) /\ perIp'[a] = perIp[a]
        BY <1>1, <2>3 DEF AtIp
      <3>2. QED
        BY <2>1, <3>1, FewerClients
    <2>4. QED
      BY <2>2, <2>3
  <1>3. QED
    BY <1>1, <1>2 DEF IpCovered

LEMMA IpDown ==
    ASSUME TypeOK, IpCovered, NEW c \in Clients, IpOut(c), InIp(c), ~InIp(c)',
           \A d \in Clients : d # c => (InIp(d)' => InIp(d))
    PROVE  IpCovered' /\ perIp' \in [Ips -> Nat]
  <1> DEFINE n == perIp[IpOf[c]]
  <1>1. /\ perIp \in [Ips -> Nat] /\ IpOf[c] \in Ips /\ perIp' \in [Ips -> Nat]
        /\ \A a \in Ips : perIp'[a] = IF MaxPerIp > 0 /\ a = IpOf[c] /\ perIp[a] > 0
                                      THEN perIp[a] - 1 ELSE perIp[a]
    <2>1. perIp \in [Ips -> Nat] /\ IpOf[c] \in Ips /\ n \in Nat
      BY DEF TypeOK, Ips
    <2>2. CASE MaxPerIp > 0 /\ n > 0
      <3>1. perIp' = [perIp EXCEPT ![IpOf[c]] = n - 1] /\ n - 1 \in Nat
        BY <2>1, <2>2 DEF IpOut
      <3>2. QED
        BY <2>1, <2>2, <3>1
    <2>3. CASE ~(MaxPerIp > 0 /\ n > 0)
      <3>1. perIp' = perIp
        BY <2>3 DEF IpOut
      <3>2. QED
        BY <2>1, <2>3, <3>1
    <2>4. QED
      BY <2>2, <2>3
  <1>2. ASSUME MaxPerIp > 0, NEW a \in Ips PROVE perIp'[a] >= Cardinality(AtIp(a)')
    <2>1. AtIp(a) \in SUBSET Clients /\ perIp[a] \in Nat /\ perIp[a] >= Cardinality(AtIp(a))
      BY <1>1, <1>2 DEF AtIp, IpCovered
    <2>2. CASE a = IpOf[c]
      <3>1. c \in AtIp(a) /\ AtIp(a)' \in SUBSET (AtIp(a) \ {c})
        BY <2>2 DEF AtIp
      <3>2. perIp[a] - 1 >= Cardinality(AtIp(a)') /\ perIp[a] > 0
        BY <2>1, <3>1, OneClientLess
      <3>3. QED
        BY <1>1, <1>2, <2>2, <3>2
    <2>3. CASE a # IpOf[c]
      <3>1. AtIp(a)' \in SUBSET AtIp(a) /\ perIp'[a] = perIp[a]
        BY <1>1, <2>3 DEF AtIp
      <3>2. QED
        BY <2>1, <3>1, FewerClients
    <2>4. QED
      BY <2>2, <2>3
  <1>3. QED
    BY <1>1, <1>2 DEF IpCovered

\* Fewer open connections are covered too.
LEMMA CoverShrinks ==
    ASSUME TypeOK, CountersCover, UNCHANGED countVars,
           \A d \in Clients : (InTotal(d)' => InTotal(d)) /\ (InIp(d)' => InIp(d))
    PROVE  CountersCover'
  BY CoverMeans, CoverMeansNext, TotalStays, IpStays DEF countVars

-----------------------------------------------------------------------------
(***************************************************************************)
(* What a step leaves alone.                                               *)
(***************************************************************************)
LEMMA ClientStays ==
    ASSUME NEW d \in Clients, ReplayInv(d), PassInv(d), UNCHANGED <<pushed, sent, inflight>>,
           phase'[d] = phase[d], last'[d] = last[d], queue'[d] = queue[d], snap'[d] = snap[d],
           doubt'[d] = doubt[d], rx'[d] = rx[d], start'[d] = start[d], got'[d] = got[d],
           excused'[d] = excused[d]
    PROVE  ReplayInv(d)' /\ PassInv(d)'
  <1>1. Unread(d)' = Unread(d) /\ Flying' = Flying /\ Passed(d)' = Passed(d)
    BY DEF Unread, Flying, Passed
  <1>2. ReplayInv(d)'
    BY <1>1 DEF ReplayInv
  <1>3. PassInv(d)'
    BY <1>1 DEF PassInv
  <1>4. QED
    BY <1>2, <1>3

LEMMA RingStays ==
    ASSUME RingInv, UNCHANGED <<pushed, sent, inflight>>
    PROVE  RingInv'
  BY DEF RingInv

\* A step of one client.
LEMMA OneClientMoves ==
    ASSUME StreamInv, NEW c \in Clients, UNCHANGED ringVars,
           \A d \in Clients : d # c =>
              /\ phase'[d] = phase[d] /\ last'[d] = last[d] /\ queue'[d] = queue[d] /\ snap'[d] = snap[d]
              /\ doubt'[d] = doubt[d] /\ rx'[d] = rx[d] /\ start'[d] = start[d] /\ got'[d] = got[d]
              /\ excused'[d] = excused[d],
           TypeOK', CountersCover', ReplayInv(c)', PassInv(c)'
    PROVE  StreamInv'
  <1>1. UNCHANGED <<pushed, sent, inflight>>
    BY DEF ringVars
  <1>2. RingInv'
    BY <1>1, RingStays DEF StreamInv
  <1>3. \A d \in Clients : ReplayInv(d)' /\ PassInv(d)'
    BY <1>1, ClientStays DEF StreamInv
  <1>4. QED
    BY <1>2, <1>3 DEF StreamInv

\* A replay that is read further, or not at all, has no new duplicates.
LEMMA ReplayStays ==
    ASSUME TypeOK, NEW c \in Clients, ReplayInv(c), UNCHANGED <<pushed, sent, inflight>>,
           snap'[c] = snap[c], doubt'[c] = doubt[c], rx'[c] >= rx[c], rx'[c] \in Nat
    PROVE  ReplayInv(c)'
  <1>1. Unread(c)' \subseteq Unread(c) /\ Flying' = Flying
    <2>1. rx[c] \in Nat /\ Len(sent) \in Nat
      BY SentFacts DEF TypeOK
    <2>2. QED
      BY <2>1 DEF Unread, Flying
  <1>2. QED
    BY <1>1 DEF ReplayInv

-----------------------------------------------------------------------------
(***************************************************************************)
(* The steps.                                                              *)
(***************************************************************************)
LEMMA InitInv == Init => StreamInv
  <1> SUFFICES ASSUME Init PROVE StreamInv
    OBVIOUS
  <1>1. TypeOK
    <2>1. sent \in Seq(Events) /\ Len(sent) = 0
      BY DEF Init
    <2>2. rx \in [Clients -> 0..Len(sent)]
      BY <2>1 DEF Init
    <2>3. start \in [Clients -> -1..Len(sent)]
      <3>1. -1 \in -1..Len(sent)
        BY <2>1
      <3>2. QED
        BY <3>1 DEF Init
    <2>4. pushed \in 0..MaxEvents /\ evicted \in 0..pushed /\ inflight \in [Producers -> 0..MaxEvents]
      BY SseAssumption DEF Init
    <2>5. QED
      BY <2>1, <2>2, <2>3, <2>4, SseAssumption DEF Init, TypeOK, Phases
  <1>2. RingInv
    BY DEF Init, RingInv
  <1>3. CountersCover
    <2>1. Total = {} /\ \A a \in Ips : AtIp(a) = {}
      BY DEF Init, Total, AtIp, InTotal, InIp, Open
    <2>2. conns = 0 /\ \A a \in Ips : perIp[a] = 0
      BY DEF Init
    <2>3. QED
      BY <2>1, <2>2, FS_EmptySet, CoverMeans DEF TotalCovered, IpCovered
  <1>4. \A c \in Clients : ReplayInv(c) /\ PassInv(c)
    BY DEF Init, ReplayInv, PassInv
  <1>5. QED
    BY <1>1, <1>2, <1>3, <1>4 DEF StreamInv

LEMMA PushKeepsInv ==
    ASSUME StreamInv, NEW p \in Producers, Push(p)
    PROVE  StreamInv'
  <1>1. /\ TypeOK /\ RingInv /\ pushed' = pushed + 1 /\ pushed \in 0..MaxEvents /\ pushed' \in 0..MaxEvents
        /\ UNCHANGED <<sent, conns, perIp, phase, last, queue, snap, doubt, rx, start, got, excused, stopping>>
    BY SseAssumption DEF StreamInv, Push, TypeOK, countVars, streamVars, history
  <1>2. /\ inflight'[p] = pushed + 1 /\ \A q \in Producers : q # p => inflight'[q] = inflight[q]
        /\ inflight' \in [Producers -> 0..MaxEvents]
    BY <1>1 DEF Push, TypeOK
  <1>3. TypeOK'
    <2>1. evicted' \in 0..pushed'
      BY <1>1, SseAssumption DEF Push, TypeOK
    <2>2. QED
      BY <1>1, <1>2, <2>1 DEF TypeOK
  <1>4. RingInv'
    <2>1. \A k \in 1..Len(sent) : sent[k] \in Nat
      BY <1>1, SentFacts, EventsAreNat
    <2>2. \A q \in Producers : inflight[q] \in Nat
      BY <1>1 DEF TypeOK
    <2>3. QED
      BY <1>1, <1>2, <2>1, <2>2 DEF RingInv
  <1>5. CountersCover'
    BY <1>1, CoverShrinks DEF StreamInv, countVars, InTotal, InIp, Open
  <1>6. ASSUME NEW c \in Clients PROVE ReplayInv(c)' /\ PassInv(c)'
    <2>1. ReplayInv(c) /\ PassInv(c)
      BY DEF StreamInv
    <2>2. \A e \in snap[c] : e \in Nat
      BY <1>1, EventsAreNat DEF TypeOK
    <2>3. Unread(c)' = Unread(c) /\ Passed(c)' = Passed(c)
      BY <1>1 DEF Unread, Passed
    <2>4. Flying' \subseteq Flying \cup {pushed + 1}
      BY <1>2 DEF Flying
    <2>5. pushed + 1 \notin snap[c]
      BY <1>1, <2>1, <2>2 DEF ReplayInv
    <2>6. \A e \in snap'[c] : e <= pushed'
      BY <1>1, <2>1, <2>2 DEF ReplayInv
    <2>7. ReplayInv(c)'
      BY <1>1, <2>1, <2>3, <2>4, <2>5, <2>6 DEF ReplayInv
    <2>8. PassInv(c)'
      BY <1>1, <2>1, <2>3 DEF PassInv
    <2>9. QED
      BY <2>7, <2>8
  <1>7. QED
    BY <1>3, <1>4, <1>5, <1>6 DEF StreamInv

LEMMA SendKeepsInv ==
    ASSUME StreamInv, NEW p \in Producers, Send(p)
    PROVE  StreamInv'
  <1> DEFINE x == inflight[p]
  <1>1. /\ TypeOK /\ RingInv /\ x # 0 /\ sent' = Append(sent, x)
        /\ UNCHANGED <<pushed, evicted, conns, perIp, phase, last, queue, snap, doubt, rx, start, got,
                       excused, stopping>>
    BY DEF StreamInv, Send, countVars, streamVars, history
  <1>2. x \in Events
    BY <1>1, SseAssumption DEF TypeOK, Events
  <1>3. /\ sent' \in Seq(Events) /\ Len(sent) \in Nat /\ Len(sent') = Len(sent) + 1
        /\ sent'[Len(sent) + 1] = x /\ \A k \in 1..Len(sent) : sent'[k] = sent[k]
    BY <1>1, <1>2 DEF TypeOK
  <1>4. /\ inflight' \in [Producers -> 0..MaxEvents]
        /\ inflight'[p] = 0 /\ \A q \in Producers : q # p => inflight'[q] = inflight[q]
    BY <1>1, SseAssumption DEF Send, TypeOK
  <1> HIDE DEF x
  <1>5. TypeOK'
    <2>1. rx' \in [Clients -> 0..Len(sent')]
      <3>1. \A n \in 0..Len(sent) : n \in 0..Len(sent')
        BY <1>3
      <3>2. QED
        BY <1>1, <3>1 DEF TypeOK
    <2>2. start' \in [Clients -> -1..Len(sent')]
      <3>1. \A n \in -1..Len(sent) : n \in -1..Len(sent')
        BY <1>3
      <3>2. QED
        BY <1>1, <3>1 DEF TypeOK
    <2>3. QED
      BY <1>1, <1>3, <1>4, <2>1, <2>2 DEF TypeOK
  <1>6. RingInv'
    <2>1. \A k \in 1..Len(sent') : sent'[k] <= pushed'
      <3>1. \A k \in 1..Len(sent') : k \in 1..Len(sent) \/ k = Len(sent) + 1
        BY <1>3
      <3>2. QED
        BY <1>1, <1>3, <3>1 DEF RingInv, x
    <2>2. \A q \in Producers : inflight'[q] <= pushed'
      <3>1. 0 <= pushed
        BY <1>1, SseAssumption DEF TypeOK
      <3>2. QED
        BY <1>1, <1>4, <3>1 DEF RingInv
    <2>3. QED
      BY <2>1, <2>2 DEF RingInv
  <1>7. CountersCover'
    BY <1>1, CoverShrinks DEF StreamInv, countVars, InTotal, InIp, Open
  <1>8. ASSUME NEW c \in Clients PROVE ReplayInv(c)' /\ PassInv(c)'
    <2>1. ReplayInv(c) /\ PassInv(c) /\ rx[c] \in 0..Len(sent) /\ start[c] \in -1..Len(sent)
      BY <1>1 DEF StreamInv, TypeOK
    <2>2. ASSUME start[c] # -1 PROVE Passed(c)' = Passed(c)
      <3>1. \A k \in (start[c] + 1)..rx[c] : k \in 1..Len(sent)
        BY <1>3, <2>1, <2>2
      <3>2. QED
        BY <1>1, <1>3, <3>1 DEF Passed
    <2>3. Unread(c)' \cup Flying' \subseteq Unread(c) \cup Flying \cup {0}
      <3>1. Unread(c)' \subseteq Unread(c) \cup {x}
        <4> SUFFICES ASSUME NEW k \in (rx[c] + 1)..Len(sent') PROVE sent'[k] \in Unread(c) \cup {x}
          BY <1>1 DEF Unread
        <4>1. k = Len(sent) + 1 \/ (k \in 1..Len(sent) /\ k \in (rx[c] + 1)..Len(sent))
          BY <1>3, <2>1
        <4>2. QED
          BY <1>3, <4>1 DEF Unread
      <3>2. x \in Flying
        BY DEF Flying, x
      <3>3. Flying' \subseteq Flying \cup {0}
        BY <1>4 DEF Flying
      <3>4. QED
        BY <3>1, <3>2, <3>3
    <2>4. 0 \notin snap[c]
      BY <1>1, EventsAreNat DEF TypeOK
    <2>5. ReplayInv(c)'
      BY <1>1, <2>1, <2>3, <2>4 DEF ReplayInv
    <2>6. PassInv(c)'
      BY <1>1, <2>1, <2>2 DEF PassInv
    <2>7. QED
      BY <2>5, <2>6
  <1>9. QED
    BY <1>5, <1>6, <1>7, <1>8 DEF StreamInv

\* A step that only moves a client's request on.
LEMMA PhaseKeepsInv ==
    ASSUME StreamInv, NEW c \in Clients, NEW to \in Phases, phase' = [phase EXCEPT ![c] = to],
           UNCHANGED <<ringVars, stopping, last, streamVars, history>>,
           to \in {"query", "snap", "live"} => phase[c] \in {"query", "snap", "live"},
           conns' \in Nat, perIp' \in [Ips -> Nat], CountersCover'
    PROVE  StreamInv'
  <1>1. /\ TypeOK /\ ReplayInv(c) /\ PassInv(c)
        /\ UNCHANGED <<pushed, evicted, sent, inflight, last, queue, snap, doubt, rx, start, got, excused>>
    BY DEF StreamInv, ringVars, streamVars, history
  <1>2. phase' \in [Clients -> Phases] /\ phase'[c] = to /\ \A d \in Clients : d # c => phase'[d] = phase[d]
    BY <1>1 DEF TypeOK
  <1>3. TypeOK'
    BY <1>1, <1>2 DEF TypeOK
  <1>4. ReplayInv(c)'
    BY <1>1 DEF ReplayInv, Unread, Flying
  <1>5. PassInv(c)'
    <2>1. Passed(c)' = Passed(c)
      BY <1>1 DEF Passed
    <2>2. QED
      BY <1>1, <1>2, <2>1 DEF PassInv
  <1>6. QED
    BY <1>1, <1>2, <1>3, <1>4, <1>5, OneClientMoves

LEMMA AdmissionKeepsInv ==
    ASSUME StreamInv, NEW c \in Clients,
           CheckTotal(c) \/ CheckIp(c) \/ QueryAnswered(c) \/ ShutdownClose(c)
    PROVE  StreamInv'
  <1>1. TypeOK /\ CountersCover /\ conns \in Nat /\ perIp \in [Ips -> Nat]
    BY DEF StreamInv, TypeOK
  <1>2. UNCHANGED countVars /\ UNCHANGED <<ringVars, stopping, last, streamVars, history>>
    BY DEF CheckTotal, CheckIp, QueryAnswered, ShutdownClose
  <1>3. PICK to \in Phases :
           /\ phase' = [phase EXCEPT ![c] = to]
           /\ to \in {"query", "snap", "live"} => phase[c] \in {"query", "snap", "live"}
           /\ to \in {"away", "total", "ip"} \/ (to \in Open /\ phase[c] \in Open)
    BY DEF CheckTotal, CheckIp, QueryAnswered, ShutdownClose, Phases, Open
  <1>4. \A d \in Clients : (InTotal(d)' => InTotal(d)) /\ (InIp(d)' => InIp(d))
    BY <1>1, <1>3 DEF TypeOK, InTotal, InIp, Open
  <1>5. CountersCover' /\ conns' \in Nat /\ perIp' \in [Ips -> Nat]
    BY <1>1, <1>2, <1>4, CoverShrinks DEF countVars
  <1>6. QED
    BY <1>2, <1>3, <1>5, PhaseKeepsInv

\* One of the two counters moves with the client's request.
LEMMA CountingKeepsInv ==
    ASSUME StreamInv, NEW c \in Clients, CountIp(c) \/ Count(c) \/ Invalid(c) \/ EndStream(c)
    PROVE  StreamInv'
  <1>1. /\ TypeOK /\ TotalCovered /\ IpCovered /\ conns \in Nat /\ perIp \in [Ips -> Nat]
        /\ UNCHANGED <<ringVars, stopping, last, streamVars, history>>
    BY CoverMeans DEF StreamInv, TypeOK, CountIp, Count, Invalid, EndStream
  <1>2. ASSUME NEW to \in {"counting", "counted", "refused", "ended"}, phase' = [phase EXCEPT ![c] = to],
               TotalCovered', IpCovered', conns' \in Nat, perIp' \in [Ips -> Nat]
        PROVE  StreamInv'
    <2>1. to \in Phases /\ to \notin {"query", "snap", "live"} /\ CountersCover'
      BY <1>2, CoverMeansNext DEF Phases
    <2>2. QED
      BY <1>1, <1>2, <2>1, PhaseKeepsInv
  <1>3. CASE CountIp(c)
    <2>1. phase' = [phase EXCEPT ![c] = "counting"] /\ conns' = conns /\ phase[c] = "ip"
      BY <1>3 DEF CountIp
    <2>2. /\ \A d \in Clients : InTotal(d)' => InTotal(d)
          /\ \A d \in Clients : d # c => (InIp(d)' => InIp(d))
      BY <1>1, <2>1 DEF TypeOK, InTotal, InIp, Open
    <2>3. TotalCovered' /\ IpCovered' /\ perIp' \in [Ips -> Nat]
      BY <1>1, <1>3, <2>1, <2>2, TotalStays, IpUp DEF CountIp
    <2>4. QED
      BY <1>1, <1>2, <2>1, <2>3
  <1>4. CASE Count(c)
    <2>1. /\ phase' = [phase EXCEPT ![c] = "counted"] /\ conns' = conns + 1 /\ perIp' = perIp
          /\ phase[c] = "counting"
      BY <1>4 DEF Count, CountIn
    <2>2. /\ \A d \in Clients : d # c => (InTotal(d)' => InTotal(d))
          /\ \A d \in Clients : InIp(d)' => InIp(d)
      BY <1>1, <2>1 DEF TypeOK, InTotal, InIp, Open
    <2>3. TotalCovered' /\ IpCovered' /\ conns' \in Nat
      BY <1>1, <2>1, <2>2, TotalUp, IpStays
    <2>4. QED
      BY <1>1, <1>2, <2>1, <2>3
  <1>5. CASE Invalid(c)
    <2>1. /\ phase' = [phase EXCEPT ![c] = "refused"] /\ conns' = conns /\ IpOut(c)
          /\ phase[c] = "counted" /\ Kind[c] # "ws"
      BY <1>5 DEF Invalid
    <2>2. /\ \A d \in Clients : InTotal(d)' => InTotal(d)
          /\ \A d \in Clients : d # c => (InIp(d)' => InIp(d))
          /\ InIp(c) /\ ~InIp(c)'
      BY <1>1, <2>1 DEF TypeOK, InTotal, InIp, Open
    <2>3. TotalCovered' /\ IpCovered' /\ perIp' \in [Ips -> Nat]
      BY <1>1, <2>1, <2>2, TotalStays, IpDown
    <2>4. QED
      BY <1>1, <1>2, <2>1, <2>3
  <1>6. CASE EndStream(c)
    <2>1. /\ phase' = [phase EXCEPT ![c] = "ended"] /\ conns' = conns - 1 /\ perIp' = perIp
          /\ phase[c] = "closing"
      BY <1>6 DEF EndStream, CountOut
    <2>2. /\ \A d \in Clients : d # c => (InTotal(d)' => InTotal(d))
          /\ \A d \in Clients : InIp(d)' => InIp(d)
          /\ InTotal(c) /\ ~InTotal(c)'
      BY <1>1, <2>1 DEF TypeOK, InTotal, InIp, Open
    <2>3. TotalCovered' /\ IpCovered' /\ conns' \in Nat
      BY <1>1, <2>1, <2>2, TotalDown, IpStays
    <2>4. QED
      BY <1>1, <1>2, <2>1, <2>3
  <1>7. QED
    BY <1>3, <1>4, <1>5, <1>6

LEMMA DepartKeepsInv ==
    ASSUME StreamInv, NEW c \in Clients, Refuse(c) \/ ForgetIp(c) \/ Leave(c) \/ WsLeave(c)
    PROVE  StreamInv'
  <1>1. /\ TypeOK /\ TotalCovered /\ IpCovered /\ PassInv(c) /\ Depart(c)
        /\ UNCHANGED ringVars /\ UNCHANGED <<stopping, start, got, excused>>
    BY CoverMeans DEF StreamInv, Refuse, ForgetIp, Leave, WsLeave, history
  <1>2. /\ phase' \in [Clients -> Phases] /\ queue' \in [Clients -> SUBSET Events]
        /\ snap' \in [Clients -> SUBSET Events] /\ doubt' \in [Clients -> SUBSET Events]
        /\ rx' \in [Clients -> 0..Len(sent)] /\ last' = last
    <2>1. 0 \in 0..Len(sent)
      BY <1>1, SentFacts
    <2>2. QED
      BY <1>1, <2>1 DEF TypeOK, Depart, Phases
  <1>3. /\ phase'[c] = "away" /\ snap'[c] = {}
        /\ \A d \in Clients : d # c =>
             /\ phase'[d] = phase[d] /\ queue'[d] = queue[d] /\ snap'[d] = snap[d]
             /\ doubt'[d] = doubt[d] /\ rx'[d] = rx[d]
    BY <1>1 DEF TypeOK, Depart
  <1>4. /\ \A d \in Clients : (InTotal(d)' => InTotal(d)) /\ (InIp(d)' => InIp(d))
        /\ ~InTotal(c)' /\ ~InIp(c)'
    BY <1>3 DEF InTotal, InIp, Open
  <1>5. CountersCover' /\ conns' \in Nat /\ perIp' \in [Ips -> Nat]
    <2>1. conns \in Nat /\ perIp \in [Ips -> Nat]
      BY <1>1 DEF TypeOK
    <2>2. CASE Refuse(c) \/ WsLeave(c)
      <3>1. InTotal(c) /\ conns' = conns - 1 /\ perIp' = perIp
        BY <2>2 DEF Refuse, WsLeave, CountOut, InTotal, Open
      <3>2. QED
        BY <1>1, <1>4, <2>1, <3>1, TotalDown, IpStays, CoverMeansNext
    <2>3. CASE ForgetIp(c)
      <3>1. InIp(c)
        BY <2>3 DEF ForgetIp, InIp
      <3>2. conns' = conns /\ IpOut(c)
        BY <2>3 DEF ForgetIp
      <3>3. QED
        BY <1>1, <1>4, <2>1, <3>1, <3>2, TotalStays, IpDown, CoverMeansNext
    <2>4. CASE Leave(c)
      BY <1>1, <1>4, <2>1, <2>4, TotalStays, IpStays, CoverMeansNext DEF Leave, countVars
    <2>5. QED
      BY <2>2, <2>3, <2>4
  <1>6. TypeOK'
    BY <1>1, <1>2, <1>5 DEF TypeOK, ringVars
  <1>7. ReplayInv(c)' /\ PassInv(c)'
    BY <1>1, <1>2, <1>3 DEF ReplayInv, PassInv
  <1>8. QED
    BY <1>1, <1>2, <1>3, <1>5, <1>6, <1>7, OneClientMoves

\* The replay snapshot settles everything the channel got before.
LEMMA TakeReplayKeepsInv ==
    ASSUME StreamInv, NEW c \in Clients, TakeReplay(c)
    PROVE  StreamInv'
  <1> DEFINE hit == last[c] # 0 /\ InRing(last[c])
             wanted == IF hit THEN EventsSince(last[c]) \cap Wanted[c] ELSE {}
             away == IF hit THEN {e \in Sent : e < last[c]} \cup (wanted \ Taken(wanted)) ELSE Sent
             to == IF last[c] # 0 /\ Taken(wanted) = {} THEN "query" ELSE "snap"
  <1>1. /\ TypeOK /\ CountersCover /\ PassInv(c) /\ RingInv /\ phase[c] = "counted"
        /\ queue' = [queue EXCEPT ![c] = Taken(wanted)]
        /\ snap' = [snap EXCEPT ![c] = Taken(wanted)]
        /\ doubt' = [doubt EXCEPT ![c] = Taken(wanted) \cap Flying]
        /\ rx' = [rx EXCEPT ![c] = Len(sent)]
        /\ excused' = [excused EXCEPT ![c] = excused[c] \cup away]
        /\ phase' = [phase EXCEPT ![c] = to]
        /\ UNCHANGED <<pushed, evicted, sent, inflight, conns, perIp, stopping, last, start, got>>
    BY DEF StreamInv, TakeReplay, ringVars, countVars, Flying, TypeOK
  <1>2. /\ pushed \in 0..MaxEvents /\ last[c] \in 0..MaxEvents /\ Wanted[c] \subseteq Events
        /\ MaxEvents \in Nat /\ Len(sent) \in Nat /\ Sent \subseteq Events
    BY <1>1, SseAssumption, SentFacts DEF TypeOK, Events
  <1>3. wanted \subseteq Events /\ \A e \in wanted : e <= pushed
    BY <1>2 DEF EventsSince, Events
  <1>4. Taken(wanted) \subseteq wanted
    BY DEF Taken
  <1>5. hit => \A e \in Sent \cap Wanted[c] : e < last[c] \/ e = last[c] \/ e \in wanted
    <2> SUFFICES ASSUME hit, NEW e \in Sent, e \in Wanted[c]
                 PROVE  e < last[c] \/ e = last[c] \/ e \in wanted
      OBVIOUS
    <2>1. e \in Nat /\ e <= pushed
      BY <1>1, <1>2, EventsAreNat DEF RingInv, Sent
    <2>2. QED
      BY <1>2, <2>1 DEF EventsSince
  <1>6. away \subseteq Events
    BY <1>2, <1>3
  <1>7. \A e \in Sent \cap Wanted[c] : e \in got[c] \cup Taken(wanted) \cup away
    <2>1. CASE hit
      <3>1. last[c] \in got[c]
        BY <1>1, <2>1 DEF PassInv
      <3>2. QED
        BY <1>5, <2>1, <3>1
    <2>2. CASE ~hit
      BY <2>2
    <2>3. QED
      BY <2>1, <2>2
  <1> HIDE DEF hit, wanted, away
  <1>8. /\ queue' \in [Clients -> SUBSET Events] /\ snap' \in [Clients -> SUBSET Events]
        /\ doubt' \in [Clients -> SUBSET Events] /\ excused' \in [Clients -> SUBSET Events]
    <2>1. Taken(wanted) \subseteq Events /\ excused[c] \cup away \subseteq Events
      BY <1>1, <1>3, <1>4, <1>6 DEF TypeOK
    <2>2. QED
      BY <1>1, <2>1 DEF TypeOK
  <1>9. rx' \in [Clients -> 0..Len(sent)] /\ phase' \in [Clients -> Phases]
    <2>1. Len(sent) \in 0..Len(sent) /\ to \in Phases
      BY <1>2 DEF Phases
    <2>2. QED
      BY <1>1, <2>1 DEF TypeOK
  <1>10. TypeOK'
    BY <1>1, <1>8, <1>9 DEF TypeOK
  <1>11. /\ queue'[c] = Taken(wanted) /\ snap'[c] = Taken(wanted) /\ doubt'[c] = Taken(wanted) \cap Flying
         /\ rx'[c] = Len(sent) /\ excused'[c] = excused[c] \cup away /\ phase'[c] = to
         /\ \A d \in Clients : d # c =>
              /\ phase'[d] = phase[d] /\ queue'[d] = queue[d] /\ snap'[d] = snap[d]
              /\ doubt'[d] = doubt[d] /\ rx'[d] = rx[d] /\ excused'[d] = excused[d]
    BY <1>1 DEF TypeOK
  <1>12. CountersCover'
    <2>1. \A d \in Clients : (InTotal(d)' => InTotal(d)) /\ (InIp(d)' => InIp(d))
      BY <1>1, <1>11 DEF InTotal, InIp, Open
    <2>2. QED
      BY <1>1, <2>1, CoverShrinks DEF countVars
  <1>13. ReplayInv(c)'
    <2>1. Unread(c)' = {} /\ Flying' = Flying
      BY <1>1, <1>2, <1>11 DEF Unread, Flying
    <2>2. QED
      BY <1>1, <1>3, <1>4, <1>11, <2>1 DEF ReplayInv
  <1>14. PassInv(c)'
    <2>1. ASSUME start[c] # -1 PROVE Passed(c)' \subseteq Sent \cap Wanted[c]
      <3>1. \A k \in (start[c] + 1)..Len(sent) : k \in 1..Len(sent)
        BY <1>1, <1>2, <2>1 DEF TypeOK
      <3>2. QED
        BY <1>1, <1>11, <3>1 DEF Passed, Sent
    <2>2. QED
      BY <1>1, <1>7, <1>11, <2>1 DEF PassInv
  <1>15. QED
    BY <1>1, <1>10, <1>11, <1>12, <1>13, <1>14, OneClientMoves DEF ringVars

LEMMA SubscribeKeepsInv ==
    ASSUME StreamInv, NEW c \in Clients, Subscribe(c)
    PROVE  StreamInv'
  <1>1. /\ TypeOK /\ CountersCover /\ ReplayInv(c) /\ PassInv(c) /\ phase[c] = "snap"
        /\ excused' = [excused EXCEPT ![c] = excused[c] \cup Unread(c)]
        /\ rx' = [rx EXCEPT ![c] = Len(sent)] /\ phase' = [phase EXCEPT ![c] = "live"]
        /\ UNCHANGED <<pushed, evicted, sent, inflight, conns, perIp, stopping, last, queue, snap, doubt,
                       start, got>>
    BY DEF StreamInv, Subscribe, SubscribedAt, ringVars, countVars, Unread, TypeOK
  <1>2. Len(sent) \in Nat /\ rx[c] \in 0..Len(sent) /\ start[c] \in -1..Len(sent)
    BY <1>1, SentFacts DEF TypeOK
  <1>3. Unread(c) \subseteq Events
    BY <1>1, <1>2, SentFacts DEF Unread
  <1>4. TypeOK'
    <2>1. excused' \in [Clients -> SUBSET Events] /\ phase' \in [Clients -> Phases]
      BY <1>1, <1>3 DEF TypeOK, Phases
    <2>2. rx' \in [Clients -> 0..Len(sent)]
      BY <1>1, <1>2 DEF TypeOK
    <2>3. QED
      BY <1>1, <2>1, <2>2 DEF TypeOK
  <1>5. /\ excused'[c] = excused[c] \cup Unread(c) /\ rx'[c] = Len(sent) /\ phase'[c] = "live"
        /\ \A d \in Clients : d # c =>
             phase'[d] = phase[d] /\ rx'[d] = rx[d] /\ excused'[d] = excused[d]
    BY <1>1 DEF TypeOK
  <1>6. CountersCover'
    <2>1. \A d \in Clients : (InTotal(d)' => InTotal(d)) /\ (InIp(d)' => InIp(d))
      BY <1>1, <1>5 DEF InTotal, InIp, Open
    <2>2. QED
      BY <1>1, <2>1, CoverShrinks DEF countVars
  <1>7. ReplayInv(c)'
    BY <1>1, <1>2, <1>5, ReplayStays
  <1>8. PassInv(c)'
    <2>1. ASSUME start[c] # -1 PROVE Passed(c)' \subseteq Passed(c) \cup Unread(c)
      <3>1. \A k \in (start[c] + 1)..Len(sent) : k \in (start[c] + 1)..rx[c] \/ k \in (rx[c] + 1)..Len(sent)
        BY <1>2
      <3>2. QED
        BY <1>1, <1>5, <3>1 DEF Passed, Unread
    <2>2. QED
      BY <1>1, <1>5, <2>1 DEF PassInv
  <1>9. QED
    BY <1>1, <1>4, <1>5, <1>6, <1>7, <1>8, OneClientMoves DEF ringVars

LEMMA WsConnectKeepsInv ==
    ASSUME StreamInv, NEW c \in Clients, WsConnect(c)
    PROVE  StreamInv'
  <1>1. /\ TypeOK /\ CountersCover /\ ReplayInv(c) /\ PassInv(c) /\ Kind[c] = "ws" /\ CountIn(c)
        /\ rx' = [rx EXCEPT ![c] = Len(sent)] /\ phase' = [phase EXCEPT ![c] = "live"]
        /\ UNCHANGED <<pushed, evicted, sent, inflight, perIp, stopping, last, queue, snap, doubt,
                       start, got, excused>>
    BY DEF StreamInv, WsConnect, ringVars, history
  <1>2. Len(sent) \in Nat /\ rx[c] \in 0..Len(sent)
    BY <1>1, SentFacts DEF TypeOK
  <1>3. /\ rx'[c] = Len(sent) /\ phase'[c] = "live"
        /\ \A d \in Clients : d # c => phase'[d] = phase[d] /\ rx'[d] = rx[d]
    BY <1>1 DEF TypeOK
  <1>4. CountersCover' /\ conns' \in Nat /\ perIp' \in [Ips -> Nat]
    <2>1. /\ \A d \in Clients : d # c => (InTotal(d)' => InTotal(d))
          /\ \A d \in Clients : InIp(d)' => InIp(d)
      BY <1>1, <1>3 DEF InTotal, InIp
    <2>2. conns' = conns + 1 /\ perIp' = perIp /\ perIp \in [Ips -> Nat]
      BY <1>1 DEF CountIn, TypeOK
    <2>3. QED
      BY <1>1, <2>1, <2>2, CoverMeans, CoverMeansNext, TotalUp, IpStays
  <1>5. TypeOK'
    <2>1. rx' \in [Clients -> 0..Len(sent)] /\ phase' \in [Clients -> Phases]
      BY <1>1, <1>2 DEF TypeOK, Phases
    <2>2. QED
      BY <1>1, <1>4, <2>1 DEF TypeOK
  <1>6. ReplayInv(c)'
    BY <1>1, <1>2, <1>3, ReplayStays
  <1>7. PassInv(c)'
    BY <1>1 DEF PassInv
  <1>8. QED
    BY <1>1, <1>3, <1>4, <1>5, <1>6, <1>7, OneClientMoves DEF ringVars

LEMMA ReplayFrameKeepsInv ==
    ASSUME StreamInv, NEW c \in Clients, ReplayFrame(c)
    PROVE  StreamInv'
  <1> DEFINE e == Min(queue[c])
  <1>1. /\ TypeOK /\ CountersCover /\ ReplayInv(c) /\ PassInv(c) /\ phase[c] = "live" /\ queue[c] # {}
        /\ queue' = [queue EXCEPT ![c] = queue[c] \ {e}] /\ got' = [got EXCEPT ![c] = got[c] \cup {e}]
        /\ last' = [last EXCEPT ![c] = 0]
        /\ UNCHANGED <<pushed, evicted, sent, inflight, conns, perIp, stopping, phase, snap, doubt, rx,
                       start, excused>>
    BY DEF StreamInv, ReplayFrame, ringVars, countVars, TypeOK
  <1>2. e \in Events
    <2>1. queue[c] \in SUBSET Nat /\ queue[c] \subseteq Events
      BY <1>1, EventsAreNat DEF TypeOK
    <2>2. QED
      BY <1>1, <2>1, MinIsMember
  <1> HIDE DEF e
  <1>3. TypeOK'
    <2>1. /\ queue' \in [Clients -> SUBSET Events] /\ got' \in [Clients -> SUBSET Events]
      BY <1>1, <1>2 DEF TypeOK
    <2>2. last' \in [Clients -> 0..MaxEvents]
      BY <1>1, SseAssumption DEF TypeOK
    <2>3. QED
      BY <1>1, <2>1, <2>2 DEF TypeOK
  <1>4. /\ queue'[c] = queue[c] \ {e} /\ got'[c] = got[c] \cup {e} /\ last'[c] = 0
        /\ \A d \in Clients : d # c => queue'[d] = queue[d] /\ got'[d] = got[d] /\ last'[d] = last[d]
    BY <1>1 DEF TypeOK
  <1>5. CountersCover'
    BY <1>1, CoverShrinks DEF countVars, InTotal, InIp, Open
  <1>6. ReplayInv(c)'
    BY <1>1 DEF ReplayInv, Unread, Flying
  <1>7. PassInv(c)'
    <2>1. Passed(c)' = Passed(c)
      BY <1>1 DEF Passed
    <2>2. QED
      BY <1>1, <1>4, <2>1 DEF PassInv
  <1>8. QED
    BY <1>1, <1>3, <1>4, <1>5, <1>6, <1>7, OneClientMoves DEF ringVars

LEMMA ReceiveKeepsInv ==
    ASSUME StreamInv, NEW c \in Clients, Receive(c)
    PROVE  StreamInv'
  <1> DEFINE e == sent[rx[c] + 1]
  <1>1. /\ TypeOK /\ CountersCover /\ ReplayInv(c) /\ PassInv(c) /\ phase[c] = "live"
        /\ rx' = [rx EXCEPT ![c] = rx[c] + 1]
        /\ UNCHANGED <<pushed, evicted, sent, inflight, conns, perIp, stopping, phase, queue, snap, doubt,
                       excused>>
    BY DEF StreamInv, Receive, ringVars, countVars, TypeOK
  <1>2. /\ Len(sent) \in Nat /\ rx[c] \in 0..Len(sent) /\ start[c] \in -1..Len(sent)
        /\ rx[c] + 1 \in 1..Len(sent)
    <2>1. Len(sent) \in Nat /\ rx[c] \in 0..Len(sent) /\ start[c] \in -1..Len(sent)
      BY <1>1, SentFacts DEF TypeOK
    <2>2. QED
      BY <2>1, SseAssumption DEF Receive, Behind
  <1>3. e \in Events
    BY <1>1, <1>2, SentFacts
  <1>4. rx'[c] = rx[c] + 1 /\ \A d \in Clients : d # c => rx'[d] = rx[d]
    BY <1>1 DEF TypeOK
  <1>5. rx' \in [Clients -> 0..Len(sent)]
    <2>1. rx[c] + 1 \in 0..Len(sent)
      BY <1>2
    <2>2. QED
      BY <1>1, <2>1 DEF TypeOK
  <1>6. CountersCover' /\ ReplayInv(c)'
    BY <1>1, <1>2, <1>4, CoverShrinks, ReplayStays DEF countVars, InTotal, InIp, Open
  <1>7. Passed(c)' \subseteq Passed(c) \cup {e} \/ start'[c] # start[c]
    <2> SUFFICES ASSUME start'[c] = start[c] PROVE Passed(c)' \subseteq Passed(c) \cup {e}
      OBVIOUS
    <2>1. \A k \in (start[c] + 1)..(rx[c] + 1) : k \in (start[c] + 1)..rx[c] \/ k = rx[c] + 1
      BY <1>2
    <2>2. QED
      BY <1>1, <1>4, <2>1 DEF Passed
  <1>8. CASE e \notin Wanted[c]
    <2>1. UNCHANGED <<got, last, start>>
      BY <1>8 DEF Receive
    <2>2. TypeOK'
      BY <1>1, <1>5, <2>1 DEF TypeOK
    <2>3. e \notin Passed(c)'
      BY <1>8 DEF Passed
    <2>4. PassInv(c)'
      BY <1>1, <1>7, <2>1, <2>3 DEF PassInv
    <2>5. QED
      BY <1>1, <1>4, <1>6, <2>1, <2>2, <2>4, OneClientMoves DEF ringVars
  <1>9. CASE e \in Wanted[c]
    <2>1. /\ got' = [got EXCEPT ![c] = got[c] \cup {e}]
          /\ last' = IF Kind[c] = "ws" THEN last ELSE [last EXCEPT ![c] = e]
          /\ start' = IF Kind[c] = "ws" \/ start[c] # -1 THEN start ELSE [start EXCEPT ![c] = rx[c] + 1]
      BY <1>1, <1>9 DEF Receive, TypeOK
    <2> HIDE DEF e
    <2>2. /\ got'[c] = got[c] \cup {e} /\ (last'[c] = last[c] \/ last'[c] = e)
          /\ start'[c] = start[c] \/ (start[c] = -1 /\ Kind[c] # "ws" /\ start'[c] = rx[c] + 1)
          /\ \A d \in Clients : d # c => got'[d] = got[d] /\ last'[d] = last[d] /\ start'[d] = start[d]
      BY <1>1, <2>1 DEF TypeOK
    <2>3. TypeOK'
      <3>1. got' \in [Clients -> SUBSET Events]
        BY <1>1, <1>3, <2>1 DEF TypeOK
      <3>2. last' \in [Clients -> 0..MaxEvents]
        BY <1>1, <1>3, <2>1, EventsAreNat DEF TypeOK
      <3>3. start' \in [Clients -> -1..Len(sent)]
        <4>1. rx[c] + 1 \in -1..Len(sent)
          BY <1>2
        <4>2. QED
          BY <1>1, <2>1, <4>1 DEF TypeOK
      <3>4. QED
        BY <1>1, <1>5, <3>1, <3>2, <3>3 DEF TypeOK
    <2>4. PassInv(c)'
      <3>1. CASE start'[c] = start[c]
        BY <1>1, <1>7, <2>2, <3>1 DEF PassInv
      <3>2. CASE start[c] = -1 /\ Kind[c] # "ws" /\ start'[c] = rx[c] + 1
        <4>1. Passed(c)' = {}
          BY <1>2, <1>4, <3>2 DEF Passed
        <4>2. QED
          BY <1>1, <2>2, <3>2, <4>1 DEF PassInv
      <3>3. QED
        BY <2>2, <3>1, <3>2
    <2>5. QED
      BY <1>1, <1>4, <1>6, <2>2, <2>3, <2>4, OneClientMoves DEF ringVars
  <1>10. QED
    BY <1>8, <1>9

LEMMA LaggedKeepsInv ==
    ASSUME StreamInv, NEW c \in Clients, Lagged(c)
    PROVE  StreamInv'
  <1> DEFINE m == Len(sent) - ChannelCapacity
             gap == {sent[k] : k \in (rx[c] + 1)..m}
             to == IF Kind[c] = "ws" \/ (MaxLag > 0 /\ Overwritten(c) >= MaxLag) THEN "closing" ELSE phase[c]
  <1>1. /\ TypeOK /\ CountersCover /\ ReplayInv(c) /\ PassInv(c) /\ phase[c] = "live"
        /\ rx' = [rx EXCEPT ![c] = rx[c] + Overwritten(c)]
        /\ excused' = [excused EXCEPT ![c] = excused[c] \cup gap] /\ phase' = [phase EXCEPT ![c] = to]
        /\ UNCHANGED <<pushed, evicted, sent, inflight, conns, perIp, stopping, last, queue, snap, doubt,
                       start, got>>
    BY DEF StreamInv, Lagged, ringVars, countVars, TypeOK
  <1>2. /\ Len(sent) \in Nat /\ rx[c] \in 0..Len(sent) /\ start[c] \in -1..Len(sent)
        /\ rx[c] + Overwritten(c) = m /\ m \in 0..Len(sent) /\ rx[c] < m
    <2>1. Len(sent) \in Nat /\ rx[c] \in 0..Len(sent) /\ start[c] \in -1..Len(sent)
      BY <1>1, SentFacts DEF TypeOK
    <2>2. Len(sent) - rx[c] > ChannelCapacity
      BY DEF Lagged, Behind
    <2>3. QED
      BY <2>1, <2>2, SseAssumption DEF Overwritten, Behind
  <1>3. gap \subseteq Events
    <2>1. \A k \in (rx[c] + 1)..m : k \in 1..Len(sent)
      BY <1>2
    <2>2. QED
      BY <1>1, <2>1, SentFacts
  <1> HIDE DEF m, gap
  <1>4. to \in {"live", "closing"}
    BY <1>1
  <1>5. TypeOK'
    <2>1. excused' \in [Clients -> SUBSET Events] /\ phase' \in [Clients -> Phases]
      BY <1>1, <1>3, <1>4 DEF TypeOK, Phases
    <2>2. rx' \in [Clients -> 0..Len(sent)]
      BY <1>1, <1>2 DEF TypeOK
    <2>3. QED
      BY <1>1, <2>1, <2>2 DEF TypeOK
  <1>6. /\ excused'[c] = excused[c] \cup gap /\ rx'[c] = m /\ phase'[c] = to
        /\ \A d \in Clients : d # c =>
             phase'[d] = phase[d] /\ rx'[d] = rx[d] /\ excused'[d] = excused[d]
    BY <1>1, <1>2 DEF TypeOK
  <1>7. CountersCover'
    <2>1. \A d \in Clients : (InTotal(d)' => InTotal(d)) /\ (InIp(d)' => InIp(d))
      BY <1>1, <1>6 DEF InTotal, InIp, Open
    <2>2. QED
      BY <1>1, <2>1, CoverShrinks DEF countVars
  <1>8. ReplayInv(c)'
    <2>1. rx'[c] >= rx[c] /\ rx'[c] \in Nat
      BY <1>2, <1>6
    <2>2. QED
      BY <1>1, <2>1, ReplayStays
  <1>9. PassInv(c)'
    <2>1. Passed(c)' \subseteq Passed(c) \cup gap
      <3>1. \A k \in (start[c] + 1)..m : k \in (start[c] + 1)..rx[c] \/ k \in (rx[c] + 1)..m
        BY <1>2
      <3>2. QED
        BY <1>1, <1>6, <3>1 DEF Passed, gap
    <2>2. QED
      BY <1>1, <1>6, <2>1 DEF PassInv
  <1>10. QED
    BY <1>1, <1>5, <1>6, <1>7, <1>8, <1>9, OneClientMoves DEF ringVars

LEMMA StopKeepsInv ==
    ASSUME StreamInv, Stop
    PROVE  StreamInv'
  <1>1. UNCHANGED <<pushed, evicted, sent, inflight, conns, perIp, phase, last, queue, snap, doubt, rx, start,
                    got, excused>> /\ stopping' = TRUE
    BY DEF Stop, ringVars, countVars, streamVars, history
  <1>2. TypeOK /\ TypeOK'
    BY <1>1 DEF StreamInv, TypeOK
  <1>3. CountersCover'
    BY <1>1, <1>2, CoverShrinks DEF StreamInv, countVars, InTotal, InIp, Open
  <1>4. QED
    BY <1>1, <1>2, <1>3, RingStays, ClientStays DEF StreamInv

LEMMA RestartKeepsInv ==
    ASSUME StreamInv, Restart
    PROVE  StreamInv'
  <1>1. TypeOK /\ RingInv /\ UNCHANGED <<pushed, sent, last, start, got, excused>>
    BY DEF StreamInv, Restart, history
  <1>2. TypeOK'
    <2>1. evicted' \in 0..pushed' /\ inflight' \in [Producers -> 0..MaxEvents]
      BY <1>1, SseAssumption DEF Restart, TypeOK
    <2>2. rx' \in [Clients -> 0..Len(sent)]
      BY <1>1, SentFacts DEF Restart
    <2>3. QED
      BY <1>1, <2>1, <2>2 DEF Restart, TypeOK, Phases
  <1>3. RingInv'
    <2>1. 0 <= pushed
      BY <1>1, SseAssumption DEF TypeOK
    <2>2. QED
      BY <1>1, <2>1 DEF Restart, RingInv
  <1>4. CountersCover'
    <2>1. Total' = {} /\ \A a \in Ips : AtIp(a)' = {}
      BY DEF Restart, Total, AtIp, InTotal, InIp, Open
    <2>2. conns' = 0 /\ \A a \in Ips : perIp'[a] = 0
      BY DEF Restart
    <2>3. QED
      BY <2>1, <2>2, FS_EmptySet, CoverMeansNext DEF TotalCovered, IpCovered
  <1>5. ASSUME NEW c \in Clients PROVE ReplayInv(c)' /\ PassInv(c)'
    BY <1>1 DEF StreamInv, Restart, ReplayInv, PassInv
  <1>6. QED
    BY <1>2, <1>3, <1>4, <1>5 DEF StreamInv

LEMMA NextInv == StreamInv /\ [Next]_vars => StreamInv'
  <1> SUFFICES ASSUME StreamInv, [Next]_vars PROVE StreamInv'
    OBVIOUS
  <1>1. CASE UNCHANGED vars
    <2>1. UNCHANGED <<pushed, evicted, sent, inflight, conns, perIp, stopping, phase, last, queue, snap, doubt,
                      rx, start, got, excused>>
      BY <1>1 DEF vars, ringVars, countVars, streamVars, history
    <2>2. TypeOK /\ TypeOK'
      BY <2>1 DEF StreamInv, TypeOK
    <2>3. CountersCover'
      BY <2>1, <2>2, CoverShrinks DEF StreamInv, countVars, InTotal, InIp, Open
    <2>4. QED
      BY <2>1, <2>2, <2>3, RingStays, ClientStays DEF StreamInv
  <1>2. ASSUME NEW p \in Producers, Push(p) \/ Send(p) PROVE StreamInv'
    BY <1>2, PushKeepsInv, SendKeepsInv
  <1>3. ASSUME NEW c \in Clients, Request(c) PROVE StreamInv'
    BY <1>3, AdmissionKeepsInv, CountingKeepsInv, DepartKeepsInv, TakeReplayKeepsInv, SubscribeKeepsInv,
       WsConnectKeepsInv
       DEF Request
  <1>4. ASSUME NEW c \in Clients, Stream(c) \/ Leave(c) \/ WsLeave(c) PROVE StreamInv'
    BY <1>4, AdmissionKeepsInv, CountingKeepsInv, DepartKeepsInv, ReplayFrameKeepsInv, ReceiveKeepsInv, LaggedKeepsInv
       DEF Stream
  <1>5. QED
    BY <1>1, <1>2, <1>3, <1>4, StopKeepsInv, RestartKeepsInv DEF Next

LEMMA StreamInvariance == Spec => []StreamInv
  BY InitInv, NextInv, PTL DEF Spec

-----------------------------------------------------------------------------
(***************************************************************************)
(* The theorems.                                                           *)
(***************************************************************************)
\* Ring buffer, channel, counters and streams keep their types; the connection
\* counter, an unsigned atomic, never goes below zero.
THEOREM StreamTypes == Spec => []TypeOK
  BY StreamInvariance, PTL DEF StreamInv

\* stream_events_internal, stream_events_multi and ws_stream_events: what a
\* streaming client's position has moved past was received, waits in the
\* replay, or was missed for one of the causes the model names.
THEOREM MissesHaveCauses == Spec => []MissesExplained
  <1>1. StreamInv => MissesExplained
    BY DEF StreamInv, PassInv, MissesExplained, Streaming
  <1>2. QED
    BY <1>1, StreamInvariance, PTL

\* events_since and subscribe: on one connection, a replayed event comes again
\* through the channel only if it was between push and send when the ring was
\* read.  It does not speak of copies on different connections.
THEOREM DuplicatesWereInFlight == Spec => []DuplicatesInFlight
  <1>1. StreamInv => DuplicatesInFlight
    BY DEF StreamInv, ReplayInv, DuplicatesInFlight, Unread, Flying
  <1>2. QED
    BY <1>1, StreamInvariance, PTL

\* sse_connections and sse_connections_per_ip: the counters never fall below the
\* connections that are open, so that no decrement underflows.
THEOREM CountersNeverLow == Spec => []CountersCover
  BY StreamInvariance, PTL DEF StreamInv
=============================================================================
