----------------------------- MODULE MCIndexer -----------------------------
(* Small instances of Indexer for TLC. *)
EXTENDS Indexer, TLC

\* Three positions per ledger; the ledger is the high part of a TOID.
MCWidth == 3
MCPositions == 0..(MCWidth * (MaxLedger + 1) - 1)
MCLedger == [p \in MCPositions |-> p \div MCWidth]
MCEndOf == [l \in 0..MaxLedger |-> MCWidth * (l + 1) - 1]

\* One network: events 3 and 4 share a key (one contract, two events in one
\* transaction), 6 is refused by validation.
MCOneNet == [i \in Indexers |-> "main"]
MCOneChain == [n \in Nets |-> {3, 4, 6, 9}]
MCShortChain == [n \in Nets |-> {3, 4, 7}]
MCKey == [p \in MCPositions |-> IF p = 4 THEN 3 ELSE p]

MCSymmetry == Permutations(Indexers)
MCStorable == MCPositions \ {6}
=============================================================================
