SPECIFICATION Spec
CONSTANTS
  Indexers = {i1}
  Nets = {"main"}
  NetOf <- MCOneNet
  Positions <- MCPositions
  Chain <- MCOneChain
  Ledger <- MCLedger
  EndOf <- MCEndOf
  Key <- MCKey
  Storable <- MCStorable
  StartLedger = 1
  IgnoreCheckpoint = FALSE
  RpcLimit = 2
  MaxPerPage = 2
  MaxRetries = 1
  BloomFill = 2
  HasBloom = {i1}
  Retention = 9
  MaxLedger = 3
  Faults = {"commit"}
  MaxFaults = 2
INVARIANT CheckpointExact
