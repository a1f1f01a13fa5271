SPECIFICATION Spec
CONSTANTS
  Indexers = {i1}
  Nets = {"main"}
  NetOf <- MCOneNet
  Positions <- MCPositions
  Chain <- MCOneChain
  Ledger <- MCLedger
  EndOf <- MCEndOf
  Key <- MCKey
  Storable <- MCStorable
  StartLedger = 0
  IgnoreCheckpoint = FALSE
  RpcLimit = 2
  MaxPerPage = 1
  MaxRetries = 1
  BloomFill = 2
  HasBloom = {i1}
  Retention = 2
  MaxLedger = 3
  Faults = {"crash", "rpc", "expiry", "ckpt_load", "state_load", "statement", "commit", "bloom_fp"}
  MaxFaults = 3
INVARIANTS TypeOK NoUnexplainedLoss FilterSound
