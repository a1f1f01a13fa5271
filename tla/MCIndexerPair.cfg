SPECIFICATION Spec
CONSTANTS
  Indexers = {i1, i2}
  Nets = {"main"}
  NetOf <- MCOneNet
  Positions <- MCPositions
  Chain <- MCShortChain
  Ledger <- MCLedger
  EndOf <- MCEndOf
  Key <- MCKey
  Storable <- MCStorable
  StartLedger = 1
  IgnoreCheckpoint = FALSE
  RpcLimit = 2
  MaxPerPage = 2
  MaxRetries = 1
  BloomFill = 2
  HasBloom = {}
  Retention = 2
  MaxLedger = 2
  Faults = {"crash", "commit"}
  MaxFaults = 1
INVARIANT NoUnexplainedLoss
PROPERTY AnnouncedAgain
SYMMETRY MCSymmetry
