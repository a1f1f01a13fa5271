SPECIFICATION FairSpec
CONSTANTS
  Indexers = {i1}
  Nets = {"main"}
  NetOf <- MCOneNet
  Positions <- MCPositions
  Chain <- MCOneChain
  Ledger <- MCLedger
  EndOf <- MCEndOf
  Key <- MCKey
  Storable <- MCStorable
  StartLedger = 0
  IgnoreCheckpoint = FALSE
  RpcLimit = 2
  MaxPerPage = 2
  MaxRetries = 1
  BloomFill = 2
  HasBloom = {i1}
  Retention = 2
  MaxLedger = 3
  Faults = {"crash", "rpc", "expiry", "ckpt_load", "state_load", "stop", "pause"}
  MaxFaults = 2
PROPERTIES AllHandled 
