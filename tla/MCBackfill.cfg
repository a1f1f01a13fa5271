SPECIFICATION FairSpec
CONSTANTS
  Jobs = {j1, j2}
  From = 3
  To = 5
  Chunk = 2
  PerFile = 2
  Workers = 2
  Events <- MCEvents
  LedgerOf <- MCLedgerOf
  Storable <- MCStorable
  Live = {"d4"}
  LakeStart = 3
  LakeEnd = 5
  Faults = {"crash", "http", "db", "bloom_fp"}
  MaxFaults = 1
INVARIANTS ExitMeansStored
PROPERTIES IngestRefined BackfillFinishes
CHECK_DEADLOCK FALSE
