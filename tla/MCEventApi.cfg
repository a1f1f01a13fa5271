SPECIFICATION FairSpec
CONSTANTS
  Row <- MCRow
  Ledgers = {1, 2}
  Ordinals = {1, 2}
  PageLimit = 2
  MaxWrites = 1
  Event = {1, 2}
  RowId <- MCRowId
  Addressed = {1}
  BatchSize = 1
  MaskLimit = 1
  ReplayLimit = 1
  Slots <- MCSlots
  MaxLoad = 4
  MaxFaults = 1
INVARIANTS RecentExact CursorMissesExplained ContractMissesExplained ErasureSticks NothingLost
PROPERTIES RotationComplete RequestsEnd
CHECK_DEADLOCK FALSE
