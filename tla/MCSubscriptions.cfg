SPECIFICATION FairSpec
CONSTANTS
  Requests <- MCRequests
  Keys = {"k"}
  KeyOf <- MCKeyOf
  NoKey = "none"
  Events <- MCEvents
  LedgerOf <- MCLedgerOf
  Early = {1}
  Froms = {1}
  Mailers = {m1}
  Pushers = {p1}
  Addresses = {"a"}
  Tokens = {"t", "u"}
  Refusing = {"u"}
  DailyLimit = 1
  PageSize = 1
  MaxChanges = 2
  MaxFaults = 1
INVARIANTS DeliveredExplained AckSettles QueueComplete AnsweredOnce
PROPERTIES NoResend PendingResolved
CHECK_DEADLOCK FALSE
