SPECIFICATION FairSpec
CONSTANTS
  MaxEvents = 3
  Capacity = 2
  MaxFaults <- MCFaults
  WebhookEvents = {1, 2}
  MinuteLimit = 1
  MaxAttempts = 2
  BufferMax = 2
  MaxRetries = 2
  SlotsPerHour = 2
  HoursPerDay = 2
  Critical = {2}
INVARIANTS StreamOrdered OneDigest Accounted NoExtraCopies
PROPERTIES HandedOn
CHECK_DEADLOCK FALSE
