SPECIFICATION FairSpec
CONSTANTS
  Replicas = {r1, r2}
  Slots = {1, 2}
  MaxAttempts = 2
  Reaping = TRUE
  Faults = {"crash", "timeout", "migrate", "release", "acquire", "shutdown"}
  MaxFaults = 2
  MaxGone = 1
INVARIANTS TypeOK OneMigrator LeaderExclusive
PROPERTIES SomeoneLeads StartupCompletes
