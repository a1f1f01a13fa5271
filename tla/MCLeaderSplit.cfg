SPECIFICATION Spec
CONSTANTS
  Replicas = {r1, r2}
  Slots = {1, 2}
  MaxAttempts = 2
  Reaping = TRUE
  Faults = {}
  MaxFaults = 2
  MaxGone = 1
INVARIANT OneLeader
