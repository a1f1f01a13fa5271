SPECIFICATION FairSpec
CONSTANTS
  Endpoints = {0, 1}
  Callers = {c1}
  MaxErrors = 3
  Latencies = {1, 2}
  MaxChanges = 2
INVARIANTS NoSpuriousFailure
PROPERTIES Revived RoutesAround
