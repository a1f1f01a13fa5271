SPECIFICATION Spec
CONSTANTS
  Producers = {"p1", "p2"}
  Clients = {"s", "w"}
  Kind <- MCKind
  IpOf <- MCIpOf
  Wanted <- MCWanted
  RingCapacity = 2
  ChannelCapacity = 2
  ReplayLimit = 1
  MaxConns = 2
  MaxPerIp = 1
  MaxLag = 2
  Restarts = TRUE
  MaxEvents = 4
INVARIANTS MissesExplained DuplicatesInFlight CountersCover
