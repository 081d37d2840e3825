SPECIFICATION MCSpec
CONSTANTS
  Subs = {"s1", "s2"}
  Scenarios <- MCScenarios
  ChannelLength = 2
  Conns = {"c1", "c2"}
  MaxConnections = 1
INVARIANTS
  ChangesExact
  UnsubscribedOnce
  
PROPERTY NothingWaitsForever
CHECK_DEADLOCK FALSE
