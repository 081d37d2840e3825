SPECIFICATION LoopSpec
CONSTANTS
  Subs = {"s1", "s2"}
  Scenarios <- LoopScenarios
  ChannelLength = 2
  Conns = {"c1", "c2"}
  MaxConnections = 1
PROPERTY BroadcastEnds
CHECK_DEADLOCK FALSE
