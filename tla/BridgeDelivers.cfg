\* Orders and their acknowledgements, a full disk, a lossy network.
CONSTANTS
  Addrs = {a1}
  NoAddr = NoAddr
  CloudAddr = CloudAddr
  CmdTemps = {0, 1}
  WireMax = 1
  QueueCap = 1
  FlightCap = 1
  PingPeriod = 1
  StaleTimeout = 0
  CmdCap = 1
  Unreadable = Unreadable
  CmdChannels = {1}
  Mode = "monitor"
  LearnsId = FALSE
  Faults = {"disk", "loss"}
SPECIFICATION FairSpec
INVARIANTS BridgeTypeOK
PROPERTIES OrdersArrive ImplementsPublisher
