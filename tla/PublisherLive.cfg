\* The smallest instance with every kind of step, for liveness.
CONSTANTS
  Addrs = {a1}
  NoAddr = NoAddr
  CloudAddr = CloudAddr
  CmdTemps = {0}
  WireMax = 0
  QueueCap = 1
  FlightCap = 1
  PingPeriod = 1
  StaleTimeout = 1
  CmdCap = 1
  Unreadable = Unreadable
  CmdChannels = {1, 2}
  Others = {}
SPECIFICATION FairSpec
PROPERTIES LostConnectionIsLeft AlwaysBack SilentIsNoticed
