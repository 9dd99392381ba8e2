\* Two thermometers on one port; setpoints come from them and from the cloud.
CONSTANTS
  Addrs = {a1, a2}
  NoAddr = NoAddr
  CloudAddr = CloudAddr
  CmdTemps <- NoCommands
  WireMax = 1
  QueueCap = 1
  FlightCap = 2
  PingPeriod = 1
  StaleTimeout = 0
  CmdCap = 1
  Unreadable = Unreadable
  CmdChannels = {1, 2}
  Others = {}
SYMMETRY Symmetry
SPECIFICATION Spec
INVARIANTS TypeOK OnlineNeedsTraffic AvailMatchesDevice WillCovers
PROPERTIES RepushOnReturn
