\* Orders, an alarm taken back, one beyond the wire, power cycles, broken connections.
CONSTANTS
  Addrs = {a1}
  NoAddr = NoAddr
  CloudAddr = CloudAddr
  CmdTemps = {0, 2}
  WireMax = 1
  QueueCap = 1
  FlightCap = 1
  PingPeriod = 1
  StaleTimeout = 0
  CmdCap = 1
  Unreadable = Unreadable
  CmdChannels = {1, 2}
  Mode = "monitor"
  LearnsId = TRUE
  Faults = {"broker", "power"}
SPECIFICATION Spec
INVARIANTS Agreement OffIsShown
CONSTRAINTS NothingLost OneReport
