\* A thermometer switched off and on.
CONSTANTS
  Addrs = {a1}
  NoAddr = NoAddr
  CloudAddr = CloudAddr
  CmdTemps = {1}
  WireMax = 1
  QueueCap = 1
  FlightCap = 1
  PingPeriod = 1
  StaleTimeout = 0
  CmdCap = 1
  Unreadable = Unreadable
  CmdChannels = {1, 2}
  Mode = "monitor"
  LearnsId = FALSE
  Faults = {"power"}
SPECIFICATION FairSpec
PROPERTIES RecoversAfterPowerCycle
