\* Units of 10 s; no orders.
CONSTANTS
  PollPeriod = 1
  PingPeriod = 3
  HttpTimeout = 2
  StaleLimit = 6
  CutOff = 10
  KeepAliveLimit = 9
  CmdCap = 1
  CmdTemps = {1}
  MissedCap = 2
  MaxOrders = 0
SPECIFICATION Spec
INVARIANTS KeepaliveKept
