\* A thermometer that is off; no orders.
CONSTANTS
  PollPeriod = 1
  PingPeriod = 2
  HttpTimeout = 1
  StaleLimit = 3
  CutOff = 8
  KeepAliveLimit = 1
  CmdCap = 1
  CmdTemps = {1}
  MissedCap = 1
  MaxOrders = 0
SPECIFICATION FairSpec
PROPERTIES SilentGoesOffline
