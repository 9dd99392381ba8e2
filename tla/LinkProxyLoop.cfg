\* local proxy: one alarm packet.
CONSTANTS
  Addrs = {a1}
  NoAddr = NoAddr
  CloudAddr = CloudAddr
  CmdTemps = {0}
  WireMax = 0
  QueueCap = 1
  FlightCap = 2
  Mode = "proxy"
  LearnsId = FALSE
  MaxOrders = 1
  AskTemps = {0}
  NoAsk = NoAsk
SPECIFICATION FairSpec
PROPERTIES AlarmTrafficDies
