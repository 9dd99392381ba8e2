\* local monitor without --mac.
CONSTANTS
  Addrs = {a1}
  NoAddr = NoAddr
  CloudAddr = CloudAddr
  CmdTemps = {0}
  WireMax = 1
  QueueCap = 1
  FlightCap = 2
  Mode = "monitor"
  LearnsId = TRUE
  MaxOrders = 2
  AskTemps = {1}
  NoAsk = NoAsk
  Samples = {0, 1, 255, 256, 750, 65535}
  Garbage = {0, 1, 49, 50, 60, 62, 84, 255}
SPECIFICATION FairSpec
INVARIANTS TypeOK AskedIsSet WireAgrees GarbledIsDropped
PROPERTIES StreamStarts AlarmTrafficDies
