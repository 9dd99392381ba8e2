\* Units of 20 s: one HTTP timeout, polls as often, pings every other unit. CutOff is the
\* least with CutOffIsFar.
CONSTANTS
  PollPeriod = 1
  PingPeriod = 2
  HttpTimeout = 1
  StaleLimit = 3
  CutOff = 9
  KeepAliveLimit = 1
  CmdCap = 1
  CmdTemps = {0}
  MissedCap = 1
  MaxOrders = 1
  Unit = 20
  Dates <- EdgeDates
  Times <- EdgeTimes
  Offsets <- EdgeOffsets
SPECIFICATION FairSpec
INVARIANTS TypeOK OfflineBeforeCutoff WillCovers StampsAgree
PROPERTIES AlwaysBack BackOnline
