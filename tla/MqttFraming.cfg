\* Lengths of one to three bytes, streams cut anywhere.
CONSTANTS
  Radix = 2
  LengthBytes = 4
  Temps = {1}
  MaxPadding = 2
  ReadMax = 3
  CmdCap = 1
  MaxPackets = 3
SPECIFICATION FairSpec
INVARIANTS TypeOK InStep RoundTrip
PROPERTIES AllTaken ImplementsFeed
