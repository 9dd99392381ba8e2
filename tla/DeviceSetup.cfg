\* One setup after whatever an earlier one may have left on the way.
CONSTANTS
  w1 = w1
  w2 = w2
  Wishes = {w1, w2}
  Factory = Factory
  FlightCap = 2
  STEP_RETRIES = 3
  MAX_CHUNK_PAYLOAD = 2
  MAX_CHUNKS = 3
  FixedLength = 3
  Lengths <- EdgeLengths
  Macs = {m1, m2}
  Copies = 2
  MaxSetups = 1
SPECIFICATION FairSpec
INVARIANTS TypeOK ReportIsTrue InStep ChunksMakeCommand FoundOnce
PROPERTIES WholeUnlessMixed SetupEnds Discovered
