SPECIFICATION LogScanSpec
CONSTANTS
  FromBlock = 0
  Lookback = 1
  MaxLogRange = 2
  MaxInterval = 3
  MaxBlocks = 5
  MaxRequests = 2
  MaxRefusals = 2
INVARIANTS
  ChunksCover
PROPERTIES
  ScanImplements
  ScanKeepsUp
