SPECIFICATION FairSpec
CONSTANTS
  TaskCounts = {1, 2}
  Peers <- MCPeers
  Shapes <- MCShapes
  Strays <- MCStrays
  MaxPackets = 4
  MaxSent = 2
  MaxStrays = 2
  CHANNEL = 1
  Buffers = {1, 2, 3, 4}
CHECK_DEADLOCK FALSE
INVARIANTS
  BufferedAsSent
  NothingLostOrRepeated
  EndsOnlyByStrays
PROPERTY
  PipelineDrains
