SPECIFICATION FairSpec
CONSTANTS
  Conns = 2
  MaxLines = 2
  MaxChunks = 1
  LINES = 1
  WRITER = 1
CHECK_DEADLOCK FALSE
INVARIANTS
  LinesBeforeFin
  AbandonsOnlyWhenListening
PROPERTY
  ProcessEnds
