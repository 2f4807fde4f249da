SPECIFICATION FairSpec
CONSTANTS
  r1 = r1
  r2 = r2
  Readers = {r1, r2}
  Packets = 4
  None = None
INVARIANTS TypeOK NoSleepingReader 
PROPERTIES RecvReturns
CHECK_DEADLOCK FALSE
