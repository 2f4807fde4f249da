SPECIFICATION FairSpec
CONSTANTS
  A = A
  B = B
  None = None
  Closers = {A, B}
  FinNumber <- MCFinNumber
  MAX_FIN_ATTEMPTS = 2
  FinAckBound = 1
  MaxLosses = 1
  MaxDuplicates = 1
  Networks = {TRUE, FALSE}
INVARIANTS OkMeansPeerSawFin EndsOnlyByClosing GivesUpOnlyOnClosed
PROPERTIES CloseReturns
CHECK_DEADLOCK FALSE
