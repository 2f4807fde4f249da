SPECIFICATION FairSpec
CONSTANTS
  Start = 1
  LastNumber = 6
  Batches = {1, 2}
  packets_consumed_before_ack = 2
  RecvLimit = 2
  MAX_SLIDING_WINDOW_SIZE = 5
  MaxLosses = 1
  Duplicates = TRUE
INVARIANTS WindowExact LargestMeansAcked NoSleepingConsumer
PROPERTIES AcceptedIsCounted
CHECK_DEADLOCK FALSE
