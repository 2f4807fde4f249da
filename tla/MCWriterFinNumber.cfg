SPECIFICATION Spec
CONSTANTS
  Tasks = {t1}
  SendCalls = {"send"}
  Sizes = {3}
  MaxSends = 1
  MaxFlushes = 1
  DATA_CHANNEL_BOUND = 1
  RecvLimit = 2
  BatchDatagrams = 2
  MAX_PAYLOAD = 2
  MAX_PACKETS = 2
  First = 1
  Cancels = FALSE
CHECK_DEADLOCK FALSE
INVARIANTS
  FinNumberAfterData
