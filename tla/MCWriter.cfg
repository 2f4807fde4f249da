SPECIFICATION FairSpec
CONSTANTS
  Tasks = {t1, t2}
  SendCalls = {"send", "send_async"}
  Sizes = {5}
  MaxSends = 2
  MaxFlushes = 2
  DATA_CHANNEL_BOUND = 1
  RecvLimit = 2
  BatchDatagrams = 2
  MAX_PAYLOAD = 2
  MAX_PACKETS = 2
  First = 1
  Cancels = TRUE
CHECK_DEADLOCK FALSE
INVARIANTS
  PendingExact
  FlushMeansOnWire
  NumbersConsecutive
  NoDataAfterFin
PROPERTIES
  FlushCompletes
