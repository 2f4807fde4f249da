SPECIFICATION Spec
CONSTANTS
  MAX_PAYLOAD = 3
  MAX_PACKETS = 2
  HEADER = 2
  MaxSends = 4
  MaxSize = 7
  Queues <- MCQueues
CHECK_DEADLOCK FALSE
INVARIANTS
  StreamKept
  PacketsWellFormed
  PacksGreedily
PROPERTY
  QueueDrained
