SPECIFICATION FairSpec
CONSTANTS
  MAX_BUFFER_SIZE = 2
  Start = 1
  Last = 5
  PayloadSizes = {1, 2}
  Lens = {0, 1, 3}
  None = None
  Idle = Idle
INVARIANTS
  TypeOK
  RingInvariant
  RefusedOnlyIfAccepted
  ResultCoversConsumed
PROPERTIES
  PeekPromisesBytes
  StreamSpec
  ReceivedIsDelivered
