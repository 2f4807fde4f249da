SPECIFICATION Spec
CONSTANTS
  c1 = c1
  a1 = a1
  Clients = {c1}
  Accepts = {a1}
  ClientNumbers = {10}
  ServerNumbers = {30}
  MAX_QUEUED_HELLOS = 1
  MAX_BUFFER_SIZE = 4
  MaxLosses = 0
  MaxDuplicates = 0
  MaxDrops = 0
  Networks = {TRUE}
  Server = Server
  None = None
INVARIANT StartIsHelloPlusTwo
CHECK_DEADLOCK FALSE
