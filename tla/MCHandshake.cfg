SPECIFICATION Spec
CONSTANTS
  c1 = c1
  c2 = c2
  a1 = a1
  a2 = a2
  Clients = {c1, c2}
  Accepts = {a1, a2}
  ClientNumbers = {0, 10}
  ServerNumbers = {0, 30}
  MAX_QUEUED_HELLOS = 1
  MAX_BUFFER_SIZE = 4
  MaxLosses = 1
  MaxDuplicates = 1
  MaxDrops = 1
  Networks = {TRUE, FALSE}
  Server = Server
  None = None
INVARIANTS NoHelloPassedOver BothSidesAgree FirstDataExpected
PROPERTIES TimesOutOnlyUnaccepted NoHalfOpen
CHECK_DEADLOCK FALSE
SYMMETRY Symmetry
