SPECIFICATION Spec
CONSTANTS
  r1 = r1
  Readers = {r1}
  Packets = 2
  None = None
PROPERTIES EofIsFinal
