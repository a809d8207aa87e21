CONSTANTS
  Buffers = {b1}
  Surfaces = {s1, s2}
  QUEUE_SIZE = 2
  MaxCalls = 6
SPECIFICATION Spec
INVARIANTS ReadMapsAreSettled
PROPERTIES ReadersUndisturbed
