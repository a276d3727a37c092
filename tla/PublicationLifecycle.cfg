SPECIFICATION Spec
CONSTANTS
  Pubs = {p1, p2, p3, p4}
  Operators = {o1}
  Readers = {r1}
  MaxRetained = 3
  RetentionTicks = 3
  OperationTicks = 2
  MaxGeneration = 4
  None = None
SYMMETRY Symmetry
INVARIANTS
  RetentionRoom
  ProtectedAvailable
  PinnedReadable
  DecisionsInOrder
PROPERTIES
  RetentionRestarts
  ConsumerPromise
