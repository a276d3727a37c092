SPECIFICATION MCSpec
CONSTANTS
  Pubs = {p1, p2}
  Operators = {}
  Readers = {}
  MaxRetained = 2
  RetentionTicks = 1
  OperationTicks = 1
  MaxGeneration = 1
  None = None
  Workers = {a, b}
  Sources = {s1, s2}
  MaxBreaks = 2
  a = a
INVARIANTS
  SealedIsValidated
  LiveBuildUndisturbed
PROPERTIES
  AloneConcludes
