SPECIFICATION Spec
CONSTANTS
  Runs = {run1, run2}
  Rows = {1, 2}
  Signed <- MCSigned
  MaxTime = 3
  Requests <- MCRequests
  Batches <- MCBatches
  Overlaps = {0, 1}
  PageSize = 1
  MaxRows = 3
  MaxChanges = 1
  MaxFaults = 1
  None = None
SYMMETRY Interchangeable
INVARIANTS CommittedIsIndexed NoWindowSkipped
PROPERTIES RunHoldsItsRange CheckpointHeld
