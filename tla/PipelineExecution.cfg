SPECIFICATION Spec
CONSTANTS
  a = a
  b = b
  Executions = {a, b}
  Base = base
  None = None
  Workers = {w1, w2}
  Baseline <- Rivals
  GrantsNeeded <- OneGrant
  MaxGrants = 1
  MaxFailures = 1
  MaxInterventions = 1
INVARIANTS ReceiptTruthful ActivationAsDecided Lineage
PROPERTY NoSuccessLost
SYMMETRY Interchangeable
CHECK_DEADLOCK FALSE
