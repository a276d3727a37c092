SPECIFICATION FairSpec
CONSTANTS
  a = a
  b = b
  Executions = {a}
  Base = base
  None = None
  Workers = {w1, w2}
  Baseline <- Rivals
  GrantsNeeded <- TwoGrants
  MaxGrants = 3
  MaxFailures = 3
  MaxInterventions = 0
PROPERTIES EventuallyPublished
CHECK_DEADLOCK FALSE
