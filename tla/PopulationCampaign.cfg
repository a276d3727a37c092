SPECIFICATION MCSpec
CONSTANTS
  Versions <- MCVersions
  InScope <- MCInScope
  Baseline <- MCBaseline
  Ceilings <- MCCeilings
  Grants <- MCGrants
  PageSize = 2
  MaxRetries = 1
  Keys = {k1, k2}
  k1 = k1
  NoKey = NoKey
  MaxInvocations = 2
  MaxCrashes = 1
  MaxCleans = 1
  MaxFaults = 1
  None = None
INVARIANTS
  DurablyCharged
  ResumeAccepted
  CompleteAcquisition
  KeyHoldsGrant
PROPERTIES
  PublishedForGood
  PatienceCommits
