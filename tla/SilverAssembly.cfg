SPECIFICATION MCSpec
CONSTANTS
  a = a
  aa = aa
  b = b
  ka = ka
  kb = kb
  KeyOf <- MCKeyOf
  Responses <- MCResponses
  Dates = {1, 2}
  InScope = {1}
  Undated = Undated
  Unreadable = Unreadable
  MaxRejectionPercent = 50
  MaxRuns = 3
  MaxVersions = 3
  None = None
CHECK_DEADLOCK FALSE
INVARIANTS WrittenIsVerified NothingOlder NoHiddenReject DriftBlocks
