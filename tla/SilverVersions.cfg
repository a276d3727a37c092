\* Builders that crash and are run again and clean-staging, one at a time or overlapping.
SPECIFICATION FairSpec
CONSTANTS
  Builders = {b1, b2}
  Cleaners = {c1}
  Schedules = {"serial", "overlapping"}
  MaxBuilds = 3
  MaxCleans = 1
  MaxCrashes = 2
  None = None
INVARIANTS WholeWhenSerial
PROPERTIES NeverAltered EventuallyBuilt
\* All commands end.
CHECK_DEADLOCK FALSE
