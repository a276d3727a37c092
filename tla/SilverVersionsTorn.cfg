\* Two builders of the same version overlap.
SPECIFICATION Spec
CONSTANTS
  Builders = {b1, b2}
  Cleaners = {}
  Schedules = {"overlapping"}
  MaxBuilds = 2
  MaxCleans = 0
  MaxCrashes = 0
  None = None
INVARIANT VersionWhole
\* All commands end.
CHECK_DEADLOCK FALSE
