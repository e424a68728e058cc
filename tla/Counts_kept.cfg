CONSTANTS
  Platforms = {linux, macos}
  Profiles <- SomeProfiles
  MaxRuns = 3
SPECIFICATION Spec
CHECK_DEADLOCK FALSE
INVARIANT
  LastCountsKept
