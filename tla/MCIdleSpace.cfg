SPECIFICATION FairSpec
CONSTANTS
  E = 2
  Declared = 6
  Config = 10
  Disk = 6
  MaxRepl = 2
  MaxFails = 1
  MaxCrashes = 1
  MaxChals = 1
CHECK_DEADLOCK FALSE
INVARIANTS
  AccReleased
  Agreement
  NotAhead
  ChallengedFilesKept
PROPERTIES
  Settles
