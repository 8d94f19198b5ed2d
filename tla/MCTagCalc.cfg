\* CalcTag with failed calls and crashes at every step, beside a checkTag call.
CONSTANTS
  N = 3
  SubmitTries = 3
  MaxFails = 3
  MaxCrashes = 1
  MaxChecks = 1
SPECIFICATION FairSpec
INVARIANTS
  KeySound
  TagsKept
  PanicNeedsTornRemoval
PROPERTIES
  Settles
