\* CalcTag beside one checkTag call; one failed call, no crash.
CONSTANTS
  N = 2
  SubmitTries = 3
  MaxFails = 1
  MaxCrashes = 0
  MaxChecks = 1
SPECIFICATION Spec
INVARIANTS
  NoPanic
