\* A round whose challenge is still open is reported as expired.
SPECIFICATION Spec
CONSTANTS
  d1 = d1
  Dispatcher = {d1}
  MaxRound = 1
  EmptyRounds = {}
  SingleRounds = {1}
  RoundLength = 5
  ServiceWindow = 3
  VerifyWindow = 4
  Margin = 3
  SubmitTries = 3
  MaxCrashes = 0
CHECK_DEADLOCK FALSE
INVARIANTS
  ExpiredMeansExpired
