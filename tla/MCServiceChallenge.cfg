\* Two dispatchers that overlap, one round of each kind, one crash.
SPECIFICATION FairSpec
CONSTANTS
  d1 = d1 d2 = d2
  Dispatcher = {d1, d2}
  MaxRound = 3
  EmptyRounds = {1}
  SingleRounds = {2}
  RoundLength = 4
  ServiceWindow = 1
  VerifyWindow = 3
  Margin = 2
  SubmitTries = 2
  MaxCrashes = 1
CHECK_DEADLOCK FALSE
PROPERTIES
  WorkerReturns
INVARIANTS
  ProofMarkSound
  ResultMarkSound
  SignatureSound
  BatchResumable
  ResultFollowsProof
