\* Two dispatchers that overlap: a worker may be started for a round that has
\* been replaced, after a worker of the newer round.
SPECIFICATION FairSpec
CONSTANTS
  d1 = d1  d2 = d2
  Dispatcher = {d1, d2}
  MaxRound = 3
  EmptyRounds = {2}
  RoundLength = 3
  IdleWindow = 1
  VerifyWindow = 2
  SubmitTries = 3
  MaxCrashes = 1
CHECK_DEADLOCK FALSE
INVARIANTS
  ProofMarkSound
  ResultMarkSound
  SignatureSound
  ResultFollowsProof
PROPERTIES
  WorkerReturns
