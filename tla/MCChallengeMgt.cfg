\* Two overlapping dispatchers, two goroutine slots per channel, one challenge
\* whose windows close while dispatchers are at work.
SPECIFICATION FairSpec
CONSTANTS
  d1 = d1  d2 = d2
  w1 = w1  w2 = w2
  Dispatcher = {d1, d2}
  Slot = {w1, w2}
  Nobody = Nobody
  RoundLength = 2
  IdleWindow = 1
  ServiceWindow = 1
  VerifyWindow = 1
  MaxBlock = 3
\* Both dispatchers have run and the last block is produced.
CHECK_DEADLOCK FALSE
INVARIANTS
  OneWorker
  TokenNotLost
  FlagWillBeLowered
PROPERTIES
  TasksAreSlots
  DispatcherEnds
