\* Every number of fragments above the threshold, up to several full batches and a
\* rest.  The function returns in "done" and "failed".
SPECIFICATION BatchSpec
CONSTANTS
  t1 = t1  t2 = t2
  Tee = {t1, t2}
  NoTee = NoTee
  MaxSingle = 3
  MaxTotal = 20
CHECK_DEADLOCK FALSE
SYMMETRY TeeSymmetry
INVARIANTS
  BatchBound
  BatchProofsMatch
  AggregateComplete
