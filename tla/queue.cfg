\* Two Machines, two workers, one restart.
SPECIFICATION FairSpec
CONSTANTS
  Items = {m1, m2}
  Workers = {w1, w2}
  NoItem = NoItem
  MaxCrashes = 1
INVARIANTS
  TypeOK
  QueueIsExact
  OneReconcileAtATime
  NothingIsLost
PROPERTY
  TakenUpAgain
