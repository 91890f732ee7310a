CONSTANTS
  o = o
  m = m
  r1 = r1
  r2 = r2
  w1 = w1
  w2 = w2
  Users <- MCUsers
  Owner = o
  Managers <- MCManagers
  Subscribers <- MCSubscribers
  Requests <- MCRequests
  Workers <- MCWorkers
  Retries = 1
  MaxEvents = 2
  Followed <- MCFollowed
SYMMETRY Interchangeable
SPECIFICATION Spec
INVARIANTS
  HistoryTellsTask
  RemovedIsGone
  GivenUpForCause
CHECK_DEADLOCK FALSE
