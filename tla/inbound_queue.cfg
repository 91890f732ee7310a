\* Two events, two workers, two retries; the first wait is as long as a lease.
SPECIFICATION InboundSpec
CONSTANTS
  e1 = e1
  e2 = e2
  w1 = w1
  w2 = w2
  Events <- MCEvents
  Workers <- MCWorkers
  BatchLimit = 2
  Lease = 1
  Retries = 2
  Delay <- MCDelayTwo
INVARIANTS BudgetAgrees ProcessedWasHandled LeaseExclusive
PROPERTIES EventSettles
