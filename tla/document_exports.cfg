CONSTANTS
  Documents = {d1, d2}
  PageSize = 1
  MaxAttempts = 2
  MaxChanges = 4
SPECIFICATION Spec
SYMMETRY MCSymmetry
INVARIANTS
  NothingStaleSent
PROPERTIES
  StaleForGood
CHECK_DEADLOCK FALSE
