\* A draft, a second model version, its reading: two runs and one draft do.
CONSTANTS
  MaxRuns = 2
  MaxVersion = 2
  MaxDrafts = 1
  MaxReviews = 1
SPECIFICATION Spec
INVARIANT FreshPageIsAccepted
CHECK_DEADLOCK FALSE
