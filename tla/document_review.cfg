\* Three runs by two model versions, three revisions of the draft and two of
\* the review: enough for a draft of an older run, a draft edited between a
\* confirmation's check and its commit, and an approval overtaken twice.
CONSTANTS
  MaxRuns = 3
  MaxVersion = 2
  MaxDrafts = 3
  MaxReviews = 2
SPECIFICATION Spec
INVARIANTS
  ReviewTypeOK
  OneCurrentRun
  OneReadingPerVersion
  ConfirmedIsSaved
  NothingWhileReprocessing
PROPERTIES
  StaleStaysStale
  EditsNotLost
CHECK_DEADLOCK FALSE
