\* One export, two workers; commits are reported as they happen.
SPECIFICATION ExportSpec
CONSTANTS
  export = export
  w1 = w1
  w2 = w2
  Jobs <- MCJobs
  ExportJobs <- MCJobs
  LegacyJobs <- MCJobs
  MaxAttempts <- MCMaxAttempts
  ClaimLimit = 1
  Lease = 2
  RetryDelays <- MCDelays
  MaxLag = 2
  MaxTime = 12
  Workers <- MCWorkers
  Pages = 2
  MaxBeats = 1
  CommitMayBeLost = FALSE
INVARIANTS ArtifactStored AttemptsApart
PROPERTIES StoreRules EveryExportEnds
