\* Two jobs of two attempts, leases of two ticks, stamps at most one tick old.
SPECIFICATION Spec
CONSTANTS
  export = export
  scan = scan
  Jobs <- MCJobs
  ExportJobs <- MCExportJobs
  LegacyJobs <- MCExportJobs
  MaxAttempts <- MCMaxAttempts
  ClaimLimit = 2
  Lease = 2
  RetryDelays <- MCDelays
  MaxLag = 1
  MaxTime = 6
INVARIANTS TypeOK HolderIsLatest NeverStranded OneResult LegacyMirrors
PROPERTIES NoStolenLease Lifecycles
