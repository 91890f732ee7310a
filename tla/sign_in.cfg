CONSTANTS
  u1 = u1
  u2 = u2
  s1 = s1
  s2 = s2
  s3 = s3
  s4 = s4
  s5 = s5
  a1 = a1
  a2 = a2
  r1 = r1
  r2 = r2
  Users <- TwoUsers
  Identities <- MCIdentities
  Providers <- MCProviders
  ProviderOf <- MCProviderOf
  Sessions <- ThreeSessions
  Attempts <- TwoAttempts
  Requests <- OneRequest
SYMMETRY Interchangeable
SPECIFICATION Spec
INVARIANTS
  SessionsEarned
  OneSuccessor
CHECK_DEADLOCK FALSE
