\* Requests and acceptances between their statements; three users, so that an
\* owner can hand over to one while a request is about another; two
\* authorizations.
CONSTANTS
  u1 = u1
  u2 = u2
  u3 = u3
  r1 = r1
  r2 = r2
  i1 = i1
  i2 = i2
  h1 = h1
  h2 = h2
  a1 = a1
  a2 = a2
  k1 = k1
  Users <- MCUsers
  Creator = u1
  Requests <- MCRequests
  Invitations <- MCInvitations
  Handoffs <- MCHandoffs
  Attempts <- MCAttempts
  Calls <- MCCalls
  MaxGeneration = 2
SYMMETRY Interchangeable
CONSTRAINT OneBesideDrive
SPECIFICATION Spec
INVARIANT
  ReconnectAccepted
CHECK_DEADLOCK FALSE
