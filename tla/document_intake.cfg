\* Three requests: two in flight while a third has been answered; one document
\* per period, so that a charge of the past month is one too many.
CONSTANTS
  r1 = r1
  r2 = r2
  r3 = r3
  member = member
  owner = owner
  admin = admin
  web = web
  line = line
  drive = drive
  c1 = c1
  c2 = c2
  virus = virus
  Requests <- MCRequests
  Users <- MCUsers
  Origins <- MCOrigins
  Contents <- MCContents
  Groups <- MCGroups
  Managers <- MCManagers
  Unsafe <- MCUnsafe
  ChannelOf <- MCChannelOf
  SendersOf <- MCSendersOf
  FilesOf <- MCFilesOf
  Limit = 1
  MaxPeriod = 2
SYMMETRY Attempts
SPECIFICATION Spec
INVARIANTS
  OriginalStored
  NothingLeftBehind
  QuotaHeld
  AnswersHold
  GroupFilesPrivate
  AttemptsAgree
PROPERTIES
  InboxKept
CHECK_DEADLOCK FALSE
