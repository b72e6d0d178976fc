CONSTANTS
  r1 = r1
  r2 = r2
  u1 = u1
  u2 = u2
  v1 = v1
  v2 = v2
  NoToken = NoToken
  Blank = Blank
  Torn = Torn
  Request <- MCRequest
  User <- MCUser
  InitialUsers <- MCInitialUsers
  Version <- MCVersion
  Kind <- MCKind
  MaxRequests = 3
  MaxCrashes = 1

SPECIFICATION Spec

INVARIANTS
  TypeOK
  CalmTable
  CalmRequestsSucceed
  SaveIsRecoverable
  OwnRecords

CHECK_DEADLOCK FALSE
