CONSTANTS
  r1 = r1
  r2 = r2
  u1 = u1
  u2 = u2
  v1 = v1
  v2 = v2
  NoToken = NoToken
  Blank = Blank
  Torn = Torn
  Request <- MCRequest
  User <- MCUser
  InitialUsers <- MCInitialUsers
  Version <- MCVersion
  Kind <- MCSaves
  MaxRequests = 2
  MaxCrashes = 0

SPECIFICATION Spec

INVARIANT UsersKept

CHECK_DEADLOCK FALSE
