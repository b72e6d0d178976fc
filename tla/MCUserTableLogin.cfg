CONSTANTS
  r1 = r1
  r2 = r2
  u1 = u1
  u2 = u2
  v1 = v1
  v2 = v2
  NoToken = NoToken
  Blank = Blank
  Torn = Torn
  Request <- MCOneRequest
  User <- MCUser
  InitialUsers <- MCInitialUsers
  Version <- MCVersion
  Kind <- MCSignupAndLogin
  MaxRequests = 2
  MaxCrashes = 0

SPECIFICATION Spec

INVARIANT LoneRequestsReturn

CHECK_DEADLOCK FALSE
