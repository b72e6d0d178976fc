CONSTANTS
  c1 = c1
  c2 = c2
  c3 = c3
  x = x
  y = y
  z = z
  NoClient = NoClient
  Client <- MCClient
  Transfer <- MCTransfer
  transfers <- MCtransfers
  MayThrow <- MCNobody
  MayCrash <- MCNobody
  MayLose <- MCMayLose
  Backlog = 1
  MaxKills = 0

SPECIFICATION Spec

INVARIANT OutputsMoved

CHECK_DEADLOCK FALSE
