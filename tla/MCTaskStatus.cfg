CONSTANTS
  c1 = c1
  c2 = c2
  c3 = c3
  x = x
  y = y
  z = z
  NoClient = NoClient
  Client <- MCClient
  Transfer <- MCTransfer
  transfers <- MCtransfers
  MayThrow <- MCMayThrow
  MayCrash <- MCNobody
  MayLose <- MCNobody
  Backlog = 1
  MaxKills = 0

SPECIFICATION FairSpec

PROPERTY StatusIsSentBack

CHECK_DEADLOCK FALSE
