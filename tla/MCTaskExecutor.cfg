CONSTANTS
  c1 = c1
  c2 = c2
  c3 = c3
  x = x
  y = y
  z = z
  NoClient = NoClient
  Client <- MCClient
  Transfer <- MCTransfer
  transfers <- MCtransfers
  MayThrow <- MCMayThrow
  MayCrash <- MCMayCrash
  MayLose <- MCMayLose
  Backlog = 1
  MaxKills = 1

SPECIFICATION FairSpec

INVARIANTS
  IInv
  TransfersOver
  NobodyWaitsInVain

PROPERTIES
  ImplementsRemoteCall
  HandshakeCompletes
  AnswersUnlessThrown

CHECK_DEADLOCK FALSE
