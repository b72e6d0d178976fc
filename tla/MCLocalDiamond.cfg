CONSTANTS
  a = a
  b = b
  c = c
  d = d
  NoTask = NoTask
  Task <- MCTask
  NumChannels <- MCNumChannels
  srcTask <- MCsrcTask
  destTask <- MCdestTask
  MayThrow <- MCMayThrow
  MaxSpurious = 1

SPECIFICATION FairSpec

INVARIANTS
  IInv
  StopsForAReason
  ReportsOnlyAtTheEnd

PROPERTIES
  ImplementsDataflow
  AlwaysOnward
  ParkedIsWoken
  NotificationCompletes

CHECK_DEADLOCK FALSE
