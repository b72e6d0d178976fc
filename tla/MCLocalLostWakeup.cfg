CONSTANTS
  a = a
  b = b
  c = c
  NoTask = NoTask
  Task <- MCTask
  NumChannels <- MCNumChannels
  srcTask <- MCsrcTask
  destTask <- MCdestTask
  MayThrow <- MCNoTasks
  MaxSpurious = 0

SPECIFICATION FairSpec

PROPERTY EveryTaskExecuted

CHECK_DEADLOCK FALSE
