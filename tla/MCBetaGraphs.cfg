CONSTANTS
  a = a
  b = b
  c = c
  d = d
  s1 = s1
  s2 = s2
  s3 = s3
  NoTask = NoTask
  NoSchedule = NoSchedule
  Task <- MCTask
  NumChannels <- MCNumChannels
  srcTask <- MCsrcTask
  destTask <- MCdestTask
  Schedule <- MCSchedule
  runTask <- MCrunTask
  MayFail <- MCNoTasks
  MayHang <- MCNoTasks
  RecordMayThrow = FALSE
  MaxSpurious = 0

SPECIFICATION Spec

INVARIANT GraphsComplete

CHECK_DEADLOCK FALSE
