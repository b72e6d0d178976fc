CONSTANTS
  a = a
  b = b
  c = c
  d = d
  s1 = s1
  s2 = s2
  s3 = s3
  NoTask = NoTask
  NoSchedule = NoSchedule
  Task <- MCTask
  NumChannels <- MCNumChannels
  srcTask <- MCsrcTask
  destTask <- MCdestTask
  Schedule <- MCSchedule
  runTask <- MCrunTask
  MayFail <- MCMayFail
  MayHang <- MCMayHang
  RecordMayThrow = TRUE
  MaxSpurious = 1

SPECIFICATION FairSpec

INVARIANTS
  TypeOK
  CountersBound
  RecordedAtTheEnd
  RecordingHoldsUpNobody
  StopsForAReason

PROPERTIES
  ImplementsDataflow
  AlwaysOnward
  ParkedIsWoken
  AnsweredThreadGoesOn

CHECK_DEADLOCK FALSE
