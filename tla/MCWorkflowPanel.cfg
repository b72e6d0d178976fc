SPECIFICATION Spec
CONSTANTS
  a = a  t0 = t0  t1 = t1  t2 = t2  b = b  p = p  q = q
  Input <- MCInput
  Task <- MCTask
  Output <- MCOutput
  FileLists <- MCFileLists
  Port <- MCPort
  inPorts <- MCinPorts
  outPorts <- MCoutPorts
  NoSpec = {t0}
  Nothing = Nothing
  NoPort = NoPort
  MaxEdges = 2
  MaxSlips = 1
INVARIANTS TypeOK InputBooks OutputBooks NoInputLost SettingsOnCanvas RecordsOfTheirTasks RefusedOnlyWhenFull
PROPERTIES OverlayEnds
