SPECIFICATION Spec
CONSTANTS
  Thread = {r1, r2}
  User = {u1, u2}
  Name = {n}
  Diagram = {d1, d2}
  Default = default
  None = none
  Empty = Empty
  Broken = Broken
  MaxRequests = 6
  MaxOverlaps = 1
  MaxRestarts = 1
INVARIANTS TypeOK InOwnPlaces RunsItsDiagram MirrorsFolder
PROPERTIES DiagramsKept
SYMMETRY Interchangeable
CHECK_DEADLOCK FALSE
