SPECIFICATION Spec
CONSTANTS
  n1 = n1
  n2 = n2
  a = a
  b = b
  p1 = p1
  p2 = p2
  empty = empty
  absent = absent
  own = own
  poseA = poseA
  poseB = poseB
  Node = {n1, n2}
  Camera = {a, b}
  Other = Other
  Nobody = Nobody
  Ports <- MCPorts
  Want <- MCWant
  Alike <- MCAlike
  Format <- MCFormat
  FileOf <- MCFileOf
  File <- MCFile
  Default = Default
  Identity = Identity
  Empty = empty
  Absent = absent
  InitParams <- MCInitParams
  ParamLists <- MCParamLists
  Dots <- MCDots
  EndTimes <- MCEndTimes
  SampleLists <- MCSampleLists
  HostAhead = 100
  RowSize = 1
  Width = 9
  IntWidth = 7
CONSTRAINT Focus
INVARIANTS TimeOfEveryDot
