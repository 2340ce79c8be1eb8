SPECIFICATION Spec
CONSTANTS
  Port = {p1, p2}
  NoPort = NoPort
  SyncMode = {"master", "slave"}
SYMMETRY PortSymmetry
INVARIANTS
  TypeOK
  SerialExclusive
  StoppedIsQuiet
  NoTornFrame
  FrameAsRequested
  NoOrphanStream
PROPERTIES
  ImplementsSession
