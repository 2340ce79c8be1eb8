SPECIFICATION MCSpec
CONSTANTS
  Port = {p1}
  NoPort = NoPort
  SyncMode = {"master"}
INVARIANTS
  TypeOK
  DescriptorInUse
  JoinedStopIsQuiet
  NoTornFrame
  NoOrphanStream
PROPERTIES
  SerialSessionEnds
