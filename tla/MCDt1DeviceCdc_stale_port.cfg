SPECIFICATION LiveSpec
CONSTANTS
  Port = {p1, p2}
  NoPort = NoPort
  SyncMode = {"master"}
PROPERTIES
  KeepsLooking
