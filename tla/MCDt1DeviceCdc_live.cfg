SPECIFICATION LiveSpec
CONSTANTS
  Port = {p1}
  NoPort = NoPort
  SyncMode = {"master", "slave"}
PROPERTIES
  CallsReturn
  KeepsLooking
