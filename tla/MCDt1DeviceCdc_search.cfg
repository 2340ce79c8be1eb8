SPECIFICATION LiveSpec
CONSTANTS
  Port = {p1}
  NoPort = NoPort
  SyncMode = {"master"}
PROPERTIES
  SearchGoesOn
