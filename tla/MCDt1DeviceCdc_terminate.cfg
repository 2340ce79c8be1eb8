SPECIFICATION SteadySpec
CONSTANTS
  Port = {p1}
  NoPort = NoPort
  SyncMode = {"master"}
INVARIANTS
  NeverTerminates
