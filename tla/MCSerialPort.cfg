SPECIFICATION FairSpec
CONSTANTS
  Thread = {t1, t2}
  NoThread = NoThread
  M = 2
  ReadSize = 2
  MaxLine = 2
  Command = 2
  InSize = 1
  OutSize = 1
  MaxFd = 1
  Baud = 25000000
INVARIANTS TypeOK LinesWhole CommandsWhole NoFalseDisconnect
PROPERTIES StreamInOrder CallsEnd
