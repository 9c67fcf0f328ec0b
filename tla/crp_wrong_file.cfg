CONSTANTS
  MaxData = 2
  Lengths = {2}
  MaxCommands = 2
  ClientWindow = 1
  ServerWindow = 1
  MaxTries = 1
  MoreTries = 1
  MaxDrift = 1
  MaxServed = 1
  None = None
SPECIFICATION Spec
INVARIANTS RightFile
CHECK_DEADLOCK FALSE
