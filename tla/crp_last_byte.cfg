CONSTANTS
  MaxData = 2
  Lengths = {3}
  MaxCommands = 1
  ClientWindow = 1
  ServerWindow = 1
  MaxTries = 1
  MoreTries = 1
  MaxDrift = 1
  MaxServed = 1
  None = None
SPECIFICATION Spec
INVARIANTS Whole
CHECK_DEADLOCK FALSE
