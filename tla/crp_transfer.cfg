CONSTANTS
  MaxData = 2
  Lengths = {2, 6, 8}
  MaxCommands = 1
  ClientWindow = 2
  ServerWindow = 2
  MaxTries = 2
  MoreTries = 1
  MaxDrift = 1
  MaxServed = 1
  None = None
SPECIFICATION Spec
INVARIANTS TypeOK ContentIsPrefix WindowKept Whole
PROPERTIES CommandEnds ImplementsFileDelivery
CHECK_DEADLOCK FALSE
