CONSTANTS
  MaxLoss = 0
  MaxDamage = 1
  Tries = 3
  CloseTries = 2
  Acks = 2
  Fins = 2
  MaxCommands = 2
  MaxInterrupts = 1
  QuickUser = TRUE
  Prompt = TRUE
SPECIFICATION LiveSpec
INVARIANTS SocketExclusive
PROPERTIES InterruptEnds
CHECK_DEADLOCK FALSE
