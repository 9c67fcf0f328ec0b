CONSTANTS
  MaxLoss = 1
  MaxDamage = 0
  Tries = 3
  CloseTries = 2
  Acks = 2
  Fins = 2
  MaxCommands = 3
  MaxInterrupts = 0
  QuickUser = FALSE
  Prompt = TRUE
SPECIFICATION LiveSpec
INVARIANTS TypeOK EndsAgree WaitsWithTimeout ServerEndsWhenAsked
PROPERTIES CommandReturns ShutdownEnds
CHECK_DEADLOCK FALSE
