CONSTANTS
  QueueMaxSize = 2
  BatchSize = 2
  MaxSendRetries = 0
  MayDefyJson = TRUE
  MaxCalls = 2
  MaxFlushes = 0
  MaxSignals = 0
SPECIFICATION PySpec
INVARIANTS
  LossIsVisible
CHECK_DEADLOCK FALSE
