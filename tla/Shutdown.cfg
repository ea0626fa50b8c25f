CONSTANTS
  MAX_QUEUE_SIZE = 1
  SEND_BATCH_SIZE = 1
  MAX_SEND_RETRIES = 0
  MayRefuse = FALSE
  MaxOffered = 3
  ReplyStatuses <- AcceptOrDiscard
  QueueMaxSize = 2
  BatchSize = 2
  MaxSendRetries = 1
  MayDefyJson = FALSE
  MaxCalls = 3
  MaxFlushes = 1
  MaxSignals = 1
SPECIFICATION ShutdownSpec
INVARIANTS
  NormalExitDrains
  QueueBounded
  FlushSeesAll
  DropsOnRecord
PROPERTIES
  ProcessEnds
CHECK_DEADLOCK FALSE
