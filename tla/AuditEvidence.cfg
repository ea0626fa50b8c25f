CONSTANTS
  MAX_QUEUE_SIZE = 2
  SEND_BATCH_SIZE = 2
  MAX_SEND_RETRIES = 0
  MayRefuse = TRUE
  MaxOffered = 4
  ReplyStatuses = {200, 403}
SPECIFICATION Spec
INVARIANTS
  CleanMeansComplete
  IncompleteIsDeclared
  OverflowKeepsChain
