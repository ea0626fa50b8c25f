CONSTANTS
  MAX_QUEUE_SIZE = 1
  SEND_BATCH_SIZE = 2
  MAX_SEND_RETRIES = 0
  MayRefuse = FALSE
  MaxOffered = 3
  ReplyStatuses = {200, 400}
SPECIFICATION ExitSpec
INVARIANTS
  ExitDeclaresGaps
CHECK_DEADLOCK FALSE
