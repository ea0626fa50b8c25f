CONSTANTS
  MAX_QUEUE_SIZE = 2
  SEND_BATCH_SIZE = 2
  MAX_SEND_RETRIES = 0
  MayRefuse = FALSE
  MaxOffered = 2
  ReplyStatuses = {200, 400}
SPECIFICATION Spec
INVARIANTS
  HeadLossDetected
