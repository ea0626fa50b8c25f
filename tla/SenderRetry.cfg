CONSTANTS
  MAX_QUEUE_SIZE = 2
  SEND_BATCH_SIZE = 2
  MAX_SEND_RETRIES = 1
  MayRefuse = TRUE
  MaxOffered = 3
  ReplyStatuses = {200, 400, 403, 409, 503}
SPECIFICATION Spec
INVARIANTS
  TypeOK
  ProcessorAwake
  CountersBalance
  LossesDeclared
  NothingVanishes
  SignOrder
