SPECIFICATION FairSpec
CONSTANTS
  Payload <- MCPayload
  MaxRecvs = 3
  MaxSent = 3
INVARIANTS TypeOK NothingLost
PROPERTIES StreamSpec Delivered
CHECK_DEADLOCK FALSE
