SPECIFICATION FairSpec
CONSTANTS
  DBWriter = {d1}
  StateWriter = {}
  AlertEvaluator = {a1}
  DBSize = 1
  StateSize = 2
  AlertSize = 1
  DBBatchSize = 2
  StateBatchSize = 2
  v1 = v1
  v2 = v1
  Vehicle = {v1}
  VehicleOf <- MCVehicleOf
  MaxMsgs = 2
  MaxRejects = 0
  MaxRetries = 0
CHECK_DEADLOCK FALSE
INVARIANTS
  ExactlyOnePlace
  AtMostTwoRows
PROPERTIES
  EventuallySettled
  GoroutinesReturn
  KeepsContract
