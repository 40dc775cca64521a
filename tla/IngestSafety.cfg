SPECIFICATION Spec
CONSTANTS
  DBWriter = {}
  StateWriter = {s1, s2}
  AlertEvaluator = {a1}
  DBSize = 2
  StateSize = 1
  AlertSize = 1
  DBBatchSize = 2
  StateBatchSize = 2
  v1 = v1
  v2 = v1
  Vehicle = {v1}
  VehicleOf <- MCVehicleOf
  MaxMsgs = 2
  MaxRejects = 1
  MaxRetries = 1
CHECK_DEADLOCK FALSE
INVARIANTS
  TypeOK
  ExactlyOnePlace
  CurrentState
