SPECIFICATION Spec
CONSTANTS
  DBWriter = {d1}
  StateWriter = {}
  AlertEvaluator = {}
  DBSize = 1
  StateSize = 2
  AlertSize = 2
  DBBatchSize = 1
  StateBatchSize = 1
  v1 = v1
  v2 = v1
  Vehicle = {v1}
  VehicleOf <- MCVehicleOf
  MaxMsgs = 2
  MaxRejects = 0
  MaxRetries = 0
CHECK_DEADLOCK FALSE
INVARIANTS
  FansOutWithoutDropping
