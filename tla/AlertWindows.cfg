SPECIFICATION FaultFreeSpec
CONSTANTS
  Evaluator = {e1, e2}
  Vehicle = {v1}
  Rule = {1}
  Window = 2
  MaxTime = 6
  Nobody = Nobody
  MaxCrashes = 0
SYMMETRY Evaluators
INVARIANTS
  WindowsMatch
