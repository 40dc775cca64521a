SPECIFICATION Spec
CONSTANTS
  Evaluator = {e1, e2}
  Vehicle = {v1}
  Rule = {1, 2}
  Window = 2
  MaxTime = 3
  Nobody = Nobody
  MaxCrashes = 1
SYMMETRY Evaluators
INVARIANTS
  TypeOK
  ClaimsExclusive
  HeldKeyHasRow
  PublishedIsStored
