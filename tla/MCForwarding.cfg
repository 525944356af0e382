SPECIFICATION Spec
CONSTANT Passable <- MCPassable
INVARIANTS
  TypeOK
  Custody
  NoDanglingUse
  RetryDiffersOnlyWhere
  KeepsCallersOptions
  PolicyReachesLoop
CHECK_DEADLOCK FALSE
