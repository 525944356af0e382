SPECIFICATION Spec
CONSTANTS
  IntMax <- MCIntMax
  StatusCodes <- OneStatusCode
  Calls = {c1, c2}
  Arguments <- ContendingArguments
  MaxThreads = 3
  MaxSends = 1
  None = None
  Threw = Threw
SYMMETRY CallSymmetry
INVARIANTS
  ThrowLeavesNoRetries
  EnoughThreads
CHECK_DEADLOCK FALSE
