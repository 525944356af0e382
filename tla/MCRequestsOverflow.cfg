SPECIFICATION Spec
CONSTANTS
  IntMax <- MCIntMax
  StatusCodes <- OneStatusCode
  Calls = {c1}
  Arguments <- OneCallArguments
  MaxThreads = 1
  MaxSends = 2
  None = None
  Threw = Threw
INVARIANT SleepsAsAnnounced
CHECK_DEADLOCK FALSE
