SPECIFICATION FairSpec
CONSTANTS
  IntMax <- MCIntMax
  StatusCodes <- MCStatusCodes
  Calls = {c1}
  Arguments <- OneCallArguments
  MaxThreads = 1
  MaxSends = 2
  None = None
  Threw = Threw
PROPERTIES
  LimitedCallsReturn
  LimitedRetriesEnd
CHECK_DEADLOCK FALSE
