SPECIFICATION Spec
CONSTANTS
  IntMax <- MCIntMax
  StatusCodes <- MCStatusCodes
  Calls = {c1}
  Arguments <- OneCallArguments
  MaxThreads = 1
  MaxSends = 2
  None = None
  Threw = Threw
INVARIANTS
  TypeOK
  Bookkeeping
  BoundedDelivery
  GivesUpOnlyWhenDue
  WaitBounded
PROPERTIES
  RetryJustified
  StepsRunOut
  ImplementsContract
CHECK_DEADLOCK FALSE
