SPECIFICATION Spec
CONSTANTS
  Urls = {u1}
  Queries = {}
  Cookies = {}
  Reach <- MCReach
  Auths = {a1}
  Texts = {}
  Pins = {}
  Policies = {r1}
  Timeouts <- MCTimeouts
  Objects = {}
  Lists = {}
  Values = {}
  Headers = {}
  Statuses <- MCStatuses
  Lower <- MCLower
  LongMax <- MCLongMax
  Http2 = FALSE
  Empty = empty
  Blank = blank
  None = none
  Gone = gone
  Damaged = damaged
INVARIANTS
  TypeOK
  TimeoutKept
  VersionReported
CHECK_DEADLOCK FALSE
