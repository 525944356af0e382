SPECIFICATION Spec
CONSTANTS
  Urls = {}
  Queries = {}
  Cookies = {}
  Reach <- MCReach
  Auths = {}
  Texts = {}
  Pins = {}
  Policies = {}
  Timeouts = {}
  Objects = {}
  Lists = {l1, l2}
  Values = {v1, empty, blank}
  Headers <- MCHeaders
  Statuses <- MCStatuses
  Lower <- MCLower
  LongMax <- MCLongMax
  Http2 = TRUE
  Empty = empty
  Blank = blank
  None = none
  Gone = gone
  Damaged = damaged
INVARIANTS
  ListOwned
  HeadersFollow
PROPERTIES
  ImplementsContract
CHECK_DEADLOCK FALSE
