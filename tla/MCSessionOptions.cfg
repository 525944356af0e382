SPECIFICATION Spec
CONSTANTS
  Urls = {u1, u2}
  Queries = {q1, empty}
  Cookies = {k1}
  Reach <- MCReach
  Auths = {a1}
  Texts = {t1, empty}
  Pins = {p1, empty}
  Policies = {r1}
  Timeouts = {}
  Objects = {o1, o2}
  Lists = {}
  Values = {}
  Headers = {}
  Statuses <- MCStatuses
  Lower <- MCLower
  LongMax <- MCLongMax
  Http2 = TRUE
  Empty = empty
  Blank = blank
  None = none
  Gone = gone
  Damaged = damaged
INVARIANTS
  NoDanglingUse
PROPERTIES
  RepeatsItself
  ImplementsContract
CHECK_DEADLOCK FALSE
