SPECIFICATION Spec
CONSTANTS
  Names = {"Age", "age", "Via"}
  Reasons = {"HTTP/1.1 200 OK"}
  Lower <- MCLower
  Characters <- MCCharacters
  Values <- MCValues
  Blank = blank
  CR = cr
  Codes = {200, 302}
  MaxLines = 5
  None = none
INVARIANTS
  TypeOK
  LastValues
  OneResponse
  ValuesTrimmed
CHECK_DEADLOCK FALSE
