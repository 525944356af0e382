SPECIFICATION Spec
CONSTANTS
  Keys <- MCTexts
  Values <- MCValues
  Urls <- MCUrls
  HighAlnum <- MCHighAlnum
  MaxParameters = 3
INVARIANTS
  TypeOK
  ServerUnderstands
  MergesOneAtMost
CHECK_DEADLOCK FALSE
