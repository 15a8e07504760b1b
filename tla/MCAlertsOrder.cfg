SPECIFICATION MCSpec
CONSTANTS
  Float <- MCFloat
  Documents <- MCDocuments
  Text <- MCText
  Lists <- MCLists
  End = 5
  MaxInt = 32767
  Millisecond = 10
  Factor <- MCFactor
  Texts <- MCTexts
INVARIANT Chronological
CHECK_DEADLOCK FALSE
