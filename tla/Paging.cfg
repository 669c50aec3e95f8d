SPECIFICATION PagingSpec
CONSTANTS
  Keys <- TwoKeys
  RowCount = 3
  Limit = 1
  Changes = 2
INVARIANT
  StayersSeenOnce
CHECK_DEADLOCK FALSE
