SPECIFICATION FairSpec
CONSTANTS
  LP_MAX_BUF = 12
  Wrap = 256
  Work <- MCWork
  Char <- MCChar
INVARIANTS
  PrintkTypeOK
  OutputExact
PROPERTIES
  PrintEnds
\* printf's caller is not modelled, and _panic ends in for(;;).
CHECK_DEADLOCK FALSE
