SPECIFICATION Spec
CONSTANTS
  npage = 12
  nboot = 2
  Idx = {0, 1, 2}
  BY2PG = 3
  RefMax = 9
  Zero = Zero
  NULL = NULL
  Programs <- MCPlain
  Taken = {6}
  Garbage = {0}
  Wrap = 64
INVARIANT
  ResultTellsFailure
