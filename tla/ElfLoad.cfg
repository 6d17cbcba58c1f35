SPECIFICATION FairSpec
CONSTANTS
  npage = 12
  nboot = 2
  Idx = {0, 1, 2}
  BY2PG = 3
  RefMax = 9
  Zero = Zero
  NULL = NULL
  Programs <- MCPrograms
  Taken = {0, 3, 4, 5, 6, 7, 8, 9}
  Garbage = {0, 2, 20, 61}
  Wrap = 64
INVARIANTS
  TypeOK
  MemoryExact
  ProgramLoaded
PROPERTIES
  LoadEnds
