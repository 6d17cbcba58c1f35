SPECIFICATION FairSpec
CONSTANTS
  npage = 6
  nboot = 2
  Idx = {0, 1}
  RefMax = 3
  Zero = Zero
  NoFault = NoFault
  NENV = 1
  TlbSize = 1
  UserVa <- MCUserVa
  Perms <- MCPerms
  LowVa <- MCLowVa
  EnvZone <- MCEnvZone
  UserIdx = {1}
  UserWords <- MCUserWords
INVARIANTS
  TypeOK
  FreeListExact
  RefCountExact
  TablesPrivate
  TlbCoherent
  AllocatedPagesClear
PROPERTIES
  RefillEnds
  ImplementsAddrSpace
