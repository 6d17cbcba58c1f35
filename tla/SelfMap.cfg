SPECIFICATION SelfMapSpec
CONSTANTS
  npage = 6
  nboot = 2
  Idx = {0, 1}
  RefMax = 3
  Zero = Zero
  NoFault = NoFault
  NENV = 2
  UVPT = 2
  TlbSize = 1
  UserVa <- MCUserVa
  Perms <- MCPerms
  LowVa = {}
  EnvZone = {}
  UserIdx = {1}
  UserWords <- MCUserWords
INVARIANTS
  WindowTrue
  RefCountExact
  TablesPrivate
PROPERTIES
  ImplementsAddrSpace
