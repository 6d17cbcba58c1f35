SPECIFICATION EnvSpec
CONSTANTS
  npage = 7
  nboot = 2
  Idx = {0, 1}
  RefMax = 3
  Zero = Zero
  NoFault = NoFault
  NULL = NULL
  ENV_FREE = ENV_FREE
  ENV_RUNNABLE = ENV_RUNNABLE
  NENV = 2
  TlbSize = 1
  UserVa <- MCUserVa
  Perms <- MCPerms
  LowVa = {}
  EnvZone = {}
  UserIdx = {1}
  UserWords <- MCUserWords
INVARIANTS
  EnvTypeOK
  SlotsExact
  IdsResolve
  MemoryExact
PROPERTIES
  OthersKeepMemory
