SPECIFICATION FairSpec
CONSTANTS
  BY2PG = 4
  UPAGES = 2
  UENVS = 1
  Machines <- MCMachines
INVARIANTS
  BootTypeOK
  ChunksApart
  MapsExact
  HandOver
PROPERTIES
  BootEnds
\* page_init returns to mips_init, alloc's panic never does.
CHECK_DEADLOCK FALSE
