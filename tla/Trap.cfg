SPECIFICATION FairSpec
CONSTANTS
  NENV = 2
  NASID = 4
  EnvNo <- MCEnvNo
  TlbSize = 2
  XNest = 2
  Schedulers = {"empty", "next"}
  NULL = NULL
INVARIANTS
  TrapTypeOK
  ContextKept
  XFramesKept
  InterruptsBack
  OwnPages
PROPERTIES
  EveryoneRuns
\* After the tree's own sched_yield the processor is in code not modelled.
CHECK_DEADLOCK FALSE
