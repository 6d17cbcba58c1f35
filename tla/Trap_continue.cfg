SPECIFICATION Spec
CONSTANTS
  NENV = 2
  NASID = 4
  EnvNo <- MCEnvNo
  TlbSize = 2
  XNest = 2
  Schedulers = {"any"}
  NULL = NULL
INVARIANTS
  GoesOn
CHECK_DEADLOCK FALSE
