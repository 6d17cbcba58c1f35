SPECIFICATION FairSpec
CONSTANTS
  Elem = {e1, e2, e3, e4}
  ListHead = {h1, h2}
  NULL = NULL
INVARIANTS
  TypeOK
  Linked
PROPERTIES
  TailEnds
