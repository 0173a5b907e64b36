SPECIFICATION Spec
CONSTANTS
  Elements = {e1, e2}
  Size = 4
  W = 8
  NULL = NULL
INVARIANTS
  TypeOK
  CursorsInRange
  NoOverwrite
PROPERTY ImplementsQueue
