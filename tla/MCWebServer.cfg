SPECIFICATION Spec
CONSTANTS
  Conns = {c1, c2}
  Pieces = 2
  MaxPages = 3
INVARIANT OnePage
