SPECIFICATION Spec
CONSTANTS
  Socks = {s1, s2}
  Tgids = {g1, g2}
  Valid = {g1}
  Tuples = {c1, c2}
  MaxLinks = 2
  MaxSocks = 2
  CPort = TRUE
  NULL = NULL
INVARIANT ClosedLinkLeaves
