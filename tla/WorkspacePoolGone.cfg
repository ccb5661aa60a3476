\* A client goes away while its handler awaits, and its database is closed.
CONSTANTS
  p1 = p1
  p2 = p2
  p3 = p3
  h1 = h1
  h2 = h2
  h3 = h3
  r1 = r1
  r2 = r2
  none = none
  Profiles = {p1, p2}
  Handles = {h1, h2, h3}
  Requests = {r1, r2}
  None = none
  MaxOpen = 1
  First = p1
SPECIFICATION Spec
INVARIANTS
  HandlerKeepsDatabase
CHECK_DEADLOCK FALSE
