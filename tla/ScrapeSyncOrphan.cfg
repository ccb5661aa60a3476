\* One profile whose sync fails while its second worker is at work.
SPECIFICATION Spec
CONSTANTS
  Profiles = {p1}
  Runs = {r1}
  Conns = {c1, c2, c3}
  Permits = 2
  StoreFails = TRUE
INVARIANTS WorkersHoldTheSlot
CHECK_DEADLOCK FALSE
