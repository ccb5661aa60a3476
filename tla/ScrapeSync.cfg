\* Two profiles, two syncs of three connections, one permit, a store that can fail.
CONSTANTS
  Profiles = {p1, p2}
  Runs = {r1, r2}
  Conns = {c1, c2, c3}
  Permits = 1
  StoreFails = TRUE
SPECIFICATION FairSpec
INVARIANTS PermitsAreSound RunningMeansSyncing
PROPERTIES EverybodyGetsOn
\* Every request may be answered.
CHECK_DEADLOCK FALSE
