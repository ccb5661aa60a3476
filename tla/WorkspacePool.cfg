\* Three profiles, a cap of one, two requests, three opens; no symmetry under liveness.
CONSTANTS
  p1 = p1
  p2 = p2
  p3 = p3
  h1 = h1
  h2 = h2
  h3 = h3
  r1 = r1
  r2 = r2
  none = none
  Profiles = {p1, p2, p3}
  Handles = {h1, h2, h3}
  Requests = {r1, r2}
  None = none
  MaxOpen = 1
  First = p1
SPECIFICATION FairSpec
INVARIANTS
  ConnectedRequestKeepsDatabase
  HandlesAreSound
  OperationKeepsDatabase
PROPERTIES
  CapYieldsOnlyToUse
  OpensHoldNobodyUp
CHECK_DEADLOCK FALSE
