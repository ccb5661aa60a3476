\* Three leases, two promises, one listener; three workspaces and two operations; three
\* scrapes that share two permits; two profiles with two alerts each, and two ticks.
CONSTANTS
  Leases = {l1, l2, l3}
  Waiters = {w1, w2}
  Listeners = {x1}
  NoLease = none
  Ids = {p1, p2, p3}
  Global = profiles
  HubKinds = {"syncing", "backingUp"}
  Scrapes = {s1, s2, s3}
  Permits = 2
  Profiles = {a, b}
  Keys = {1, 2}
  Ticks = {t1, t2}
  PerTick = 1
  None = None
SPECIFICATION MCSpec
INVARIANTS
  CoordinatorIsSound
PROPERTIES
  AggregateIsTrue
  ImplementsGate
  WaitersAreReleased
  BrowsersAreClosed
  AlertsArriveOnce
\* Everything may be closed.
CHECK_DEADLOCK FALSE
