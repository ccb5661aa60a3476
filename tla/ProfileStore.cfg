\* Restores that follow each other, fail and are cut short, three rollback files at most; a
\* store of three ids and names with every crash; a first start over an installation that
\* changes twice; two profiles written twice and copied twice, of which one copy
\* is kept.
SPECIFICATION MCSpec
CONSTANTS
  Contents = {d1, d2, d3}
  None = none
  Torn = torn
  Litter = 3
  Ids = {u1, u2, u3}
  Names = {main, n2, n3}
  Main = main
  FirstIds = {f1, f2, f3}
  MaxVersions = 2
  Profiles = {a, b}
  Keep = 1
  MaxWrites = 2
  MaxCopies = 2
SYMMETRY IdSymmetry
INVARIANTS
  DataIsSafe
  ListIsTrue
  AnsweredIsDurable
  InstallIsCovered
PROPERTIES
  FailedRestoreKeepsOriginal
  ReplacesAtomically
  FirstStartIsSafe
\* The ids of a part may be used up.
CHECK_DEADLOCK FALSE
