\* An asset whose rate arrives while the database is being replaced.
SPECIFICATION Spec
CONSTANTS
  Writes = {v1, v2, a1}
  Assets = {a1}
INVARIANTS NoWriteLost
