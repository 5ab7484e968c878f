SPECIFICATION Spec
CONSTANTS
  Containers = {c1, c2}
  Keys = {k1, k2}
  PairKeys = {}
  Project = project
  None = none
  Store = "sm"
  Moves <- AllMoves
  MaxEvents = 2
SYMMETRY Permuted
INVARIANTS RotationEffective ServedAfterDeploy
PROPERTIES ValueKept MigrationKeepsValue
