SPECIFICATION FairSpec
CONSTANTS
  Containers = {c1}
  Keys = {k1, k2}
  PairKeys = {k1}
  Project = project
  None = none
  Store = "ssm"
  Moves <- AllMoves
  MaxEvents = 3
PROPERTIES Settles
