SPECIFICATION FairSpec
CONSTANTS
  Capacities = {small, large}
INVARIANTS
  UsableAfterDeploy
PROPERTIES
  CustodyKept
  DestroyComplete
  Converges
