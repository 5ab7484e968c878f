SPECIFICATION FairSpec
CONSTANTS
  Owners = {"dev", "prod"}
  Guests = {"other"}
  Projects <- TheProjects
  Overridden = {"prod"}
  Roots = {"dev"}
  Failing = {"cloudfront"}
  Leaving = {"dev", "other"}
  MaxDeploys = 1
  MaxCuts = 1
INVARIANTS ConsumersAreTagged EndedDestroyIsClean
PROPERTIES DestroyInOrder LeaversLeave
CHECK_DEADLOCK FALSE
