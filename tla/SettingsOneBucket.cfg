SPECIFICATION SettingsSpec
CONSTANTS
  NotGiven = NotGiven
  Plain <- MCPlain
  Pages = {"about"}
  Hash = "abc123"
  Tomls <- MCTwoTomls
  Stages = {"dev", "dev-shop"}
  ContainerNames = {"web", "shop"}
  Contents <- MCFiles
  Project = "shop"
  Namespace = "pocket"
  Spelling <- MCSpelling
  Camel <- MCCamel
  Capital <- MCCapital
INVARIANTS
  BucketApart
CHECK_DEADLOCK FALSE
