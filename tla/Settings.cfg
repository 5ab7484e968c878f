SPECIFICATION SettingsSpec
CONSTANTS
  NotGiven = NotGiven
  Plain <- MCPlain
  Pages = {"about"}
  Hash = "abc123"
  Tomls <- MCTomls
  Stages = {"dev", "dev-shop"}
  ContainerNames = {"web", "shop"}
  Contents <- MCFiles
  Project = "shop"
  Namespace = "pocket"
  Spelling <- MCSpelling
  Camel <- MCCamel
  Capital <- MCCapital
INVARIANTS
  StoresApart
  CleanupSparesLive
  ReadsServed
  OneValue
  UploadsApart
  FilesServed
  ReferencesResolve
  DeclaredIsBackedUp
CHECK_DEADLOCK FALSE
