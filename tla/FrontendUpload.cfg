SPECIFICATION FairSpec
CONSTANTS
  Routes = {"app", "images"}
  Default = "app"
  Assets = "managed"
  Files = {"page", "script", "image", "robots"}
  RouteOf <- TheRouteOf
  Bodies = {1, 2}
  None = 0
  NoStore = {"page"}
  Huge = {"image"}
  Sources <- TheSources
  BuildsItself = {"app"}
  MaxCommits = 1
  MaxCuts = 1
INVARIANTS OutdatedIsPurged BucketMirrorsBuild
PROPERTIES Delivered
