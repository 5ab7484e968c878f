---------------------------- MODULE FrontendUpload ----------------------------
(* The frontend of a stage: pocket builds each route, brings the prefix of  *)
(* the route in the bucket to what the build directory holds, and asks      *)
(* CloudFront to forget the paths of the routes that changed.  The stage's  *)
(* own files (managed_assets) are put beside them.  A run may be cut off    *)
(* between any two calls; the next one compares contents and nothing else.  *)
EXTENDS FiniteSets, Naturals

CONSTANTS
  Routes,       \* the uploadable routes of the distribution
  Default,      \* the one with the empty path_pattern, if it is uploadable
  Assets,       \* stands for managed_assets: the prefix pocket_managed/
  Files, RouteOf,  \* the files that a build may hold, and whose they are
  Bodies, None, \* contents; no such file
  NoStore,      \* the pages of SPA routes
  Huge,         \* files above the multipart threshold
  Sources,      \* what there may be to build: functions from Files
  BuildsItself, \* the routes with a build command
  MaxCommits, MaxCuts

ASSUME RoutesAssumption ==
  /\ Assets \notin Routes /\ Routes # {}
  /\ RouteOf \in [Files -> Routes \cup {Assets}]
  /\ Sources # {} /\ Sources \subseteq [Files -> Bodies \cup {None}]
  /\ None \notin Bodies
ASSUME SetsAssumption ==
  NoStore \subseteq Files /\ Huge \subseteq Files /\ BuildsItself \subseteq Routes
ASSUME BoundsAssumption == MaxCommits \in Nat /\ MaxCuts \in Nat

VARIABLES
  source,   \* the commit: what a build makes
  local,    \* what the build directories and managed_assets hold
  bucket,   \* the objects
  opaque,   \* the objects whose ETag is not the MD5 of their content
  edge,     \* what CloudFront keeps
  purges,   \* invalidations requested and not yet carried out, by route
  pc,       \* the step of the run
  todo,     \* the routes it has not come to
  route,    \* the one it is at
  pending,  \* the files of this route that are not yet compared
  touched,  \* something of this route was put or deleted
  changed,  \* the routes where something was
  ended,    \* the last run ended well, and nothing was built since
  cut,      \* the routes a run had changed when it was cut off
  commits, cuts

config == <<source, commits>>
remote == <<bucket, opaque, edge, purges>>
run == <<pc, todo, route, pending, touched, changed>>
vars == <<source, local, remote, run, ended, cut, commits, cuts>>

FilesOf(r) == {f \in Files : RouteOf[f] = r}
Everywhere == Routes \cup {Assets}

TypeOK ==
  /\ source \in Sources
  /\ local \in [Files -> Bodies \cup {None}]
  /\ bucket \in [Files -> Bodies \cup {None}]
  /\ edge \in [Files -> Bodies \cup {None}]
  /\ opaque \subseteq Files /\ purges \subseteq Routes
  /\ pc \in {"idle", "assets", "route", "build", "sync", "delete", "invalidate"}
  /\ todo \subseteq Routes /\ route \in Everywhere
  /\ pending \subseteq FilesOf(route) /\ changed \subseteq Routes
  /\ touched \in BOOLEAN /\ ended \in BOOLEAN /\ cut \subseteq Routes
  /\ commits \in 0..MaxCommits /\ cuts \in 0..MaxCuts
  /\ pc \in {"build", "sync", "delete"} => route \notin todo

(* A bucket as an earlier version left it: objects above 8 MB were uploaded *)
(* in parts.                                                                *)
Init ==
  /\ source \in Sources /\ local = source
  /\ bucket = source /\ opaque \in {Huge, {f \in Files : source[f] # None}}
  /\ edge = [f \in Files |-> None] /\ purges = {}
  /\ pc = "idle" /\ todo = {} /\ route = Assets /\ pending = {}
  /\ touched = FALSE /\ changed = {} /\ ended = FALSE /\ cut = {}
  /\ commits = 0 /\ cuts = 0

-----------------------------------------------------------------------------
(* What others do: a commit, the build of a route that pocket only uploads. *)

Commit ==
  /\ pc = "idle" /\ commits < MaxCommits
  /\ source' \in Sources \ {source}
  /\ commits' = commits + 1 /\ ended' = FALSE
  /\ local' = [f \in Files |-> IF RouteOf[f] = Assets THEN source'[f] ELSE local[f]]
  /\ UNCHANGED <<remote, run, cut, cuts>>

Built(r) == [f \in Files |-> IF RouteOf[f] = r THEN source[f] ELSE local[f]]

BuildOutside(r) ==
  /\ pc = "idle" /\ r \notin BuildsItself /\ Built(r) # local
  /\ local' = Built(r) /\ ended' = FALSE
  /\ UNCHANGED <<config, remote, run, cut, cuts>>

-----------------------------------------------------------------------------
(* CloudFront.                                                              *)

Fetch(f) ==
  /\ edge[f] = None /\ bucket[f] # None /\ f \notin NoStore
  /\ edge' = [edge EXCEPT ![f] = bucket[f]]
  /\ UNCHANGED <<config, local, bucket, opaque, purges, run, ended, cut, cuts>>

Expire(f) ==
  /\ edge[f] # None
  /\ edge' = [edge EXCEPT ![f] = None]
  /\ UNCHANGED <<config, local, bucket, opaque, purges, run, ended, cut, cuts>>

(* "/*" for the default route, the path_pattern for another.                *)
Covers(r, f) == r = Default \/ RouteOf[f] = r

CarryOut(r) ==
  /\ r \in purges
  /\ purges' = purges \ {r}
  /\ edge' = [f \in Files |-> IF Covers(r, f) THEN None ELSE edge[f]]
  /\ UNCHANGED <<config, local, bucket, opaque, run, ended, cut, cuts>>

-----------------------------------------------------------------------------
(* The run.                                                                 *)

StepTo(step) == pc' = step

(* `pocket deploy` from upload_managed_assets on, and the command           *)
(* `cloudfront upload`.                                                     *)
Deploy ==
  /\ pc = "idle" /\ StepTo("assets")
  /\ todo' = Routes /\ changed' = {} /\ touched' = FALSE
  /\ route' = Assets /\ pending' = {f \in FilesOf(Assets) : local[f] # None}
  /\ ended' = FALSE
  /\ UNCHANGED <<config, local, remote, cut, cuts>>

Upload ==
  /\ pc = "idle" /\ StepTo("route")
  /\ todo' = Routes /\ changed' = {} /\ ended' = FALSE
  /\ UNCHANGED <<config, local, remote, route, pending, touched, cut, cuts>>

Put(f) ==
  /\ bucket' = [bucket EXCEPT ![f] = local[f]]
  /\ opaque' = IF f \in Huge THEN opaque \cup {f} ELSE opaque \ {f}
Discard(f) ==
  /\ bucket' = [bucket EXCEPT ![f] = None]
  /\ opaque' = opaque \ {f}

Stale(r) == {f \in FilesOf(r) : bucket[f] # None /\ local[f] = None}

PutAsset(f) ==
  /\ pc = "assets" /\ f \in pending
  /\ Put(f) /\ pending' = pending \ {f}
  /\ UNCHANGED <<config, local, edge, purges, pc, todo, route, touched, changed, ended, cut, cuts>>

DeleteAsset(f) ==
  /\ pc = "assets" /\ pending = {} /\ f \in Stale(Assets)
  /\ Discard(f)
  /\ UNCHANGED <<config, local, edge, purges, run, ended, cut, cuts>>

(* --skip-frontend ends the deploy here.                                    *)
AssetsDone(skipFrontend) ==
  /\ pc = "assets" /\ pending = {} /\ Stale(Assets) = {}
  /\ StepTo(IF skipFrontend THEN "idle" ELSE "route")
  /\ todo' = IF skipFrontend THEN {} ELSE todo
  /\ UNCHANGED <<config, local, remote, route, pending, touched, changed, ended, cut, cuts>>

TakeRoute(r) ==
  /\ pc = "route" /\ r \in todo
  /\ StepTo("build") /\ route' = r /\ todo' = todo \ {r}
  /\ touched' = FALSE /\ pending' = {}
  /\ UNCHANGED <<config, local, remote, changed, ended, cut, cuts>>

(* The build command, unless there is none or --skip-build is given; then   *)
(* the objects under the prefix are listed.                                 *)
Build(skipBuild) ==
  /\ pc = "build" /\ StepTo("sync")
  /\ local' = IF skipBuild \/ route \notin BuildsItself THEN local ELSE Built(route)
  /\ pending' = {f \in FilesOf(route) : local'[f] # None}
  /\ UNCHANGED <<config, remote, todo, route, touched, changed, ended, cut, cuts>>

IsUnchangedMutant(f) == bucket[f] # None

IsUnchanged(f) == bucket[f] = local[f] /\ f \notin opaque
SyncFile(f) ==
  /\ pc = "sync" /\ f \in pending
  /\ pending' = pending \ {f}
  /\ IF IsUnchanged(f) THEN UNCHANGED <<bucket, opaque, touched>> ELSE Put(f) /\ touched' = TRUE
  /\ UNCHANGED <<config, local, edge, purges, pc, todo, route, changed, ended, cut, cuts>>

Synced ==
  /\ pc = "sync" /\ pending = {} /\ StepTo("delete")
  /\ UNCHANGED <<config, local, remote, todo, route, pending, touched, changed, ended, cut, cuts>>

DeleteStale(f) ==
  /\ pc = "delete" /\ f \in Stale(route)
  /\ Discard(f) /\ touched' = TRUE
  /\ UNCHANGED <<config, local, edge, purges, pc, todo, route, pending, changed, ended, cut, cuts>>
RouteDoneMutant ==
  /\ pc = "delete" /\ Stale(route) = {}
  /\ StepTo(IF todo = {} THEN "invalidate" ELSE "route")
  /\ changed' = IF touched THEN {route} ELSE changed
  /\ touched' = FALSE
  /\ UNCHANGED <<config, local, remote, todo, route, pending, ended, cut, cuts>>

RouteDone ==
  /\ pc = "delete" /\ Stale(route) = {}
  /\ StepTo(IF todo = {} THEN "invalidate" ELSE "route")
  /\ changed' = IF touched THEN changed \cup {route} ELSE changed
  /\ touched' = FALSE
  /\ UNCHANGED <<config, local, remote, todo, route, pending, ended, cut, cuts>>
Forgiven(paths) == IF Default \in paths THEN Routes ELSE paths

Invalidate ==
  /\ pc = "invalidate" /\ StepTo("idle")
  /\ purges' = purges \cup changed
  /\ changed' = {} /\ ended' = TRUE
  /\ cut' = cut \ Forgiven(changed)
  /\ UNCHANGED <<config, local, bucket, opaque, edge, todo, route, pending, touched, cuts>>
(* A build command fails, a call is refused, or the run is killed: the list *)
(* of what changed is lost.                                                 *)
Changed == changed \cup (IF touched /\ route \in Routes THEN {route} ELSE {})

CutOff ==
  /\ pc # "idle" /\ cuts < MaxCuts
  /\ StepTo("idle") /\ cuts' = cuts + 1
  /\ cut' = cut \cup Changed
  /\ todo' = {} /\ changed' = {} /\ pending' = {} /\ touched' = FALSE
  /\ UNCHANGED <<config, local, remote, route, ended>>

-----------------------------------------------------------------------------
Steps ==
  \/ \E f \in Files : PutAsset(f) \/ DeleteAsset(f) \/ SyncFile(f) \/ DeleteStale(f)
  \/ AssetsDone(FALSE) \/ Build(FALSE) \/ Synced \/ RouteDone \/ Invalidate
  \/ \E r \in Routes : TakeRoute(r)

Next ==
  \/ Commit \/ Deploy \/ Upload \/ Steps \/ CutOff
  \/ AssetsDone(TRUE) \/ Build(TRUE)
  \/ \E r \in Routes : BuildOutside(r) \/ CarryOut(r)
  \/ \E f \in Files : Fetch(f) \/ Expire(f)

Spec == Init /\ [][Next]_vars

(* The run goes on, CloudFront carries out what was asked for, and somebody *)
(* deploys again, which is what a CI does with every push.  Nothing is      *)
(* assumed of expiry: the assets of an SPA are kept for a year.             *)
FairSpec ==
  /\ Spec
  /\ WF_vars(Steps) /\ SF_vars(Deploy) /\ SF_vars(AssetsDone(FALSE))
  /\ \A r \in Routes : /\ SF_vars(route = r /\ Build(FALSE))
                        /\ WF_vars(CarryOut(r)) /\ SF_vars(BuildOutside(r))

-----------------------------------------------------------------------------
Outdated(f) == edge[f] # None /\ edge[f] # bucket[f]

(* The keys of S3 are compared with the ETag only, and only changed routes  *)
(* are invalidated: still CloudFront keeps nothing outdated that no         *)
(* invalidation of its own, requested or about to be, will remove.  The     *)
(* exception is a route that a run had changed when it was cut off.         *)
OutdatedIsPurged ==
  \A f \in Files : Outdated(f) /\ RouteOf[f] # Assets =>
    \/ \E r \in purges : Covers(r, f)
    \/ RouteOf[f] \in Changed \cup cut

(* After an upload that ends well the prefixes of all routes hold what was  *)
(* built, whatever earlier runs left there.                                 *)
BucketMirrorsBuild ==
  ended => \A f \in Files : RouteOf[f] # Assets => bucket[f] = local[f]

(* What a viewer gets.                                                      *)
Served(f) == IF edge[f] = None THEN bucket[f] ELSE edge[f]

(* When nobody commits any more and deploying goes on, viewers come to get  *)
(* the last commit from every route, but for the routes of cut-off runs.    *)
Delivered ==
  <>[](\A f \in Files : RouteOf[f] \in Routes \ cut => Served(f) = source[f])

(* docs/guide/cli.md says that an upload builds, uploads and invalidates.   *)
(* So after one that ends well, and its invalidations, viewers would get    *)
(* what was built.                                                          *)
UploadDelivers ==
  ended /\ purges = {} =>
    \A f \in Files : RouteOf[f] # Assets => Served(f) = local[f]
=============================================================================
