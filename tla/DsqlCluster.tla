----------------------------- MODULE DsqlCluster -----------------------------
(* The Aurora DSQL cluster of a stage (resources/dsql.py, cli/dsql_cli.py)  *)
(* and its scheduled backups (resources/backup.py).  The cluster of a stage *)
(* is the one whose tag Name says so: a restore always makes a new cluster  *)
(* and then moves the name, in two calls.  Commands may be cut off between  *)
(* any two calls, a wait that runs out included.                            *)
EXTENDS FiniteSets, Naturals

CONSTANTS
  Clusters,   \* the clusters there will ever be
  Commands,   \* commands that run at a time
  None, Absent, Unread,
  MaxCuts

ASSUME ClustersAssumption == {None, Absent, Unread} \cap Clusters = {}
ASSUME MarksAssumption == Cardinality({None, Absent, Unread}) = 3
ASSUME BoundAssumption == MaxCuts \in Nat

VARIABLES
  state, name,     \* of each cluster: its status and its tag Name
  published,       \* the cluster whose endpoint the stored value holds
  functions,       \* the one whose endpoint the Lambda functions were given
  plan, legacy,    \* what each backup plan selects; Absent: there is no plan
  points,          \* the clusters with a completed recovery point
  job,             \* restore jobs, by the cluster each makes
  pc, seen, target, \* of each command: its step, Dsql.cluster, its job
  orphaned,        \* a destroy was cut off before it took the endpoint back
  cuts

cloud == <<state, name, published, functions, plan, legacy, points, job>>
vars == <<cloud, pc, seen, target, orphaned, cuts>>

Steps == {"idle", "find", "create", "active", "announce", "functions", "hook", "legacy",
          "plan", "select", "backup", "restore", "wait", "rename", "name", "endpoint",
          "deleted", "unpublish"}

TypeOK ==
  /\ state \in [Clusters -> {"none", "creating", "active", "deleting", "gone"}]
  /\ name \in [Clusters -> {"none", "current", "replaced"}]
  /\ published \in Clusters \cup {None} /\ functions \in Clusters \cup {None}
  /\ plan \in Clusters \cup {None, Absent} /\ legacy \in Clusters \cup {None, Absent}
  /\ points \subseteq Clusters
  /\ job \in [Clusters -> {"none", "running", "completed", "failed"}]
  /\ pc \in [Commands -> Steps] /\ seen \in [Commands -> Clusters \cup {None, Unread}]
  /\ target \in [Commands -> Clusters \cup {None}]
  /\ orphaned \in BOOLEAN /\ cuts \in 0..MaxCuts
  /\ \A c \in Clusters : state[c] \in {"none", "gone"} => name[c] = "none"

Exists(c) == state[c] \in {"creating", "active", "deleting"}
Fresh(c) == state[c] = "none" /\ job[c] = "none"
Named == {c \in Clusters : name[c] = "current"}

(* A new stage.                                                             *)
Init ==
  /\ state = [c \in Clusters |-> "none"] /\ name = [c \in Clusters |-> "none"]
  /\ published = None /\ functions = None
  /\ plan = Absent /\ legacy \in {Absent, None} /\ points = {}
  /\ job = [c \in Clusters |-> "none"]
  /\ pc = [p \in Commands |-> "idle"] /\ seen = [p \in Commands |-> Unread]
  /\ target = [p \in Commands |-> None]
  /\ orphaned = FALSE /\ cuts = 0

(* The first cluster of the list with the name; the order is not said.      *)
Found == IF Named = {} THEN {None} ELSE Named

(* Dsql.cluster is read once and remembered.                                *)
Seen(p) == IF seen[p] = Unread THEN Found ELSE {seen[p]}

Goto(p, step) == pc' = [pc EXCEPT ![p] = step]
Remember(p, c) == seen' = [seen EXCEPT ![p] = c]
Forget(p) == Remember(p, Unread)

-----------------------------------------------------------------------------
(* AWS.                                                                     *)

Activate(c) ==
  /\ state[c] = "creating" /\ state' = [state EXCEPT ![c] = "active"]
  /\ UNCHANGED <<name, published, functions, plan, legacy, points, job, pc, seen, target,
                 orphaned, cuts>>

Vanish(c) ==
  /\ state' = [state EXCEPT ![c] = "gone"] /\ name' = [name EXCEPT ![c] = "none"]
  /\ UNCHANGED <<published, functions, plan, legacy, points, job, pc, seen, target,
                 orphaned, cuts>>
FinishDelete(c) == state[c] = "deleting" /\ Vanish(c)

(* A replaced cluster, or a restored one nobody wants, is deleted by hand   *)
(* once nothing refers to it.                                               *)
DeleteByHand(c) ==
  /\ state[c] = "active" /\ name[c] # "current" /\ c \notin {published, functions}
  /\ Vanish(c)

ScheduledBackup(c) ==
  /\ c \in {plan, legacy} /\ state[c] = "active" /\ c \notin points
  /\ points' = points \cup {c}
  /\ UNCHANGED <<state, name, published, functions, plan, legacy, job, pc, seen, target,
                 orphaned, cuts>>

RestoreEnds(c, how) ==
  /\ job[c] = "running" /\ job' = [job EXCEPT ![c] = how]
  /\ state' = IF how = "completed" THEN [state EXCEPT ![c] = "active"] ELSE state
  /\ UNCHANGED <<name, published, functions, plan, legacy, points, pc, seen, target,
                 orphaned, cuts>>

-----------------------------------------------------------------------------
(* pocket deploy, as far as it touches the cluster.                         *)

Deploy(p) ==
  /\ pc[p] = "idle" /\ Goto(p, "find") /\ Forget(p)
  /\ UNCHANGED <<cloud, target, orphaned, cuts>>

(* PROGRESS: the deploy is refused.                                         *)
FindCluster(p) ==
  /\ pc[p] = "find"
  /\ \E c \in Found :
       /\ Remember(p, c)
       /\ Goto(p, IF c = None THEN "create"
                  ELSE IF state[c] = "active" THEN "functions" ELSE "idle")
  /\ UNCHANGED <<cloud, target, orphaned, cuts>>

CreateCluster(p, c) ==
  /\ pc[p] = "create" /\ Fresh(c) /\ Goto(p, "active")
  /\ state' = [state EXCEPT ![c] = "creating"] /\ name' = [name EXCEPT ![c] = "current"]
  /\ target' = [target EXCEPT ![p] = c]
  /\ UNCHANGED <<published, functions, plan, legacy, points, job, seen, orphaned, cuts>>

AwaitActive(p) ==
  /\ pc[p] = "active" /\ state[target[p]] = "active"
  /\ Goto(p, "announce") /\ Forget(p)
  /\ UNCHANGED <<cloud, target, orphaned, cuts>>

(* After create, as the hook of every deploy, and after a restore.          *)
PublishEndpoint(p) ==
  \E step \in {"announce", "hook", "endpoint"}, c \in Seen(p) :
    /\ pc[p] = step /\ Remember(p, c)
    /\ Goto(p, CASE step = "announce" -> "functions"
                 [] step = "hook" -> "legacy" [] OTHER -> "idle")
    /\ published' = IF c = None THEN published ELSE c
    /\ UNCHANGED <<state, name, functions, plan, legacy, points, job, target, orphaned, cuts>>

(* The stack of the containers looks for the cluster by itself.             *)
UpdateFunctions(p) ==
  /\ pc[p] = "functions" /\ Goto(p, "hook")
  /\ functions' \in Found
  /\ UNCHANGED <<state, name, published, plan, legacy, points, job, seen, target, orphaned, cuts>>

(* The plan of releases before 0.28 goes; without a cluster the rest waits. *)
CleanupLegacyPlans(p) ==
  /\ pc[p] = "legacy" /\ legacy' = Absent
  /\ \E c \in Found :
       /\ target' = [target EXCEPT ![p] = c]
       /\ Goto(p, IF c = None THEN "idle" ELSE "plan")
  /\ UNCHANGED <<state, name, published, functions, plan, points, job, seen, orphaned, cuts>>

EnsurePlan(p) ==
  /\ pc[p] = "plan" /\ Goto(p, "select")
  /\ plan' = IF plan = Absent THEN None ELSE plan
  /\ UNCHANGED <<state, name, published, functions, legacy, points, job, seen, target,
                 orphaned, cuts>>

EnsureSelectionMutant(p) ==
  /\ pc[p] = "select" /\ Goto(p, "idle")
  /\ plan' = IF plan = None THEN target[p] ELSE plan
  /\ UNCHANGED <<state, name, published, functions, legacy, points, job, seen, target,
                 orphaned, cuts>>

(* There is no call that changes a selection: delete it, then create it.    *)
EnsureSelection(p) ==
  /\ pc[p] = "select"
  /\ plan' = IF plan \in {None, target[p]} THEN target[p] ELSE None
  /\ Goto(p, IF plan' = target[p] THEN "idle" ELSE "select")
  /\ UNCHANGED <<state, name, published, functions, legacy, points, job, seen, target,
                 orphaned, cuts>>

-----------------------------------------------------------------------------
(* pocket resource dsql restore | restore-status.                           *)

(* From any recovery point, with or without a backup of what there is.      *)
Restore(p) ==
  /\ pc[p] = "idle" /\ points # {}
  /\ \E c \in Found :
       /\ Remember(p, c)
       /\ Goto(p, "restore") \/ (c # None /\ Goto(p, "backup"))
  /\ UNCHANGED <<cloud, target, orphaned, cuts>>

BackupFirst(p) ==
  /\ pc[p] = "backup"
  /\ \/ /\ state[seen[p]] = "active" /\ Goto(p, "restore")
        /\ points' = points \cup {seen[p]}
     \/ Goto(p, "idle") /\ UNCHANGED points
  /\ UNCHANGED <<state, name, published, functions, plan, legacy, job, seen, target,
                 orphaned, cuts>>

StartRestore(p, c) ==
  /\ pc[p] = "restore" /\ Fresh(c) /\ Goto(p, "wait")
  /\ job' = [job EXCEPT ![c] = "running"] /\ target' = [target EXCEPT ![p] = c]
  /\ UNCHANGED <<state, name, published, functions, plan, legacy, points, seen, orphaned, cuts>>

RestoreStatus(p, c) ==
  /\ pc[p] = "idle" /\ job[c] # "none" /\ Goto(p, "wait")
  /\ target' = [target EXCEPT ![p] = c] /\ Forget(p)
  /\ UNCHANGED <<cloud, orphaned, cuts>>

(* The old cluster is asked for only now by restore-status, and was before  *)
(* the waits by restore.                                                    *)
WaitRestore(p) ==
  /\ pc[p] = "wait"
  /\ \/ job[target[p]] = "completed" /\ Goto(p, "rename") /\ \E c \in Seen(p) : Remember(p, c)
     \/ job[target[p]] = "failed" /\ Goto(p, "idle") /\ UNCHANGED seen
  /\ UNCHANGED <<cloud, target, orphaned, cuts>>

Old(p) == {seen[p]} \ {None, target[p]}

RenameOldMutant(p) ==
  /\ pc[p] = "rename" /\ Goto(p, "name")
  /\ name' = IF Exists(target[p]) THEN [name EXCEPT ![target[p]] = "current"] ELSE name
  /\ UNCHANGED <<state, published, functions, plan, legacy, points, job, seen, target,
                 orphaned, cuts>>

RenameOld(p) ==
  /\ pc[p] = "rename"
  /\ LET fails == \E c \in Old(p) : ~Exists(c)
     IN /\ Goto(p, IF fails THEN "idle" ELSE "name")
        /\ name' = IF fails THEN name
                   ELSE [c \in Clusters |-> IF c \in Old(p) THEN "replaced" ELSE name[c]]
  /\ UNCHANGED <<state, published, functions, plan, legacy, points, job, seen, target,
                 orphaned, cuts>>

NameNew(p) ==
  /\ pc[p] = "name" /\ Forget(p)
  /\ IF Exists(target[p])
     THEN Goto(p, "endpoint") /\ name' = [name EXCEPT ![target[p]] = "current"]
     ELSE Goto(p, "idle") /\ UNCHANGED name
  /\ UNCHANGED <<state, published, functions, plan, legacy, points, job, target, orphaned, cuts>>

-----------------------------------------------------------------------------
(* pocket resource dsql destroy, and the step of `pocket destroy`.          *)

Destroy(p) ==
  /\ pc[p] = "idle"
  /\ \E c \in Named :
       /\ state[c] = "active" /\ state' = [state EXCEPT ![c] = "deleting"]
       /\ target' = [target EXCEPT ![p] = c]
  /\ Goto(p, "deleted")
  /\ UNCHANGED <<name, published, functions, plan, legacy, points, job, seen, orphaned, cuts>>

AwaitDeleted(p) ==
  /\ pc[p] = "deleted" /\ state[target[p]] = "gone" /\ Goto(p, "unpublish")
  /\ UNCHANGED <<cloud, seen, target, orphaned, cuts>>

UnpublishEndpointMutant(p) ==
  /\ pc[p] = "unpublish" /\ Goto(p, "idle")
  /\ UNCHANGED <<cloud, seen, target, orphaned, cuts>>
UnpublishEndpoint(p) ==
  /\ pc[p] = "unpublish" /\ Goto(p, "idle")
  /\ published' = None
  /\ UNCHANGED <<state, name, functions, plan, legacy, points, job, seen, target, orphaned, cuts>>

(* pocket backup cleanup: the recovery points of the cluster there is.      *)
CleanupPoints(p) ==
  /\ pc[p] = "idle" /\ points \cap Named # {}
  /\ points' = points \ Named
  /\ UNCHANGED <<state, name, published, functions, plan, legacy, job, pc, seen, target,
                 orphaned, cuts>>

(* The quota of clusters is used up: create_cluster fails, the restore too. *)
Refused(p) ==
  /\ pc[p] \in {"create", "restore"} /\ ~\E c \in Clusters : Fresh(c)
  /\ Goto(p, "idle")
  /\ UNCHANGED <<cloud, seen, target, orphaned, cuts>>

(* A call is refused, a wait runs out, the process is killed.               *)
CutOff(p) ==
  /\ pc[p] # "idle" /\ cuts < MaxCuts
  /\ Goto(p, "idle") /\ cuts' = cuts + 1
  /\ orphaned' = (orphaned \/ pc[p] \in {"deleted", "unpublish"})
  /\ UNCHANGED <<cloud, seen, target>>

-----------------------------------------------------------------------------
Advance(p) ==
  \/ FindCluster(p) \/ AwaitActive(p) \/ PublishEndpoint(p) \/ UpdateFunctions(p)
  \/ CleanupLegacyPlans(p) \/ EnsurePlan(p) \/ EnsureSelection(p)
  \/ BackupFirst(p) \/ WaitRestore(p) \/ RenameOld(p) \/ NameNew(p)
  \/ AwaitDeleted(p) \/ UnpublishEndpoint(p) \/ Refused(p)
  \/ \E c \in Clusters : CreateCluster(p, c) \/ StartRestore(p, c)

Next ==
  \/ \E p \in Commands :
       \/ Deploy(p) \/ Restore(p) \/ Destroy(p) \/ CleanupPoints(p) \/ Advance(p) \/ CutOff(p)
       \/ \E c \in Clusters : RestoreStatus(p, c)
  \/ \E c \in Clusters :
       \/ Activate(c) \/ FinishDelete(c) \/ DeleteByHand(c) \/ ScheduledBackup(c)
       \/ RestoreEnds(c, "completed") \/ RestoreEnds(c, "failed")

Spec == Init /\ [][Next]_vars

(* Commands and AWS go on, and somebody deploys again and again.            *)
FairSpec ==
  /\ Spec
  /\ \A p \in Commands : WF_vars(Advance(p)) /\ SF_vars(Deploy(p))
  /\ \A c \in Clusters :
       /\ WF_vars(Activate(c)) /\ WF_vars(FinishDelete(c))
       /\ WF_vars(RestoreEnds(c, "completed") \/ RestoreEnds(c, "failed"))

-----------------------------------------------------------------------------
(* No command makes a cluster the database while another is, loses the one  *)
(* that was, or publishes an endpoint that is not the database's, with one  *)
(* command at a time: switch_to_cluster takes the name off the old cluster  *)
(* before it gives it to the new one.                                       *)
Promise == INSTANCE StageDatabase WITH
  current <- Named,
  kept <- {c \in Clusters : name[c] = "replaced"},
  gone <- {c \in Clusters : state[c] = "gone"},
  endpoint <- published
ImplementsPromise == Promise!Spec

(* Consumers outside the stage are not left with the endpoint of a deleted  *)
(* cluster, unless a destroy was cut off: the next one finds no cluster and *)
(* returns before it takes the endpoint back.                               *)
EndpointExists ==
  (\A p \in Commands : pc[p] \notin {"deleted", "unpublish"}) /\ ~orphaned /\ published # None
    => state[published] # "gone"

(* Whatever was restored, cut off or destroyed, a stage that is deployed    *)
(* again and again comes to functions, published endpoint and backup plan   *)
(* that mean the same cluster, the database.                                *)
InSync ==
  []<>(Named # {} => {functions} = Named /\ {published} = Named /\ {plan} = Named
                     /\ legacy = Absent)
=============================================================================
