------------------------------ MODULE RdsCluster ------------------------------
(***************************************************************************)
(* The Aurora resource of a stage (pocket_cli/resources/rds.py): the life  *)
(* cycle of the cluster and, above all, who holds its master password.     *)
(*                                                                         *)
(* `pocket deploy` runs create() when the cluster does not exist, update() *)
(* when it differs from pocket.toml, and then renders the container stack, *)
(* which points the Lambda at a credential.  `pocket destroy` removes the  *)
(* container, then runs delete().  Each of these is a sequence of AWS      *)
(* calls; the process may die, time out or be refused between any two, and *)
(* the next command starts again from what AWS reports.                    *)
(*                                                                         *)
(* Passwords are not values here.  All that matters is whether a copy is   *)
(* the password the cluster accepts now ("current") or one it accepted     *)
(* once ("stale"): changing the master password ages every copy.           *)
(*                                                                         *)
(* One command runs on a stage at a time, and RDS is managed by pocket     *)
(* (`managed = false` only references a cluster and changes nothing).      *)
(***************************************************************************)

CONSTANT Capacities   \* the (min/max capacity, retention days) settings used

ASSUME CapacitiesAssumption == Capacities # {}

VARIABLES
  cfg,          \* the part of pocket.toml that Rds reads
  cluster,      \* Status of the DB cluster, "none" when it does not exist
  instance,     \* DBInstanceStatus of the only instance
  managed,      \* the cluster has a MasterUserSecret
  capacity,     \* scaling configuration and backup retention in force
  sg,           \* the RDS security group exists
  subnetGroup,  \* the DB subnet group exists
  stored,       \* the credential that pocket keeps in each secret store
  lambda,       \* where the deployed container reads its credential
  pc,           \* the next step of the command that is running
  created,      \* local variable: this command created the cluster
  password,     \* local variable: the master password it holds
  outcome,      \* how the last command ended
  clean,        \* history: no stale credential when the last deploy began
  calm          \* the environment has stopped interfering (for liveness)

resources == <<cluster, instance, managed, capacity, sg, subnetGroup>>
locals == <<created, password>>
vars == <<cfg, resources, stored, lambda, pc, locals, outcome, clean, calm>>

Stores == {"sm", "ssm"}
Other(s) == IF s = "ssm" THEN "sm" ELSE "ssm"
Copies == {"none", "current", "stale"}

Configs == [strategy: {"static", "aws-managed"}, store: Stores,
            snapshot: {"none", "given"}, capacity: Capacities]

Static == cfg.strategy = "static"

CreateSteps == {"subnetGroup", "securityGroup", "cluster", "instance",
                "waitCluster", "waitInstance", "setPassword", "passwordWait",
                "store"}
UpdateSteps == {"modify", "modifyWait", "migrate", "managedWait", "dropSm",
                "dropSsm", "staticWait", "moveWrite", "moveDelete"}
DeleteSteps == {"destroyRds", "deleteInstance", "instanceGone",
                "deleteCluster", "clusterGone", "deleteSecurityGroup",
                "deleteSubnetGroup", "deleteCredentials"}
Steps == CreateSteps \cup UpdateSteps \cup DeleteSteps \cup {"render"}


NewLocals == created' = FALSE /\ password' = "none"

Init ==
  /\ cfg \in Configs
  /\ cluster = "none" /\ instance = "none" /\ managed = FALSE
  /\ capacity = cfg.capacity
  /\ sg = FALSE /\ subnetGroup = FALSE
  /\ stored = [s \in Stores |-> "none"]
  /\ lambda = "none"
  /\ pc = "idle" /\ created = FALSE /\ password = "none" /\ outcome = "none"
  /\ clean = TRUE /\ calm = FALSE

-----------------------------------------------------------------------------
(* What the code reads. *)

\* _password_state_matches: the store is only asked whether it has a
\* credential, never whether the cluster accepts it.
PasswordStateMatches ==
  IF Static THEN ~managed /\ stored[cfg.store] # "none" ELSE managed

Status ==
  CASE cluster = "none" -> "NOEXIST"
    [] cluster = "available" ->
         IF capacity = cfg.capacity /\ PasswordStateMatches
         THEN "COMPLETED" ELSE "REQUIRE_UPDATE"
    [] cluster = "stopped" -> "FAILED"
    [] OTHER -> "PROGRESS"

\* ContainerStack._resolve_rds: what the rendered template names.
Resolved ==
  CASE Static /\ cfg.store = "ssm" -> "ssm"
    [] Static /\ cfg.store = "sm" -> IF stored["sm"] # "none" THEN "sm" ELSE "none"
    [] OTHER -> IF managed THEN "managed" ELSE "none"

\* The master password changes (or the cluster is gone): every copy ages.
Aged == [s \in Stores |-> IF stored[s] = "current" THEN "stale" ELSE stored[s]]

\* A modify_db_cluster call that RDS accepts.  The status need not leave
\* "available" at once, so a later wait may return before the change lands.
Modifying == cluster = "available" /\ cluster' \in {"available", "modifying"}

Goto(step) == pc' = step /\ UNCHANGED <<outcome, lambda, clean>>

-----------------------------------------------------------------------------
(* pocket deploy: _deploy_resource, then the container. *)

DeployStart ==
  /\ pc = "idle"
  /\ clean' = \A s \in Stores : stored[s] # "stale"
  /\ NewLocals
  /\ \/ Status = "NOEXIST" /\ pc' = "subnetGroup" /\ outcome' = "running"
     \/ Status = "REQUIRE_UPDATE" /\ pc' = "modify" /\ outcome' = "running"
     \/ Status = "COMPLETED" /\ pc' = "render" /\ outcome' = "running"
     \/ Status \in {"FAILED", "PROGRESS"} /\ pc' = "idle" /\ outcome' = "failed"
  /\ UNCHANGED <<cfg, resources, stored, lambda, calm>>

\* The container stack is created or updated with the credential reference.
Render ==
  /\ pc = "render"
  /\ lambda' = Resolved
  /\ pc' = "idle" /\ outcome' = "deployed"
  /\ UNCHANGED <<cfg, resources, stored, locals, clean, calm>>

-----------------------------------------------------------------------------
(* create() *)

EnsureSubnetGroup ==
  /\ pc = "subnetGroup" /\ Goto("securityGroup")
  /\ subnetGroup' = TRUE
  /\ UNCHANGED <<cfg, cluster, instance, managed, capacity, sg, stored, locals, calm>>

EnsureSecurityGroup ==
  /\ pc = "securityGroup" /\ Goto("cluster")
  /\ sg' = TRUE
  /\ UNCHANGED <<cfg, cluster, instance, managed, capacity, subnetGroup, stored,
                 locals, calm>>

\* A new cluster starts with a generated password, with an AWS-managed one, or,
\* restored from a snapshot, with the password the snapshot had.
CreateOrRestoreCluster ==
  /\ pc = "cluster" /\ Goto("instance")
  /\ IF cluster # "none"
     THEN NewLocals /\ UNCHANGED <<cluster, managed, capacity>>
     ELSE /\ cluster' = "creating"
          /\ managed' = (~Static /\ cfg.snapshot = "none")
          /\ capacity' = cfg.capacity
          /\ created' = TRUE
          /\ password' = IF Static /\ cfg.snapshot = "none"
                         THEN "current" ELSE "none"
  /\ UNCHANGED <<cfg, instance, sg, subnetGroup, stored, calm>>

EnsureInstance ==
  /\ pc = "instance" /\ Goto("waitCluster")
  /\ instance' = IF instance = "none" THEN "creating" ELSE instance
  /\ UNCHANGED <<cfg, cluster, managed, capacity, sg, subnetGroup, stored, locals, calm>>

WaitCluster ==
  /\ pc = "waitCluster" /\ cluster = "available" /\ Goto("waitInstance")
  /\ UNCHANGED <<cfg, resources, stored, locals, calm>>

\* Mutant: step 7 is skipped after a restore.
StoreOrRenderMutant ==
  IF created /\ Static /\ cfg.snapshot = "none" THEN "store" ELSE "render"

\* Where create() goes once a password is no longer pending: step 7 or the end.
StoreOrRender == IF created /\ Static THEN "store" ELSE "render"

WaitInstance ==
  /\ pc = "waitInstance" /\ instance = "available"
  /\ Goto(IF created /\ cfg.snapshot # "none" THEN "setPassword" ELSE StoreOrRender)
  /\ UNCHANGED <<cfg, resources, stored, locals, calm>>

\* Step 6: a restored cluster gets a password that pocket can refer to.
SetRestoredPassword ==
  /\ pc = "setPassword" /\ Goto("passwordWait")
  /\ Modifying
  /\ managed' = ~Static
  /\ password' = (IF Static THEN "current" ELSE "none") /\ UNCHANGED created
  /\ stored' = Aged
  /\ UNCHANGED <<cfg, instance, capacity, sg, subnetGroup, calm>>

PasswordWait ==
  /\ pc = "passwordWait" /\ cluster = "available" /\ Goto(StoreOrRender)
  /\ UNCHANGED <<cfg, resources, stored, locals, calm>>

\* _store_static_credentials, at the end of create() and of two migrations.
StoreCredential ==
  /\ pc = "store" /\ Goto("render")
  /\ stored' = [stored EXCEPT ![cfg.store] = password]
  /\ UNCHANGED <<cfg, resources, locals, calm>>

-----------------------------------------------------------------------------
(* update() *)

\* Mutant: the call lacks ApplyImmediately and waits for a maintenance window.
ModifyConfigurationMutant ==
  /\ pc = "modify" /\ capacity # cfg.capacity
  /\ Modifying
  /\ Goto(IF PasswordStateMatches THEN "render" ELSE "modifyWait")
  /\ UNCHANGED <<cfg, instance, managed, capacity, sg, subnetGroup, stored, locals,
                 calm>>

\* One modify for scaling and retention; a password change waits for it.
ModifyConfiguration ==
  /\ pc = "modify" /\ capacity # cfg.capacity
  /\ Modifying
  /\ capacity' = cfg.capacity
  /\ Goto(IF PasswordStateMatches THEN "render" ELSE "modifyWait")
  /\ UNCHANGED <<cfg, instance, managed, sg, subnetGroup, stored, locals, calm>>

ConfigurationMatches ==
  /\ pc = "modify" /\ capacity = cfg.capacity
  /\ Goto(IF PasswordStateMatches THEN "render" ELSE "migrate")
  /\ UNCHANGED <<cfg, resources, stored, locals, calm>>

ModifyWait ==
  /\ pc = "modifyWait" /\ cluster = "available" /\ Goto("migrate")
  /\ UNCHANGED <<cfg, resources, stored, locals, calm>>

\* _migrate_to_managed: switch, wait, then drop the copies of both stores.
MigrateToManaged ==
  /\ pc = "migrate" /\ ~Static
  /\ Modifying
  /\ managed' = TRUE /\ stored' = Aged
  /\ Goto("managedWait")
  /\ UNCHANGED <<cfg, instance, capacity, sg, subnetGroup, locals, calm>>

ManagedWait ==
  /\ pc = "managedWait" /\ cluster = "available" /\ Goto("dropSm")
  /\ UNCHANGED <<cfg, resources, stored, locals, calm>>

DropCredential ==
  /\ \/ pc = "dropSm" /\ stored' = [stored EXCEPT !["sm"] = "none"] /\ Goto("dropSsm")
     \/ pc = "dropSsm" /\ stored' = [stored EXCEPT !["ssm"] = "none"] /\ Goto("render")
  /\ UNCHANGED <<cfg, resources, locals, calm>>

\* _migrate_to_static from AWS-managed: a generated password replaces it.
MigrateToStatic ==
  /\ pc = "migrate" /\ Static /\ managed
  /\ Modifying
  /\ managed' = FALSE /\ stored' = Aged
  /\ password' = "current" /\ UNCHANGED created
  /\ Goto("staticWait")
  /\ UNCHANGED <<cfg, instance, capacity, sg, subnetGroup, calm>>

\* Mutant: the old copy is deleted before the new one is written.
ReadOtherStoreMutant ==
  /\ pc = "migrate" /\ Static /\ ~managed /\ stored[Other(cfg.store)] # "none"
  /\ password' = stored[Other(cfg.store)] /\ UNCHANGED created
  /\ stored' = [stored EXCEPT ![Other(cfg.store)] = "none"]
  /\ Goto("moveWrite")
  /\ UNCHANGED <<cfg, resources, calm>>

\* _migrate_to_static when the other store has the credential: move it.
ReadOtherStore ==
  /\ pc = "migrate" /\ Static /\ ~managed /\ stored[Other(cfg.store)] # "none"
  /\ password' = stored[Other(cfg.store)] /\ UNCHANGED created
  /\ Goto("moveWrite")
  /\ UNCHANGED <<cfg, resources, stored, calm>>

MoveWrite ==
  /\ pc = "moveWrite" /\ Goto("moveDelete")
  /\ stored' = [stored EXCEPT ![cfg.store] = password]
  /\ UNCHANGED <<cfg, resources, locals, calm>>

MoveDelete ==
  /\ pc = "moveDelete" /\ Goto("render")
  /\ stored' = [stored EXCEPT ![Other(cfg.store)] = "none"]
  /\ UNCHANGED <<cfg, resources, locals, calm>>

\* _migrate_to_static when no store has it: the password is reset.
ResetPassword ==
  /\ pc = "migrate" /\ Static /\ ~managed /\ stored[Other(cfg.store)] = "none"
  /\ Modifying
  /\ stored' = Aged
  /\ password' = "current" /\ UNCHANGED created
  /\ Goto("staticWait")
  /\ UNCHANGED <<cfg, instance, managed, capacity, sg, subnetGroup, calm>>

StaticWait ==
  /\ pc = "staticWait" /\ cluster = "available" /\ Goto("store")
  /\ UNCHANGED <<cfg, resources, stored, locals, calm>>

-----------------------------------------------------------------------------
(* pocket destroy: the container first, then _destroy_rds and delete(). *)

DestroyContainer ==
  /\ pc = "idle" /\ ~calm
  /\ lambda' = "none"
  /\ pc' = "destroyRds" /\ outcome' = "running" /\ NewLocals
  /\ UNCHANGED <<cfg, resources, stored, clean, calm>>

DestroyRds ==
  /\ pc = "destroyRds"
  /\ \/ Status = "NOEXIST" /\ pc' = "idle" /\ outcome' = "nothingToDestroy"
     \/ Status # "NOEXIST" /\ pc' = "deleteInstance" /\ UNCHANGED outcome
  /\ UNCHANGED <<cfg, resources, stored, lambda, locals, clean, calm>>

DeleteInstance ==
  /\ pc = "deleteInstance"
  /\ \/ instance = "none" /\ Goto("deleteCluster") /\ UNCHANGED instance
     \/ instance = "available" /\ instance' = "deleting" /\ Goto("instanceGone")
  /\ UNCHANGED <<cfg, cluster, managed, capacity, sg, subnetGroup, stored, locals, calm>>

WaitInstanceDeleted ==
  /\ pc = "instanceGone" /\ instance = "none" /\ Goto("deleteCluster")
  /\ UNCHANGED <<cfg, resources, stored, locals, calm>>

DeleteCluster ==
  /\ pc = "deleteCluster" /\ cluster = "available"
  /\ cluster' = "deleting" /\ Goto("clusterGone")
  /\ UNCHANGED <<cfg, instance, managed, capacity, sg, subnetGroup, stored, locals, calm>>

\* Mutant: delete() does not wait for the cluster to be gone.
WaitClusterDeletedMutant ==
  /\ pc = "clusterGone" /\ Goto("deleteSecurityGroup")
  /\ UNCHANGED <<cfg, resources, stored, locals, calm>>

WaitClusterDeleted ==
  /\ pc = "clusterGone" /\ cluster = "none" /\ Goto("deleteSecurityGroup")
  /\ UNCHANGED <<cfg, resources, stored, locals, calm>>

DeleteSecurityGroup ==
  /\ pc = "deleteSecurityGroup" /\ Goto("deleteSubnetGroup")
  /\ sg' = FALSE
  /\ UNCHANGED <<cfg, cluster, instance, managed, capacity, subnetGroup, stored,
                 locals, calm>>

DeleteSubnetGroup ==
  /\ pc = "deleteSubnetGroup" /\ Goto("deleteCredentials")
  /\ subnetGroup' = FALSE
  /\ UNCHANGED <<cfg, cluster, instance, managed, capacity, sg, stored, locals, calm>>

\* Only the store that pocket.toml names now, and only under "static".
DeleteCredentials ==
  /\ pc = "deleteCredentials"
  /\ stored' = IF Static THEN [stored EXCEPT ![cfg.store] = "none"] ELSE stored
  /\ pc' = "idle" /\ outcome' = "destroyed"
  /\ UNCHANGED <<cfg, resources, lambda, locals, clean, calm>>

-----------------------------------------------------------------------------
(* Failures, the operator and AWS. *)

Fail ==
  /\ pc' = "idle" /\ outcome' = "failed" /\ NewLocals
  /\ UNCHANGED <<cfg, resources, stored, lambda, clean, calm>>

\* RDS refuses a modify or delete unless the target is available.
Refused ==
  /\ \/ /\ cluster # "available"
        /\ \/ pc \in {"setPassword", "deleteCluster"}
           \/ pc = "modify" /\ capacity # cfg.capacity
           \/ pc = "migrate" /\ (Static /\ ~managed => stored[Other(cfg.store)] = "none")
     \/ pc = "deleteInstance" /\ instance \notin {"none", "available"}
  /\ Fail

\* The process is killed, a wait times out or a call raises: locals are lost.
Abort == pc # "idle" /\ ~calm /\ Fail

\* The operator edits pocket.toml between two commands.
EditConfig ==
  /\ pc = "idle" /\ ~calm
  /\ cfg' \in Configs
  /\ UNCHANGED <<resources, stored, lambda, pc, locals, outcome, clean, calm>>

ClusterReady ==
  /\ cluster \in {"creating", "modifying"}
  /\ cluster' = "available"
  /\ UNCHANGED <<cfg, instance, managed, capacity, sg, subnetGroup, stored, lambda,
                 pc, locals, outcome, clean, calm>>

ClusterDeleted ==
  /\ cluster = "deleting"
  /\ cluster' = "none" /\ managed' = FALSE /\ stored' = Aged
  /\ UNCHANGED <<cfg, instance, capacity, sg, subnetGroup, lambda, pc, locals,
                 outcome, clean, calm>>

InstanceReady ==
  /\ instance = "creating" /\ instance' = "available"
  /\ UNCHANGED <<cfg, cluster, managed, capacity, sg, subnetGroup, stored, lambda,
                 pc, locals, outcome, clean, calm>>

InstanceDeleted ==
  /\ instance = "deleting" /\ instance' = "none"
  /\ UNCHANGED <<cfg, cluster, managed, capacity, sg, subnetGroup, stored, lambda,
                 pc, locals, outcome, clean, calm>>

\* Backup window, maintenance, an operator stopping or starting the cluster.
Maintenance ==
  /\ ~calm
  /\ \/ cluster = "available" /\ cluster' \in {"modifying", "stopped"}
     \/ cluster = "stopped" /\ cluster' = "modifying"
  /\ UNCHANGED <<cfg, instance, managed, capacity, sg, subnetGroup, stored, lambda,
                 pc, locals, outcome, clean, calm>>

\* From here on nothing fails and nobody edits, stops or destroys anything.
Settle ==
  /\ ~calm /\ cluster # "stopped"
  /\ calm' = TRUE
  /\ UNCHANGED <<cfg, resources, stored, lambda, pc, locals, outcome, clean>>

-----------------------------------------------------------------------------
Create ==
  \/ EnsureSubnetGroup \/ EnsureSecurityGroup \/ CreateOrRestoreCluster
  \/ EnsureInstance \/ WaitCluster \/ WaitInstance \/ SetRestoredPassword
  \/ PasswordWait \/ StoreCredential

Update ==
  \/ ModifyConfiguration \/ ConfigurationMatches \/ ModifyWait
  \/ MigrateToManaged \/ ManagedWait \/ DropCredential \/ MigrateToStatic
  \/ ReadOtherStore \/ MoveWrite \/ MoveDelete \/ ResetPassword \/ StaticWait

Delete ==
  \/ DestroyRds \/ DeleteInstance \/ WaitInstanceDeleted \/ DeleteCluster
  \/ WaitClusterDeleted \/ DeleteSecurityGroup \/ DeleteSubnetGroup
  \/ DeleteCredentials

Command == Create \/ Update \/ Delete \/ Render \/ Refused
AwsCluster == ClusterReady \/ ClusterDeleted
AwsInstance == InstanceReady \/ InstanceDeleted
Environment == AwsCluster \/ AwsInstance \/ Maintenance \/ Settle \/ EditConfig \/ Abort

Next == DeployStart \/ DestroyContainer \/ Command \/ Environment

Spec == Init /\ [][Next]_vars

\* A running command takes its next step, AWS finishes what it started, and the
\* stage is deployed again and again (every push to its branch deploys it).
Fairness ==
  /\ WF_vars(Command) /\ WF_vars(DeployStart)
  /\ WF_vars(AwsCluster) /\ WF_vars(AwsInstance)

FairSpec == Spec /\ Fairness

-----------------------------------------------------------------------------
FlagsOK ==
  /\ managed \in BOOLEAN /\ sg \in BOOLEAN /\ subnetGroup \in BOOLEAN
  /\ created \in BOOLEAN /\ clean \in BOOLEAN /\ calm \in BOOLEAN

ValuesOK ==
  /\ cfg \in Configs
  /\ cluster \in {"none", "creating", "available", "modifying", "stopped", "deleting"}
  /\ instance \in {"none", "creating", "available", "deleting"}
  /\ capacity \in Capacities
  /\ stored \in [Stores -> Copies]
  /\ lambda \in {"none", "managed"} \cup Stores
  /\ pc \in Steps \cup {"idle"}
  /\ password \in Copies
  /\ outcome \in {"none", "running", "deployed", "failed", "destroyed",
                  "nothingToDestroy"}

(* Every variable keeps to the values named here. *)
TypeOK == FlagsOK /\ ValuesOK

\* The credential the Lambda was given is one the cluster accepts now.
LambdaCanConnect ==
  \/ lambda = "managed" /\ managed
  \/ lambda \in Stores /\ stored[lambda] = "current"

(* Whatever the sequence of interrupted deploys, migrations and edits before *)
(* it, a deploy that starts when no store holds a stale credential and that  *)
(* ends well leaves the Lambda with the password of the cluster, until the   *)
(* next command (Rds.status, create, update and _resolve_rds agree).         *)
UsableAfterDeploy == outcome = "deployed" /\ clean => LambdaCanConnect

(* Once pocket holds the password of a static cluster, no step of any command *)
(* leaves it without a copy while the cluster lives and stays static: moving  *)
(* between stores never resets, loses or overwrites the only good copy.       *)
CustodyStep ==
  (\E s \in Stores : stored[s] = "current") /\ cluster' # "none" /\ ~managed'
    => \E s \in Stores : stored'[s] = "current"
CustodyKept == [][CustodyStep]_vars

\* A cluster without its only instance, and no command on the way to create it.
Headless ==
  cluster # "none" /\ instance \in {"none", "deleting"} /\ pc # "instance"

(* Once failures stop, repeated deploys bring the settings of the cluster to *)
(* what pocket.toml says, and the cluster serves: its instance is available. *)
(* Not where a create() was cut off between cluster and instance, or a       *)
(* destroy between instance and cluster: the comment in create() has a       *)
(* repeated deploy continue from the unfinished step, but Rds.status does    *)
(* not look at the instance and create() never runs on a cluster that        *)
(* exists, so such a stage counts as COMPLETED and stays without one.        *)
Converges ==
  /\ calm ~> [](Status = "COMPLETED")
  /\ (calm /\ ~Headless /\ pc \notin DeleteSteps) ~>
       [](Status = "COMPLETED" /\ instance = "available")

(* A destroy that found the cluster and was not interrupted removes every    *)
(* part of it: the instance, the groups, and the credential in the store     *)
(* that pocket.toml names.                                                   *)
DestroyComplete ==
  [][outcome # "destroyed" /\ outcome' = "destroyed" =>
       /\ cluster' = "none" /\ instance' = "none" /\ ~sg' /\ ~subnetGroup'
       /\ Static => stored'[cfg.store] = "none"]_vars

=============================================================================
