--------------------------- MODULE DeployPipeline ---------------------------
(***************************************************************************)
(* `pocket deploy` over the stacks of a stage: the managed VPC, one        *)
(* container (its stack and the code and environment of its functions) and *)
(* CloudFront (its stack, the policy of the origin bucket and the tokens   *)
(* in the key-value store), as cli/deploy_cli.py, resources/container.py,  *)
(* cloudfront.py, vpc.py and aws/cloudformation.py drive them.             *)
(*                                                                         *)
(* CloudFormation and Lambda work on their own; the command only asks,     *)
(* polls and compares the hash of the template it would send with the tag  *)
(* of the deployed one.  It may be cut off between any two calls (Ctrl-C,  *)
(* a time-out of a wait, an error of a call: Interrupt).                   *)
(*                                                                         *)
(* `pocket resource cloudfront update`, which the command recommends after  *)
(* a wait that was given up, runs CloudFront.update alone and without a     *)
(* mediator: it reads no secret.                                            *)
(*                                                                         *)
(* A release is what one run deploys: the image (code), DEPLOY_HASH (hash: *)
(* in the functions' environment and in the CloudFront Function of         *)
(* deploy_hash routes), the layout of the network (net) and the value of   *)
(* the token secret in the store (token).  Two releases may share any of   *)
(* them.                                                                   *)
(***************************************************************************)
EXTENDS Naturals, FiniteSets

CONSTANTS
  Codes, Hashes, Nets, Tokens,
  Releases,
  Handlers,     \* the functions of the container
  None,
  MaxChanges,   \* bound on how often another release is to be deployed
  MaxFailures   \* bound on failures of CloudFormation, Lambda and the command

ASSUME ReleasesAssumption ==
  Releases \subseteq [code : Codes, hash : Hashes, net : Nets, token : Tokens]
ASSUME NoneAssumption == None \notin Codes \cup Hashes \cup Nets \cup Tokens
ASSUME BoundsAssumption == MaxChanges \in Nat /\ MaxFailures \in Nat

Stacks == {"vpc", "container", "cloudfront"}
Following == [vpc |-> "container", container |-> "cloudfront"]

(* What a release puts into the template of each stack: all its tag tells. *)
(* The template of CloudFront also holds the header of enable_origin_verify *)
(* (secret: TRUE), if the run has read its value from the store.            *)
Templates ==
  [hash : Hashes \cup {None}, net : Nets \cup {None}, secret : BOOLEAN]
NoTemplate == [hash |-> None, net |-> None, secret |-> FALSE]
TemplateOf(s, r, secretRead) ==
  [hash |-> IF s = "vpc" THEN None ELSE r.hash,
   net |-> IF s = "cloudfront" THEN None ELSE r.net,
   secret |-> s = "cloudfront" /\ secretRead]

VARIABLES
  stack,      \* StackStatus, the deployed template and the one under way
  image,      \* the image that the tag :<stage> of the repository names
  fn,         \* code, DEPLOY_HASH and last update of each function
  policy,     \* the policy of the origin bucket lets the distribution in
  kvs,        \* the token in the key-value store of the distribution
  wanted,     \* the release that the next run is to deploy
  release,    \* the release of this run, or of the last one
  command,    \* its command: "deploy", or "update" of CloudFront
  pc,         \* the step of the run; a status while it asks for that status
  cur,        \* the resource it deals with
  hooking,    \* it is in the second loop, of ensure_post_deploy_state
  baseline,   \* initial_detail of the wait it is in
  todo,       \* functions its loop has not come to
  outcome,    \* history: how the last run ended
  quiet,      \* history: nothing was under way when the run began
  changes, failures  \* history: bounds

cloud == <<stack, image, fn, policy, kvs>>
place == <<pc, cur, hooking, baseline, todo>>
order == <<release, command, quiet>>
run == <<order, place, outcome>>
bounds == <<changes, failures>>
vars == <<cloud, wanted, run, bounds>>

-----------------------------------------------------------------------------
(* What the cloud reports.  A status that means the same to every reader is *)
(* not repeated: the clean-up phases are their operation in progress, and a *)
(* failed creation is ROLLBACK_COMPLETE with its DeletionTime.              *)

Working == {"CREATE_IN_PROGRESS", "ROLLBACK_IN_PROGRESS",
            "UPDATE_IN_PROGRESS", "UPDATE_ROLLBACK_IN_PROGRESS"}
Broken == {"ROLLBACK_COMPLETE", "UPDATE_ROLLBACK_FAILED"}
AtRest == {"CREATE_COMPLETE", "UPDATE_COMPLETE", "UPDATE_ROLLBACK_COMPLETE"}
Details == Working \cup Broken \cup AtRest \cup {"NOT_CREATED"}
RollbackDetails == {"ROLLBACK_IN_PROGRESS", "ROLLBACK_COMPLETE",
  "UPDATE_ROLLBACK_IN_PROGRESS", "UPDATE_ROLLBACK_COMPLETE",
  "UPDATE_ROLLBACK_FAILED"}

Detail(s) == stack[s].detail
Template(s) == TemplateOf(s, release, command = "deploy")
YamlSynced(s) == stack[s].template = Template(s)

CfnStatus(s) ==
  CASE Detail(s) = "NOT_CREATED" -> "NOEXIST"
    [] Detail(s) \in Working -> "PROGRESS"
    [] Detail(s) \in Broken -> "FAILED"
    [] OTHER -> "COMPLETED"

StackStatus(s) ==
  IF CfnStatus(s) = "COMPLETED" /\ ~YamlSynced(s) THEN "REQUIRE_UPDATE"
  ELSE CfnStatus(s)

FunctionStatuses == {"NOEXIST", "PROGRESS", "FAILED", "COMPLETED"}

ContainerStatus ==
  LET stackStatus == StackStatus("container") IN
  IF stackStatus = "FAILED" \/ \E h \in Handlers : fn[h].status = "FAILED"
  THEN "FAILED"
  ELSE IF stackStatus = "PROGRESS" \/ \E h \in Handlers : fn[h].status = "PROGRESS"
  THEN "PROGRESS"
  ELSE IF stackStatus = "COMPLETED" /\ \E h \in Handlers : fn[h].code # image
  THEN "REQUIRE_UPDATE"
  ELSE stackStatus

Status(s) == IF s = "container" THEN ContainerStatus ELSE StackStatus(s)

NoFunction == [status |-> "NOEXIST", code |-> None, env |-> None, next |-> None]

Init ==
  /\ stack = [s \in Stacks |->
       [detail |-> "NOT_CREATED", template |-> NoTemplate, next |-> NoTemplate]]
  /\ image = None
  /\ fn = [h \in Handlers |-> NoFunction]
  /\ policy = FALSE /\ kvs = None
  /\ wanted \in Releases /\ release = wanted /\ command = "deploy"
  /\ pc = "idle" /\ cur = "vpc" /\ hooking = FALSE
  /\ baseline = "NOT_CREATED" /\ todo = {}
  /\ outcome = "none" /\ quiet = FALSE
  /\ changes = 0 /\ failures = 0

-----------------------------------------------------------------------------
(* The course of a run.                                                     *)

Go(step) == pc' = step /\ UNCHANGED <<cur, hooking, baseline, todo, outcome>>

End(how) ==
  /\ pc' = "idle" /\ cur' = "vpc" /\ hooking' = FALSE
  /\ baseline' = "NOT_CREATED" /\ todo' = {}
  /\ outcome' = how

Raise == End("failed")

(* The resource is done with: on to the next, then to the hooks. *)
Proceed ==
  \/ command = "update" /\ End("ok")
  \/ /\ command = "deploy" /\ ~hooking /\ cur # "cloudfront"
     /\ pc' = "NOEXIST" /\ cur' = Following[cur]
     /\ baseline' = "NOT_CREATED" /\ todo' = {}
     /\ UNCHANGED <<hooking, outcome>>
  \/ /\ command = "deploy" /\ ~hooking /\ cur = "cloudfront"
     /\ pc' = "sync" /\ cur' = "container" /\ hooking' = TRUE
     /\ baseline' = "NOT_CREATED" /\ todo' = Handlers
     /\ UNCHANGED outcome
  \/ /\ hooking /\ cur = "container"
     /\ pc' = "hook" /\ cur' = "cloudfront"
     /\ baseline' = "NOT_CREATED" /\ todo' = {}
     /\ UNCHANGED <<hooking, outcome>>
  \/ hooking /\ cur = "cloudfront" /\ End("ok")

(* Another release is to be deployed: a commit, a new value of the secret. *)
Change(r) ==
  /\ changes < MaxChanges /\ r # wanted
  /\ wanted' = r /\ changes' = changes + 1
  /\ UNCHANGED <<cloud, run, failures>>

Begin(c) ==
  /\ pc = "idle"
  /\ release' = wanted /\ command' = c /\ outcome' = "none"
  /\ quiet' = /\ \A s \in Stacks : Detail(s) \notin Working
              /\ \A h \in Handlers : fn[h].status # "PROGRESS"
  /\ UNCHANGED <<cloud, wanted, hooking, baseline, todo, failures>>

Start ==
  /\ Begin("deploy")
  /\ pc' = "init" /\ UNCHANGED <<cur, changes>>

StartUpdate ==
  /\ changes < MaxChanges /\ changes' = changes + 1
  /\ Begin("update")
  /\ pc' = "NOEXIST" /\ cur' = "cloudfront"

(* deploy_init: the image is built, or retagged, to :<stage>. *)
DeployInit ==
  /\ pc = "init"
  /\ image' = release.code
  /\ Go("NOEXIST")
  /\ UNCHANGED <<stack, fn, policy, kvs, wanted, order, bounds>>

(* _deploy_resource asks for one status after the other, each time anew. *)
Questions == {"NOEXIST", "REQUIRE_UPDATE", "FAILED", "PROGRESS"}
NextQuestion ==
  [NOEXIST |-> "REQUIRE_UPDATE", REQUIRE_UPDATE |-> "FAILED",
   FAILED |-> "PROGRESS"]

Ask ==
  /\ pc \in Questions /\ command = "deploy"
  /\ \/ pc = "NOEXIST" /\ Status(cur) = pc /\ Go("create")
     \/ pc = "REQUIRE_UPDATE" /\ Status(cur) = pc /\ Go("update")
     \/ pc \in {"FAILED", "PROGRESS"} /\ Status(cur) = pc /\ Raise
     \/ pc # "PROGRESS" /\ Status(cur) # pc /\ Go(NextQuestion[pc])
     \/ pc = "PROGRESS" /\ Status(cur) # pc /\ Proceed
  /\ UNCHANGED <<cloud, wanted, order, bounds>>

(* So does cloudfront_cli.update, which warns and skips what it cannot      *)
(* update.                                                                  *)
AskBeforeUpdate ==
  /\ pc \in Questions /\ command = "update"
  /\ \/ Status(cur) = pc /\ End("skipped")
     \/ pc = "NOEXIST" /\ Status(cur) # pc /\ Go("FAILED")
     \/ pc = "FAILED" /\ Status(cur) # pc /\ Go("PROGRESS")
     \/ pc = "PROGRESS" /\ Status(cur) # pc /\ Go("update")
  /\ UNCHANGED <<cloud, wanted, order, bounds>>

-----------------------------------------------------------------------------
(* Operations on stacks, and the wait for them.                             *)

(* create_stack and update_stack: CloudFormation sets to work. *)
CanCreate(s) == Detail(s) = "NOT_CREATED"
CanUpdate(s) == Detail(s) \in AtRest
SetToWork(s, detail) ==
  stack' = [stack EXCEPT ![s].detail = detail, ![s].next = Template(s)]

(* wait_status begins with the detail that the call before it has caused. *)
AwaitOperation(detail) ==
  pc' = "wait" /\ baseline' = detail /\ UNCHANGED <<cur, hooking, todo, outcome>>

(* Vpc.create and Vpc.update ask and do not wait. *)
CreateVpc ==
  /\ pc = "create" /\ cur = "vpc" /\ CanCreate("vpc")
  /\ SetToWork("vpc", "CREATE_IN_PROGRESS")
  /\ Proceed
  /\ UNCHANGED <<image, fn, policy, kvs, wanted, order, bounds>>

UpdateVpc ==
  /\ pc = "update" /\ cur = "vpc" /\ ~YamlSynced("vpc") /\ CanUpdate("vpc")
  /\ SetToWork("vpc", "UPDATE_IN_PROGRESS")
  /\ Proceed
  /\ UNCHANGED <<image, fn, policy, kvs, wanted, order, bounds>>

(* Container.create waits for the VPC, which is not its own.                *)
WaitForVpc ==
  /\ pc = "create" /\ cur = "container"
  /\ pc' = "wait_vpc" /\ baseline' = Detail("vpc")
  /\ UNCHANGED <<cur, hooking, todo, outcome>>
  /\ UNCHANGED <<cloud, wanted, order, bounds>>

(* One look of wait_status("COMPLETED") that ends the wait. *)
Waited == IF pc = "wait_vpc" THEN "vpc" ELSE cur
RolledBackMutant == FALSE  \* UPDATE_ROLLBACK_COMPLETE passes for COMPLETED
RolledBack == Detail(Waited) \in RollbackDetails /\ Detail(Waited) # baseline

AfterWait ==
  CASE pc = "wait_vpc" -> Go("create_stack")
    [] pc = "wait" /\ cur = "container" /\ baseline = "CREATE_IN_PROGRESS" -> Proceed
    [] pc = "wait" /\ cur = "container" /\ baseline # "CREATE_IN_PROGRESS" ->
         /\ pc' = "sync" /\ todo' = Handlers /\ baseline' = "NOT_CREATED"
         /\ UNCHANGED <<cur, hooking, outcome>>
    [] pc = "wait" /\ cur # "container" -> Go("policy")

Poll ==
  /\ pc \in {"wait_vpc", "wait"}
  /\ \/ RolledBack /\ Raise
     \/ ~RolledBack /\ CfnStatus(Waited) = "COMPLETED" /\ AfterWait
     \/ ~RolledBack /\ CfnStatus(Waited) \in {"FAILED", "NOEXIST"} /\ Raise
  /\ UNCHANGED <<cloud, wanted, order, bounds>>

CreateContainer ==
  /\ pc = "create_stack" /\ CanCreate("container")
  /\ SetToWork("container", "CREATE_IN_PROGRESS")
  /\ AwaitOperation("CREATE_IN_PROGRESS")
  /\ UNCHANGED <<image, fn, policy, kvs, wanted, order, bounds>>

-----------------------------------------------------------------------------
(* Container.update: the code of every function, then the stack, then the   *)
(* environment.                                                             *)

UpdateContainer ==
  /\ pc = "update" /\ cur = "container"
  /\ pc' = "code" /\ todo' = Handlers
  /\ UNCHANGED <<cur, hooking, baseline, outcome>>
  /\ UNCHANGED <<cloud, wanted, order, bounds>>

(* LambdaHandler.update; an update under way is a ResourceConflict. *)
UpdateCode(h) ==
  /\ pc = "code" /\ h \in todo
  /\ \/ /\ fn[h].status = "PROGRESS" /\ Raise /\ UNCHANGED fn
     \/ /\ fn[h].status # "PROGRESS"
        /\ fn' = IF fn[h].status = "NOEXIST" THEN fn
                 ELSE [fn EXCEPT ![h].status = "PROGRESS", ![h].next = image]
        /\ todo' = todo \ {h}
        /\ UNCHANGED <<pc, cur, hooking, baseline, outcome>>
  /\ UNCHANGED <<stack, image, policy, kvs, wanted, order, bounds>>

(* wait_update of every function. *)
WaitUpdates ==
  /\ pc = "code" /\ todo = {}
  /\ \/ /\ \E h \in Handlers : fn[h].status = "FAILED"
        /\ Raise
     \/ /\ \A h \in Handlers : fn[h].status \notin {"PROGRESS", "FAILED"}
        /\ Go("stack")
  /\ UNCHANGED <<cloud, wanted, order, bounds>>

UpdateContainerStack ==
  /\ pc = "stack"
  /\ \/ /\ YamlSynced("container")
        /\ pc' = "sync" /\ todo' = Handlers
        /\ UNCHANGED <<cur, hooking, baseline, outcome, stack>>
     \/ /\ ~YamlSynced("container") /\ CanUpdate("container")
        /\ SetToWork("container", "UPDATE_IN_PROGRESS")
        /\ AwaitOperation("UPDATE_IN_PROGRESS")
  /\ UNCHANGED <<image, fn, policy, kvs, wanted, order, bounds>>

(* Container.ensure_post_deploy_state, one function at a time;  *)
(* another update under way is a ResourceConflict here too.               *)
SyncEnvMutant(h) ==  \* left to the next update of the stack
  /\ pc = "sync" /\ h \in todo
  /\ todo' = todo \ {h}
  /\ UNCHANGED <<pc, cur, hooking, baseline, outcome>>
  /\ UNCHANGED <<cloud, wanted, order, bounds>>

SyncEnv(h) ==
  /\ pc = "sync" /\ h \in todo
  /\ \/ /\ fn[h].status = "PROGRESS" /\ fn[h].env # release.hash
        /\ Raise /\ UNCHANGED fn
     \/ /\ fn[h].status \in {"COMPLETED", "FAILED"} /\ fn[h].env # release.hash
        /\ fn' = [fn EXCEPT ![h].env = release.hash, ![h].status = "COMPLETED"]
        /\ todo' = todo \ {h}
        /\ UNCHANGED <<pc, cur, hooking, baseline, outcome>>
     \/ /\ fn[h].status = "NOEXIST" \/ fn[h].env = release.hash
        /\ todo' = todo \ {h}
        /\ UNCHANGED <<fn, pc, cur, hooking, baseline, outcome>>
  /\ UNCHANGED <<stack, image, policy, kvs, wanted, order, bounds>>

Synced ==
  /\ pc = "sync" /\ todo = {}
  /\ Proceed
  /\ UNCHANGED <<cloud, wanted, order, bounds>>

-----------------------------------------------------------------------------
(* CloudFront: create is update.                                            *)

UpdateCloudFront ==
  /\ pc \in {"create", "update"} /\ cur = "cloudfront"
  /\ \/ /\ CfnStatus(cur) = "NOEXIST"
        /\ SetToWork(cur, "CREATE_IN_PROGRESS")
        /\ AwaitOperation("CREATE_IN_PROGRESS")
     \/ /\ CfnStatus(cur) # "NOEXIST" /\ ~YamlSynced(cur) /\ CanUpdate(cur)
        /\ SetToWork(cur, "UPDATE_IN_PROGRESS")
        /\ AwaitOperation("UPDATE_IN_PROGRESS")
     \/ /\ CfnStatus(cur) # "NOEXIST" /\ YamlSynced(cur)
        /\ AwaitOperation(Detail(cur)) /\ UNCHANGED stack
     \/ /\ CfnStatus(cur) # "NOEXIST" /\ ~YamlSynced(cur) /\ ~CanUpdate(cur)
        /\ Raise /\ UNCHANGED stack  \* update_stack is refused
  /\ UNCHANGED <<image, fn, policy, kvs, wanted, order, bounds>>

(* CloudFront.ensure_post_deploy_state looks whether the stack is there. *)
HookMutant ==  \* what the wait was to be followed by is not made up for
  /\ pc = "hook"
  /\ Proceed
  /\ UNCHANGED <<cloud, wanted, order, bounds>>

Hook ==
  /\ pc = "hook"
  /\ \/ StackStatus("cloudfront") = "COMPLETED" /\ Go("policy")
     \/ StackStatus("cloudfront") # "COMPLETED" /\ Proceed
  /\ UNCHANGED <<cloud, wanted, order, bounds>>

EnsureBucketPolicy ==
  /\ pc = "policy"
  /\ policy' = TRUE
  /\ Go("kvs")
  /\ UNCHANGED <<stack, image, fn, kvs, wanted, order, bounds>>

(* prepare_deploy has read the token from the store, if given a mediator. *)
WriteTokenToKvs ==
  /\ pc = "kvs"
  /\ kvs' = IF command = "deploy" THEN release.token ELSE kvs
  /\ Proceed
  /\ UNCHANGED <<stack, image, fn, policy, wanted, order, bounds>>

(* The run is cut off: killed, out of patience, or refused by a call. *)
Interrupt ==
  /\ pc # "idle" /\ failures < MaxFailures
  /\ Raise
  /\ failures' = failures + 1
  /\ UNCHANGED <<cloud, wanted, order, changes>>

-----------------------------------------------------------------------------
(* CloudFormation.                                                          *)

Settle(s, detail, template) ==
  stack' = [stack EXCEPT ![s] =
    [detail |-> detail, template |-> template, next |-> NoTemplate]]

(* A create makes the functions and the distribution; an update touches     *)
(* what its template changes.                                               *)
Complete(s) ==
  /\ \/ /\ Detail(s) = "CREATE_IN_PROGRESS"
        /\ Settle(s, "CREATE_COMPLETE", stack[s].next)
        /\ fn' = IF s # "container" THEN fn
                 ELSE [h \in Handlers |->
                   [status |-> "COMPLETED", code |-> image,
                    env |-> stack[s].next.hash, next |-> None]]
        /\ kvs' = IF s = "cloudfront" THEN None ELSE kvs
     \/ /\ Detail(s) = "UPDATE_IN_PROGRESS"
        /\ Settle(s, "UPDATE_COMPLETE", stack[s].next)
        /\ fn' = IF s = "container" /\ stack[s].next.hash # stack[s].template.hash
                 THEN [h \in Handlers |->
                   [fn[h] EXCEPT !.env = stack[s].next.hash]]
                 ELSE fn
        /\ UNCHANGED kvs
  /\ UNCHANGED <<image, policy, wanted, run, bounds>>

Rollback(s) ==
  /\ failures < MaxFailures
  /\ \/ /\ Detail(s) = "CREATE_IN_PROGRESS"
        /\ Settle(s, "ROLLBACK_IN_PROGRESS", stack[s].template)
     \/ /\ Detail(s) = "UPDATE_IN_PROGRESS"
        /\ Settle(s, "UPDATE_ROLLBACK_IN_PROGRESS", stack[s].template)
  /\ failures' = failures + 1
  /\ UNCHANGED <<image, fn, policy, kvs, wanted, run, changes>>

(* What the update had changed is put back to the old template. *)
Restored(s) ==
  IF s # "container" THEN {fn}
  ELSE {fn, [h \in Handlers |-> [fn[h] EXCEPT !.env = stack[s].template.hash]]}

FinishRollback(s) ==
  /\ \/ /\ Detail(s) = "ROLLBACK_IN_PROGRESS"
        /\ Settle(s, "ROLLBACK_COMPLETE", stack[s].template)
        /\ UNCHANGED fn
     \/ /\ Detail(s) = "UPDATE_ROLLBACK_IN_PROGRESS"
        /\ Settle(s, "UPDATE_ROLLBACK_COMPLETE", stack[s].template)
        /\ fn' \in Restored(s)
  /\ UNCHANGED <<image, policy, kvs, wanted, run, bounds>>

RollbackFails(s) ==
  /\ Detail(s) = "UPDATE_ROLLBACK_IN_PROGRESS" /\ failures < MaxFailures
  /\ Settle(s, "UPDATE_ROLLBACK_FAILED", stack[s].template)
  /\ failures' = failures + 1
  /\ UNCHANGED <<image, fn, policy, kvs, wanted, run, changes>>

(* Lambda puts the new code in place, or fails to. *)
FunctionUpdated(h) ==
  /\ fn[h].status = "PROGRESS"
  /\ fn' = [fn EXCEPT ![h].status = "COMPLETED", ![h].code = fn[h].next,
                      ![h].next = None]
  /\ UNCHANGED <<stack, image, policy, kvs, wanted, run, bounds>>

FunctionUpdateFails(h) ==
  /\ fn[h].status = "PROGRESS" /\ failures < MaxFailures
  /\ fn' = [fn EXCEPT ![h].status = "FAILED", ![h].next = None]
  /\ failures' = failures + 1
  /\ UNCHANGED <<stack, image, policy, kvs, wanted, run, changes>>

(* What the message of a FAILED resource asks for, done in the console      *)
(* between runs: a stack whose creation failed is deleted, a stuck rollback *)
(* is continued, a function is updated by hand.                             *)
RepairStack(s) ==
  /\ pc = "idle"
  /\ \/ /\ Detail(s) = "ROLLBACK_COMPLETE"
        /\ Settle(s, "NOT_CREATED", NoTemplate)
        /\ UNCHANGED fn
     \/ /\ Detail(s) = "UPDATE_ROLLBACK_FAILED"
        /\ Settle(s, "UPDATE_ROLLBACK_COMPLETE", stack[s].template)
        /\ fn' \in Restored(s)
  /\ outcome' = "none"
  /\ UNCHANGED <<image, policy, kvs, wanted, order, place, bounds>>

RepairFunction(h) ==
  /\ pc = "idle" /\ fn[h].status = "FAILED"
  /\ fn' = [fn EXCEPT ![h].status = "COMPLETED"]
  /\ outcome' = "none"
  /\ UNCHANGED <<stack, image, policy, kvs, wanted, order, place, bounds>>

-----------------------------------------------------------------------------
Command ==
  \/ Start \/ DeployInit \/ Ask \/ AskBeforeUpdate
  \/ CreateVpc \/ UpdateVpc \/ WaitForVpc \/ Poll
  \/ CreateContainer \/ UpdateContainer \/ WaitUpdates \/ UpdateContainerStack
  \/ Synced \/ UpdateCloudFront \/ Hook \/ EnsureBucketPolicy \/ WriteTokenToKvs
  \/ \E h \in Handlers : UpdateCode(h) \/ SyncEnv(h)

Finishes(s) == Complete(s) \/ FinishRollback(s)

Next ==
  \/ Command \/ StartUpdate \/ Interrupt
  \/ \E r \in Releases : Change(r)
  \/ \E s \in Stacks :
       Finishes(s) \/ Rollback(s) \/ RollbackFails(s) \/ RepairStack(s)
  \/ \E h \in Handlers :
       FunctionUpdated(h) \/ FunctionUpdateFails(h) \/ RepairFunction(h)

Spec == Init /\ [][Next]_vars

(* Someone goes on deploying, CloudFormation and Lambda finish what they    *)
(* began, and what fails for good is repaired.  A repair has to happen      *)
(* between two runs (SF): the resource may be looked at again and again.    *)
Fairness ==
  /\ WF_vars(Command)
  /\ \A s \in Stacks : WF_vars(Finishes(s)) /\ SF_vars(RepairStack(s))
  /\ \A h \in Handlers :
       WF_vars(FunctionUpdated(h)) /\ SF_vars(RepairFunction(h))

FairSpec == Spec /\ Fairness

-----------------------------------------------------------------------------
StackType == [detail : Details, template : Templates, next : Templates]
FunctionType ==
  [status : FunctionStatuses, code : Codes \cup {None},
   env : Hashes \cup {None}, next : Codes \cup {None}]
Steps == Questions \cup {"idle", "init", "create", "wait_vpc", "create_stack",
  "update", "code", "stack", "wait", "sync", "hook", "policy", "kvs"}

StacksOK == stack \in [Stacks -> StackType]
FunctionsOK ==
  image \in Codes \cup {None} /\ fn \in [Handlers -> FunctionType]
FlagsOK == policy \in BOOLEAN /\ hooking \in BOOLEAN /\ quiet \in BOOLEAN
RunOK ==
  /\ kvs \in Tokens \cup {None}
  /\ wanted \in Releases /\ release \in Releases
  /\ command \in {"deploy", "update"}
  /\ pc \in Steps /\ cur \in Stacks
  /\ baseline \in Details /\ todo \subseteq Handlers
  /\ outcome \in {"none", "ok", "skipped", "failed"}
BoundsOK == changes \in 0..MaxChanges /\ failures \in 0..MaxFailures

(* Every variable has its type; a wait compares details with details. *)
TypeOK == StacksOK /\ FunctionsOK /\ FlagsOK /\ RunOK /\ BoundsOK

Ok == outcome = "ok" /\ command = "deploy"
Released(s) ==
  Detail(s) \in AtRest /\ stack[s].template = TemplateOf(s, release, TRUE)

(* A run that began with nothing under way and that ends well has brought   *)
(* out its release: the container and CloudFront have its templates, every  *)
(* function runs its image, the functions and the CloudFront Function agree *)
(* on DEPLOY_HASH, the bucket lets the distribution in and its key-value    *)
(* store has the token.  No failure, rollback or time-out of this run or an *)
(* earlier one hides behind the exit code 0 of deploy_resources, which      *)
(* raises on FAILED and PROGRESS and skips what is COMPLETED.               *)
SuccessDelivers ==
  Ok /\ quiet =>
    /\ Released("container") /\ Released("cloudfront")
    /\ \A h \in Handlers : fn[h].code = release.code /\ fn[h].env = release.hash
    /\ policy /\ kvs = release.token

(* However the statuses were read, after a run that ends well every         *)
(* function that there is has the DEPLOY_HASH of the release, and keeps it: *)
(* no operation is left that would put back another one.  It is what        *)
(* Container.ensure_post_deploy_state is for: CloudFormation tells of no    *)
(* difference when only DEPLOY_HASH changed.                                *)
EnvSynced ==
  Ok => \A h \in Handlers : fn[h].status # "NOEXIST" => fn[h].env = release.hash

(* When failures and changes come to an end and someone goes on deploying,  *)
(* the whole stage, the VPC and what the hooks add included, comes to be    *)
(* the release that is wanted, whatever was cut off before.                 *)
AllReleased ==
  /\ release = wanted
  /\ \A s \in Stacks : Released(s)
  /\ \A h \in Handlers : fn[h].code = wanted.code /\ fn[h].env = wanted.hash
  /\ policy /\ kvs = wanted.token

Converges == <>[]AllReleased
=============================================================================
