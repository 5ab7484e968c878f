------------------------------- MODULE Teardown -------------------------------
(* `pocket deploy` and `pocket destroy` of the stages of a project, and of  *)
(* a stage of another project that lives in the same VPC.  A command takes  *)
(* the parts of its stage in a fixed order; the VPC and its file system     *)
(* belong to all stages of the project.  Deleting a part takes time, and    *)
(* AWS refuses to delete what something else still uses.  A command may be  *)
(* cut off, or a wait may run out, anywhere; people then run one again.     *)
EXTENDS Naturals

CONSTANTS
  Owners,     \* stages of the project whose settings manage the VPC
  Guests,     \* stages of other projects: vpc.manage = false
  Projects,   \* what each stage may declare, none if there is no such stage
  Overridden, \* stages with an ecr_name of their own: others may use the repository
  Roots,      \* stages whose Neon branch is the root of a project with others
  Failing,    \* parts whose stack may fail to be created
  Leaving,    \* stages that are destroyed in the end; others may be
  MaxDeploys, \* of each stage
  MaxCuts

Stages == Owners \cup Guests
Common == {"vpc", "efs"}
Parts == {"record", "image", "build", "acm", "waf", "external", "bucket", "rds",
          "sg", "keys", "secrets", "container", "cloudfront", "policy"}
OfContainers == Common \cup {"image", "build", "rds", "secrets"}
Stacks == {"vpc", "acm", "waf", "keys", "container", "cloudfront"}
Shared == "project"
Things == {<<Shared, p>> : p \in Common} \cup (Stages \X Parts)
Slow == {t \in Things : t[2] \in Stacks \cup {"rds"}}   \* to be deleted

ASSUME StagesAssumption ==
  /\ Owners \cap Guests = {} /\ Shared \notin Stages
  /\ Projects \subseteq [Stages -> SUBSET ((Parts \cup Common) \ {"sg"})]
  /\ \A h \in Projects, s \in Guests : Common \cap h[s] = {}
  /\ \A h \in Projects, s \in Stages :
       /\ "policy" \in h[s] => "cloudfront" \in h[s]
       /\ OfContainers \cap h[s] # {} => "container" \in h[s]
  /\ Overridden \subseteq Stages /\ Roots \subseteq Stages
ASSUME BoundsAssumption ==
  /\ Failing \subseteq Stacks /\ Leaving \subseteq Stages
  /\ MaxDeploys \in Nat /\ MaxCuts \in Nat

VARIABLES
  has,      \* the parts each stage declares
  state,    \* of each thing: none, up, broken (FAILED), going (being deleted)
  tags,     \* the guests with a consumer tag on the VPC stack
  run,      \* the steps that the command of each stage has before it: what, with which part
  deploys,  \* how often each stage was deployed
  gone,     \* the stages whose last command was a destroy that ended well
  wiped,    \* guests whose tag an update of the VPC stack took away
  cuts

vars == <<has, state, tags, run, deploys, gone, wiped, cuts>>

Steps ==
  ({"create"} \X (Parts \cup Common \cup {"tag"}))
    \cup ({"delete", "await"} \X (Parts \cup Common \cup {"untag"}))
    \cup {<<"finish", "stage">>}

Thing(s, p) == <<IF p \in Common THEN Shared ELSE s, p>>
Is(s, p) == state[Thing(s, p)]
Set(s, p, value) == state' = [state EXCEPT ![Thing(s, p)] = value]

(* What a template imports, or the parameters of a call name, and AWS does  *)
(* not delete under it.                                                     *)
NetworkReferences == {<<"vpc", "efs">>, <<"rds", "vpc">>, <<"sg", "vpc">>}
ContainerReferences == {<<"container", "vpc">>, <<"container", "keys">>}
DistributionReferences == {"cloudfront"} \X {"acm", "waf", "keys", "container"}
References == NetworkReferences \cup ContainerReferences \cup DistributionReferences

Uses(s, p, t) == <<p, t[2]>> \in References /\ Thing(s, t[2]) = t /\ Is(s, p) # "none"
InUse(t) == \E s \in Stages, p \in Parts \cup Common : Uses(s, p, t)

TypeOK ==
  /\ has \in Projects /\ state \in [Things -> {"none", "up", "broken", "going"}]
  /\ tags \subseteq Guests /\ wiped \subseteq Guests
  /\ deploys \in [Stages -> 0..MaxDeploys] /\ run \in [Stages -> SUBSET Steps]
  /\ gone \subseteq {s \in Stages : run[s] = {}}
  /\ cuts \in 0..MaxCuts
  /\ \A s \in Stages : \A p \in Parts \ (has[s] \cup {"sg"}) : Is(s, p) = "none"

Init ==
  /\ has \in Projects /\ state = [t \in Things |-> "none"] /\ tags = {} /\ run = [s \in Stages |-> {}]
  /\ deploys = [s \in Stages |-> 0] /\ gone = {} /\ wiped = {}
  /\ cuts = 0

-----------------------------------------------------------------------------
(* The commands.  A deploy runs deploy_init of all resources, then the      *)
(* resources, then their hooks.  A destroy has an order of its own; a       *)
(* security group follows the cluster, `stage` stands for the end of the     *)
(* command, and the WAF has a command of its own.                           *)
DeployOrder ==
  [record |-> 1, efs |-> 2, build |-> 3, image |-> 4, tag |-> 5, acm |-> 6, waf |-> 7,
   external |-> 8, bucket |-> 9, vpc |-> 10, rds |-> 11, secrets |-> 12, keys |-> 13,
   container |-> 14, cloudfront |-> 15, policy |-> 16]

DestroyOrderMutant ==
  [policy |-> 1, cloudfront |-> 2, acm |-> 3, vpc |-> 4, untag |-> 5, efs |-> 6,
   container |-> 7, image |-> 8, build |-> 9, secrets |-> 10, rds |-> 11, sg |-> 12,
   keys |-> 13, bucket |-> 14, external |-> 15, record |-> 16, stage |-> 17, waf |-> 18]

DestroyOrder ==
  [policy |-> 1, cloudfront |-> 2, acm |-> 3, container |-> 4, image |-> 5, build |-> 6,
   secrets |-> 7, rds |-> 8, sg |-> 9, vpc |-> 10, untag |-> 11, efs |-> 12, keys |-> 13,
   bucket |-> 14, external |-> 15, record |-> 16, stage |-> 17, waf |-> 18]

Place(todo, p) == IF todo = "create" THEN DeployOrder[p] ELSE DestroyOrder[p]

(* A guest tags the VPC of its container, and takes the tag away in the end.*)
DeploySteps(s) ==
  {"create"} \X (has[s] \cup {p \in {"tag"} : s \in Guests /\ "container" \in has[s]})

(* What --without-secrets, or a missing --with-state-bucket, keeps.  The WAF *)
(* is not touched.                                                           *)
Optional == {"secrets", "record"}
DestroySteps(s, kept) ==
  {"delete"} \X ((has[s] \ ({"waf"} \cup kept)) \cup {p \in {"untag"} : s \in Guests})

Start(s, steps) ==
  /\ run[s] = {} /\ run' = [run EXCEPT ![s] = steps]
  /\ gone' = gone \ {s}

Deploy(s) ==
  /\ has[s] # {} /\ deploys[s] < MaxDeploys /\ Start(s, DeploySteps(s))
  /\ deploys' = [deploys EXCEPT ![s] = @ + 1]
  /\ UNCHANGED <<has, state, tags, wiped, cuts>>

(* A destroy that finds nothing to delete ends well, too.                   *)
Destroy(s, kept) ==
  /\ has[s] # {}
  /\ Start(s, DestroySteps(s, kept) \cup {<<"finish", "stage">>})
  /\ UNCHANGED <<has, state, tags, deploys, wiped, cuts>>

(* `pocket resource cloudfront-waf destroy`.                                *)
DestroyWaf(s) ==
  /\ Is(s, "waf") # "none" /\ Start(s, {<<"delete", "waf">>})
  /\ UNCHANGED <<has, state, tags, deploys, wiped, cuts>>

(* The next step is the one whose part comes first.                         *)
At(s, todo, p) ==
  /\ <<todo, p>> \in run[s]
  /\ \A step \in run[s] : Place(todo, p) <= Place(todo, step[2])

Replace(s, todo, p, steps) == run' = [run EXCEPT ![s] = (@ \ {<<todo, p>>}) \cup steps]
Go(s, todo, p) == Replace(s, todo, p, {})
Raise(s) == run' = [run EXCEPT ![s] = {}]
Kept == UNCHANGED <<has, deploys, gone, wiped, cuts>>

Finish(s) ==
  /\ At(s, "finish", "stage") /\ Raise(s) /\ gone' = gone \cup {s}
  /\ UNCHANGED <<has, state, tags, deploys, wiped, cuts>>

(* Ctrl-C, the end of the CI job, a refused call, a wait that runs out.     *)
CutOff(s) ==
  /\ run[s] # {} /\ cuts < MaxCuts /\ Raise(s) /\ cuts' = cuts + 1
  /\ UNCHANGED <<has, state, tags, deploys, gone, wiped>>

-----------------------------------------------------------------------------
(* Creating.  What was met in the states FAILED and PROGRESS ends a deploy. *)

Make(s, p) ==
  At(s, "create", p) /\ Set(s, p, "up") /\ Go(s, "create", p) /\ UNCHANGED tags /\ Kept

EnsureStateBucket(s) == Make(s, "record")
EnsureEfs(s) == Make(s, "efs")
EnsureBuilder(s) == Make(s, "build")
EnsureImage(s) == Make(s, "image")
EnsureExternal(s) == Make(s, "external")
EnsureBucket(s) == Make(s, "bucket")
EnsureSecrets(s) == Make(s, "secrets")

(* deploy_init of a container in a VPC that it does not manage, and that    *)
(* only has to be there.                                                    *)
Tag(s) ==
  /\ At(s, "create", "tag") /\ UNCHANGED <<has, state, deploys, gone, cuts>>
  /\ IF Is(s, "vpc") = "none" THEN Raise(s) /\ UNCHANGED <<tags, wiped>>
     ELSE Go(s, "create", "tag") /\ tags' = tags \cup {s} /\ wiped' = wiped \ {s}

Unready(s, p) == Is(s, p) \in {"broken", "going"}

StackExists(s, p) ==
  /\ At(s, "create", p) /\ p \in Stacks /\ Is(s, p) # "none"
  /\ IF Unready(s, p) THEN Raise(s) ELSE Go(s, "create", p)
  /\ UNCHANGED <<state, tags>> /\ Kept

(* An update sends the tags of the template only.                           *)
UpdateVpc(s) ==
  /\ At(s, "create", "vpc") /\ Is(s, "vpc") = "up" /\ tags # {} /\ Go(s, "create", "vpc")
  /\ tags' = {} /\ wiped' = wiped \cup tags
  /\ UNCHANGED <<has, state, deploys, gone, cuts>>

Failed(s, p) == Set(s, p, "broken") /\ Raise(s)

(* A managed VPC is waited for; a shared one is imported as it is.          *)
CreateStack(s, p) ==
  /\ At(s, "create", p) /\ p \in Stacks /\ Is(s, p) = "none"
  /\ UNCHANGED tags /\ Kept
  /\ IF p = "container" /\ Is(s, "vpc") # "up"
       THEN IF s \in Guests THEN Failed(s, p) ELSE Raise(s) /\ UNCHANGED state
       ELSE \/ Set(s, p, "up") /\ Go(s, "create", p)
            \/ p \in Failing /\ Failed(s, p)

(* The security group is made with the cluster.                             *)
CreateRds(s) ==
  /\ At(s, "create", "rds") /\ UNCHANGED tags /\ Kept
  /\ IF Is(s, "rds") = "up" THEN Go(s, "create", "rds") /\ UNCHANGED state
     ELSE IF Is(s, "rds") = "going" \/ Is(s, "vpc") # "up" THEN Raise(s) /\ UNCHANGED state
     ELSE /\ state' = [state EXCEPT ![<<s, "rds">>] = "up", ![<<s, "sg">>] = "up"]
          /\ Go(s, "create", "rds")

EnsureBucketPolicy(s) == Make(s, "policy")

-----------------------------------------------------------------------------
(* Deleting.                                                                *)

Drop(s, p) ==
  At(s, "delete", p) /\ Set(s, p, "none") /\ Go(s, "delete", p) /\ UNCHANGED tags /\ Kept

Leave(s, p) == At(s, "delete", p) /\ Go(s, "delete", p) /\ UNCHANGED <<state, tags>> /\ Kept

(* A repository that was given a name may be another stage's as well.       *)
DeleteImage(s) == IF s \in Overridden THEN Leave(s, "image") ELSE Drop(s, "image")
DeleteBuilder(s) == Drop(s, "build")
DeleteSecrets(s) == Drop(s, "secrets")
DeleteBucket(s) == Drop(s, "bucket")
(* A root branch is left while its project has others, which may be anybody's. *)
(* (A database with provisioning = "command" is no part of the stage: neither  *)
(* command looks at it.)                                                       *)
DeleteExternal(s) == Drop(s, "external") \/ (s \in Roots /\ Leave(s, "external"))
DeleteStateBucket(s) == Drop(s, "record")

(* The statement that names the distribution is removed first: it is read   *)
(* from the outputs, which a stack whose creation failed does not have.     *)
DeleteBucketPolicy(s) ==
  /\ At(s, "delete", "policy") /\ UNCHANGED tags /\ Kept
  /\ IF Is(s, "cloudfront") = "broken" THEN Raise(s) /\ UNCHANGED state
     ELSE /\ Go(s, "delete", "policy")
          /\ IF Is(s, "cloudfront") = "none" THEN UNCHANGED state
             ELSE Set(s, "policy", "none")

RequestDeleteMutant(s, p) ==
  /\ At(s, "delete", p) /\ p \in Stacks \ {"vpc"} /\ UNCHANGED tags /\ Kept
  /\ Go(s, "delete", p)
  /\ IF Is(s, p) = "none" THEN UNCHANGED state ELSE Set(s, p, "going")

RequestDelete(s, p) ==
  /\ At(s, "delete", p) /\ p \in Stacks \ {"vpc"} /\ UNCHANGED tags /\ Kept
  /\ IF Is(s, p) = "none" THEN Go(s, "delete", p) /\ UNCHANGED state
     ELSE Set(s, p, "going") /\ Replace(s, "delete", p, {<<"await", p>>})

(* wait_status("NOEXIST"), and what wait_instance_deleted and               *)
(* wait_cluster_deleted do.                                                 *)
AwaitDeleted(s, p) ==
  /\ At(s, "await", p) /\ Is(s, p) # "going"
  /\ IF Is(s, p) = "none" THEN Go(s, "await", p) ELSE Raise(s)
  /\ UNCHANGED <<state, tags>> /\ Kept

(* A cluster that is being deleted refuses a second deletion; for one that  *)
(* is gone nothing is done, not even for its security group.                *)
DeleteRds(s) ==
  /\ At(s, "delete", "rds") /\ UNCHANGED tags /\ Kept
  /\ IF Is(s, "rds") = "none" THEN Go(s, "delete", "rds") /\ UNCHANGED state
     ELSE IF Is(s, "rds") = "going" THEN Raise(s) /\ UNCHANGED state
     ELSE /\ Set(s, "rds", "going")
          /\ Replace(s, "delete", "rds", {<<"await", "rds">>, <<"delete", "sg">>})

DeleteSecurityGroup(s) == Drop(s, "sg")

LeaveVpc(s) == run' = [run EXCEPT ![s] = @ \ ({"delete"} \X Common)]

DeleteVpcMutant(s) ==
  /\ At(s, "delete", "vpc") /\ UNCHANGED tags /\ Kept
  /\ IF tags # {} \/ Is(s, "vpc") = "none"
       THEN LeaveVpc(s) /\ UNCHANGED state
       ELSE Set(s, "vpc", "going") /\ Replace(s, "delete", "vpc", {<<"await", "vpc">>})

(* With a consumer the stack and the file system are left as they are.      *)
DeleteVpc(s) ==
  /\ At(s, "delete", "vpc") /\ UNCHANGED tags /\ Kept
  /\ IF tags # {} THEN LeaveVpc(s) /\ UNCHANGED state
     ELSE IF Is(s, "vpc") = "none" THEN Go(s, "delete", "vpc") /\ UNCHANGED state
     ELSE Set(s, "vpc", "going") /\ Replace(s, "delete", "vpc", {<<"await", "vpc">>})

DeleteEfs(s) ==
  /\ At(s, "delete", "efs") /\ UNCHANGED tags /\ Kept
  /\ IF InUse(Thing(s, "efs")) THEN Raise(s) /\ UNCHANGED state
     ELSE Set(s, "efs", "none") /\ Go(s, "delete", "efs")

UntagMutant(s) ==
  At(s, "delete", "untag") /\ Go(s, "delete", "untag") /\ UNCHANGED <<state, tags>> /\ Kept

Untag(s) ==
  /\ At(s, "delete", "untag") /\ Go(s, "delete", "untag") /\ tags' = tags \ {s}
  /\ UNCHANGED state /\ Kept

(* AWS carries a deletion out, unless something uses what is to go: then    *)
(* the request is cancelled, or fails half way.  The tags of the VPC stack  *)
(* go with it, that of a guest who came while it was going, too.            *)
Settle(t) ==
  /\ state[t] = "going"
  /\ \E value \in IF InUse(t) THEN {"up", "broken"} ELSE {"none"} :
       state' = [state EXCEPT ![t] = value]
  /\ IF t[2] = "vpc" /\ ~InUse(t) THEN tags' = {} /\ wiped' = wiped \cup tags
     ELSE UNCHANGED <<tags, wiped>>
  /\ UNCHANGED <<has, run, deploys, gone, cuts>>

-----------------------------------------------------------------------------
Creates(s) ==
  \/ EnsureStateBucket(s) \/ EnsureEfs(s) \/ EnsureBuilder(s) \/ EnsureImage(s) \/ Tag(s)
  \/ EnsureExternal(s) \/ EnsureBucket(s) \/ UpdateVpc(s) \/ CreateRds(s)
  \/ EnsureSecrets(s) \/ EnsureBucketPolicy(s)
  \/ \E p \in Stacks : StackExists(s, p) \/ CreateStack(s, p)

Deletes(s) ==
  \/ DeleteBucketPolicy(s) \/ DeleteImage(s) \/ DeleteBuilder(s) \/ DeleteSecrets(s)
  \/ DeleteRds(s) \/ DeleteSecurityGroup(s) \/ DeleteVpc(s) \/ Untag(s) \/ DeleteEfs(s)
  \/ DeleteBucket(s) \/ DeleteExternal(s) \/ DeleteStateBucket(s) \/ Finish(s)
  \/ \E p \in Stacks \cup {"rds"} : RequestDelete(s, p) \/ AwaitDeleted(s, p)

Step(s) == run[s] # {} /\ (Creates(s) \/ Deletes(s))

Next ==
  \/ \E s \in Stages :
       \/ Deploy(s) \/ DestroyWaf(s) \/ Step(s) \/ CutOff(s)
       \/ \E kept \in SUBSET (Optional \cap has[s]) : Destroy(s, kept)
  \/ \E t \in Slow : Settle(t)

Spec == Init /\ [][Next]_vars

(* A command goes on, AWS settles what it was asked, and those who leave    *)
(* run `pocket destroy` again until nothing is left.                        *)
FairSpec ==
  /\ Spec
  /\ \A t \in Slow : WF_vars(Settle(t))
  /\ \A s \in Stages : WF_vars(Step(s))
  /\ \A s \in Leaving : SF_vars(Destroy(s, {}))

-----------------------------------------------------------------------------
(* What is left of a stage, but for the repository and the database that a  *)
(* destroy leaves to others.                                                *)
Spared(s) == {p \in {"image"} : s \in Overridden} \cup {p \in {"external"} : s \in Roots}
Left(s) == {p \in Parts : Is(s, p) # "none"} \ Spared(s)

Cleared(s) ==
  /\ Left(s) \subseteq {"waf"} /\ s \notin tags
  /\ s \in Owners => tags # {} \/ (Is(s, "vpc") = "none" /\ Is(s, "efs") = "none")

(* A security group that its cluster has left behind.                       *)
LeftBehind(s, p) == p = "sg" /\ Is(s, "rds") = "none"

(* What else uses a thing that a destroy of s is to delete: a sibling, a    *)
(* guest, or a security group left behind.                                  *)
HeldByOthers(s, t) ==
  \E u \in Stages, p \in Parts : Uses(u, p, t) /\ (u # s \/ LeftBehind(u, p))
DoneWith(s, t) == \A p \in Parts : Uses(s, p, t) => LeftBehind(s, p)

(* A destroy comes to every part after all that its stage has using it is   *)
(* gone, also when it goes on with what a cut-off one has left; so what it  *)
(* asks AWS to delete and AWS refuses is the VPC, for what others have in   *)
(* it, and never a part of its own.  (The WAF has a command of its own.)    *)
DestroyInOrder ==
  [][\A t \in Things \ (Stages \X {"waf"}) :
       /\ state[t] # "going" /\ state'[t] = "going" =>
            \E s \in Stages : run'[s] # run[s] /\ DoneWith(s, t)
       /\ state[t] = "going" /\ state'[t] \in {"up", "broken"} =>
            t = <<Shared, "vpc">>]_vars

(* The owner of a VPC knows a guest only by its tag: who has a container in *)
(* it has one, unless since he put it an update of the stack has removed it *)
(* or the stack was deleted.                                                *)
ConsumersAreTagged ==
  \A s \in Guests : Is(s, "container") # "none" => s \in tags \cup wiped

(* A destroy that ended well has left nothing of the stage but what it was  *)
(* told to leave or leaves to others, the WAF, and the security group that  *)
(* a cut-off destroy had not come to; a guest is no longer a consumer.      *)
EndedDestroyIsClean ==
  \A s \in gone : Left(s) \subseteq {"waf", "secrets", "record", "sg"} /\ s \notin tags

(* The ways in which a destroy can never end.                               *)
Obstructed(s) ==
  \/ Is(s, "cloudfront") = "broken"
  \/ s \in Owners /\ HeldByOthers(s, Thing(s, "vpc"))

(* Who leaves and goes on destroying comes to the end, whatever the others  *)
(* do, unless it is obstructed; the VPC goes with the last who uses it.     *)
LeaversLeave ==
  <>[](\A s \in Leaving : Cleared(s) \/ Obstructed(s))
=============================================================================
