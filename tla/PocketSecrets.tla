---------------------------- MODULE PocketSecrets ----------------------------
(***************************************************************************)
(* The managed secrets of a stage (pocket_cli/mediator.py, migrations.py,  *)
(* pocket/resources/aws/ssm.py and secretsmanager.py): passwords and keys  *)
(* that pocket generates once and that every Lambda cold start reads.      *)
(*                                                                         *)
(* A key that a container declares is kept in the container's own store,   *)
(* or, when declared `shared = true`, in the store of the project.  Before *)
(* release 0.29 every key was in the project's store.  A deploy inherits   *)
(* what it can from there, generates what is missing, deletes what nobody  *)
(* declares, and only then switches the Lambda, container after container; *)
(* what the migration left behind is deleted after the deploy.             *)
(*                                                                         *)
(* One command runs on a stage at a time.  It may die between any two      *)
(* calls.  A value is known by the number of the generation that made it.  *)
(***************************************************************************)
EXTENDS Naturals

CONSTANTS
  Containers,   \* the [container.<name>] sections of pocket.toml
  Keys,         \* names of managed secrets
  PairKeys,     \* those whose value is a pair, pem and pub
  Project,      \* the shared store, which belongs to the project
  None,         \* not a container
  Store,        \* "sm": one JSON per store; "ssm": one parameter per value
  Moves,        \* the changes of a declaration that the operator makes
  MaxEvents     \* bound on edits, extra commands and interruptions together

Modes == {"none", "own", "shared"}

ASSUME PlacesAssumption == Project \notin Containers /\ None \notin Containers
ASSUME KeysAssumption == PairKeys \subseteq Keys
ASSUME MovesAssumption == Moves \subseteq Modes \X Modes
ASSUME StoreAssumption == Store \in {"sm", "ssm"}
ASSUME BoundAssumption == MaxEvents \in Nat

VARIABLES
  decl,       \* pocket.toml: how each container declares each key
  deployed,   \* containers whose stack exists
  running,    \* the declarations inside the image a container runs
  allowed,    \* the stores the role of a container may read
  legacy,     \* the stack of a release before 0.29 still runs
  store,      \* the value of each key in each store
  pc,         \* the next step of the running command
  left,       \* stores or containers the current loop has yet to visit
  todo,       \* containers the deploy has yet to bring up to date
  target,     \* the container being brought up to date
  at, batch,  \* the write in progress: its store and its values
  next,       \* number of the next generation
  cmd,        \* the command that is running
  lost,       \* history: what a running image reads and a command deleted
  orphaned,   \* history: and of that, what a deploy deleted as an orphan
  since,      \* history: first generation after the last full deletion
  settled,    \* history: a deploy has ended well and nothing changed since
  parted,     \* history: keys whose values the containers hold apart
  events      \* edits, extra commands and interruptions so far

lambdas == <<deployed, running, allowed>>
writing == <<at, batch>>
loop == <<left, todo, target, cmd>>
history == <<lost, orphaned, since, settled, parted>>
vars == <<decl, lambdas, legacy, store, pc, loop, writing, next, history,
          events>>

Places == Containers \cup {Project}
Missing == [gen |-> 0, part |-> "none"]
Values == [gen: Nat, part: {"none", "pem", "all"}]
Whole(g) == [gen |-> g, part |-> "all"]
Present(p, k) == store[p][k] # Missing

NoDeclaration == [k \in Keys |-> "none"]
EmptyBatch == [k \in Keys |-> Missing]
Quiet == batch = EmptyBatch

-----------------------------------------------------------------------------
(* The views of the declarations. *)

DeclaredAs(d, m) == {k \in Keys : d[k] = m}
OwnKeys(c) == DeclaredAs(decl[c], "own")
SharedKeys == {k \in Keys : \E c \in Containers : decl[c][k] = "shared"}
Managed(p) == IF p = Project THEN SharedKeys ELSE OwnKeys(p)

\* A container with no key of its own has no view, so no loop visits its store.
Views == {Project} \cup {c \in Containers : OwnKeys(c) # {}}

\* Where a container whose image declares d finds key k.
PlaceOf(c, m) == IF m = "shared" THEN Project ELSE c
PlacesOf(c, d) == {PlaceOf(c, d[k]) : k \in {j \in Keys : d[j] # "none"}}

\* What running images read among the keys ks of a store.
Reading(p, ks) ==
  {ck \in Containers \X Keys :
     /\ ck[2] \in ks /\ Present(p, ck[2])
     /\ running[ck[1]][ck[2]] # "none"
     /\ PlaceOf(ck[1], running[ck[1]][ck[2]]) = p}

\* Keys that some container keeps for itself.
UnsharedDeclared == UNION {OwnKeys(c) : c \in Containers}

\* A key that is shared by one container and kept by another has two values,
\* and so has one that left a container's store for the shared one.
MixedIn(d) == {k \in Keys : \E c, e \in Containers : d[c][k] = "own"
                                               /\ d[e][k] = "shared"}
LeavingIn(d, e) == {k \in Keys : \E c \in Containers : d[c][k] = "own"
                                                 /\ e[c][k] # "own"}

ExpectedMutant == SharedKeys
Expected == SharedKeys \cup UnsharedDeclared

Orphans(p) ==
  {k \in Keys : Present(p, k)} \
     (IF p = Project THEN Expected ELSE Managed(p))

InheritedMutant(c) == {}

\* Keys a container takes over from where releases before 0.29 kept them.
Inherited(c) == {k \in OwnKeys(c) : ~Present(c, k) /\ Present(Project, k)} \
                  SharedKeys

\* Old copies in the project's store that every container has taken over.
Residue ==
  {k \in UnsharedDeclared :
     /\ Present(Project, k)
     /\ \A c \in Containers : k \in OwnKeys(c) => Present(c, k)} \ SharedKeys

-----------------------------------------------------------------------------
Init ==
  /\ decl \in [Containers -> [Keys -> Modes]]
  /\ deployed = {}
  /\ running = [c \in Containers |-> NoDeclaration]
  /\ allowed = [c \in Containers |-> {}]
  /\ legacy \in BOOLEAN
  /\ store = [p \in Places |->
                [k \in Keys |-> IF legacy /\ p = Project THEN Whole(1)
                                ELSE Missing]]
  /\ pc = "idle" /\ left = {} /\ todo = {} /\ target = None /\ cmd = "none"
  /\ at = Project /\ batch = EmptyBatch
  /\ next = 2
  /\ lost = {} /\ orphaned = {} /\ since = 0 /\ settled = FALSE /\ parted = MixedIn(decl)
  /\ events = 0

\* The operator edits pocket.toml.  A command reads it once, when it starts.
Edit(c, k, m) ==
  /\ pc = "idle" /\ events < MaxEvents
  /\ <<decl[c][k], m>> \in Moves
  /\ decl' = [decl EXCEPT ![c][k] = m]
  /\ events' = events + 1
  /\ settled' = FALSE
  /\ parted' = parted \cup MixedIn(decl') \cup LeavingIn(decl, decl')
  /\ UNCHANGED <<lambdas, legacy, store, pc, loop, writing, next, lost,
                 orphaned, since>>

-----------------------------------------------------------------------------
(* Commands. *)

Deploy ==
  /\ pc = "idle"
  /\ pc' = "next" /\ cmd' = "deploy" /\ todo' = Containers
  /\ UNCHANGED <<decl, lambdas, legacy, store, left, target, writing, next,
                 history, events>>

\* Not counted as an event: the second half of a rotation, which creates again
\* what running images miss since the first.
Repairs(command) == lost \ orphaned # {} /\ command = "create"

\* `secrets create-pocket-managed` and `pocket migrate container-secrets`.
Ensure(command) ==
  /\ pc = "idle" /\ command \in {"create", "migrate"}
  /\ events < MaxEvents \/ Repairs(command)
  /\ pc' = "inherit" /\ cmd' = command /\ left' = Views \ {Project}
  /\ events' = IF Repairs(command) THEN events ELSE events + 1
  /\ UNCHANGED <<decl, lambdas, legacy, store, todo, target, writing, next,
                 history>>

\* `secrets delete-pocket-managed`, the first half of a rotation.
Delete ==
  /\ pc = "idle" /\ events < MaxEvents
  /\ pc' = "wipe" /\ cmd' = "delete" /\ left' = Views
  /\ events' = events + 1
  /\ settled' = FALSE
  /\ UNCHANGED <<decl, lambdas, legacy, store, todo, target, writing, next,
                 lost, orphaned, since, parted>>

WipeMutant(p) ==
  /\ pc = "wipe" /\ p \in left /\ (Project \in left => p = Project)
  /\ left' = {}
  /\ store' = [store EXCEPT ![p] = EmptyBatch]
  /\ lost' = lost \cup Reading(p, Keys)
  /\ orphaned' = orphaned \ Reading(p, Keys)
  /\ UNCHANGED <<decl, lambdas, legacy, pc, todo, target, cmd, writing, next,
                 since, settled, parted, events>>

Wipe(p) ==
  /\ pc = "wipe" /\ p \in left /\ (Project \in left => p = Project)
  /\ left' = left \ {p}
  /\ store' = [store EXCEPT ![p] = EmptyBatch]
  /\ lost' = lost \cup Reading(p, Keys)
  /\ orphaned' = orphaned \ Reading(p, Keys)
  /\ UNCHANGED <<decl, lambdas, legacy, pc, todo, target, cmd, writing, next,
                 since, settled, parted, events>>

WipeDone ==
  /\ pc = "wipe" /\ left = {}
  /\ pc' = "idle" /\ cmd' = "none" /\ since' = next
  /\ UNCHANGED <<decl, lambdas, legacy, store, left, todo, target, writing,
                 next, lost, orphaned, settled, parted, events>>

-----------------------------------------------------------------------------
(* A deploy brings one container after the other up to date, and has the    *)
(* secrets of the whole stage ensured before each that changes.             *)

UpToDate(c) ==
  /\ c \in deployed
  /\ running[c] = decl[c]
  /\ allowed[c] = PlacesOf(c, decl[c])

\* Its code may have changed even when its declarations have not.
Update(c) ==
  /\ pc = "next" /\ c \in todo
  /\ pc' = "inherit" /\ target' = c /\ todo' = todo \ {c}
  /\ left' = Views \ {Project}
  /\ UNCHANGED <<decl, lambdas, legacy, store, cmd, writing, next, history,
                 events>>

Skip(c) ==
  /\ pc = "next" /\ c \in todo /\ UpToDate(c)
  /\ todo' = todo \ {c}
  /\ UNCHANGED <<decl, lambdas, legacy, store, pc, left, target, cmd, writing,
                 next, history, events>>

(* Writing a batch of values: one call with Secrets Manager; with the        *)
(* Parameter Store one parameter at a time, the pem of a pair before its pub.*)

Write ==
  /\ ~Quiet /\ Store = "sm"
  /\ store' = [store EXCEPT ![at] =
                 [k \in Keys |-> IF batch[k] = Missing THEN @[k] ELSE batch[k]]]
  /\ batch' = EmptyBatch
  /\ UNCHANGED <<decl, lambdas, legacy, pc, loop, at, next, history, events>>

Put(k) ==
  /\ Store = "ssm" /\ batch[k] # Missing
  /\ IF k \in PairKeys /\ batch[k].part = "all" /\ ~Present(at, k)
     THEN /\ store' = [store EXCEPT ![at][k] =
                         [gen |-> batch[k].gen, part |-> "pem"]]
          /\ UNCHANGED batch
     ELSE /\ store' = [store EXCEPT ![at][k] = batch[k]]
          /\ batch' = [batch EXCEPT ![k] = Missing]
  /\ UNCHANGED <<decl, lambdas, legacy, pc, loop, at, next, history, events>>

\* _ensure_container_secret_inheritance, for one container.
Inherit(c) ==
  /\ pc = "inherit" /\ Quiet /\ c \in left
  /\ left' = left \ {c}
  /\ at' = c
  /\ batch' = [k \in Keys |-> IF k \in Inherited(c) THEN store[Project][k]
                              ELSE Missing]
  /\ UNCHANGED <<decl, lambdas, legacy, store, pc, todo, target, cmd, next,
                 history, events>>

InheritDone ==
  /\ pc = "inherit" /\ Quiet /\ left = {}
  /\ IF cmd = "migrate"
     THEN pc' = "idle" /\ cmd' = "none" /\ UNCHANGED left
     ELSE pc' = "generate" /\ left' = Views /\ UNCHANGED cmd
  /\ UNCHANGED <<decl, lambdas, legacy, store, todo, target, writing, next,
                 history, events>>

\* _create_store_secrets, for one store: the project's comes first.
Generate(p) ==
  LET missing == {k \in Managed(p) : ~Present(p, k)} IN
  /\ pc = "generate" /\ Quiet /\ p \in left /\ (Project \in left => p = Project)
  /\ left' = left \ {p}
  /\ at' = p
  /\ batch' = [k \in Keys |-> IF k \in missing THEN Whole(next) ELSE Missing]
  /\ next' = IF missing = {} THEN next ELSE next + 1
  /\ UNCHANGED <<decl, lambdas, legacy, store, pc, todo, target, cmd, history,
                 events>>

GenerateDone ==
  /\ pc = "generate" /\ Quiet /\ left = {}
  /\ lost' = {ck \in lost : ~Present(PlaceOf(ck[1], running[ck[1]][ck[2]]), ck[2])}
  /\ orphaned' = orphaned \cap lost'
  /\ IF cmd = "create"
     THEN pc' = "idle" /\ cmd' = "none" /\ UNCHANGED left
     ELSE pc' = "clean" /\ left' = Views /\ UNCHANGED cmd
  /\ UNCHANGED <<decl, lambdas, legacy, store, todo, target, writing, next,
                 since, settled, parted, events>>

\* _cleanup_orphaned_secrets, for one store.
Clean(p) ==
  /\ pc = "clean" /\ p \in left /\ (Project \in left => p = Project)
  /\ left' = left \ {p}
  /\ store' = [store EXCEPT ![p] =
                 [k \in Keys |-> IF k \in Orphans(p) THEN Missing ELSE @[k]]]
  /\ lost' = lost \cup Reading(p, Orphans(p))
  /\ orphaned' = orphaned \cup Reading(p, Orphans(p))
  /\ UNCHANGED <<decl, lambdas, legacy, pc, todo, target, cmd, writing, next,
                 since, settled, parted, events>>

\* A container that does not exist gets its code and its role together.
CreateStack ==
  /\ pc = "clean" /\ left = {} /\ target \notin deployed
  /\ deployed' = deployed \cup {target}
  /\ running' = [running EXCEPT ![target] = decl[target]]
  /\ allowed' = [allowed EXCEPT ![target] = PlacesOf(target, decl[target])]
  /\ pc' = "next" /\ target' = None
  /\ lost' = lost \ ({target} \X Keys)
  /\ orphaned' = orphaned \ ({target} \X Keys)
  /\ UNCHANGED <<decl, legacy, store, left, todo, cmd, writing, next, since,
                 settled, parted, events>>

\* A container that exists gets its code first, its role afterwards.
UpdateCode ==
  /\ pc = "clean" /\ left = {} /\ target \in deployed
  /\ running' = [running EXCEPT ![target] = decl[target]]
  /\ pc' = "role"
  /\ lost' = lost \ ({target} \X Keys)
  /\ orphaned' = orphaned \ ({target} \X Keys)
  /\ UNCHANGED <<decl, deployed, allowed, legacy, store, loop, writing, next,
                 since, settled, parted, events>>

UpdateRoleMutant ==
  /\ pc = "role"
  /\ allowed' = allowed
  /\ pc' = "next" /\ target' = None
  /\ UNCHANGED <<decl, deployed, running, legacy, store, left, todo, cmd,
                 writing, next, history, events>>

UpdateRole ==
  /\ pc = "role"
  /\ allowed' = [allowed EXCEPT ![target] = PlacesOf(target, decl[target])]
  /\ pc' = "next" /\ target' = None
  /\ UNCHANGED <<decl, deployed, running, legacy, store, left, todo, cmd,
                 writing, next, history, events>>

-----------------------------------------------------------------------------
(* After the deploy: what the migration to container stores left behind.    *)

DeployDone ==
  /\ pc = "next" /\ todo = {}
  /\ pc' = "residue" /\ settled' = TRUE
  /\ UNCHANGED <<decl, lambdas, legacy, store, loop, writing, next, lost,
                 orphaned, since, parted, events>>

\* The operator is asked before anything is deleted, and may decline.
RemoveResidue ==
  /\ pc = "residue"
  /\ \/ store' = [store EXCEPT ![Project] =
                    [k \in Keys |-> IF k \in Residue THEN Missing ELSE @[k]]]
     \/ UNCHANGED store
  /\ pc' = "legacy"
  /\ UNCHANGED <<decl, lambdas, legacy, loop, writing, next, history, events>>

RemoveLegacyStack ==
  /\ pc = "legacy"
  /\ legacy' \in {legacy, FALSE}
  /\ pc' = "idle" /\ cmd' = "none"
  /\ UNCHANGED <<decl, lambdas, store, left, todo, target, writing, next,
                 history, events>>

\* The process dies, a call is refused, a stored user secret is not there,
\* or the stack does not reach its new state.
Interrupt ==
  /\ pc # "idle" /\ events < MaxEvents
  /\ events' = events + 1
  /\ pc' = "idle" /\ cmd' = "none"
  /\ left' = {} /\ todo' = {} /\ target' = None /\ batch' = EmptyBatch
  /\ UNCHANGED <<decl, lambdas, legacy, store, at, next, history>>

Step ==
  \/ Write \/ \E k \in Keys : Put(k)
  \/ \E c \in Containers : Skip(c) \/ Update(c) \/ Inherit(c)
  \/ \E p \in Places : Generate(p) \/ Clean(p) \/ Wipe(p)
  \/ WipeDone \/ InheritDone \/ GenerateDone
  \/ CreateStack \/ UpdateCode \/ UpdateRole
  \/ DeployDone \/ RemoveResidue \/ RemoveLegacyStack

Next ==
  \/ \E c \in Containers, k \in Keys, m \in Modes : Edit(c, k, m)
  \/ Deploy \/ Delete \/ \E command \in {"create", "migrate"} : Ensure(command)
  \/ Step \/ Interrupt

Spec == Init /\ [][Next]_vars

\* A command that runs goes on; the operator deploys until a deploy ends well,
\* and finishes a rotation he began even if he deploys in between (a deploy of
\* unchanged containers creates nothing, so no number of deploys replaces it).
\* Nothing tells him to create what a deploy deleted as an orphan.
\* Edits, interruptions and the other commands stop (they are bounded).
FairSpec ==
  /\ Spec
  /\ WF_vars(Step)
  /\ SF_vars(lost \ orphaned # {} /\ Ensure("create"))
  /\ SF_vars(~settled /\ Deploy)

-----------------------------------------------------------------------------
(* Properties. *)

PhaseOK ==
  /\ pc = "idle" => cmd = "none" /\ todo = {} /\ target = None
  /\ pc = "wipe" => cmd = "delete" /\ todo = {} /\ target = None
  /\ pc = "next" => cmd = "deploy" /\ target = None
  /\ pc \in {"inherit", "generate"} =>
       \/ cmd = "deploy" /\ target # None
       \/ cmd \in {"create", "migrate"} /\ todo = {} /\ target = None
  /\ pc = "generate" => cmd # "migrate"
  /\ pc \in {"clean", "role"} => cmd = "deploy" /\ target # None
  /\ pc \in {"residue", "legacy"} =>
       cmd = "deploy" /\ todo = {} /\ target = None
  /\ pc \notin {"inherit", "generate"} => Quiet
  /\ target \notin todo

FlagsOK == legacy \in BOOLEAN /\ settled \in BOOLEAN

DataOK ==
  /\ decl \in [Containers -> [Keys -> Modes]]
  /\ deployed \subseteq Containers
  /\ running \in [Containers -> [Keys -> Modes]]
  /\ allowed \in [Containers -> SUBSET Places]
  /\ store \in [Places -> [Keys -> Values]]
  /\ pc \in {"idle", "next", "inherit", "generate", "clean", "role", "residue",
             "legacy", "wipe"}
  /\ left \subseteq Places /\ todo \subseteq Containers
  /\ target \in Containers \cup {None}
  /\ at \in Places /\ batch \in [Keys -> Values]
  /\ next \in Nat /\ since \in Nat
  /\ cmd \in {"none", "deploy", "create", "migrate", "delete"}
  /\ parted \subseteq Keys
  /\ lost \subseteq Containers \X Keys /\ orphaned \subseteq lost
  /\ events \in Nat

\* Every variable has its type, and the phase of a command fits the work that
\* is left: a deploy is not over while a container is still to be visited.
TypeOK == FlagsOK /\ DataOK /\ PhaseOK

\* The image of c reads k in the store it will go on to read it in, or in the
\* project's store while some container still declares k.
Kept(c, k) ==
  \/ running[c][k] = "own" /\ decl[c][k] = "own"
  \/ running[c][k] = "shared" /\ \E e \in Containers : decl[e][k] # "none"

\* A value that a running image reads is neither replaced nor deleted under it
\* by anything but a rotation: not when a deploy generates, not when orphans or
\* residues are deleted, and however the deploys before were interrupted
\* (mediator._cleanup_orphaned_secrets, migrations).
ValueKept ==
  [][\A c \in Containers, k \in Keys :
       LET p == PlaceOf(c, running[c][k]) IN
       Kept(c, k) /\ running'[c][k] = running[c][k] /\ Present(p, k)
         /\ pc # "wipe"
       => store'[p][k].gen = store[p][k].gen]_vars

\* A container that turns from the project's store to its own finds there the
\* value that was in use, so sessions survive the migration -- unless it was
\* given a value of its own before (_ensure_container_secret_inheritance).
MigrationKeepsValue ==
  [][\A c \in Containers, k \in Keys :
       /\ legacy \/ running[c][k] = "shared"
       /\ running[c][k] # "own" /\ running'[c][k] = "own"
       /\ k \notin parted /\ Present(Project, k)
       => store'[c][k].gen = store[Project][k].gen]_vars

\* Once all managed secrets have been deleted in order to rotate them, no value
\* from before comes back into use -- unless it had been left in the store of a
\* container that keeps nothing there any more (Views).
RotationEffective ==
  \A c \in Containers, k \in Keys \ parted :
    LET p == PlaceOf(c, decl[c][k]) IN
    decl[c][k] # "none" /\ Present(p, k) => store[p][k].gen >= since

\* The image of c may read k, and finds it whole, if it declares it.
Served(c, k) ==
  running[c][k] # "none" =>
    LET p == PlaceOf(c, running[c][k]) IN
    p \in allowed[c] /\ store[p][k].part = "all"

\* An interrupted write left the first half of the pair that c reads, which
\* every later deploy takes for the whole.
Halved(c, k) == store[PlaceOf(c, running[c][k])][k].part = "pem"

\* After a deploy that ended well every container can start with all its
\* secrets, and what is cleaned up afterwards, or done by later deploys of the
\* same pocket.toml, ended or not, does not take that away.  Only what was
\* deleted under a running image may be missing: by a rotation, or as an orphan
\* by a deploy that stopped, after which pocket.toml was taken back; and only
\* of a pair that an interrupted write halved is the second half missing.
ServedAfterDeploy ==
  settled =>
    \A c \in deployed, k \in Keys : <<c, k>> \in lost \/ Halved(c, k) \/ Served(c, k)

\* A deploy that stopped had deleted what the image of c reads, as an orphan of
\* a pocket.toml that was then taken back.  No deploy generates it again while
\* the containers are as pocket.toml says (Skip), and no command is asked for.
Bereft(c, k) ==
  <<c, k>> \in orphaned /\ ~Present(PlaceOf(c, running[c][k]), k)

\* An operator who keeps deploying, and finishes the rotations he begins, ends
\* with every container served, but for halved pairs and for orphans.
Settles ==
  <>[](settled /\ deployed = Containers
        /\ \A c \in Containers, k \in Keys :
             Halved(c, k) \/ Bereft(c, k) \/ Served(c, k))
=============================================================================
