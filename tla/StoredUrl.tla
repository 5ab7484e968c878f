------------------------------ MODULE StoredUrl ------------------------------
(***************************************************************************)
(* The databases that pocket does not run itself: Neon branches            *)
(* (pocket/provisioning/neon.py), TiDB clusters (resources/tidb.py) and    *)
(* Upstash databases (resources/upstash.py), and the connection URL that   *)
(* an application reads from the store.  A stage declares one provider; a  *)
(* behaviour picks it, and how the database is provisioned, at the start.  *)
(*                                                                         *)
(*   provisioning = "command"  `store-url` makes the database and writes   *)
(*                             the URL; deploy only looks that it is there *)
(*   provisioning = "deploy"   deploy makes the database and puts the URL  *)
(*                             into a managed secret that it lacks         *)
(*                                                                         *)
(* No provider has transactions or locks, so operators may run commands at *)
(* the same time and every command is a list of requests that can stop     *)
(* after any of them.  A lookup and the request that follows it at once    *)
(* are one step, except where what was looked up is used much later (the   *)
(* branch to create, the plan of a deletion, the password a TiDB object    *)
(* remembers).  What the providers do with a request is external: a name   *)
(* can be created once, a new Neon branch carries the roles and databases  *)
(* of its parent, TiDB and Upstash take time to become active.             *)
(***************************************************************************)
EXTENDS Naturals, FiniteSets, FiniteSetsExt

CONSTANTS
    Stages,       \* stages whose Neon branches are in one project
    Roots,        \* the stages that may be on the project's default branch,
    NoStage,      \* NoStage if that is nobody's
    Parent,       \* parent_branch_name of a stage, NoStage for the default
    Ops,          \* operators
    Maintainer,   \* the operator who repeats a command until it worked
    Providers,
    MaxStarts,    \* bound: commands begun, those of the maintainer aside
    MaxCuts       \* bound: commands that stop half way

ASSUME StagesAssumption == /\ IsFiniteSet(Stages) /\ Stages # {} /\ IsFiniteSet(Ops)
                           /\ Roots \subseteq Stages \cup {NoStage}
                           /\ NoStage \notin Stages
                           /\ Parent \in [Stages -> Stages \cup {NoStage}]
                           /\ Maintainer \in Ops
                           /\ Providers \subseteq {"neon", "tidb", "upstash"}
ASSUME BoundsAssumption == MaxStarts \in Nat /\ MaxCuts \in Nat

VARIABLES
    provider,       \* which of [neon], [tidb], [upstash] is declared
    provisioning,   \* its field of that name
    root,           \* the stage on the default branch of the project
    project,        \* is the Neon project there?
    res,            \* per stage: the branch, cluster or database
    stored,         \* per stage: the URL in the store
    run,            \* per operator: the command it is in
    starts, cuts

vars == <<provider, provisioning, root, project, res, stored, run, starts, cuts>>

Gone == [id |-> 0, endpoint |-> 0, role |-> 0, database |-> FALSE, active |-> FALSE]
NoUrl == [endpoint |-> 0, password |-> 0]
Idle == [cmd |-> "none", stage |-> NoStage, at |-> "idle", memo |-> 0,
         url |-> NoUrl, absent |-> {}, alone |-> TRUE]

\* Stages of TiDB and Upstash share nothing: one of them is enough.
Used == IF provider = "neon" THEN Stages ELSE {CHOOSE s \in Stages : TRUE}

\* Identifiers and passwords are numbers nobody holds any more.
Held == (UNION {{res[s].id, res[s].endpoint, res[s].role, stored[s].endpoint,
                 stored[s].password} : s \in Stages})
        \cup (UNION {{run[o].memo, run[o].url.endpoint, run[o].url.password} : o \in Ops})
New == CHOOSE n \in 1 .. (Cardinality(Held) + 1) : n \notin Held

\* The application connects: host, password and database of the URL are live.
Connects(s) == /\ stored[s] # NoUrl
               /\ res[s].active /\ res[s].database
               /\ stored[s] = [endpoint |-> res[s].endpoint, password |-> res[s].role]

NeonStatus(s) == IF res[s].id # 0 /\ res[s].endpoint # 0 /\ res[s].role # 0 /\ res[s].database
                 THEN "COMPLETED" ELSE "NOEXIST"
TidbStatus(s) == IF res[s].id = 0 THEN "NOEXIST"
                 ELSE IF res[s].active THEN "COMPLETED" ELSE "PROGRESS"
UpstashStatus(s) == IF res[s].active THEN "COMPLETED" ELSE "NOEXIST"
Status(s) == CASE provider = "neon" -> NeonStatus(s)
               [] provider = "tidb" -> TidbStatus(s)
               [] provider = "upstash" -> UpstashStatus(s)

Init ==
    /\ provider \in Providers
    /\ provisioning \in {"command", "deploy"}
    /\ root \in IF provider = "neon" THEN Roots ELSE {NoStage}
    /\ project = (provider = "neon")
    /\ res = [s \in Stages |-> IF s = root
                               THEN [Gone EXCEPT !.id = 1, !.endpoint = 1, !.active = TRUE]
                               ELSE Gone]
    /\ stored = [s \in Stages |-> NoUrl]
    /\ run = [o \in Ops |-> Idle]
    /\ starts = 0 /\ cuts = 0

-----------------------------------------------------------------------------
(* Steps.  At(o, l): operator o is about to send the requests of step l.   *)
At(o, l) == run[o].at = l
Stage(o) == run[o].stage
Mine(o) == res[Stage(o)]    \* the lookups of branch, role, database, endpoint
Cluster(o) == res[Stage(o)]
Redis(o) == res[Stage(o)]
Goto(o, l) == run' = [run EXCEPT ![o].at = l]
End(o) == run' = [run EXCEPT ![o] = Idle]
SetMine(o, r) == res' = [res EXCEPT ![Stage(o)] = r]
Reached == provider = "neon" => project

\* Two commands meet if they are on one stage or one may delete the project.
Meet(c, s, p) == /\ run[p].at # "idle"
                 /\ \/ run[p].stage = s
                    \/ run[p].cmd = "delete" /\ run[p].stage = root
                    \/ c = "delete" /\ s = root

NeonCommands == {"create", "reset", "branch_out", "delete"}
TidbCommands == {"create", "reset", "live", "delete"}
Commands ==
    CASE provider = "neon" -> NeonCommands
      [] provider = "tidb" -> TidbCommands
      [] provider = "upstash" /\ provisioning = "deploy" -> {"delete"}   \* by destroy
      [] OTHER -> {}

FirstStep(c) == CASE c \in {"create", "store", "branch_out"} -> "ensure"
                  [] c = "deploy" -> "status"
                  [] c = "reset" -> IF provider = "neon" THEN "drop" ELSE "connect"
                  [] c = "live" -> "url"
                  [] c = "delete" -> "plan"

Begin(o, c, s) ==
    /\ At(o, "idle") /\ Reached
    /\ run' = [p \in Ops |->
          IF p = o THEN [Idle EXCEPT !.cmd = c, !.stage = s, !.at = FirstStep(c),
                                     !.alone = \A q \in Ops \ {o} : ~Meet(c, s, q)]
          ELSE IF Meet(c, s, p) THEN [run[p] EXCEPT !.alone = FALSE] ELSE run[p]]
    /\ UNCHANGED <<provider, provisioning, root, project, res, stored, cuts>>

\* An operator gives a command.
Start(o, c, s) ==
    /\ starts < MaxStarts /\ starts' = starts + 1
    /\ c \in Commands /\ s \in Used
    /\ c = "branch_out" => res[s].id = 0
    /\ Begin(o, c, s)

\* store-url: a URL that is there stays, but for --force.
StoreUrl(o, s, force) ==
    /\ starts < MaxStarts /\ starts' = starts + 1
    /\ provisioning = "command" /\ s \in Used
    /\ force \/ stored[s] = NoUrl
    /\ Begin(o, "store", s)

Deploy(o, s) ==
    /\ starts < MaxStarts /\ starts' = starts + 1
    /\ provisioning = "deploy" /\ s \in Used
    /\ Begin(o, "deploy", s)

\* The maintainer repeats `store-url --force`, or the deploy, until it worked.
Retry(s) ==
    /\ s \in Used /\ UNCHANGED starts
    /\ IF provisioning = "command" THEN ~Connects(s) ELSE stored[s] = NoUrl
    /\ Begin(Maintainer, IF provisioning = "command" THEN "store" ELSE "deploy", s)

\* _deploy_resource: what deploy does with the status it reads.
DeployStatus(o) ==
    /\ At(o, "status")
    /\ LET status == Status(Stage(o)) IN
           \/ status = "COMPLETED" /\ Goto(o, "url")
           \/ status = "NOEXIST" /\ Reached /\ Goto(o, "ensure")
           \/ (status = "PROGRESS" \/ ~Reached) /\ End(o)
    /\ UNCHANGED <<provider, provisioning, root, project, res, stored, starts, cuts>>

\* Mutant: create returns if the branch is there (as Upstash.create does).
EnsureBranchMutant(o) ==
    /\ provider = "neon" /\ At(o, "ensure")
    /\ \/ project /\ Mine(o).id = 0 /\ Goto(o, "branch")
       \/ project /\ Mine(o).id # 0 /\ run[o].cmd # "branch_out" /\ Goto(o, "url")
       \/ (~project \/ (Mine(o).id # 0 /\ run[o].cmd = "branch_out")) /\ End(o)
    /\ UNCHANGED <<provider, provisioning, root, project, res, stored, starts, cuts>>

\* Neon.create: a branch that is there, like the default one, is only filled.
EnsureBranch(o) ==
    /\ provider = "neon" /\ At(o, "ensure")
    /\ \/ project /\ Mine(o).id = 0 /\ Goto(o, "branch")
       \/ project /\ Mine(o).id # 0 /\ run[o].cmd # "branch_out" /\ Goto(o, "role")
       \/ (~project \/ (Mine(o).id # 0 /\ run[o].cmd = "branch_out")) /\ End(o)
    /\ UNCHANGED <<provider, provisioning, root, project, res, stored, starts, cuts>>

\* TiDb.create and Upstash.create: the lookup.
EnsureCluster(o) ==
    /\ provider = "tidb" /\ At(o, "ensure")
    /\ Goto(o, IF Cluster(o).id = 0 THEN "post" ELSE "connect")
    /\ UNCHANGED <<provider, provisioning, root, project, res, stored, starts, cuts>>

EnsureRedis(o) ==
    /\ provider = "upstash" /\ At(o, "ensure")
    /\ Goto(o, IF Redis(o).id = 0 THEN "post" ELSE "url")
    /\ UNCHANGED <<provider, provisioning, root, project, res, stored, starts, cuts>>

\* create_branch: 409 if the name was taken since; the new branch carries the
\* roles (with their passwords) and databases of the branch it comes from.
CreateBranch(o) ==
    /\ At(o, "branch")
    /\ LET from == IF run[o].cmd = "branch_out" THEN {b \in Stages : Status(b) = "COMPLETED"}
                   ELSE {IF Parent[Stage(o)] = NoStage THEN root ELSE Parent[Stage(o)]}
           bases == IF from = {NoStage} THEN {[Gone EXCEPT !.active = TRUE]}
                    ELSE {res[b] : b \in {b \in from : res[b].id # 0}}
       IN \/ /\ project /\ Mine(o).id = 0
             /\ \E b \in bases : SetMine(o, [b EXCEPT !.id = New, !.endpoint = New])
             /\ IF run[o].cmd = "branch_out" THEN End(o) ELSE Goto(o, "role")
          \/ /\ ~project \/ Mine(o).id # 0 \/ bases = {}
             /\ End(o) /\ UNCHANGED res
    /\ UNCHANGED <<provider, provisioning, root, project, stored, starts, cuts>>

\* Mutant: the role is posted whether or not the branch is still there.
EnsureRoleMutant(o) ==
    /\ At(o, "role")
    /\ SetMine(o, [Mine(o) EXCEPT !.role = IF @ = 0 THEN New ELSE @]) /\ Goto(o, "database")
    /\ UNCHANGED <<provider, provisioning, root, project, stored, starts, cuts>>

\* Mutant: the role is made anew, with a new password, every time.
ResetRoleMutant(o) ==
    /\ At(o, "role")
    /\ IF Mine(o).id = 0 THEN End(o) /\ UNCHANGED res
       ELSE SetMine(o, [Mine(o) EXCEPT !.role = New]) /\ Goto(o, "database")
    /\ UNCHANGED <<provider, provisioning, root, project, stored, starts, cuts>>

\* ensure_role, then ensure_database; without its branch a request fails.
EnsureRole(o) ==
    /\ At(o, "role")
    /\ IF Mine(o).id = 0 THEN End(o) /\ UNCHANGED res
       ELSE /\ SetMine(o, [Mine(o) EXCEPT !.role = IF @ = 0 THEN New ELSE @])
            /\ Goto(o, "database")
    /\ UNCHANGED <<provider, provisioning, root, project, stored, starts, cuts>>

\* Mutant: the database is left to the migrations.
EnsureDatabaseMutant(o) ==
    /\ At(o, "database") /\ UNCHANGED res
    /\ IF run[o].cmd \in {"create", "reset"} \/ Mine(o).role = 0 THEN End(o) ELSE Goto(o, "url")
    /\ UNCHANGED <<provider, provisioning, root, project, stored, starts, cuts>>

EnsureDatabase(o) ==
    /\ At(o, "database")
    /\ IF Mine(o).id = 0 \/ Mine(o).role = 0 THEN End(o) /\ UNCHANGED res
       ELSE /\ SetMine(o, [Mine(o) EXCEPT !.database = TRUE])
            /\ IF run[o].cmd \in {"create", "reset"} THEN End(o) ELSE Goto(o, "url")
    /\ UNCHANGED <<provider, provisioning, root, project, stored, starts, cuts>>

\* TiDb._ensure_cluster: the object remembers the root password it asked for.
CreateCluster(o) ==
    /\ provider = "tidb" /\ At(o, "post")
    /\ IF Cluster(o).id # 0 THEN End(o) /\ UNCHANGED res
       ELSE /\ SetMine(o, [id |-> New, endpoint |-> New, role |-> New,
                           database |-> FALSE, active |-> FALSE])
            /\ run' = [run EXCEPT ![o].at = "wait", ![o].memo = New]
    /\ UNCHANGED <<provider, provisioning, root, project, stored, starts, cuts>>

CreateRedis(o) ==
    /\ provider = "upstash" /\ At(o, "post")
    /\ IF Redis(o).id # 0 THEN End(o) /\ UNCHANGED res
       ELSE /\ SetMine(o, [id |-> New, endpoint |-> New, role |-> New,
                           database |-> TRUE, active |-> FALSE])
            /\ Goto(o, "url")
    /\ UNCHANGED <<provider, provisioning, root, project, stored, starts, cuts>>

BecomeActive(s) ==
    /\ provider # "neon" /\ res[s].id # 0 /\ ~res[s].active
    /\ res' = [res EXCEPT ![s].active = TRUE]
    /\ UNCHANGED <<provider, provisioning, root, project, stored, run, starts, cuts>>

\* _wait_for_cluster: sixty polls, then the command fails.
WaitCluster(o) ==
    /\ At(o, "wait")
    /\ IF Cluster(o).active THEN Goto(o, "connect") ELSE End(o)
    /\ UNCHANGED <<provider, provisioning, root, project, res, stored, starts, cuts>>

\* _get_sql_connection: an object that knows no password sets a new one first.
Rotate(o) == /\ SetMine(o, [Cluster(o) EXCEPT !.role = New])
             /\ run' = [run EXCEPT ![o].memo = New]
Connect(o) ==
    /\ At(o, "connect")
    /\ \/ run[o].memo = 0 /\ Cluster(o).active /\ Rotate(o)
       \/ run[o].memo # 0 /\ run[o].memo = Cluster(o).role /\ Cluster(o).active
             /\ Goto(o, IF run[o].cmd = "reset" THEN "drop" ELSE "sql") /\ UNCHANGED res
       \/ (~Cluster(o).active \/ run[o].memo \notin {0, Cluster(o).role}) /\ End(o) /\ UNCHANGED res
    /\ UNCHANGED <<provider, provisioning, root, project, stored, starts, cuts>>

\* CREATE DATABASE.  After a create, deploy asks the object for its state_info,
\* which TiDb does not have.
CreateDatabase(o) ==
    /\ At(o, "sql")
    /\ IF Cluster(o).id = 0 THEN End(o) /\ UNCHANGED res
       ELSE /\ SetMine(o, [Cluster(o) EXCEPT !.database = TRUE])
            /\ IF run[o].cmd = "store" THEN Goto(o, "url") ELSE End(o)
    /\ UNCHANGED <<provider, provisioning, root, project, stored, starts, cuts>>

\* reset_database: the database goes, and is made again by the next request.
DropDatabase(o) ==
    /\ At(o, "drop")
    /\ IF Mine(o).id = 0 THEN End(o) /\ UNCHANGED res
       ELSE /\ SetMine(o, [Mine(o) EXCEPT !.database = FALSE])
            /\ Goto(o, IF provider = "neon" THEN "database" ELSE "sql")
    /\ UNCHANGED <<provider, provisioning, root, project, stored, starts, cuts>>

\* A managed secret that is there is not computed again.
KeepManaged(o) ==
    /\ At(o, "url") /\ run[o].cmd = "deploy" /\ stored[Stage(o)] # NoUrl /\ End(o)
    /\ UNCHANGED <<provider, provisioning, root, project, res, stored, starts, cuts>>

Computes(o) == At(o, "url") /\ (run[o].cmd = "deploy" => stored[Stage(o)] = NoUrl)

\* database_url and redis_url: Neon and Upstash reveal the password they have.
NeonUrl(o) ==
    /\ provider = "neon" /\ Computes(o)
    /\ IF Mine(o).endpoint = 0 \/ Mine(o).role = 0 THEN End(o)
       ELSE run' = [run EXCEPT ![o].at = "put", ![o].url =
                        [endpoint |-> Mine(o).endpoint, password |-> Mine(o).role]]
    /\ UNCHANGED <<provider, provisioning, root, project, res, stored, starts, cuts>>

RedisUrl(o) ==
    /\ provider = "upstash" /\ Computes(o)
    /\ IF ~Redis(o).active THEN End(o)
       ELSE run' = [run EXCEPT ![o].at = "put", ![o].url =
                        [endpoint |-> Redis(o).endpoint, password |-> Redis(o).role]]
    /\ UNCHANGED <<provider, provisioning, root, project, res, stored, starts, cuts>>

\* A TiDb object uses the password it remembers, or sets a new one.
TidbUrl(o) ==
    /\ provider = "tidb" /\ Computes(o)
    /\ \/ Cluster(o).active /\ run[o].memo = 0 /\ Rotate(o)
       \/ /\ Cluster(o).active /\ run[o].memo # 0 /\ UNCHANGED res
          /\ run' = [run EXCEPT ![o].at = IF run[o].cmd = "live" THEN "print" ELSE "put",
                                ![o].url = [endpoint |-> Cluster(o).endpoint,
                                            password |-> run[o].memo]]
       \/ ~Cluster(o).active /\ End(o) /\ UNCHANGED res
    /\ UNCHANGED <<provider, provisioning, root, project, stored, starts, cuts>>

\* user_store.put, or the managed secret.  `url --live` only prints.
Put(o) ==
    /\ At(o, "put") /\ End(o)
    /\ stored' = [stored EXCEPT ![Stage(o)] = run[o].url]
    /\ UNCHANGED <<provider, provisioning, root, project, res, starts, cuts>>

PrintUrl(o) ==
    /\ At(o, "print") /\ End(o)
    /\ UNCHANGED <<provider, provisioning, root, project, res, stored, starts, cuts>>

-----------------------------------------------------------------------------
(* Deleting.  A root branch cannot be deleted alone; the whole project can,  *)
(* if the plan found no other branch.  The operator confirms in between.     *)
Others(s) == {t \in Stages \ {s} : res[t].id # 0}

\* Mutant: a root branch takes its project along, whatever else is in it.
PlanMutant(o) ==
    /\ At(o, "plan") /\ UNCHANGED <<provider, provisioning, root, project, res, stored, starts, cuts>>
    /\ IF Mine(o).id = 0 \/ ~Reached THEN End(o)
       ELSE IF provider # "neon" THEN Goto(o, "delete")
       ELSE IF Stage(o) # root
       THEN IF Mine(o).endpoint = 0 THEN End(o) ELSE Goto(o, "endpoint")
       ELSE run' = [run EXCEPT ![o].at = "project",
                               ![o].absent = Stages \ Others(root)]

\* destroy_plan.  `absent` only records which stages had no branch then.
Plan(o) ==
    /\ At(o, "plan") /\ UNCHANGED <<provider, provisioning, root, project, res, stored, starts, cuts>>
    /\ IF Mine(o).id = 0 \/ ~Reached THEN End(o)
       ELSE IF provider # "neon" THEN Goto(o, "delete")
       ELSE IF Stage(o) # root
       THEN IF Mine(o).endpoint = 0 THEN End(o) ELSE Goto(o, "endpoint")
       ELSE IF Others(root) # {} THEN End(o)
       ELSE run' = [run EXCEPT ![o].at = "project",
                               ![o].absent = Stages \ Others(root)]

DeleteEndpoint(o) ==
    /\ At(o, "endpoint")
    /\ IF Mine(o).endpoint = 0 THEN End(o) /\ UNCHANGED res
       ELSE SetMine(o, [Mine(o) EXCEPT !.endpoint = 0]) /\ Goto(o, "delete")
    /\ UNCHANGED <<provider, provisioning, root, project, stored, starts, cuts>>

\* The branch, the cluster, the Upstash database.
Delete(o) ==
    /\ At(o, "delete") /\ End(o) /\ SetMine(o, Gone)
    /\ UNCHANGED <<provider, provisioning, root, project, stored, starts, cuts>>

DeleteProject(o) ==
    /\ At(o, "project") /\ End(o)
    /\ project' = FALSE /\ res' = [s \in Stages |-> Gone]
    /\ UNCHANGED <<provider, provisioning, root, stored, starts, cuts>>

\* The command dies: Ctrl-C, a lost connection, a request refused.
Cut(o) ==
    /\ ~At(o, "idle") /\ End(o)
    /\ cuts < MaxCuts /\ cuts' = cuts + 1
    /\ UNCHANGED <<provider, provisioning, root, project, res, stored, starts>>

Step(o) ==
    \/ DeployStatus(o) \/ EnsureBranch(o) \/ EnsureCluster(o) \/ EnsureRedis(o)
    \/ CreateBranch(o) \/ EnsureRole(o) \/ EnsureDatabase(o)
    \/ CreateCluster(o) \/ WaitCluster(o) \/ Connect(o) \/ CreateDatabase(o) \/ CreateRedis(o)
    \/ DropDatabase(o) \/ KeepManaged(o) \/ NeonUrl(o) \/ RedisUrl(o) \/ TidbUrl(o)
    \/ Put(o) \/ PrintUrl(o)
    \/ Plan(o) \/ DeleteEndpoint(o) \/ Delete(o) \/ DeleteProject(o)

Next ==
    \/ \E o \in Ops : Step(o) \/ Cut(o)
    \/ \E o \in Ops, s \in Stages :
          \/ \E c \in Commands : Start(o, c, s)
          \/ \E force \in BOOLEAN : StoreUrl(o, s, force)
          \/ Deploy(o, s)
    \/ \E s \in Stages : Retry(s) \/ BecomeActive(s)

Spec == Init /\ [][Next]_vars

\* A command that is not cut goes on, the providers finish what they began, and
\* the maintainer tries again while the application cannot connect.
FairSpec == /\ Spec
            /\ \A o \in Ops : WF_vars(Step(o))
            /\ \A s \in Stages : WF_vars(BecomeActive(s)) /\ SF_vars(Retry(s))

-----------------------------------------------------------------------------
Ids == 0 .. (5 * Cardinality(Stages) + 3 * Cardinality(Ops) + 1)
Urls == [endpoint : Ids, password : Ids]
TypeOK ==
    /\ provider \in Providers /\ provisioning \in {"command", "deploy"}
    /\ root \in Roots \cup {NoStage} /\ project \in BOOLEAN /\ starts \in 0 .. MaxStarts /\ cuts \in 0 .. MaxCuts
    /\ \A s \in Stages :
          /\ res[s] \in [id : Ids, endpoint : Ids, role : Ids,
                         database : BOOLEAN, active : BOOLEAN]
          /\ res[s].id = 0 => res[s] = Gone
          /\ stored[s] \in Urls /\ (stored[s].endpoint = 0 <=> stored[s].password = 0)
    /\ \A o \in Ops : run[o].url \in Urls /\ run[o].memo \in Ids /\ run[o].absent \subseteq Stages

\* Who may make a URL that works stop working: a deletion of the whole project,
\* or a command for that very stage that makes no secret of it.
Accounted(s) ==
    \/ ~project' /\ project
    \/ \E o \in Ops : /\ run[o].stage = s /\ run'[o] # run[o]
                      /\ \/ run[o].cmd \in {"delete", "reset"}
                         \/ provider = "tidb" /\ run[o].cmd \in {"create", "live", "store"}
                         \/ ~run[o].alone /\ run[o].cmd \in {"store", "deploy"}

\* Looking is harmless and a stage answers only for itself: the URL that an
\* application reads stops working only by a command given for that very stage
\* that makes no secret of it (delete, reset, and with TiDB what sets a new
\* root password), or by a deletion of the whole project.  A deploy, and
\* store-url with a provider that reveals its passwords, takes a URL that works
\* away only if another command ran at the same time.
OnlyOwnCommandsBreak ==
    [][\A s \in Stages : Connects(s) /\ ~Connects(s)' => Accounted(s)]_vars

\* A project is deleted for one stage only with branches that came into being
\* after the plan was made: what the plan saw of others is never lost.
NoSeenBranchLost ==
    [][project /\ ~project' =>
          \E o \in Ops : run[o].cmd = "delete" /\ Others(run[o].stage) \subseteq run[o].absent]_vars

\* A command that ran alone on its stage and stores a URL stores one that
\* connects; but a deploy with TiDB creates no database and reveals a password
\* only to whoever has just made the cluster.
Puts(o, s) == At(o, "put") /\ Stage(o) = s /\ stored'[s] = run[o].url /\ run'[o] = Idle
PutConnects ==
    [][\A o \in Ops, s \in Stages :
           Puts(o, s) /\ stored'[s] # stored[s] /\ run[o].alone
               /\ ~(provider = "tidb" /\ run[o].cmd = "deploy")
           => Connects(s)']_vars

\* Repeating `store-url --force` (or the deploy) ends with an application that
\* connects (or has a URL), unless the project is gone, the named parent never
\* came, or a deletion was cut after the endpoint.
Lost(s) == \/ provider = "neon" /\ ~project
           \/ provider = "neon" /\ res[s].id # 0 /\ res[s].endpoint = 0
           \/ /\ provider = "neon" /\ res[s].id = 0 /\ Parent[s] # NoStage
              /\ res[Parent[s]].id = 0
Recovers ==
    \A s \in Stages : <>[](s \in Used => \/ Lost(s)
                                         \/ IF provisioning = "command" THEN Connects(s)
                                            ELSE stored[s] # NoUrl)
=============================================================================
