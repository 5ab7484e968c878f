# A TLA+ model of magic-pocket

magic-pocket deploys Django (and other) applications to AWS without servers.
The `pocket` command reads `pocket.toml`, compares each resource of a stage with
what AWS reports, and creates or updates it; at run time a small library in the
Lambda fetches secrets and runs background jobs from SQS.  There is no daemon and
no database of desired state: **every command is a sequence of calls that may be
cut off between any two of them, and the next command has only what the cloud
reports to go on**.  That is what this project models.

All paths below are relative to the repository; `CLI` stands for
`packages/magic-pocket-cli/pocket_cli`.

## 1. Inventory

| component | source | state it keeps | operations | what makes it correct |
|---|---|---|---|---|
| Deploy pipeline | `CLI/cli/deploy_cli.py` | none (reads each resource's `status`) | deploy, promote, build | dependencies first; FAILED/PROGRESS stop the run; a rerun repairs |
| Destroy | `CLI/cli/destroy_cli.py` | none | destroy | nothing is deleted under what uses it; a rerun ends with nothing left |
| Aurora cluster | `CLI/resources/rds.py` | DB cluster, instance, SG, subnet group, credential in one of two stores | create, update, password migrations, delete | the Lambda's credential works; the password is never lost |
| Secrets mediator | `CLI/mediator.py`, `CLI/migrations.py`, `pocket/resources/aws/{secretsmanager,ssm}.py`, `pocket/runtime.py` | values per store and owner (project, container) | create missing, inherit legacy, clean orphans, clean residue, read | a managed value is generated once and kept; deployed code always finds it |
| Background jobs | `pocket/command_handler.py`, `pocket/django/lambda_handlers.py`, `crates/pocket-rs/src/sqs.rs` | SQS messages, job hooks | run a record, report failures, redelivery, DLQ | every job is run until it ends well or is dead-lettered; every start is answered |
| Frontend upload | `CLI/resources/cloudfront.py` | objects in S3, CDN cache | build, upload, delete old, invalidate | the bucket holds what was built; nothing outdated is forgotten at the edge |
| CFn stacks, VPC | `CLI/resources/aws/cloudformation.py`, `stack_backed.py`, `vpc.py`, `aws/efs.py` | stack status, template hash tag, consumer tags | create, update, delete, wait_status, tag, untag | a wait ends with the status asked for or an error; a shared VPC stays while it is used |
| Container | `CLI/resources/container.py`, `aws/lambdahandler.py`, `aws/ecr.py`, `aws/builders/*` | ECR image, Lambda code, env DEPLOY_HASH | build, retag (promote), create, update | the deployed image is the one built or promoted |
| DSQL | `CLI/resources/dsql.py`, `CLI/cli/dsql_cli.py` | clusters by Name tag, published endpoint | create, publish, restore, switch, delete | one cluster at most carries the name; the endpoint is its |
| AWS Backup | `CLI/resources/backup.py`, `aws/backup_common.py` | vault, plan, selection, recovery points | ensure, clean up | the plan selects the database there is |
| Neon, TiDB, Upstash | `CLI/resources/{neon,tidb,upstash}.py`, `pocket/provisioning` | databases at other providers, a stored URL | create, store-url, reset, delete | the stored URL connects, and only a stage's own commands break it |
| Settings and context | `pocket/settings.py`, `pocket/context.py` | none | merge, validate, derive | accepted settings derive places, routes and references that do not clash |
| State store | `CLI/resources/aws/state.py` | one JSON object in S3 | record | nothing reads it |
| S3, ACM, WAF, keys | `CLI/resources/*.py` | bucket settings, stacks | create, reconcile, delete | made and deleted in the right place of the order |
| Rust runtime, SPA auth | `crates/*`, `pocket/django/spa_auth.py` | process environment, signed tokens | read secrets, verify | agrees with the Python runtime |

### How the components meet

`_deploy_pipeline` is the spine.  It makes the image, then goes through the
resources in a fixed order (VPC, databases, bucket, keys, containers,
CloudFront, backup), asking each for its `status` and calling `create` or
`update`; then it calls every `ensure_post_deploy_state` hook, cleans up what
migrations left behind, uploads assets and the frontend.  Along the way

- the container's `create`/`update` call the **mediator**, which writes to the
  secret stores that every Lambda cold start reads (`pocket/runtime.py`);
- the container's template holds the ARN of the credential that **RDS** keeps,
  so a password migration must end before the template is rendered;
- the container's functions and the **CloudFront** Function must agree on
  DEPLOY_HASH; CloudFront's template and key-value store hold values of secrets
  that the mediator made;
- CloudFormation, Lambda, RDS and SQS work on their own between the polls.

Nothing is called back and nothing is locked: components communicate through
what the cloud reports of them.  Stages meet in three places: the VPC of a
project (and of the stages of other projects that live in it), the Neon project
whose branches they are, and the stores and buckets whose keys are derived from
`pocket.toml`.

### What is hard here

1. **A command that stops.**  Ctrl-C, the end of a CI job, an elapsed wait, a
   refused call.  Whatever was done stays done; the next command starts from
   `status`.  Each component has to be restartable at every point.
2. **Success that is not.**  A rollback that ends in a good-looking status, a
   resource skipped because it "is already the latest version", an exception
   swallowed by a handler.
3. **Two copies of one fact.**  A password in the cluster and in two stores; a
   value in the container's store and the project's; DEPLOY_HASH in the functions
   and at the edge; a job's status and its message.  Steps between the copies.
4. **Old code meets new state.**  The running Lambda keeps reading where its
   image was built to read while a deploy moves things.
5. **At-least-once delivery.**  Batches, partial failures, killed invocations.
6. **Identity by name.**  A database is whatever has the tag or the branch name;
   a secret is whatever is at the place its key is formatted to.  Whoever moves a
   name in two calls, or formats two keys alike, has two things or none.

## 2. Modules

| module | what it is | abstract specification |
|---|---|---|
| `RdsCluster` | the Aurora resource: cluster, credential, migrations, destroy | |
| `PocketSecrets` | managed secrets: generation, inheritance, clean-up, rotation, both stores | |
| `JobQueue` | SQS jobs: four handlers, queue, dead-letter queue | |
| `DeployPipeline` | the stacks of a deploy, code, environment, hooks, retries | |
| `FrontendUpload` | builds, objects, the cache of CloudFront, invalidations | |
| `DsqlCluster` | DSQL clusters, the name, the endpoint, restores, the backup plan | `StageDatabase` |
| `Teardown` | deploy and destroy of whole stages that share a VPC | |
| `StoredUrl` | databases at Neon, TiDB and Upstash and the URL that is stored of them | |
| `Settings`, `Routes` | from `pocket.toml` to the derived names; the routes of a distribution | |
| `MC...` | values for the constants of the module of that name | |
| `..._proofs` | its theorems; `FrontendUpload_proofs` has those of `Settings` too | |

The modules overlap only at their borders: each takes from the others the one
fact it needs (`RdsCluster` renders the container as one step `Render`;
`PocketSecrets` switches code and role of a container in two steps;
`DeployPipeline` takes the secrets as part of the release; `Teardown` takes every
resource as a thing that is there, broken, or being deleted).  `Settings` extends
`Routes`; `DsqlCluster` instantiates `StageDatabase`.

### RdsCluster

State: what RDS reports (`cluster`, `instance`, `managed`, `capacity`, `sg`,
`subnetGroup`), the credential in each store (`stored`), where the deployed
container reads (`lambda`), pocket.toml (`cfg`), and the command: `pc` with its
locals `created` and `password`.  Passwords are not values: a copy is `current`
if the cluster accepts it and `stale` otherwise, and a change of the master
password ages all copies (`Aged`).

Actions: `DeployStart` is `_deploy_resource` on `Rds.status`; the steps of
`create`, `update` (with `_migrate_to_managed`, `_migrate_to_static`,
`_move_credential`) and `delete` are one action per AWS call; `Fail`, `Refused`
and `Abort` stop the command at any of them; `EditConfig` edits pocket.toml;
`Maintenance`, `ClusterReady` and the like are RDS.  `calm` is set once, by
`Settle`, and means that nobody edits and nothing fails any more.

### PocketSecrets

State: the declarations (`decl`), what runs (`running`, the declarations inside
the image; `allowed`, the stores its role may read), both kinds of store
(`store`), and the command (`pc`, `left`, `todo`, `target`, and the batch that is
being written).  A value is the number of its generation, and for a pair, which
half was written.

Actions: `Deploy` takes containers one after the other; for each, `Inherit` and
`Generate` collect a batch that `Write` (Secrets Manager: one JSON) or `Put`
(Parameter Store: one value per call) stores; `Clean` deletes orphans;
`UpdateCode` then `UpdateRole`, in that order, switch the container; `DeployDone`
and `RemoveResidue` are `run_deploy_cleanup`.  `Ensure` and `Delete` are the
commands that create and delete secrets, `Interrupt` stops any of them.

### JobQueue

State: the message (`queue`, `receives`), the status its sink shows, and per
invocation `pc` and the parts of its batch (`todo`, `current`, `good`,
`failed`).

Actions: `Receive`, `VisibilityTimeout`, `DeadLetter`, `Duplicate` are SQS; the
steps of `BaseCommandHandler._run` are `Start`, `Spawn`, `Exit`, `Finish`, each
with its failure, and `Crash` is its `finally`; `Call`/`Delete` are the two
management handlers, `Handle` the Rust worker; `Answer` ends the invocation with
what it reports; `Die` kills it.

### DeployPipeline

State: for each stack the detailed CloudFormation status, the deployed template
(all that its hash tag tells) and the one under way; for each function the last
update, the code and DEPLOY_HASH; the bucket policy and the key-value store; and
the run: the release it deploys, the step (`pc`), the resource (`cur`), which of
the two loops of `deploy_resources` it is in (`hooking`), and the `initial_detail`
of a wait (`baseline`).

Actions: `Ask` is one question of `_deploy_resource`, which reads `status` anew
for each; so CloudFormation may finish something between two questions.
`CreateVpc` ... `WriteTokenToKvs` are the calls of `create`, `update` and the
hooks; `Poll` is one look of `wait_status`.  `StartUpdate`/`AskBeforeUpdate` are
`pocket resource cloudfront update`.  `Complete`, `Rollback`, `FinishRollback`,
`RollbackFails` are CloudFormation, `FunctionUpdated` and `FunctionUpdateFails`
Lambda; `RepairStack` and `RepairFunction` do in the console what the message of
a FAILED resource asks for.  `Interrupt` stops the command anywhere.

Abstractions: an operation call and the first `describe` after it are one step
(no operation ends in between); one `status` is one step although it makes
several calls; the clean-up phases of CloudFormation count as the operation in
progress, `ROLLBACK_FAILED` as `ROLLBACK_COMPLETE` (both are FAILED to the
command); the container has a managed VPC and CloudFront has a deploy_hash
route, a token secret and `enable_origin_verify`, the configuration in which all
the steps exist.  An environment update takes effect when it is called.

### FrontendUpload

State: the commit (`source`), what the build directories hold (`local`), the
objects and those whose ETag is not an MD5 (`bucket`, `opaque`), what CloudFront
keeps and is asked to forget (`edge`, `purges`), and the run: `pc`, the routes
ahead (`todo`), the route and its files (`route`, `pending`), what was changed
(`touched`, `changed`).  `ended` and `cut` remember how earlier runs ended.

Actions: `Deploy` and `Upload` begin; `PutAsset`/`DeleteAsset` are
`upload_managed_assets`; `TakeRoute`, `Build`, `SyncFile`, `DeleteStale`,
`RouteDone` are `upload` and `_upload_route`, one object at a time; `Invalidate`
asks for the routes that changed.  `Fetch`, `Expire` and `CarryOut` are
CloudFront, `CutOff` ends a run anywhere.

### DsqlCluster and StageDatabase

State: each cluster's status and Name tag, the stored endpoint, the endpoint the
functions have, what the backup plan (and the one of releases before 0.28)
selects, recovery points, restore jobs; per command its step, what it remembers
as `Dsql.cluster` (`seen`) and the cluster it makes or deletes (`target`).

Actions: the steps of deploy that concern the cluster (`FindCluster` to
`EnsureSelection`), of `dsql restore` and `restore-status` (`Restore` to
`NameNew`, then `PublishEndpoint`), of `destroy`; AWS makes, deletes, restores and
backs up clusters on its own.  `StageDatabase` says what is promised: a database
is provided when there is none, set aside and kept, or deleted; its endpoint is
published while it is the database.  The mapping reads the database off the tags.

### Teardown

State: which of sixteen parts each stage declares (`has`, chosen at the start),
the state of each thing (`none`, `up`, `broken`, `going`), the consumer tags on
the VPC stack (which go with it), and per stage the steps that its command has before it (`run`: what
to do, with which part).

Actions: `Deploy` and `Destroy` give a command its steps, which it takes in the
order of the code (`DeployOrder`, `DestroyOrder`); one action per part creates or
deletes it; `Settle` is AWS, which refuses to delete what is in use and then leaves
it `up` or `broken`; `CutOff` ends a command anywhere.  Stages run their commands at
the same time.  Every part is one thing: the calls inside a part are in the modules
above.  A bucket policy is declared only with a distribution
(`StagesAssumption`): it is the statement that lets a distribution read the bucket.
The VPC, the file system, the cluster, the repository, the builder and the secrets
are declared only with a container: a destroy looks for them among its containers,
or they are rejected without one.  `Overridden` and `Roots` are the stages whose
repository has a name of its own and whose Neon branch is the root of its project:
a destroy leaves the first, and the second while the project has other branches
(`Spared`).  A database with `provisioning = "command"` is no part of the stage:
neither command looks at it.  `DestroyInOrder` relates every deletion that is asked
for to the stage whose command moves: that stage uses the thing no longer, so AWS
refuses none but that of the VPC.

### StoredUrl

State: the provider and its provisioning, the Neon project, per stage the branch
or cluster (identity, endpoint, password of the role, database, active), the
stored URL, and per operator the command, its step and what it has read.

Actions: one per request that changes something, and per lookup whose answer is
used later.  Fresh numbers stand for identifiers and passwords.  `run[o].alone`
tells whether another command met this one.

### Settings and Routes

`pocket.toml` is a function from key paths to leaves.  `FromToml` merges the
stage's overrides, resolves `use_vpc`, and rejects or accepts by the translated
checks; `FromSettings` derives, or raises.  What is derived are operators:
the stores a container reads and may read, the places of values, the prefixes
and behaviours of routes, schedules and their targets, backup plans.  The state
machine is small; the breadth is in the files it starts from.

What the code makes of texts is what it does to texts, not to lists of words: the
key of a store is the text that `Expand` puts together from the pieces of a format
and of the names (`Spelling`), so two keys are one when they read the same;
CloudFormation sees the logical ids that `_camel` and `capitalize` make of keys
(`Camel`, `Capital`), and of entries with one id keeps one (`Kept`); a secret of the
user's takes the place of a managed one of its name (`get_secrets`).  Where that
makes what a reader would expect false, the property says for which case it is left
out, and section 4 lists it.  Patterns of routes are whole segments with or without
`/*` behind them; other wildcards are left out.

`ContainersInKeys` (every key format has a slot for the container) and `HashAside`
are conditions on a project's files that the code does not check: three theorems
suppose them (section 5), and the run evaluates that they hold of its files
(`HypothesesHold` in `MCSettings`).

## 3. Runs

| run | checks | what it shows |
|---|---|---|
| `rds_cluster` | `UsableAfterDeploy`, `CustodyKept`, `DestroyComplete`, `Converges` | any order of deploys, edits, migrations, failures and destroys |
| `secrets_upgrade` | `RotationEffective`, `ServedAfterDeploy`, `ValueKept`, `MigrationKeepsValue` | two containers, two keys, Secrets Manager, any two edits, extra commands or interruptions |
| `secrets_live` | `Settles` | the Parameter Store, a key pair, three such events, and that deploying goes on to the end |
| `jobs` | `NoJobLost`, `StatusSettled`, `NoNeedlessRerun`, `Settles` | every handler, answered or not, failing anywhere |
| `deploy` | `SuccessDelivers`, `EnvSynced`, `Converges` | deploys and CloudFront updates, rollbacks, failed updates, interruptions |
| `frontend` | `OutdatedIsPurged`, `BucketMirrorsBuild`, `Delivered` | an SPA, a route built elsewhere and an asset; cut-offs, viewers, late invalidations |
| `frontend_cut` | `UploadDelivers` is violated | see Findings |
| `dsql` | `EndpointExists`, `ImplementsPromise`, `InSync` | create, restore, destroy, deletion by hand in any order, cut off anywhere |
| `teardown` | `ConsumersAreTagged`, `EndedDestroyIsClean`, `DestroyInOrder`, `LeaversLeave` | two stages and a guest of one VPC at the same time; a stage with every part; one that leaves its repository |
| `stored_url` | `TypeOK`, `OnlyOwnCommandsBreak`, `NoSeenBranchLost`, `PutConnects`, `Recovers` | three providers, both provisionings, two operators at once |
| `settings` | `StoresApart`, `CleanupSparesLive`, `ReadsServed`, `OneValue`, `UploadsApart`, `FilesServed`, `ReferencesResolve`, `DeclaredIsBackedUp` | about fourteen thousand files |
| `settings_one_bucket` | `BucketApart` is violated | see Findings |

Bounds, and why they are enough.

- `RdsCluster` has one: two capacity settings, of which one differs from the
  other.  The number of failures and edits is not bounded.
- `PocketSecrets`: two containers (one that shares, one that does not), two keys
  (one that moves, one that stays).  `MaxEvents` bounds edits, extra commands and
  interruptions *together*: 2 lets a deploy be interrupted and pocket.toml be
  edited before it is repeated, 3 in the liveness run another interruption.  In
  the liveness run `k1` is a pair, which the Parameter Store holds in two values.
- `JobQueue`: two messages in one batch (a neighbour to be affected), two
  invocations (a duplicate delivery), `MaxReceive` 2 where the template says 5:
  one retry and then the dead-letter queue.  One duplicate delivery.
- `DeployPipeline`: two functions (one has the new code, the other not), two
  releases that differ in everything, two changes (new release or CloudFront
  update) and two failures.
- `FrontendUpload`: two routes, of which one is the default and covers the other,
  four files (a page that is not cached, a script named by its content, an image
  above the multipart threshold, an asset), two builds that differ in all of
  them and leave two out; one commit, one cut-off.  The invariants are proved for
  any number.
- `DsqlCluster`: three clusters (the first, one restored, one more), one command
  at a time, two cut-offs: one may hit the repair of what the other left.
- `Teardown`: three ways a project may look.  Two stages in one VPC, one with a
  frontend and its container, the other with a cluster and a container, and a guest
  with a container; one stage with every part, whose Neon branch is a root, and
  nobody else; a stage whose repository has a name of its own.  One deploy of each
  stage (the second owner's is the update that wipes tags), one cut-off, and the
  first CloudFront stack as the one that may fail (it imports the others).
- `StoredUrl`: two stages, one of which branches off the other, two operators,
  two commands besides those that the maintainer repeats, one cut-off.
- `Settings`: families of files that each vary what one group of properties is
  about (secrets, routes, schedules, VPC and databases) over all combinations,
  among them a default route that asks for a deploy hash, keys of schedules and
  handlers that have one logical id, and a secret of the user's with the name of a
  managed one.  There are two stages, `dev` and `dev-shop`, and two containers, one
  called like the project, `shop`, so that with the default format the key of what
  `shop` of `dev` keeps and of what `dev-shop` shares is one text.  What is in
  different families does not meet in the code.

Deadlock is checked except in `jobs` (all messages may be deleted or dead),
`teardown` (everybody has left), `stored_url` and `settings` (every command was
given; every file was read).

Fairness, and why the code justifies it.

- RDS: a running command takes its next step; RDS finishes what it began;
  deploys are repeated (each push deploys).  All of it weak.
- Secrets: the same, and strong fairness of starting a deploy while the last did
  not end well and of finishing a rotation that was begun (an operator who deleted
  the secrets creates them again): both are interrupted by other commands, so weak
  fairness would not do.  Nothing is assumed of what a deploy deleted as an orphan
  (`orphaned`): nobody is told to run `create-pocket-managed` for it.
- Jobs: the event source mapping polls, an invocation ends or times out, and a
  visibility timeout runs out: one of them makes progress (weak).
- Deploy: the command goes on and is started again, CloudFormation and Lambda
  finish (weak).  Strong fairness only of repairs by hand, which are possible only
  between two runs.  Nothing is assumed of failures but their bound.
- Frontend: a run goes on and invalidations are carried out (weak); deploying,
  without `--skip-frontend` and `--skip-build`, and building what pocket does not
  build are repeated between other commands (strong).  Nothing is assumed of
  expiry: the assets of an SPA are kept for a year.
- DSQL: commands and AWS go on (weak); somebody deploys again and again, between
  other commands (strong).  Nobody has to restore or destroy.
- Teardown: commands and AWS go on (weak); who leaves runs `pocket destroy` again
  until nothing is left, between the deploys of others (strong).
- Stored URLs: a command goes on unless it is cut, the providers finish (weak);
  the maintainer repeats `store-url --force` or the deploy while the application
  does not connect (strong).

The type invariants of eight modules are theorems (section 5); that of `StoredUrl`
is checked as well.

Each property of a passing run has a mutant in `PROJECT.json`: a plausible bug,
defined beside the definition it changes, under which the property fails.

## 4. Findings

Two runs show a violation, with the line of the repository it disagrees with (in
full in `PROJECT.json`).

1. `frontend_cut`: which routes changed is known only to the run that changed
   them.  When it stops before `_invalidate`, the next upload finds every object
   unchanged, invalidates nothing and ends well.
2. `settings_one_bucket`: the distributions of a stage and its `managed_assets` are
   in one bucket, but only the prefixes of one distribution are compared.  An upload
   deletes what another distribution put below its prefix, or the stage's own files,
   of which the guide says that `origin_path` and `pocket_managed/` keep them apart.

The properties of the passing runs make exceptions for what was met while
modelling and is not a run of its own.  Each is stated in the comment of the
property or follows from the actions named.

- RDS: a `create` cut off between the cluster and the instance is never
  completed, nor is a cluster whose `destroy` was cut off between the two
  (`Headless`): its status is COMPLETED, and no deploy calls `create` again.  The
  comment in `create` (`rds.py:454`) says that a repeated deploy goes on from the
  unfinished step.  `Converges` says so of every stage that is not `Headless`, and
  of one that is only that its status becomes COMPLETED; without that exception TLC
  finds it violated.  `_password_state_matches` takes any copy in the wanted store for
  the password; `UsableAfterDeploy` leaves out the deploys that find a stale one.
- Secrets: a key that moves to the shared store is deleted from the container's
  before the container is switched (`lost`).  When that deploy stops and
  pocket.toml is taken back, the container is up to date, no deploy generates the
  key again and no command is asked for: `Settles` leaves it out (`Bereft`).  Of a pair in the Parameter Store one
  half may be written alone, and then counts as there (`Halved`).
- Jobs: a handler that does not report batch item failures still catches every
  exception, and SQS deletes the crashed jobs; a killed invocation calls no
  `on_crash`, and after the last delivery its status says `running` for ever.
- Deploy: `pocket resource cloudfront update` runs without the secrets and takes
  the origin-verify header out of the distribution.
- DSQL: with two commands at a time the name may be at two clusters: a deploy
  that comes between the two calls of `switch_to_cluster` creates an empty one.
  Hence the assumption of the theorems.
- Teardown: after a first deploy whose CloudFront stack failed, every destroy
  raises at its first step (`Obstructed`): the bucket policy is read from the
  outputs of the stack.  An update of the VPC stack removes the consumer tags, and
  so does its deletion, also that of a guest who was let in while it was going
  (`wiped`); a destroy that was cut off behind the cluster leaves the security
  group, which nothing deletes later.
- Stored URLs: a TiDB cluster whose creation outlasted the wait is COMPLETED, and
  the deploy stores a URL to a database that nobody creates; `PutConnects` leaves
  that case out.  A Neon deletion cut off after the endpoint is not repaired by
  repeating `store-url` (`Lost`).
- Settings, secrets: nothing asks a `pocket_key_format` for the slot of the
  container, and without it all containers keep their unshared secrets in one place,
  against the docstring of `container_format_vars` (`settings.py:1430`): the theorems
  suppose `ContainersInKeys`.  Under the Parameter Store the key alone tells stages
  apart, and the text may be the same: `dev-shop-shop-pocket` is, with the default
  format and a project `shop`, the key of the container `shop` of `dev` and of what
  `dev-shop` shares.  Each then reads the other's value, and the clean-up of one
  deletes it; `StoresApart` and `CleanupSparesLive` speak of other stages only where
  the store is Secrets Manager, which has stage and project in it.  A secret of the
  user's takes the place of a managed one of its name, and only for the headers of
  the WAF do the settings forbid that another container declares one: `OneValue`
  leaves that container out.
- Settings, routes: the function that strips the deploy hash is attached to every
  route but the default one, which the guide does not except
  (`docs/guide/configuration.md:1960`, `versioning`): no link of a default route with
  `deploy_hash` leads to what was uploaded, and `FilesServed` says so.  S3 routes
  come before Lambda routes whatever order they are declared in.
  `signing_key_imports` keeps one distribution's keys, and nothing checks that
  `signing_key` exists.
- Settings, schedules: keys that differ only in case or in separators get one logical
  id (`_camel`, `capitalize`), of two such entries the template keeps one, and no
  check compares them: `ReferencesResolve` is about those that have theirs to
  themselves.  A managed cluster without a VPC raises only when it is derived (phase
  `raised`).

## 5. Proofs

TLAPS checks, for every value of the constants (under the assumptions named in
the modules, which TLC evaluates in the runs):

| theorem | says |
|---|---|
| `RdsCluster_proofs!Typing`, `PocketSecrets_proofs!Typing`, `JobQueue_proofs!Typing`, `DeployPipeline_proofs!Typing`, `DsqlCluster_proofs!Typing`, `FrontendUpload_proofs!Typing`, `Teardown_proofs!Typing`, `StoredUrl_proofs!Typing` | `[]TypeOK` |
| `RdsCluster_proofs!DeployLeavesUsable` | `[]UsableAfterDeploy` |
| `RdsCluster_proofs!CustodyIsKept`, `!DestroyIsComplete` | `CustodyKept`, `DestroyComplete` |
| `PocketSecrets_proofs!RunningValuesAreKept` | `ValueKept` |
| `PocketSecrets_proofs!RotationTakesEffect`, `!EveryContainerIsServed` | `[]RotationEffective`, `[]ServedAfterDeploy` |
| `PocketSecrets_proofs!MigrationIsSafe` | `MigrationKeepsValue` |
| `JobQueue_proofs!JobsAreNotLost`, `!JobsAreNotRerun`, `!StatusIsSettled` | `NoJobLost`, `NoNeedlessRerun`, `StatusSettled` |
| `DeployPipeline_proofs!SuccessIsDelivery` | `[]SuccessDelivers` |
| `DeployPipeline_proofs!EnvIsSynced` | `[]EnvSynced` |
| `FrontendUpload_proofs!NothingOutdatedForgotten`, `!UploadMirrors` | `[]OutdatedIsPurged`, `[]BucketMirrorsBuild` |
| `DsqlCluster_proofs!EndpointIsThere` | `[]EndpointExists`, for one command at a time |
| `DsqlCluster_proofs!Refinement` | `Spec => ImplementsPromise`, for one command at a time |
| `Teardown_proofs!GuestsAreKnown`, `!DestroyIsThorough` | `[]ConsumersAreTagged`, `[]EndedDestroyIsClean` |
| `Teardown_proofs!DestroyKeepsOrder` | `DestroyInOrder` |
| `StoredUrl_proofs!OthersDoNotBreak` | `Spec => OnlyOwnCommandsBreak` |
| `StoredUrl_proofs!StoredUrlConnects` | `Spec => PutConnects` |
| `StoredUrl_proofs!SeenBranchesAreKept` | `Spec => NoSeenBranchLost` |
| `FrontendUpload_proofs!UploadsStayApart`, `!BackupsAreMade`, `!ReferencesLead` | `[]UploadsApart`, `[]DeclaredIsBackedUp`, `[]ReferencesResolve` |
| `FrontendUpload_proofs!ReadsAreServed`, `!OneValueForAll` | `[]ReadsServed`, `[]OneValue` |
| `FrontendUpload_proofs!StoresStayApart`, `!CleanupSparesWhatIsRead` | `[]StoresApart`, `[]CleanupSparesLive`, if `ContainersInKeys` |
| `FrontendUpload_proofs!LinksAreServed` | `[]FilesServed`, if `HashAside` |

Each rests on an `Invariance` theorem: an `Inv` that was first checked by TLC,
implied by `Init` and kept by every action.  None of the properties is inductive,
but for `OutdatedIsPurged`:

- RDS: that a deploy ends with a good credential needs, for each step of `create`
  and `update`, what the stores hold by then (`CreateInv`, `UpdateInv`,
  `RenderInv`) and that no cluster disappears under a deploy (`ClusterInv`).
- Secrets: that a value in use is not replaced needs that a batch under way only
  fills gaps and that what is about to be deleted is nobody's.  What a deploy leaves
  needs a second invariant, of the stores (`Custody`, `StoresInOrder`): what is there
  is whole enough to be found (`ValueInv`), where it is kept by who keeps it
  (`OwnInv`), from after the last rotation (`AgeInv`), and of one generation wherever
  the same key is twice (`CopyInv`); before a container is switched everything it is
  going to read is there (`ReadyInv`), and stays (`RunInv`); and its role keeps pace
  with its image (`AllowedInv`).  The rotation theorem rests on `AgeInv`, the
  migration on `CopyInv` with `ReadyInv`, the served containers on the last two.
- Jobs: that no job runs again without need requires that one message is with one
  invocation (`SoloInv`), in one part of its batch (`ApartInv`), and stays
  invisible (`FlyingInv`); so the answer of one invocation cannot delete or
  release another's.
- Deploy: that DEPLOY_HASH stays put after the run needs that CloudFormation is
  done with the container once the run is past it (`PastInv`).  The status of the
  container tells so only because nothing else works on the functions meanwhile
  (`AloneInv`): a FAILED function would hide a stack in progress.
  That success is delivery, for a deploy that began with nothing under way, needs
  that nothing is under way later but what the run itself waits for (`StillInv`), so
  an answer to one of its questions stays true until it acts on it (`AskedInv`); that
  a wait ends as the release or as a rollback that the run sees (`WaitInv`, with the
  `initial_detail` it compares with); and that each part is the release once the run
  is past it (`DoneInv`, `FrontInv`), which nobody takes back (`EndInv`).
- Frontend: that the bucket mirrors the build needs how far the run has come:
  routes behind it are mirrored, the one at hand up to the files that are pending
  and the stale ones (`BucketInv`).  That nothing outdated is forgotten needs that
  a route that is changed is among those to invalidate until it has an
  invalidation, and that the list is empty when a run begins (`RouteInv`).
- DSQL: the promise needs that the tag tells one cluster (`NameInv`), that what a
  command remembers of the old cluster is still true when it moves the name
  (`SwitchInv`: it is the one with the name, or it is gone), and that a deploy
  publishes what has the name (`DeployInv`).  `OneCommand` is used in every one of
  them; the findings say what happens without it.
- Teardown: what a deploy has passed is up (`DeployInv`) and what a destroy has
  passed is gone (`DestroyInv`), which is where the two orders come in
  (`DeployPassed`, `DestroyPassed`); so nothing is being deleted that a part of the
  same stage still uses (`OrderInv`), wherever an earlier command was cut off, and
  the VPC only for an owner who has nothing in it and who comes to it first if he
  deploys again (`VpcInv`).
- Stored URLs: operators may meet, so what a command knows holds only while it is
  alone.  `StepInv` says which commands, with which provider, reach a step;
  `AloneInv` that whoever is alone meets nobody, so that no request of another
  operator touches its stage; `KnowInv` what it therefore knows of its stage until
  it stores the URL (a database, and the password the resource still has); and
  `ResInv` that nothing stored lacks a password, which is why filling what is
  missing breaks no URL.  That a new identifier can be had at all
  (`NewIsANumber`) needs finitely many stages and operators, and that it is below
  the bound of the types needs a count of what is held (`FewAreHeld`,
  `StepFits`): a command only passes on numbers that are held, none, or the new one.

- Settings: `SettingsInv` says that what was not rejected was accepted, and that
  each list of routes, store and key format in it is one that a file says
  (`DataOK`, `AsSaid`), which takes a lemma for each stage of reading
  (`MergeKeeps`, `RemoveKeeps`, `ResolveKeeps`).  Five of the
  theorems follow from the checks that accepted: two prefixes that begin one object
  begin each other (`PrefixesMeet`), which `check_route_s3_prefix_overlap` excludes
  (`OneRoute`); a shared view of any container is a part of the project's
  (`OneSharedStore`), because all declare one store and one format; and at most one
  container has an unshared value of a name that CloudFront uses, which is a count
  of a finite set (`FewContainers`).  `TomlsAssumption` is about types only: a file
  is finite, keys and segments are strings, the origin path of a route has no
  star, a handler is named by a pair.  The
  proofs are beside those of `FrontendUpload` because of what they say to it: that
  an object is of one route, its `RouteOf`, is `UploadsStayApart`.

  Three more say what the code does for projects that keep to a condition it does
  not check.  With `ContainersInKeys` every key format has a slot for the container.
  All views of a stage have one store and one format, and each its namespace
  (`Keyed`, `ViewsAreKeyed`); those of two containers differ, and from the shared one,
  because what is behind the name is the same and has a length
  (`NamespacesTellApart`, `Cancelled`).  That two texts made of one format are the
  same only if what fills the slot is (`SameExpansion`) is about `FlattenSeq`:
  `Flattened` gives the texts that the pieces put together so far make, up to the
  whole one (by least counterexample, `LeastOf`, in place of an induction); if one
  filling were longer, so would be the text (`LongerSlots`), and when they are as
  long, the pieces can be taken off one after the other from the end (`SameSlots`).
  So who reads a place within a stage is who writes it (`PlacesTellApart`).  Between
  stages nothing of the kind holds of texts; there the place in Secrets Manager has
  the stage in it (`OnePlace`).

  With `HashAside` no pattern of a versioned route has the hash as a segment
  (it is a commit's, unless the operator says another): the behaviour that serves a
  link is the first that matches (`LeastOf`, `BehaviorMatches`), what its function
  strips is what the application put before the file (`HashComesOff`), so the object
  is the one that is uploaded (`ObjectOfFile`), and the prefix that the bucket
  policy grants begins it because it is common to all the routes
  (`LongestInCommon`, `MayRead`).

Only model-checked: liveness (`Converges`, `Settles`, `Delivered`, `InSync`,
`LeaversLeave`, `Recovers`: fairness is out of the prover's reach).  Every
invariant and every action property of a passing run is a theorem.

## 6. Plan

What a further step would take up, in order.

1. Images: build, promote, retag, and what an older image declares.
2. A second command at the same time in `DeployPipeline`, `PocketSecrets` and
   `DsqlCluster`, with properties that say what is left of the promises.
3. The reconcile loops of S3 and AWS Backup for RDS; the sections of the settings
   that are left out.

## 7. Not modelled

The image builders (a polling loop around CodeBuild and other programs), the
state record (written, and never read by anything), SPA tokens (pure functions of
a key and a clock), Django storage and management commands, templates, logging and
prompts, ACM validation by hand, WAF rules, promotion of images, the settings of
Neon, TiDB, Upstash, SES, EFS and Django, and two deploys of one stage at the same
time except where `StoredUrl` has them.  `PROJECT.json` lists each component with
its status, and under `hazards` what is not covered by any property.
