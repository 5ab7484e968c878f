------------------------------- MODULE Settings -------------------------------
(* From pocket.toml to the names everything else is found by.  A stage is   *)
(* read (from_toml: merge what the stage overrides, resolve use_vpc, accept *)
(* or reject) and its context is derived (from_settings): the stores its    *)
(* containers read their secrets from and may read, what CloudFront reads   *)
(* of them, where a schedule and a route lead, what is backed up.           *)
(*                                                                          *)
(* pocket.toml is a function from paths of keys to leaves: a table is the   *)
(* paths below it, a list is a leaf.  A text is a sequence of pieces (of    *)
(* one letter or more); a format is one whose slots are pieces of it.       *)
EXTENDS Routes

CONSTANTS
  Tomls,           \* the files considered
  Stages,          \* the stages an operator asks for
  ContainerNames,  \* what the pattern of a container's name lets through
  Contents,        \* the files of a route, below its prefix
  Project,         \* general.project_name
  Namespace,       \* general.namespace
  Spelling,        \* stage, container, project or namespace -> its text
  Camel,           \* the key of a schedule -> its logical id
  Capital          \* the key of a handler -> its logical id

\* Where a file says the routes of a distribution, and the key k of the secrets
\* of a container: in a table of its own (n = 0), or in one of a stage's (n = 1).
RoutesAt(p, n) == Len(p) = n + 3 /\ p[n + 1] = "cloudfront" /\ p[n + 3] = "routes"
SecretsAt(p, n, k) ==
  Len(p) = n + 4 /\ p[n + 1] = "container" /\ p[n + 3] = "secrets" /\ p[n + 4] = k

Paths == [segs : Seq(STRING), star : BOOLEAN, bad : BOOLEAN]

\* A file is finite, its paths are sequences of keys; routes are a list, their
\* paths (in the bucket, where a star is a name like any other, and the pattern)
\* and those below them are sequences of segments.
ASSUME TomlsAssumption ==
  \A t \in Tomls :
    /\ IsFiniteSet(DOMAIN t)
    /\ \A p \in DOMAIN t :
         /\ p \in Seq(STRING)
         /\ (\E n \in 0..1 : RoutesAt(p, n)) =>
              /\ DOMAIN t[p] \subseteq Nat
              /\ \A i \in DOMAIN t[p] :
                   /\ t[p][i].type \in {"s3", "lambda"}
                   /\ t[p][i].origin_path \in Paths /\ ~t[p][i].origin_path.star
                   /\ t[p][i].path_pattern \in Paths
                   /\ t[p][i].handler \in {NotGiven} \cup (STRING \X STRING)
         /\ (\E n \in 0..1 : SecretsAt(p, n, "pocket_key_format")) => t[p] \in Seq(STRING)
\* Names that differ have texts that differ.
ASSUME SpellingAssumption ==
  /\ Spelling \in [Stages \cup ContainerNames \cup {Project, Namespace} -> Seq(STRING)]
  /\ IsInjective(Spelling)
ASSUME ContentsAssumption == Contents \subseteq Seq(STRING) \ {<<>>}
ASSUME NotGivenAssumption ==
  /\ NotGiven \notin [plans : SUBSET {"dsql", "rds"}, cleanup : SUBSET {"dsql", "rds"}]
  /\ NotGiven # "deploy_hash"

VARIABLES
  toml,     \* the file
  phase,    \* stage -> unread, rejected, accepted, raised or derived
  data      \* stage -> its settings, of the same form as the file

settings == <<toml, phase, data>>

Sections ==
  {"general", "vpc", "container", "dsql", "rds", "backup", "s3", "cloudfront", "scheduler"}

ManagementHandler == "management_command_handler"
ORIGIN_VERIFY_SECRET_KEY == "POCKET_ORIGIN_VERIFY_SECRET"

-----------------------------------------------------------------------------
(* Tables.                                                                  *)
Has(d, path) == \E p \in DOMAIN d : IsPrefix(path, p)
Keys(d, path) == {p[Len(path) + 1] : p \in {q \in DOMAIN d : IsStrictPrefix(path, q)}}
Get(d, path, default) == IF path \in DOMAIN d THEN d[path] ELSE default
Table(d, path) == [k \in Keys(d, path) |-> d[Append(path, k)]]
Only(d, Test(_)) == [p \in {q \in DOMAIN d : Test(q)} |-> d[p]]

\* What f says, and g where f says nothing.
Over(f, g) == [k \in DOMAIN f \cup DOMAIN g |-> IF k \in DOMAIN f THEN f[k] ELSE g[k]]

NoKeys == <<>>

\* Tables are merged; whatever else the override says replaces what was there.
_deep_merge(base, override) ==
  Over(override,
       Only(base, LAMBDA p : \A o \in DOMAIN override : ~IsPrefix(o, p) /\ ~IsPrefix(p, o)))

check_keys(d) ==
  \A p \in DOMAIN d : Head(p) \in Sections \cup d[<<"general", "stages">>]

merge_stage_data(st, d) ==
  LET own == {p \in DOMAIN d : IsStrictPrefix(<<st>>, p)}
  IN _deep_merge(d, [p \in {Tail(q) : q \in own} |-> d[<<st>> \o p]])

remove_stages_data(d) ==
  Only(d, LAMBDA p : Head(p) \notin d[<<"general", "stages">>])

-----------------------------------------------------------------------------
(* What the settings say.                                                   *)
Containers(d) == Keys(d, <<"container">>)
Handlers(d, c) == Table(d, <<"container", c, "handlers">>)
HasSecrets(d, c) == Has(d, <<"container", c, "secrets">>)

pocket_key_format == <<"stage", "-", "project", "-", "namespace">>

Secrets(d, c) ==
  LET at(k) == <<"container", c, "secrets", k>>
  IN [store   |-> Get(d, at("store"), "sm"),
      format  |-> Get(d, at("pocket_key_format"), pocket_key_format),
      managed |-> Table(d, at("managed")),
      user    |-> Table(d, at("user"))]

Schedules(d) == Table(d, <<"scheduler", "schedules">>)
Distributions(d) == Keys(d, <<"cloudfront">>)

Distribution(d, x) ==
  LET at(k, default) == Get(d, <<"cloudfront", x, k>>, default)
  IN [routes |-> at("routes", <<>>), domain |-> at("domain", NotGiven),
      redirect_from |-> at("redirect_from", <<>>),
      token_secret |-> at("token_secret", NotGiven), basic_auth |-> at("basic_auth", NotGiven),
      signing_key |-> at("signing_key", NotGiven),
      managed_assets |-> at("managed_assets", {}), waf |-> at("waf", NotGiven),
      enable_origin_verify |-> at("enable_origin_verify", FALSE)]

Headers(d, x) ==
  LET waf == Distribution(d, x).waf
  IN IF waf = NotGiven THEN {} ELSE {rule.header : rule \in waf.allow_rules} \ {NotGiven}

\* use_vpc: NotGiven (where there is a [vpc]), TRUE or FALSE.
UseVpc(d, section) == Get(d, Append(section, "use_vpc"), NotGiven)
VpcSections(d) ==
  {<<"container", c>> : c \in Containers(d)} \cup {s \in {<<"rds">>} : Has(d, s)}

VpcRejected(d) == \E s \in VpcSections(d) : UseVpc(d, s) = TRUE /\ ~Has(d, <<"vpc">>)

resolve_vpc(d) ==
  LET inside == {s \in VpcSections(d) : UseVpc(d, s) # FALSE /\ Has(d, <<"vpc">>)}
  IN Over([p \in {Append(s, "vpc") : s \in inside} |-> TRUE],
          Only(d, LAMBDA p : Last(p) # "use_vpc"))

InVpc(d, section) == Get(d, Append(section, "vpc"), FALSE)

-----------------------------------------------------------------------------
(* What the settings are rejected for.                                      *)
check_container_names(d) == Containers(d) \subseteq ContainerNames

check_handlers(d) ==
  \A c \in Containers(d) :
    Cardinality({h \in DOMAIN Handlers(d, c) :
                   Handlers(d, c)[h].command = ManagementHandler}) <= 1

check_user(d) ==
  \A c \in Containers(d) :
    LET user == Secrets(d, c).user
    IN /\ \A k \in DOMAIN user : (user[k].name = NotGiven) # (user[k].type = NotGiven)
       /\ \A k, l \in DOMAIN user :
            user[k].type = user[l].type => k = l \/ user[k].type = NotGiven

check_container_secrets_consistency(d) ==
  LET declaring == {c \in Containers(d) : HasSecrets(d, c)}
  IN \A c, e \in declaring :
       LET s == Secrets(d, c)
           t == Secrets(d, e)
       IN /\ s.store = t.store
          /\ s.format = t.format
          /\ \A k \in DOMAIN s.managed \cap DOMAIN t.managed :
               s.managed[k].shared /\ t.managed[k].shared => s.managed[k] = t.managed[k]
          /\ \A k \in DOMAIN s.user \cap DOMAIN t.user : s.user[k] = t.user[k]

managed_secret_owners(d, k) ==
  {c \in Containers(d) : k \in DOMAIN Secrets(d, c).managed}

resolve_handler(d, ref) ==
  ref[1] \in Containers(d) /\ ref[2] \in DOMAIN Handlers(d, ref[1])

check_lambda_handlers(d, x) ==
  \A r \in Range(Distribution(d, x).routes) :
    /\ r.signed => Distribution(d, x).signing_key # NotGiven
    /\ r.type = "lambda" => /\ resolve_handler(d, r.handler)
                            /\ Handlers(d, r.handler[1])[r.handler[2]].apigateway

check_cloudfront_token_secret(d, x) ==
  LET k == Distribution(d, x).token_secret
  IN k # NotGiven => managed_secret_owners(d, k) # {}

check_cloudfront_basic_auth(d, x) ==
  LET k == Distribution(d, x).basic_auth
  IN k # NotGiven =>
       /\ managed_secret_owners(d, k) # {}
       /\ \A c \in managed_secret_owners(d, k) :
            Secrets(d, c).managed[k].type = "basic_auth_credential"

Ambiguous(d, k) ==
  LET unshared == {c \in managed_secret_owners(d, k) : ~Secrets(d, c).managed[k].shared}
      shared == managed_secret_owners(d, k) \ unshared
  IN Cardinality(unshared) + (IF shared # {} THEN 1 ELSE 0) > 1

check_cloudfront_secret_ref_uniquenessMutant(d, x) == TRUE
check_cloudfront_secret_ref_uniqueness(d, x) ==
  LET cf == Distribution(d, x)
  IN \A k \in {cf.token_secret, cf.basic_auth, cf.signing_key} : ~Ambiguous(d, k)

check_cloudfront_origin_verify(d, x) ==
  Distribution(d, x).enable_origin_verify =>
    \E r \in Range(Distribution(d, x).routes) : r.type = "lambda"

check_cloudfront_waf_allow_rules(d, x) ==
  /\ Headers(d, x) # {} => Containers(d) # {}
  /\ \A c \in Containers(d) :
       Headers(d, x) \cap (DOMAIN Secrets(d, c).managed \cup DOMAIN Secrets(d, c).user) = {}

check_cloudfront(d) ==
  \A x \in Distributions(d) :
    /\ Has(d, <<"s3">>)
    /\ DistributionAccepted(Distribution(d, x))
    /\ check_lambda_handlers(d, x)
    /\ check_cloudfront_token_secret(d, x)
    /\ check_cloudfront_basic_auth(d, x)
    /\ check_cloudfront_secret_ref_uniqueness(d, x)
    /\ check_cloudfront_origin_verify(d, x)
    /\ check_cloudfront_waf_allow_rules(d, x)

check_scheduler_handlersMutant(d) ==
  \A k \in DOMAIN Schedules(d) : resolve_handler(d, Schedules(d)[k].handler)
check_scheduler_handlers(d) ==
  \A k \in DOMAIN Schedules(d) :
    LET e == Schedules(d)[k]
    IN /\ resolve_handler(d, e.handler)
       /\ LET handler == Handlers(d, e.handler[1])[e.handler[2]]
          IN /\ e.scheduler = "management" => handler.command = ManagementHandler
             /\ e.scheduler = "sqs" => handler.sqs

\* "database" stands for the fields that only a managed cluster has.
check_managed_mode(d) ==
  LET given(f) == <<"rds", f>> \in DOMAIN d
  IN Has(d, <<"rds">>) =>
       IF Get(d, <<"rds", "managed">>, TRUE)
       THEN ~given("secret_arn") /\ ~given("security_group_id")
       ELSE /\ given("secret_arn") /\ given("security_group_id")
            /\ ~given("database")
            /\ Get(d, <<"rds", "password_strategy">>, "aws-managed") = "aws-managed"

ManagedRds(d) == Has(d, <<"rds">>) /\ Get(d, <<"rds", "managed">>, TRUE)

check_backup_targetsMutant(d) ==
  \A e \in {"dsql", "rds"} : Has(d, <<"backup", e>>) => Has(d, <<e>>)
check_backup_targets(d) ==
  /\ Has(d, <<"backup">>) => Keys(d, <<"backup">>) \cap {"dsql", "rds"} # {}
  /\ Has(d, <<"backup", "dsql">>) => Has(d, <<"dsql">>)
  /\ Has(d, <<"backup", "rds">>) => ManagedRds(d)

check_rds_vpc(d) ==
  InVpc(d, <<"rds">>) /\ Get(d, <<"vpc", "manage">>, TRUE) =>
    Get(d, <<"vpc", "zone_suffixes">>, 0) >= 2

check_rds_requires_container_vpc(d) ==
  InVpc(d, <<"rds">>) => \E c \in Containers(d) : InVpc(d, <<"container", c>>)

Accepted(d) ==
  /\ check_container_names(d) /\ check_handlers(d) /\ check_user(d)
  /\ check_container_secrets_consistency(d) /\ check_managed_mode(d)
  /\ check_backup_targets(d) /\ check_rds_vpc(d) /\ check_rds_requires_container_vpc(d)
  /\ check_scheduler_handlers(d) /\ check_cloudfront(d)

-----------------------------------------------------------------------------
(* The context: secrets.  A view is a store as one reader sees it.          *)
Expand(format, st, namespace) ==
  FlattenSeq([i \in DOMAIN format |->
    CASE format[i] = "stage" -> Spelling[st]
      [] format[i] = "project" -> Spelling[Project]
      [] format[i] = "namespace" -> namespace
      [] OTHER -> <<format[i]>>])

format_vars == Spelling[Namespace]

container_format_varsMutant(c) == Spelling[Namespace]
container_format_vars(c) == Spelling[c] \o <<"-">> \o Spelling[Namespace]

user_secret_path(pocket_key, type, store) ==
  <<store, pocket_key \o <<"-", "user", "/", type>>>>

View(secrets, st, pocket_key) ==
  [store |-> secrets.store, pocket_key |-> pocket_key, stage |-> st,
   managed |-> secrets.managed,
   user |-> [k \in DOMAIN secrets.user |->
     LET spec == secrets.user[k]
         store == IF spec.store # NotGiven THEN spec.store ELSE secrets.store
     IN IF spec.name # NotGiven THEN <<store, Expand(spec.name, st, format_vars)>>
        ELSE user_secret_path(pocket_key, spec.type, store)]]

\* Where the value of a managed key is: one parameter of SSM, or one field of
\* the JSON that a secret of Secrets Manager holds, below stage and project.
Place(v, k) ==
  IF v.store = "sm" THEN <<"sm", v.pocket_key, v.stage, k>>
  ELSE <<"ssm", v.pocket_key, k>>

_injected_managed_specs(d) ==
  LET keys == (UNION {Headers(d, x) : x \in Distributions(d)}) \cup
                (IF \E x \in Distributions(d) : Distribution(d, x).enable_origin_verify
                 THEN {ORIGIN_VERIFY_SECRET_KEY} ELSE {})
  IN [k \in keys |-> [type |-> "injected", shared |-> FALSE]]

\* The settings check sees to it that any container's will do.
project_secrets_base(d) ==
  LET declaring == {c \in Containers(d) : HasSecrets(d, c)}
      base == Secrets(d, IF declaring = {} THEN NotGiven ELSE CHOOSE c \in declaring : TRUE)
  IN [base EXCEPT !.managed = NoKeys, !.user = NoKeys]

Shared(managed) == Only(managed, LAMBDA k : managed[k].shared)
Unshared(managed) == Only(managed, LAMBDA k : ~managed[k].shared)

_container_secrets_context(d, st, c) ==
  LET s == Secrets(d, c)
  IN View([s EXCEPT !.managed = Unshared(@), !.user = NoKeys], st,
          Expand(s.format, st, container_format_vars(c)))

_container_shared_secrets_context(d, st, c) ==
  LET s == IF HasSecrets(d, c) THEN Secrets(d, c) ELSE project_secrets_base(d)
  IN View([s EXCEPT !.managed = Over(_injected_managed_specs(d), Shared(@))], st,
          Expand(s.format, st, format_vars))

_project_secrets_contextMutant(d, st) ==
  LET declaring == {c \in Containers(d) : HasSecrets(d, c)}
      base == project_secrets_base(d)
      first == IF declaring = {} THEN NoKeys ELSE Secrets(d, CHOOSE c \in declaring : TRUE).managed
  IN View([base EXCEPT !.managed = Over(_injected_managed_specs(d), Shared(first))], st,
          Expand(base.format, st, format_vars))
_project_secrets_context(d, st) ==
  LET base == project_secrets_base(d)
      owners == [k \in UNION {DOMAIN Shared(Secrets(d, c).managed) : c \in Containers(d)} |->
                   CHOOSE c \in managed_secret_owners(d, k) : Secrets(d, c).managed[k].shared]
      shared == [k \in DOMAIN owners |-> Secrets(d, owners[k]).managed[k]]
  IN View([base EXCEPT !.managed = Over(_injected_managed_specs(d), shared)], st,
          Expand(base.format, st, format_vars))

secrets_views(d, st, c) ==
  {_container_secrets_context(d, st, c), _container_shared_secrets_context(d, st, c)}

\* Of a container that has secrets but none of its own there is a view only if it
\* asks for more than reading (extra_resources, require_list_secrets): taken to do so.
all_secrets_views(d, st) ==
  {_project_secrets_context(d, st)}
    \cup {_container_secrets_context(d, st, c) : c \in {e \in Containers(d) : HasSecrets(d, e)}}

managed_secret_view(d, st, k) ==
  IF k \in DOMAIN _project_secrets_context(d, st).managed
  THEN _project_secrets_context(d, st)
  ELSE _container_secrets_context(d, st,
         CHOOSE c \in managed_secret_owners(d, k) : ~Secrets(d, c).managed[k].shared)

\* What IAM lets a container read, and what its runtime opens: a store, or a
\* secret of the user's.  What is read later replaces what was read before: the
\* shared store the container's own, the user's secrets both.
allowed_resources(v) ==
  Range(v.user) \cup (IF v.managed = NoKeys THEN {} ELSE {<<v.store, v.pocket_key>>})

get_secretsMutant(d, st, c) ==
  LET own == _container_secrets_context(d, st, c)
      shared == _container_shared_secrets_context(d, st, c)
  IN [opened |-> UNION {Range(v.user) \cup {<<v.store, v.pocket_key>>} : v \in {own, shared}},
      values |-> Over(shared.user, Over([k \in DOMAIN shared.managed |-> Place(shared, k)],
                                       [k \in DOMAIN own.managed |-> Place(own, k)]))]
get_secrets(d, st, c) ==
  LET own == _container_secrets_context(d, st, c)
      shared == _container_shared_secrets_context(d, st, c)
      opened(v) == Range(v.user) \cup
                     (IF v.managed = NoKeys THEN {} ELSE {<<v.store, v.pocket_key>>})
  IN [opened |-> opened(own) \cup opened(shared),
      values |-> Over(shared.user, Over([k \in DOMAIN shared.managed |-> Place(shared, k)],
                                       [k \in DOMAIN own.managed |-> Place(own, k)]))]

CloudFrontSecrets(d, x) ==
  LET cf == Distribution(d, x)
      named == {k \in {cf.token_secret, cf.basic_auth, cf.signing_key} \ {NotGiven} :
                  managed_secret_owners(d, k) # {}}
  IN named \cup Headers(d, x)
       \cup (IF cf.enable_origin_verify THEN {ORIGIN_VERIFY_SECRET_KEY} ELSE {})

-----------------------------------------------------------------------------
(* The context: handlers, schedules, backups.                               *)
LambdaRoutes(d) ==
  UNION {{r \in Range(Distribution(d, x).routes) : r.type = "lambda"} : x \in Distributions(d)}

api_origins(d) == {r.handler : r \in LambdaRoutes(d)}

\* Of the entries of a template that have one logical id, it keeps one.  These
\* are sure to be kept.
Kept(keys, id) == {k \in keys : \A l \in keys : id[l] = id[k] => l = k}

LambdaFunctions(d, c) == Kept(DOMAIN Handlers(d, c), Capital)

\* A stack exports the domains that a distribution asks for, of the handlers
\* for which it has one.
export_api_domain(d, c) ==
  {h \in LambdaFunctions(d, c) : Handlers(d, c)[h].apigateway /\ <<c, h>> \in api_origins(d)}

\* Schedule -> its logical id.  (The name that _kebab makes of the key is left to
\* AWS, which refuses a second of one name.)
SchedulerContext(d, c) ==
  LET own == {k \in DOMAIN Schedules(d) : Schedules(d)[k].handler[1] = c}
      targets(K) == {Schedules(d)[k].handler[2] : k \in K}
      sqs == {k \in own : Schedules(d)[k].scheduler = "sqs"}
  IN [schedules |-> [k \in own |-> Camel[k]],
      invoked_functions |-> targets(own \ sqs) \cap DOMAIN Handlers(d, c),
      sqs_queue_logical_names |-> {Capital[h] : h \in targets(sqs)}]

SqsQueues(d, c) == {h \in LambdaFunctions(d, c) : Handlers(d, c)[h].sqs}

BackupEngines(d) == {e \in {"dsql", "rds"} : Has(d, <<"backup", e>>)}

\* NotGiven where the stage has no database that AWS Backup could save.
BackupContext(d) ==
  IF ~Has(d, <<"dsql">>) /\ ~ManagedRds(d) THEN NotGiven
  ELSE [plans |-> BackupEngines(d),
        cleanup |-> {e \in {"dsql"} : Has(d, <<e>>)} \cup {e \in {"rds"} : ManagedRds(d)}]

\* RdsContext raises.
Derivable(d) == ManagedRds(d) => InVpc(d, <<"rds">>)

-----------------------------------------------------------------------------
SettingsInit ==
  /\ toml \in Tomls
  /\ phase = [st \in Stages |-> "unread"]
  /\ data = [st \in Stages |-> NoKeys]

Reject(st) ==
  /\ phase' = [phase EXCEPT ![st] = "rejected"]
  /\ UNCHANGED <<toml, data>>

FromToml(st) ==
  LET merged == remove_stages_data(merge_stage_data(st, toml))
      read == resolve_vpc(merged)
  IN /\ phase[st] = "unread"
     /\ IF \/ ~check_keys(toml)
           \/ st \notin toml[<<"general", "stages">>]
           \/ VpcRejected(merged)
           \/ ~Accepted(read)
        THEN Reject(st)
        ELSE /\ phase' = [phase EXCEPT ![st] = "accepted"]
             /\ data' = [data EXCEPT ![st] = read]
             /\ UNCHANGED toml

FromSettings(st) ==
  /\ phase[st] = "accepted"
  /\ phase' = [phase EXCEPT ![st] = IF Derivable(data[st]) THEN "derived" ELSE "raised"]
  /\ UNCHANGED <<toml, data>>

SettingsNext == \E st \in Stages : FromToml(st) \/ FromSettings(st)

SettingsSpec == SettingsInit /\ [][SettingsNext]_settings

-----------------------------------------------------------------------------
Derived == {st \in Stages : phase[st] = "derived"}

\* What the files say of the secrets of containers.
Said(k) ==
  UNION {{t[p] : p \in {q \in DOMAIN t : \E n \in 0..1 : SecretsAt(q, n, k)}} : t \in Tomls}
KeyFormats == Said("pocket_key_format") \cup {pocket_key_format}

\* Every key format has a slot for the container.  The settings do not ask for it
\* (the docstring of container_format_vars takes it for granted).
ContainersInKeys == \A f \in KeyFormats : "namespace" \in Range(f)

\* What precedes the files of a versioned route is no segment of its pattern, of
\* which the function that strips it might take it.  Nor do the settings ask for
\* that: DEPLOY_HASH is a commit's unless an operator says another.
NoHashIn(routes) ==
  \A i \in DOMAIN routes :
    routes[i].versioning = "deploy_hash" => Hash \notin Range(routes[i].path_pattern.segs)
HashAside ==
  \A t \in Tomls : \A p \in DOMAIN t : (\E n \in 0..1 : RoutesAt(p, n)) => NoHashIn(t[p])

\* A value that is not shared is one container's own: no other container of the
\* stage takes a value from its place (the comments of ManagedSecretSpec.shared
\* and container_format_vars), and none of another stage does.  Of the latter the
\* Parameter Store is left out: there the key is all that tells stages apart, and
\* the keys of two stages may be one text (dev-shop-shop-pocket is that of the
\* container shop of dev and that of what the stage dev-shop shares).
StoresApart ==
  \A st, su \in Derived : \A c \in Containers(data[st]), e \in Containers(data[su]) :
    LET own == _container_secrets_context(data[st], st, c)
        read == get_secrets(data[su], su, e).values
    IN \A k \in DOMAIN own.managed : \A l \in DOMAIN read :
         read[l] = Place(own, k) => IF st = su THEN c = e ELSE own.store # "sm"

\* What a deploy takes for orphans in a store (_cleanup_orphaned_secrets: what
\* its view of the store does not have) is read by nobody: by no container of the
\* stage and, but for the Parameter Store (as above), by none of another.
CleanupSparesLive ==
  \A st, su \in Derived : \A v \in all_secrets_views(data[st], st) :
    \A e \in Containers(data[su]) :
      LET read == get_secrets(data[su], su, e).values
      IN \A k \in DOMAIN read :
           read[k] = Place(v, k) => k \in DOMAIN v.managed \/ (st # su /\ v.store # "sm")

\* What a runtime reads at its start it may read, and a deploy generates it where
\* it is read (a secret of the user's is stored by the user or by store-url):
\* otherwise INIT fails.
ReadsServed ==
  \A st \in Derived : \A c \in Containers(data[st]) :
    LET read == get_secrets(data[st], st, c)
        user == _container_shared_secrets_context(data[st], st, c).user
    IN /\ read.opened \subseteq
            UNION {allowed_resources(v) : v \in secrets_views(data[st], st, c)}
       /\ \A k \in DOMAIN read.values \ DOMAIN user :
            \E v \in all_secrets_views(data[st], st) :
              k \in DOMAIN v.managed /\ Place(v, k) = read.values[k]

\* The value that CloudFront checks a request against is the one that every
\* container with a secret of that name has in its environment.  A secret of the
\* user's takes the place of a managed one of its name, and another container may
\* have it: only for the headers of the WAF the settings forbid that.
OneValue ==
  \A st \in Derived : \A x \in Distributions(data[st]) : \A k \in CloudFrontSecrets(data[st], x) :
    \A c \in Containers(data[st]) :
      LET read == get_secrets(data[st], st, c).values
      IN k \in DOMAIN read =>
           \/ read[k] = Place(managed_secret_view(data[st], st, k), k)
           \/ k \in DOMAIN Secrets(data[st], c).user \ Headers(data[st], x)

\* An upload deletes what is below its prefix and not among its files: nothing of
\* another route of the same distribution is there.
UploadsApart ==
  \A st \in Derived : \A x \in Distributions(data[st]) :
    LET d == Distribution(data[st], x)
    IN \A i \in Uploadable(d) : \A j \in DOMAIN d.routes : \A f \in Contents :
         d.routes[j].type = "s3" /\ i # j
           => ~IsPrefix(s3_prefix(d.routes[i]), s3_prefix(d.routes[j]) \o f)

\* Nor is anything of a route of another distribution, or one of the stage's own
\* files: they are all in one bucket (CloudFrontContext.bucket_name), where the
\* guide has origin_path keep distributions apart, and pocket_managed/ nothing
\* to do with uploads.
BucketApart ==
  \A st \in Derived : \A x, y \in Distributions(data[st]) :
    LET d == Distribution(data[st], x)
        e == Distribution(data[st], y)
    IN \A i \in Uploadable(d) :
         /\ \A j \in DOMAIN e.routes : \A f \in Contents :
              e.routes[j].type = "s3" /\ <<x, i>> # <<y, j>>
                => ~IsPrefix(s3_prefix(d.routes[i]), s3_prefix(e.routes[j]) \o f)
         /\ \A f \in e.managed_assets :
              ~IsPrefix(s3_prefix(d.routes[i]), ObjectOf(Asset(f), <<f>>))

\* What an application links to is served: by the route it belongs to unless
\* the pattern of another claims it, from the object that the upload of that
\* route writes, and the bucket lets the distribution read it.  A default route
\* with deploy_hash is accepted, and the guide does not except it, but there no
\* function strips the hash from what is asked for: no upload writes that object.
FilesServed ==
  \A st \in Derived : \A x \in Distributions(data[st]) :
    LET d == Distribution(data[st], x)
    IN /\ \A r \in Range(d.routes) : \A f \in Contents :
            LET b == Behavior(d, Link(r, f))
                object == ObjectOf(r, Link(r, f))
                written == s3_prefix(r) \o (IF r.is_spa /\ Last(f) \in Pages
                                           THEN <<"index.html">> ELSE f)
            IN /\ r.path_pattern.star => ~b.is_default
               /\ r.type = "s3" /\ b = r =>
                    /\ object = written <=> ~(r.is_default /\ r.versioning = "deploy_hash")
                    /\ IsPrefix(bucket_policy_prefix(d), object)
       /\ \A f \in d.managed_assets :
            LET b == Behavior(d, <<f>>)
            IN b.type = "asset" =>
                 /\ ObjectOf(b, <<f>>) = <<"pocket_managed", f>>
                 /\ IsPrefix(bucket_policy_prefix(d), ObjectOf(b, <<f>>))

\* Every schedule is in the stack of one container, which has its target and
\* lets the scheduler reach it, and every domain that a distribution imports is
\* exported: otherwise the stack cannot be deployed.  The schedule has to have
\* its logical id to itself among those of the container, and a handler among its
\* handlers: keys may differ in case or in separators alone, and no check compares
\* what they are turned into.
ReferencesResolve ==
  \A st \in Derived :
    LET d == data[st]
        in(c) == Kept(DOMAIN SchedulerContext(d, c).schedules, SchedulerContext(d, c).schedules)
    IN /\ \A k \in DOMAIN Schedules(d) :
            LET c == Schedules(d)[k].handler[1]
                h == Schedules(d)[k].handler[2]
                like == {l \in DOMAIN Schedules(d) : Schedules(d)[l].handler[1] = c}
            IN k \in Kept(like, Camel) /\ h \in LambdaFunctions(d, c) =>
                 /\ {e \in Containers(d) : k \in in(e)} = {c}
                 /\ IF Schedules(d)[k].scheduler = "sqs"
                    THEN /\ h \in SqsQueues(d, c)
                         /\ Capital[h] \in SchedulerContext(d, c).sqs_queue_logical_names
                    ELSE h \in SchedulerContext(d, c).invoked_functions
       /\ \A ref \in api_origins(d) :
            ref[2] \in LambdaFunctions(d, ref[1]) => ref[2] \in export_api_domain(d, ref[1])

\* A backup that is declared is made, by a plan that destroy finds again, of a
\* database that the deploy creates (check_backup_targets: written down but not
\* protected is the worst that can happen).
DeclaredIsBackedUp ==
  \A st \in Derived :
    LET context == BackupContext(data[st])
    IN \A e \in BackupEngines(data[st]) :
         context # NotGiven /\ e \in context.plans \cap context.cleanup
=============================================================================
