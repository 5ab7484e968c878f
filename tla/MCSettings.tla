------------------------------ MODULE MCSettings ------------------------------
EXTENDS Settings

MCKeyFormats == {pocket_key_format, <<"namespace", "-", "at", "-", "stage">>}

\* The keys that the container shop of dev and what dev-shop shares have are one.
MCSpelling ==
  [w \in Stages \cup ContainerNames \cup {Project, Namespace} |->
     IF w = "dev-shop" THEN <<"dev", "-", "shop">> ELSE <<w>>]

MCCamel == [k \in {"hourly", "daily", "Daily"} |-> IF k = "hourly" THEN "Hourly" ELSE "Daily"]
MCCapital == [h \in {"wsgi", "mgmt", "Mgmt"} |-> IF h = "wsgi" THEN "Wsgi" ELSE "Mgmt"]

MCPlain == [w \in {"static", "sta-tic", "app", "api", "spa", "a.example", "a-example"} |->
              CASE w = "sta-tic" -> "static" [] w = "a-example" -> "a.example" [] OTHER -> w]
MCFiles == {<<"index.html">>, <<"about">>, <<"js", "app.js">>}

\* Two stages, and one that the file does not know or that is overridden.
Base(stages) ==
  (<<"general", "stages">> :> stages) @@ (<<"s3", "versioning">> :> FALSE)
Both == {"dev", "dev-shop"}

Handler(command, api, sqs) == [command |-> command, apigateway |-> api, sqs |-> sqs]
Web == <<"container", "web">>
Shop == <<"container", "shop">>
WebHandlers == Web \o <<"handlers", "wsgi">> :> Handler("wsgi_handler", TRUE, FALSE)

Path(segs, star) == [segs |-> segs, star |-> star, bad |-> FALSE]
Route == [type |-> "s3", handler |-> NotGiven, path_pattern |-> NoPath, is_default |-> FALSE,
          is_spa |-> FALSE, versioning |-> NotGiven, ref |-> NotGiven, signed |-> FALSE,
          content |-> {"build"}, origin_path |-> NoPath, require_token |-> FALSE]
Api == [Route EXCEPT !.type = "lambda", !.content = {}, !.handler = <<"web", "wsgi">>,
                     !.path_pattern = Path(<<"api">>, TRUE)]
DefaultSpa == [Route EXCEPT !.is_default = TRUE, !.is_spa = TRUE, !.require_token = TRUE,
                            !.origin_path = Path(<<"spa">>, FALSE)]
DefaultSpaOpen == [DefaultSpa EXCEPT !.require_token = FALSE]

-----------------------------------------------------------------------------
(* Secrets: two containers, a key K declared in every way, a user secret,   *)
(* what CloudFront refers to.                                               *)
K == "SECRET"
ManagedK(c, how) ==
  IF how = "no" THEN NoKeys
  ELSE c \o <<"secrets", "managed", K>> :> [type |-> "password", shared |-> how = "shared"]
Stored == [name |-> NotGiven, type |-> "neon_database_url", store |-> NotGiven]
Named == [name |-> <<"stage", "-", "url">>, type |-> NotGiven, store |-> "ssm"]
\* The secret with a name of its own has that of the managed one, too.
UserUrl(c, user) ==
  IF user = NotGiven THEN NoKeys
  ELSE c \o <<"secrets", "user", IF user = Named THEN K ELSE "DATABASE_URL">> :> user

ContainerSecrets(c, how, user, store, format) ==
  ManagedK(c, how) @@ UserUrl(c, user)
    @@ (c \o <<"secrets", "store">> :> store)
    @@ (c \o <<"secrets", "pocket_key_format">> :> format)

ShopSecrets(how) ==
  UNION {{ContainerSecrets(Shop, how, user, store, format) :
            user \in {NotGiven, Stored}, store \in {"sm", "ssm"}, format \in MCKeyFormats}}
  \cup {Shop \o <<"envs">> :> TRUE}

Waf == [enable_ip_set |-> TRUE, managed_rule_groups |-> FALSE,
        allow_rules |-> {[path |-> NotGiven, header |-> "SMOKE"]}]
Cdn(k) == <<"cloudfront", "main", k>>
CdnOf(refs) ==
  (Cdn("routes") :> <<IF "token" \in refs THEN DefaultSpa ELSE DefaultSpaOpen, Api>>)
    @@ (IF "token" \in refs THEN Cdn("token_secret") :> K ELSE NoKeys)
    @@ (IF "verify" \in refs THEN Cdn("enable_origin_verify") :> TRUE ELSE NoKeys)
    @@ (IF "waf" \in refs THEN Cdn("waf") :> Waf ELSE NoKeys)

WebTables ==
  {Base(Both) @@ WebHandlers @@ ContainerSecrets(Web, how, user, store, format) :
     how \in {"no", "own", "shared"}, user \in {NotGiven, Stored, Named},
     store \in {"sm", "ssm"}, format \in MCKeyFormats}

OtherTables ==
  {job @@ cdn @@ override :
     job \in UNION {ShopSecrets(how) : how \in {"no", "own", "shared"}},
     cdn \in {NoKeys, CdnOf({}), CdnOf({"token"}), CdnOf({"token", "verify"}), CdnOf({"verify", "waf"})},
     override \in {NoKeys, <<"dev-shop">> \o Shop \o <<"secrets", "managed", K>> :>
                             [type |-> "password", shared |-> TRUE]}}

SecretTomls == {web @@ other : web \in WebTables, other \in OtherTables}

-----------------------------------------------------------------------------
(* Routes: every distribution of at most three of these.                    *)
Pool ==
  {DefaultSpa, [DefaultSpa EXCEPT !.is_spa = FALSE, !.require_token = FALSE, !.origin_path = Path(<<"static">>, FALSE)],
   [DefaultSpa EXCEPT !.is_spa = FALSE, !.require_token = FALSE, !.origin_path = Path(<<"app">>, FALSE),
                      !.versioning = "deploy_hash"],
   Api, [Api EXCEPT !.is_default = TRUE, !.path_pattern = NoPath],
   [Route EXCEPT !.path_pattern = Path(<<"static">>, TRUE), !.versioning = "deploy_hash", !.ref = "static"],
   [Route EXCEPT !.path_pattern = Path(<<"sta-tic">>, TRUE), !.content = {"upload_dir"}],
   [Route EXCEPT !.path_pattern = Path(<<"static", "app">>, TRUE), !.ref = "static"],
   [Route EXCEPT !.path_pattern = Path(<<"app">>, TRUE), !.is_spa = TRUE, !.origin_path = Path(<<"spa">>, FALSE)],
   [Route EXCEPT !.path_pattern = Path(<<"static", "app">>, FALSE), !.content = {}, !.origin_path = Path(<<"spa">>, FALSE)],
   [Route EXCEPT !.path_pattern = Path(<<>>, TRUE), !.ref = "all"]}

RouteTomls ==
  {Base({"dev"}) @@ WebHandlers @@ (Web \o <<"secrets", "managed", K>> :> [type |-> "password", shared |-> FALSE])
     @@ (Cdn("routes") :> routes) @@ (Cdn("token_secret") :> K) @@ (Cdn("managed_assets") :> assets) :
     routes \in UNION {[1..n -> Pool] : n \in 0..3}, assets \in {{}, {"robots.txt"}}}

-----------------------------------------------------------------------------
(* Two distributions, each with a default route and static files of its own. *)
Static == [Route EXCEPT !.path_pattern = Path(<<"static">>, TRUE), !.ref = "static"]
MCTwoTomls ==
  {Base(Both) @@ WebHandlers
     @@ (Cdn("routes") :> <<DefaultSpaOpen, Static>>) @@ (Cdn("managed_assets") :> assets)
     @@ (<<"cloudfront", "media", "routes">> :>
           <<[DefaultSpaOpen EXCEPT !.origin_path = Path(<<origin>>, FALSE)], Static>>) :
     origin \in {"app", "media"}, assets \in {{}, {"robots.txt"}}}

-----------------------------------------------------------------------------
(* Schedules and the references of routes to handlers.                      *)
ReferenceTomls ==
  {Base({"dev"}) @@ (Web \o <<"handlers", "wsgi">> :> Handler("wsgi_handler", api, FALSE))
     @@ (Web \o <<"handlers", "mgmt">> :> Handler(ManagementHandler, FALSE, sqs))
     @@ (Shop \o <<"handlers", "mgmt">> :> Handler(ManagementHandler, FALSE, ~sqs))
     @@ (<<"scheduler", "schedules", "hourly">> :> [scheduler |-> scheduler, handler |-> ref])
     @@ (<<"scheduler", "schedules", "daily">> :> [scheduler |-> "lambda", handler |-> <<"shop", "mgmt">>])
     @@ other @@ cdn :
     api, sqs \in BOOLEAN, scheduler \in {"lambda", "management", "sqs"},
     other \in {NoKeys,
       <<"scheduler", "schedules", "Daily">> :> [scheduler |-> "sqs", handler |-> <<"shop", "mgmt">>],
       Web \o <<"handlers", "Mgmt">> :> Handler("wsgi_handler", TRUE, TRUE)},
     ref \in {<<"web", "wsgi">>, <<"web", "mgmt">>, <<"shop", "mgmt">>, <<"shop", "wsgi">>},
     cdn \in {NoKeys} \cup
       {Cdn("routes") :> <<DefaultSpaOpen, [Api EXCEPT !.handler = h]>> :
          h \in {<<"web", "wsgi">>, <<"web", "mgmt">>}}}

-----------------------------------------------------------------------------
(* Databases: VPC or none, RDS of ours or another's, what is backed up.     *)
Flag(path, v) == IF v = NotGiven THEN NoKeys ELSE path :> v
Rds(k) == <<"rds", k>>
Theirs == (Rds("managed") :> FALSE) @@ (Rds("secret_arn") :> TRUE) @@ (Rds("security_group_id") :> TRUE)
RdsTables ==
  {NoKeys, Rds("managed") :> TRUE, (Rds("managed") :> TRUE) @@ (Rds("secret_arn") :> TRUE),
   Theirs, Theirs @@ (Rds("password_strategy") :> "static"), Theirs @@ (Rds("database") :> TRUE),
   (Rds("managed") :> FALSE) @@ (Rds("secret_arn") :> TRUE)}

DatabaseTomls ==
  {Base({"dev"}) @@ WebHandlers @@ vpc @@ rds @@ dsql
     @@ Flag(Append(Web, "use_vpc"), web)
     @@ (IF rds = NoKeys THEN NoKeys ELSE Flag(Rds("use_vpc"), its))
     @@ [p \in {<<"backup", e, "weekly">> : e \in engines} |-> TRUE]
     @@ (IF engines = {} /\ empty THEN <<"backup", "deletable">> :> TRUE ELSE NoKeys) :
     vpc \in {NoKeys, <<"vpc", "zone_suffixes">> :> 1, <<"vpc", "zone_suffixes">> :> 2},
     web, its \in {NotGiven, TRUE, FALSE}, rds \in RdsTables,
     dsql \in {NoKeys, <<"dsql", "deletion_protection">> :> FALSE},
     engines \in SUBSET {"dsql", "rds"}, empty \in BOOLEAN}

\* What is wrong with a file before its sections are looked at.
OtherTomls ==
  {Base({"dev"}) @@ WebHandlers @@ (<<"contaner", "web", "envs">> :> TRUE),
   Base({"dev-shop"}) @@ (<<"dev", "container", "web", "envs">> :> TRUE),
   Base({"dev"}) @@ (<<"container", "we-b", "envs">> :> TRUE)}

MCTomls == SecretTomls \cup RouteTomls \cup ReferenceTomls \cup DatabaseTomls \cup OtherTomls

\* What the theorems about secrets and files suppose is so for these files.
ASSUME HypothesesHold == HashAside /\ ContainersInKeys
=============================================================================
