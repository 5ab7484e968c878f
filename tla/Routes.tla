-------------------------------- MODULE Routes --------------------------------
(* The distributions of a stage: what pocket.toml may say of their routes,  *)
(* and what follows from it: the prefix of the bucket that an upload of a   *)
(* route makes its own, the behaviours of the distribution, and the object  *)
(* that CloudFront asks the bucket for when a URL is requested.             *)
(* A path is a sequence of segments.  A pattern is [segs, star, bad]: star  *)
(* when it ends in "/*", bad when it does not start with a slash or ends    *)
(* with one.  Only operators: Settings holds the state.                     *)
EXTENDS Naturals, SequencesExt

CONSTANTS
  NotGiven,      \* not given
  Plain,     \* a name without what is neither a letter nor a digit
  Pages,     \* the segments without a dot, which SPA routes take for pages
  Hash       \* DEPLOY_HASH

NoPath == [segs |-> <<>>, star |-> FALSE, bad |-> FALSE]

-----------------------------------------------------------------------------
(* What a route may say.                                                    *)
check_origin_path(r) ==
  IF r.type = "lambda" THEN r.origin_path = NoPath
  ELSE /\ r.origin_path = NoPath => r.path_pattern.segs # <<>>
       /\ ~r.origin_path.bad

check_require_token(r) == r.require_token => r.is_spa

check_lambda_route(r) ==
  /\ r.type = "lambda" =>
       /\ r.handler # NotGiven /\ r.content = {}
       /\ ~r.is_spa /\ r.versioning = NotGiven /\ ~r.signed /\ ~r.require_token
  /\ r.handler # NotGiven => r.type = "lambda"

check_build(r) == r.content # {"build", "upload_dir"}

check_flags(r) == ~(r.is_spa /\ r.versioning # NotGiven)

check_is_default(r) == r.is_default <=> r.path_pattern = NoPath

check_path_pattern(r) == ~r.path_pattern.bad

check_ref(r) == r.ref # NotGiven => r.path_pattern.star

RouteAccepted(r) ==
  /\ check_origin_path(r) /\ check_require_token(r) /\ check_lambda_route(r)
  /\ check_build(r) /\ check_flags(r) /\ check_is_default(r)
  /\ check_path_pattern(r) /\ check_ref(r)

-----------------------------------------------------------------------------
(* What follows from it.                                                    *)
route_logical_name(p) ==
  IF p = NoPath THEN <<"root">> ELSE [i \in DOMAIN p.segs |-> Plain[p.segs[i]]]

(* Where the objects of a route are.  The check for overlaps and the upload *)
(* work it out each for itself.                                             *)
s3_prefix(r) == r.origin_path.segs \o r.path_pattern.segs

Uploadable(d) ==
  {i \in DOMAIN d.routes : d.routes[i].type = "s3" /\ d.routes[i].content # {}}

extra_s3_routes(d) ==
  {i \in DOMAIN d.routes : ~d.routes[i].is_default /\ d.routes[i].type # "lambda"}

extra_lambda_routes(d) ==
  {i \in DOMAIN d.routes : ~d.routes[i].is_default /\ d.routes[i].type = "lambda"}

default_route(d) == d.routes[CHOOSE i \in DOMAIN d.routes : d.routes[i].is_default]

(* What the bucket lets the distribution read: everything below the longest *)
(* path that the places of all its objects begin with.                      *)
bucket_policy_prefixMutant(d) ==
  LET origins == {r.origin_path.segs : r \in {q \in Range(d.routes) : q.origin_path # NoPath}}
  IN IF Cardinality(origins) = 1 THEN CHOOSE p \in origins : TRUE ELSE <<>>
bucket_policy_prefix(d) ==
  LET top(r) == IF r.origin_path = NoPath THEN r.path_pattern.segs
                ELSE r.origin_path.segs
      tops == ({top(r) : r \in {q \in Range(d.routes) : q.type # "lambda"}} \ {<<>>})
                \cup (IF d.managed_assets = {} THEN {} ELSE {<<"pocket_managed">>})
      common == {p \in UNION {Prefixes(t) : t \in tops} :
                   \A t \in tops : IsPrefix(p, t)}
  IN IF tops = {} THEN <<>> ELSE CHOOSE p \in common : \A q \in common : Len(q) <= Len(p)

-----------------------------------------------------------------------------
(* What a distribution may say.                                             *)
check_domain_redirect_from(d) == d.redirect_from # <<>> => d.domain # NotGiven

check_logical_id_uniqueness(d) ==
  LET names == [i \in DOMAIN d.routes |-> route_logical_name(d.routes[i].path_pattern)]
  IN /\ <<>> \notin Range(names)
     /\ IsInjective(names)
     /\ IsInjective([i \in DOMAIN d.redirect_from |-> Plain[d.redirect_from[i]]])

check_token_secret(d) ==
  (\E r \in Range(d.routes) : r.require_token) => d.token_secret # NotGiven

check_routes(d) ==
  Cardinality({i \in DOMAIN d.routes : d.routes[i].is_default}) = 1

check_route_ref_unique(d) ==
  \A i, j \in DOMAIN d.routes :
    d.routes[i].ref = d.routes[j].ref => i = j \/ d.routes[i].ref = NotGiven

check_route_s3_prefix_overlapMutant(d) ==
  \A i, j \in DOMAIN d.routes :
    d.routes[i].origin_path # NoPath /\ d.routes[j].origin_path # NoPath /\ i # j
      => ~IsPrefix(s3_prefix(d.routes[i]), s3_prefix(d.routes[j]))
check_route_s3_prefix_overlap(d) ==
  \A i, j \in DOMAIN d.routes :
    d.routes[i].type = "s3" /\ d.routes[j].type = "s3" /\ i # j
      => ~IsPrefix(s3_prefix(d.routes[i]), s3_prefix(d.routes[j]))

check_rule(rule) == rule.path # NotGiven \/ rule.header # NotGiven

must_have_some_rule(d) ==
  d.waf # NotGiven => /\ d.waf.enable_ip_set \/ d.waf.managed_rule_groups
                  /\ \A rule \in d.waf.allow_rules : check_rule(rule)

DistributionAccepted(d) ==
  /\ \A r \in Range(d.routes) : RouteAccepted(r)
  /\ check_domain_redirect_from(d) /\ check_logical_id_uniqueness(d)
  /\ check_token_secret(d) /\ check_routes(d) /\ check_route_ref_unique(d)
  /\ check_route_s3_prefix_overlap(d) /\ must_have_some_rule(d)

-----------------------------------------------------------------------------
(* What CloudFront does with a request.  The behaviours of the template are *)
(* tried in its order: S3 routes, Lambda routes, the stage's own files, and *)
(* the default at last.                                                     *)
Asset(f) ==
  [type |-> "asset", is_default |-> FALSE, is_spa |-> FALSE, versioning |-> NotGiven,
   path_pattern |-> [segs |-> <<f>>, star |-> FALSE, bad |-> FALSE],
   origin_path |-> [segs |-> <<"pocket_managed">>, star |-> FALSE, bad |-> FALSE]]

Matches(r, url) ==
  \/ r.is_default
  \/ r.path_pattern.segs = url /\ ~r.path_pattern.star
  \/ r.path_pattern.star /\ IsStrictPrefix(r.path_pattern.segs, url)

Behavior(d, url) ==
  LET of(routes) == {i \in routes : Matches(d.routes[i], url)}
      First(routes) == d.routes[CHOOSE i \in routes : \A j \in routes : i <= j]
      s3 == of(extra_s3_routes(d))
      lambda == of(extra_lambda_routes(d))
      assets == {f \in d.managed_assets : Matches(Asset(f), url)}
  IN IF s3 # {} THEN First(s3) ELSE IF lambda # {} THEN First(lambda)
     ELSE IF assets # {} THEN Asset(CHOOSE f \in assets : TRUE) ELSE default_route(d)

spa_fallback_uri(r) == r.path_pattern.segs \o <<"index.html">>

(* The function attached to a behaviour; the one that strips the hash is    *)
(* not attached to the default behaviour.                                   *)
Rewritten(r, url) ==
  IF r.is_spa /\ Last(url) \in Pages THEN spa_fallback_uri(r)
  ELSE IF r.versioning = "deploy_hash" /\ ~r.is_default
       THEN LET at == SelectInSeq(url, LAMBDA s : s = Hash)
            IN IF at \in 1..(Len(url) - 1) THEN RemoveAt(url, at) ELSE url
       ELSE url

ObjectOf(r, url) == r.origin_path.segs \o Rewritten(r, url)

(* What an application links to, for the file f of the route.               *)
Link(r, f) ==
  r.path_pattern.segs \o (IF r.versioning = "deploy_hash" THEN <<Hash>> ELSE <<>>) \o f
=============================================================================
