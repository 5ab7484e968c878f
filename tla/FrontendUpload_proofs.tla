------------------------- MODULE FrontendUpload_proofs -------------------------
(* Proofs about FrontendUpload, for any routes, files, builds, commits and   *)
(* cuts: types, that what CloudFront keeps is current or about to be purged, *)
(* and that an upload that ended well left in the bucket what was built.     *)
EXTENDS FrontendUpload, Settings, SequenceTheorems, FiniteSetTheorems,
  WellFoundedInduction, TLAPS

\* Where a run is, and what it has in hand there.
RouteInv ==
  /\ pc = "assets" => route = Assets /\ todo = Routes
  /\ pc \in {"build", "sync", "delete"} => route \in Routes
  /\ pc \in {"idle", "assets"} => changed = {}
  /\ pc \notin {"sync", "delete"} => ~touched

\* The prefixes of these routes hold what the build directories hold.
Mirrors(routes) == \A f \in Files : RouteOf[f] \in routes => bucket[f] = local[f]

\* The same but for what is still to be deleted.
Holds(files) == \A f \in files : local[f] # None => bucket[f] = local[f]

\* How far an upload has come.
BucketInv ==
  /\ pc = "route" => Mirrors(Routes \ todo)
  /\ pc \in {"build", "sync", "delete"} => Mirrors(Routes \ (todo \cup {route}))
  /\ pc = "sync" => Holds(FilesOf(route) \ pending)
  /\ pc = "delete" => Holds(FilesOf(route))
  /\ pc = "invalidate" => Mirrors(Routes)
  /\ ended => pc = "idle" /\ Mirrors(Routes)

Inv == TypeOK /\ RouteInv /\ OutdatedIsPurged /\ BucketInv

\* The ways to take a step.
LEMMA Actions ==
  ASSUME Next
  PROVE  \/ Commit
         \/ Deploy
         \/ Upload
         \/ \E f \in Files : PutAsset(f)
         \/ \E f \in Files : DeleteAsset(f)
         \/ \E f \in Files : SyncFile(f)
         \/ \E f \in Files : DeleteStale(f)
         \/ \E skip \in BOOLEAN : AssetsDone(skip)
         \/ \E skip \in BOOLEAN : Build(skip)
         \/ Synced
         \/ RouteDone
         \/ Invalidate
         \/ \E r \in Routes : TakeRoute(r)
         \/ CutOff
         \/ \E r \in Routes : BuildOutside(r)
         \/ \E r \in Routes : CarryOut(r)
         \/ \E f \in Files : Fetch(f)
         \/ \E f \in Files : Expire(f)
BY DEF Next, Steps

\* No step disturbs the invariant.
LEMMA InvStep ==
  ASSUME Inv, [Next]_vars
  PROVE  Inv'
<1> USE RoutesAssumption, SetsAssumption, BoundsAssumption DEF Inv, TypeOK, RouteInv, Everywhere
<1>1. ASSUME Commit PROVE Inv'
  <2>1. TypeOK'
    <3>1. commits' \in 0..MaxCommits
      BY <1>1 DEF Commit
    <3>2. source' \in Sources /\ local' \in [Files -> Bodies \cup {None}]
      BY <1>1 DEF Commit
    <3> QED
      BY <1>1, <3>1, <3>2 DEF Commit, remote, run, FilesOf
  <2>2. RouteInv'
    BY <1>1 DEF Commit, remote, run
  <2>3. OutdatedIsPurged'
    BY <1>1 DEF Commit, remote, run, OutdatedIsPurged, Outdated, Changed, FilesOf
  <2>4. BucketInv'
    BY <1>1 DEF Commit, remote, run, BucketInv, Mirrors, Holds, FilesOf
  <2> QED
    BY <2>1, <2>2, <2>3, <2>4
<1>2. ASSUME Deploy PROVE Inv'
  <2>1. TypeOK'
    BY <1>2 DEF Deploy, StepTo, config, remote, FilesOf
  <2>2. RouteInv'
    BY <1>2 DEF Deploy, StepTo, config, remote, FilesOf
  <2>3. OutdatedIsPurged'
    BY <1>2 DEF Deploy, StepTo, config, remote, FilesOf, OutdatedIsPurged, Outdated, Changed
  <2>4. BucketInv'
    BY <1>2 DEF Deploy, StepTo, config, remote, FilesOf, BucketInv, Mirrors, Holds
  <2> QED
    BY <2>1, <2>2, <2>3, <2>4
<1>3. ASSUME Upload PROVE Inv'
  <2>1. TypeOK'
    BY <1>3 DEF Upload, StepTo, config, remote
  <2>2. RouteInv'
    BY <1>3 DEF Upload, StepTo, config, remote
  <2>3. OutdatedIsPurged'
    BY <1>3 DEF Upload, StepTo, config, remote, OutdatedIsPurged, Outdated, Changed, FilesOf
  <2>4. BucketInv'
    BY <1>3 DEF Upload, StepTo, config, remote, BucketInv, Mirrors, Holds, FilesOf
  <2> QED
    BY <2>1, <2>2, <2>3, <2>4
<1>4. ASSUME NEW f \in Files, PutAsset(f) PROVE Inv'
  <2>1. TypeOK'
    BY <1>4 DEF PutAsset, config, Put, FilesOf
  <2>2. RouteInv'
    BY <1>4 DEF PutAsset, config, Put
  <2>3. OutdatedIsPurged'
    BY <1>4 DEF PutAsset, config, Put, OutdatedIsPurged, Outdated, Changed, FilesOf
  <2>4. BucketInv'
    BY <1>4 DEF PutAsset, config, Put, BucketInv, Mirrors, Holds, FilesOf
  <2> QED
    BY <2>1, <2>2, <2>3, <2>4
<1>5. ASSUME NEW f \in Files, DeleteAsset(f) PROVE Inv'
  <2>1. TypeOK'
    BY <1>5 DEF DeleteAsset, config, run, Discard, Stale, FilesOf
  <2>2. RouteInv'
    BY <1>5 DEF DeleteAsset, config, run, Discard, Stale, FilesOf
  <2>3. OutdatedIsPurged'
    BY <1>5 DEF DeleteAsset, config, run, Discard, Stale, FilesOf, OutdatedIsPurged, Outdated,
         Changed
  <2>4. BucketInv'
    BY <1>5 DEF DeleteAsset, config, run, Discard, Stale, FilesOf, BucketInv, Mirrors, Holds
  <2> QED
    BY <2>1, <2>2, <2>3, <2>4
<1>6. ASSUME NEW f \in Files, SyncFile(f) PROVE Inv'
  <2>1. TypeOK'
    BY <1>6 DEF SyncFile, config, Put, IsUnchanged, FilesOf
  <2>2. RouteInv'
    BY <1>6 DEF SyncFile, config, Put, IsUnchanged
  <2>3. OutdatedIsPurged'
    BY <1>6 DEF SyncFile, config, Put, IsUnchanged, OutdatedIsPurged, Outdated, Changed, FilesOf
  <2>4. BucketInv'
    BY <1>6 DEF SyncFile, config, Put, IsUnchanged, BucketInv, Mirrors, Holds, FilesOf
  <2> QED
    BY <2>1, <2>2, <2>3, <2>4
<1>7. ASSUME NEW f \in Files, DeleteStale(f) PROVE Inv'
  <2>1. TypeOK'
    BY <1>7 DEF DeleteStale, config, Discard, Stale, FilesOf
  <2>2. RouteInv'
    BY <1>7 DEF DeleteStale, config, Discard, Stale, FilesOf
  <2>3. OutdatedIsPurged'
    BY <1>7 DEF DeleteStale, config, Discard, Stale, FilesOf, OutdatedIsPurged, Outdated, Changed
  <2>4. BucketInv'
    BY <1>7 DEF DeleteStale, config, Discard, Stale, FilesOf, BucketInv, Mirrors, Holds
  <2> QED
    BY <2>1, <2>2, <2>3, <2>4
<1>8. ASSUME NEW skip \in BOOLEAN, AssetsDone(skip) PROVE Inv'
  <2>1. TypeOK'
    BY <1>8 DEF AssetsDone, StepTo, config, remote
  <2>2. RouteInv'
    BY <1>8 DEF AssetsDone, StepTo, config, remote
  <2>3. OutdatedIsPurged'
    BY <1>8 DEF AssetsDone, StepTo, config, remote, OutdatedIsPurged, Outdated, Changed, FilesOf
  <2>4. BucketInv'
    BY <1>8 DEF AssetsDone, StepTo, config, remote, BucketInv, Mirrors, Holds, FilesOf
  <2> QED
    BY <2>1, <2>2, <2>3, <2>4
<1>9. ASSUME NEW skip \in BOOLEAN, Build(skip) PROVE Inv'
  <2>1. TypeOK'
    BY <1>9 DEF Build, StepTo, config, remote, Built, FilesOf
  <2>2. RouteInv'
    BY <1>9 DEF Build, StepTo, config, remote, Built, FilesOf
  <2>3. OutdatedIsPurged'
    BY <1>9 DEF Build, StepTo, config, remote, Built, FilesOf, OutdatedIsPurged, Outdated, Changed
  <2>4. BucketInv'
    BY <1>9 DEF Build, StepTo, config, remote, Built, FilesOf, BucketInv, Mirrors, Holds
  <2> QED
    BY <2>1, <2>2, <2>3, <2>4
<1>10. ASSUME Synced PROVE Inv'
  <2>1. TypeOK'
    BY <1>10 DEF Synced, StepTo, config, remote
  <2>2. RouteInv'
    BY <1>10 DEF Synced, StepTo, config, remote
  <2>3. OutdatedIsPurged'
    BY <1>10 DEF Synced, StepTo, config, remote, OutdatedIsPurged, Outdated, Changed, FilesOf
  <2>4. BucketInv'
    BY <1>10 DEF Synced, StepTo, config, remote, BucketInv, Mirrors, Holds, FilesOf
  <2> QED
    BY <2>1, <2>2, <2>3, <2>4
<1>11. ASSUME RouteDone PROVE Inv'
  <2>1. TypeOK'
    BY <1>11 DEF RouteDone, StepTo, config, remote, Stale, FilesOf
  <2>2. RouteInv'
    BY <1>11 DEF RouteDone, StepTo, config, remote, Stale, FilesOf
  <2>3. OutdatedIsPurged'
    BY <1>11 DEF RouteDone, StepTo, config, remote, Stale, FilesOf, OutdatedIsPurged, Outdated,
         Changed
  <2>4. BucketInv'
    BY <1>11 DEF RouteDone, StepTo, config, remote, Stale, FilesOf, BucketInv, Mirrors, Holds
  <2> QED
    BY <2>1, <2>2, <2>3, <2>4
<1>12. ASSUME Invalidate PROVE Inv'
  <2>1. TypeOK'
    BY <1>12 DEF Invalidate, StepTo, config, Forgiven
  <2>2. RouteInv'
    BY <1>12 DEF Invalidate, StepTo, config, Forgiven
  <2>3. OutdatedIsPurged'
    BY <1>12 DEF Invalidate, StepTo, config, Forgiven, OutdatedIsPurged, Outdated, Changed,
         Covers, FilesOf
  <2>4. BucketInv'
    BY <1>12 DEF Invalidate, StepTo, config, Forgiven, BucketInv, Mirrors, Holds, FilesOf
  <2> QED
    BY <2>1, <2>2, <2>3, <2>4
<1>13. ASSUME NEW r \in Routes, TakeRoute(r) PROVE Inv'
  <2>1. TypeOK'
    BY <1>13 DEF TakeRoute, StepTo, config, remote, FilesOf
  <2>2. RouteInv'
    BY <1>13 DEF TakeRoute, StepTo, config, remote
  <2>3. OutdatedIsPurged'
    BY <1>13 DEF TakeRoute, StepTo, config, remote, OutdatedIsPurged, Outdated, Changed, FilesOf
  <2>4. BucketInv'
    BY <1>13 DEF TakeRoute, StepTo, config, remote, BucketInv, Mirrors, Holds, FilesOf
  <2> QED
    BY <2>1, <2>2, <2>3, <2>4
<1>14. ASSUME CutOff PROVE Inv'
  <2>1. TypeOK'
    <3>1. cuts' \in 0..MaxCuts
      BY <1>14 DEF CutOff
    <3>2. cut' \subseteq Routes
      BY <1>14 DEF CutOff, Changed
    <3> QED
      BY <1>14, <3>1, <3>2 DEF CutOff, StepTo, config, remote, FilesOf
  <2>2. RouteInv'
    BY <1>14 DEF CutOff, StepTo, config, remote, Changed
  <2>3. OutdatedIsPurged'
    BY <1>14 DEF CutOff, StepTo, config, remote, Changed, OutdatedIsPurged, Outdated, FilesOf
  <2>4. BucketInv'
    BY <1>14 DEF CutOff, StepTo, config, remote, Changed, BucketInv, Mirrors, Holds, FilesOf
  <2> QED
    BY <2>1, <2>2, <2>3, <2>4
<1>15. ASSUME NEW r \in Routes, BuildOutside(r) PROVE Inv'
  <2>1. TypeOK'
    BY <1>15 DEF BuildOutside, config, remote, run, Built
  <2>2. RouteInv'
    BY <1>15 DEF BuildOutside, config, remote, run, Built
  <2>3. OutdatedIsPurged'
    BY <1>15 DEF BuildOutside, config, remote, run, Built, OutdatedIsPurged, Outdated, Changed,
         FilesOf
  <2>4. BucketInv'
    BY <1>15 DEF BuildOutside, config, remote, run, Built, BucketInv, Mirrors, Holds, FilesOf
  <2> QED
    BY <2>1, <2>2, <2>3, <2>4
<1>16. ASSUME NEW r \in Routes, CarryOut(r) PROVE Inv'
  <2>1. TypeOK'
    BY <1>16 DEF CarryOut, config, run, Covers
  <2>2. RouteInv'
    BY <1>16 DEF CarryOut, config, run, Covers
  <2>3. OutdatedIsPurged'
    BY <1>16 DEF CarryOut, config, run, Covers, OutdatedIsPurged, Outdated, Changed, FilesOf
  <2>4. BucketInv'
    BY <1>16 DEF CarryOut, config, run, Covers, BucketInv, Mirrors, Holds, FilesOf
  <2> QED
    BY <2>1, <2>2, <2>3, <2>4
<1>17. ASSUME NEW f \in Files, Fetch(f) PROVE Inv'
  <2>1. TypeOK'
    BY <1>17 DEF Fetch, config, run
  <2>2. RouteInv'
    BY <1>17 DEF Fetch, config, run
  <2>3. OutdatedIsPurged'
    BY <1>17 DEF Fetch, config, run, OutdatedIsPurged, Outdated, Changed, FilesOf
  <2>4. BucketInv'
    BY <1>17 DEF Fetch, config, run, BucketInv, Mirrors, Holds, FilesOf
  <2> QED
    BY <2>1, <2>2, <2>3, <2>4
<1>18. ASSUME NEW f \in Files, Expire(f) PROVE Inv'
  <2>1. TypeOK'
    BY <1>18 DEF Expire, config, run
  <2>2. RouteInv'
    BY <1>18 DEF Expire, config, run
  <2>3. OutdatedIsPurged'
    BY <1>18 DEF Expire, config, run, OutdatedIsPurged, Outdated, Changed, FilesOf
  <2>4. BucketInv'
    BY <1>18 DEF Expire, config, run, BucketInv, Mirrors, Holds, FilesOf
  <2> QED
    BY <2>1, <2>2, <2>3, <2>4
<1>19. CASE UNCHANGED vars
  BY <1>19 DEF vars, config, remote, run, FilesOf, OutdatedIsPurged, Outdated, Changed, Covers,
       BucketInv, Mirrors, Holds
<1> QED
  BY Actions, <1>1, <1>2, <1>3, <1>4, <1>5, <1>6, <1>7, <1>8, <1>9, <1>10, <1>11, <1>12, <1>13,
       <1>14, <1>15, <1>16, <1>17, <1>18, <1>19

\* The bucket as an earlier version left it, and nothing cached.
LEMMA Initially == Init => Inv
<1> SUFFICES ASSUME Init PROVE Inv
  OBVIOUS
<1> USE RoutesAssumption, SetsAssumption, BoundsAssumption DEF Init
<1>1. TypeOK
  <2>1. commits \in 0..MaxCommits /\ cuts \in 0..MaxCuts
    OBVIOUS
  <2>2. source \in [Files -> Bodies \cup {None}] /\ opaque \subseteq Files
    OBVIOUS
  <2> QED
    BY <2>1, <2>2 DEF TypeOK, Everywhere, FilesOf
<1>2. RouteInv /\ OutdatedIsPurged /\ BucketInv
  BY DEF RouteInv, OutdatedIsPurged, Outdated, BucketInv
<1> QED
  BY <1>1, <1>2 DEF Inv

\* The invariant, for any number of runs that end well, fail or are cut off.
THEOREM Invariance == Spec => []Inv
BY Initially, InvStep, PTL DEF Spec

\* A run is at one route at a time, which it does not come to again.
THEOREM Typing == Spec => []TypeOK
<1>1. Inv => TypeOK
  BY DEF Inv
<1> QED
  BY <1>1, Invariance, PTL

\* What is outdated at the edge has an invalidation of its own ahead, or its
\* route was changed by a run that was cut off.
THEOREM NothingOutdatedForgotten == Spec => []OutdatedIsPurged
<1>1. Inv => OutdatedIsPurged
  BY DEF Inv
<1> QED
  BY <1>1, Invariance, PTL

\* Comparing contents with ETags finds all that differs: after an upload that
\* ended well every prefix holds what was built.
THEOREM UploadMirrors == Spec => []BucketMirrorsBuild
<1>1. Inv => BucketMirrorsBuild
  <2> SUFFICES ASSUME Inv, ended, NEW f \in Files, RouteOf[f] # Assets
               PROVE  bucket[f] = local[f]
    BY DEF BucketMirrorsBuild
  <2>1. RouteOf[f] \in Routes
    BY RoutesAssumption
  <2> QED
    BY <2>1 DEF Inv, BucketInv, Mirrors
<1> QED
  BY <1>1, Invariance, PTL

-----------------------------------------------------------------------------
(* What FrontendUpload takes for granted of its routes, that an object is of *)
(* one of them (RouteOf), is what the settings see to.  With it, what else   *)
(* holds of all settings that are accepted.                                  *)

\* Routes are a list, their paths sequences, and a handler is named with its
\* container.
Typed(routes) ==
  /\ DOMAIN routes \subseteq Nat
  /\ \A i \in DOMAIN routes :
       /\ routes[i].type \in {"s3", "lambda"}
       /\ routes[i].origin_path \in Paths /\ ~routes[i].origin_path.star
       /\ routes[i].path_pattern \in Paths
       /\ routes[i].handler \in {NotGiven} \cup (STRING \X STRING)

\* The leaves of settings whose types and values matter below, and of a file.
Leaf(p, n) ==
  RoutesAt(p, n) \/ SecretsAt(p, n, "store") \/ SecretsAt(p, n, "pocket_key_format")

\* q is a path, or with n = 1 that path in a table of a stage.
Below(q, p, n) == Len(q) = Len(p) + n /\ \A i \in 1..Len(p) : q[n + i] = p[i]

\* Settings are finite, their paths are sequences, and such a leaf of theirs is
\* one that a file says.
DataOK(d) ==
  /\ IsFiniteSet(DOMAIN d)
  /\ \A p \in DOMAIN d : \E X : p \in Seq(X)
  /\ \A p \in DOMAIN d : Leaf(p, 0) =>
       \E t \in Tomls : \E q \in DOMAIN t : \E n \in 0..1 : Below(q, p, n) /\ d[p] = t[q]

\* What is not rejected was accepted, and what was derived can be.
SettingsInv ==
  /\ toml \in Tomls
  /\ phase = [st \in Stages |-> phase[st]] /\ data = [st \in Stages |-> data[st]]
  /\ \A st \in Stages :
       /\ phase[st] \in {"accepted", "raised", "derived"} =>
            DataOK(data[st]) /\ Accepted(data[st])
       /\ phase[st] = "derived" => Derivable(data[st])

\* What is read off each of finitely many things is finitely much.
LEMMA ReadOffFinitely ==
  ASSUME NEW S, IsFiniteSet(S), NEW f
  PROVE  IsFiniteSet({f[x] : x \in S})
<1> DEFINE g == [x \in S |-> f[x]]
<1>1. g \in Surjection(S, {f[x] : x \in S})
  BY DEF Surjection
<1> QED
  BY <1>1, FS_Surjection

\* A stage overrides tables by its own, which the file says too.
LEMMA MergeKeeps ==
  ASSUME NEW d \in Tomls, NEW st PROVE DataOK(merge_stage_data(st, d))
<1> DEFINE own == {p \in DOMAIN d : IsStrictPrefix(<<st>>, p)}
           over == [p \in {Tail(q) : q \in own} |-> d[<<st>> \o p]]
           rest == {p \in DOMAIN d : \A o \in DOMAIN over : ~IsPrefix(o, p) /\ ~IsPrefix(p, o)}
           merged == merge_stage_data(st, d)
<1>1. ASSUME NEW q \in own
      PROVE  /\ q \in DOMAIN d /\ q \in Seq(STRING) /\ Tail(q) \in Seq(STRING)
             /\ <<st>> \o Tail(q) = q
             /\ Len(q) \in Nat /\ Len(Tail(q)) = Len(q) - 1
             /\ \A i \in 1..Len(Tail(q)) : Tail(q)[i] = q[i + 1]
  <2>1. q \in DOMAIN d /\ q \in Seq(STRING) /\ Len(q) \in Nat
    BY TomlsAssumption, LenProperties
  <2>2. 1 <= Len(q) /\ SubSeq(<<st>>, 1, 1) = SubSeq(q, 1, 1)
    BY DEF IsStrictPrefix, IsPrefix
  <2>3. q # <<>> /\ q[1] = st
    BY <2>1, <2>2
  <2>4. <<st>> \o Tail(q) = q
    BY <2>1, <2>3
  <2> QED
    BY <2>1, <2>3, <2>4, HeadTailProperties
<1>2. /\ DOMAIN merged = DOMAIN over \cup rest
      /\ \A p \in DOMAIN merged : merged[p] = IF p \in DOMAIN over THEN over[p] ELSE d[p]
  BY DEF merge_stage_data, _deep_merge, Only, Over
<1>3. ASSUME NEW p \in DOMAIN merged
      PROVE  \E q \in DOMAIN d : \E n \in 0..1 : Below(q, p, n) /\ merged[p] = d[q]
  <2>1. CASE p \in DOMAIN over
    <3>1. PICK q \in own : p = Tail(q)
      BY <2>1
    <3>2. merged[p] = d[q]
      BY <1>1, <1>2, <2>1, <3>1
    <3>3. Below(q, p, 1)
      BY <1>1, <3>1 DEF Below
    <3> QED
      BY <1>1, <3>2, <3>3
  <2>2. CASE p \notin DOMAIN over
    <3>1. p \in DOMAIN d /\ merged[p] = d[p] /\ Below(p, p, 0)
      <4>1. p \in DOMAIN d /\ merged[p] = d[p]
        BY <1>2, <2>2
      <4>2. p \in Seq(STRING) /\ Len(p) \in Nat
        BY <4>1, TomlsAssumption, LenProperties
      <4> QED
        BY <4>1, <4>2 DEF Below
    <3> QED
      BY <3>1
  <2> QED
    BY <2>1, <2>2
<1>4. IsFiniteSet(DOMAIN merged)
  <2>1. IsFiniteSet(own) /\ IsFiniteSet(rest)
    <3>1. IsFiniteSet(DOMAIN d) /\ own \in SUBSET DOMAIN d /\ rest \in SUBSET DOMAIN d
      BY TomlsAssumption
    <3> HIDE DEF own, rest
    <3> QED
      BY <3>1, FS_Subset
  <2>2. IsFiniteSet({Tail(q) : q \in own})
    <3> DEFINE tail == [q \in own |-> Tail(q)]
    <3>1. {Tail(q) : q \in own} = {tail[q] : q \in own}
      OBVIOUS
    <3> HIDE DEF own, tail
    <3> QED
      BY <2>1, <3>1, ReadOffFinitely
  <2>3. DOMAIN over = {Tail(q) : q \in own}
    OBVIOUS
  <2> HIDE DEF own, over, rest, merged
  <2> QED
    BY <1>2, <2>1, <2>2, <2>3, FS_Union
<1>5. ASSUME NEW p \in DOMAIN merged PROVE p \in Seq(STRING)
  <2>1. p \in DOMAIN over => p \in Seq(STRING)
    BY <1>1
  <2>2. p \in rest => p \in Seq(STRING)
    BY TomlsAssumption
  <2> QED
    BY <1>2, <2>1, <2>2
<1> QED
  BY <1>3, <1>4, <1>5 DEF DataOK

\* They stay what files say when the tables of stages are taken away.
LEMMA RemoveKeeps ==
  ASSUME NEW d, DataOK(d) PROVE DataOK(remove_stages_data(d))
<1>1. /\ DOMAIN remove_stages_data(d) \subseteq DOMAIN d
      /\ \A p \in DOMAIN remove_stages_data(d) : remove_stages_data(d)[p] = d[p]
  BY DEF remove_stages_data, Only
<1> QED
  BY <1>1, FS_Subset DEF DataOK

\* There are finitely many containers.
LEMMA FewContainers ==
  ASSUME NEW d, DataOK(d) PROVE IsFiniteSet(Containers(d))
<1> DEFINE below == {q \in DOMAIN d : IsStrictPrefix(<<"container">>, q)}
           name == [q \in below |-> q[2]]
<1>1. Containers(d) = {name[q] : q \in below}
  BY DEF Containers, Keys
<1>2. IsFiniteSet(DOMAIN d) /\ below \in SUBSET DOMAIN d
  BY DEF DataOK
<1> HIDE DEF below, name
<1>3. IsFiniteSet(below)
  BY <1>2, FS_Subset
<1> QED
  BY <1>1, <1>3, ReadOffFinitely

\* And when use_vpc is resolved.
LEMMA ResolveKeeps ==
  ASSUME NEW d, DataOK(d) PROVE DataOK(resolve_vpc(d))
<1> DEFINE inside == {s \in VpcSections(d) : UseVpc(d, s) # FALSE /\ Has(d, <<"vpc">>)}
           given == {Append(s, "vpc") : s \in inside}
           kept == {p \in DOMAIN d : Last(p) # "use_vpc"}
           read == resolve_vpc(d)
<1>1. /\ DOMAIN read = given \cup kept
      /\ \A p \in DOMAIN read \ given : read[p] = d[p]
  BY DEF resolve_vpc, Over, Only
<1>2. \A p \in given : ~Leaf(p, 0) /\ \E X : p \in Seq(X)
  <2> SUFFICES ASSUME NEW s \in VpcSections(d)
               PROVE  ~Leaf(Append(s, "vpc"), 0) /\ \E X : Append(s, "vpc") \in Seq(X)
    OBVIOUS
  <2>1. s = <<"rds">> \/ \E c \in Containers(d) : s = <<"container", c>>
    BY DEF VpcSections
  <2>2. ASSUME NEW X, s \in Seq(X), "vpc" \in X, Len(s) \in 1..2, s[1] # "cloudfront"
        PROVE  ~Leaf(Append(s, "vpc"), 0) /\ \E Y : Append(s, "vpc") \in Seq(Y)
    <3>0. Append(s, "vpc") \in Seq(X)
      BY <2>2, AppendProperties
    <3>1. 1 \in 1..Len(s)
      BY <2>2
    <3>2. Append(s, "vpc")[1] # "cloudfront" /\ Len(Append(s, "vpc")) = Len(s) + 1
      BY <2>2, <3>1, AppendProperties
    <3>3. Len(Append(s, "vpc")) # 4
      <4>1. \A n \in 1..2 : n + 1 # 4
        OBVIOUS
      <4>2. Len(s) + 1 # 4
        BY <2>2, <4>1
      <4> QED
        BY <3>2, <4>2
    <3> QED
      BY <3>0, <3>2, <3>3 DEF Leaf, RoutesAt, SecretsAt
  <2>3. CASE s = <<"rds">>
    <3>1. s \in Seq({"rds", "vpc"}) /\ Len(s) = 1 /\ s[1] = "rds"
      BY <2>3
    <3> QED
      BY <2>2, <3>1
  <2>4. ASSUME NEW c, s = <<"container", c>>
        PROVE  ~Leaf(Append(s, "vpc"), 0) /\ \E X : Append(s, "vpc") \in Seq(X)
    <3>1. s \in Seq({"container", c, "vpc"}) /\ Len(s) = 2 /\ s[1] = "container"
      BY <2>4
    <3> QED
      BY <2>2, <3>1
  <2> QED
    BY <2>1, <2>3, <2>4
<1>3. IsFiniteSet(given)
  <2>1. IsFiniteSet(Containers(d))
    BY FewContainers
  <2>2. IsFiniteSet({<<"container", c>> : c \in Containers(d)})
    <3> DEFINE section == [c \in Containers(d) |-> <<"container", c>>]
    <3>1. {<<"container", c>> : c \in Containers(d)} = {section[c] : c \in Containers(d)}
      OBVIOUS
    <3> HIDE DEF section
    <3> QED
      BY <2>1, <3>1, ReadOffFinitely
  <2>3. IsFiniteSet({s \in {<<"rds">>} : Has(d, s)})
    <3> DEFINE one == {<<"rds">>}
               some == {s \in one : Has(d, s)}
    <3>1. IsFiniteSet(one) /\ some \in SUBSET one
      BY FS_Singleton
    <3> HIDE DEF one, some
    <3>2. IsFiniteSet(some)
      BY <3>1, FS_Subset
    <3> QED
      BY <3>2 DEF one, some
  <2>4. IsFiniteSet(VpcSections(d))
    BY <2>2, <2>3, FS_Union DEF VpcSections
  <2>5. IsFiniteSet(inside)
    <3>1. inside \in SUBSET VpcSections(d)
      OBVIOUS
    <3> HIDE DEF inside
    <3> QED
      BY <2>4, <3>1, FS_Subset
  <2> DEFINE flag == [s \in inside |-> Append(s, "vpc")]
  <2>6. given = {flag[s] : s \in inside}
    OBVIOUS
  <2> HIDE DEF inside, given, flag
  <2> QED
    BY <2>5, <2>6, ReadOffFinitely
<1>4. IsFiniteSet(DOMAIN read)
  <2>1. IsFiniteSet(DOMAIN d) /\ kept \in SUBSET DOMAIN d
    BY DEF DataOK
  <2> HIDE DEF given, kept, read
  <2> QED
    BY <1>1, <1>3, <2>1, FS_Union, FS_Subset
<1> QED
  BY <1>1, <1>2, <1>4 DEF DataOK

\* However the stages of however many files are read (from_toml) and derived
\* (from_settings), settings are of these types, and were accepted, from the step
\* on in which they come into being.
THEOREM SettingsInvariance == SettingsSpec => []SettingsInv
PROOF
<1>1. SettingsInit => SettingsInv
  BY DEF SettingsInit, SettingsInv
<1>2. SettingsInv /\ [SettingsNext]_settings => SettingsInv'
  <2> SUFFICES ASSUME SettingsInv, [SettingsNext]_settings PROVE SettingsInv'
    OBVIOUS
  <2>1. CASE UNCHANGED settings
    BY <2>1 DEF settings, SettingsInv
  <2>2. ASSUME NEW st \in Stages, FromToml(st) PROVE SettingsInv'
    <3> DEFINE read == resolve_vpc(remove_stages_data(merge_stage_data(st, toml)))
    <3>1. CASE Reject(st)
      BY <3>1 DEF Reject, SettingsInv
    <3>2. CASE /\ Accepted(read)
               /\ phase' = [phase EXCEPT ![st] = "accepted"]
               /\ data' = [data EXCEPT ![st] = read] /\ UNCHANGED toml
      <4>1. toml \in Tomls
        BY DEF SettingsInv
      <4>2. DataOK(read)
        BY <4>1, MergeKeeps, RemoveKeeps, ResolveKeeps
      <4> QED
        BY <3>2, <4>2 DEF SettingsInv
    <3> QED
      BY <2>2, <3>1, <3>2 DEF FromToml
  <2>3. ASSUME NEW st \in Stages, FromSettings(st) PROVE SettingsInv'
    BY <2>3 DEF FromSettings, SettingsInv
  <2> QED
    BY <2>1, <2>2, <2>3 DEF SettingsNext
<1> QED
  BY <1>1, <1>2, PTL DEF SettingsSpec

\* One sequence begins another if they agree as far as the first goes.
LEMMA PrefixAgrees ==
  ASSUME NEW X, NEW s \in Seq(X), NEW t \in Seq(X)
  PROVE  IsPrefix(s, t) <=> Len(s) <= Len(t) /\ \A i \in 1..Len(s) : s[i] = t[i]
<1>0. Len(s) \in Nat /\ Len(t) \in Nat
  BY LenProperties
<1>1. ASSUME IsPrefix(s, t) PROVE \A i \in 1..Len(s) : s[i] = t[i]
  <2>1. \A i \in 1..Len(s) : SubSeq(s, 1, Len(s))[i] = s[i]
    BY <1>0
  <2>2. \A i \in 1..Len(s) : SubSeq(t, 1, Len(s))[i] = t[i]
    BY <1>0, <1>1 DEF IsPrefix
  <2> QED
    BY <1>1, <2>1, <2>2 DEF IsPrefix
<1>2. ASSUME Len(s) <= Len(t), \A i \in 1..Len(s) : s[i] = t[i]
      PROVE  IsPrefix(s, t)
  <2>1. SubSeq(s, 1, Len(s)) = SubSeq(t, 1, Len(s))
    BY <1>0, <1>2
  <2> QED
    BY <1>2, <2>1 DEF IsPrefix
<1> QED
  BY <1>1, <1>2 DEF IsPrefix

\* Of two sequences that begin a third one begins the other.
LEMMA PrefixesMeet ==
  ASSUME NEW X, NEW a \in Seq(X), NEW b \in Seq(X), NEW c \in Seq(X),
         IsPrefix(a, c), IsPrefix(b, c)
  PROVE  IsPrefix(a, b) \/ IsPrefix(b, a)
<1>1. /\ Len(a) \in Nat /\ Len(b) \in Nat
      /\ \A i \in 1..Len(a) : a[i] = c[i]
      /\ \A i \in 1..Len(b) : b[i] = c[i]
  BY PrefixAgrees, LenProperties
<1>2. CASE Len(a) <= Len(b)
  <2>1. \A i \in 1..Len(a) : a[i] = b[i]
    BY <1>1, <1>2
  <2> QED
    BY <1>2, <2>1, PrefixAgrees
<1>3. CASE Len(b) <= Len(a)
  <2>1. \A i \in 1..Len(b) : b[i] = a[i]
    BY <1>1, <1>3
  <2> QED
    BY <1>3, <2>1, PrefixAgrees
<1> QED
  BY <1>1, <1>2, <1>3

\* What begins the beginning of a sequence begins that.
LEMMA PrefixesChain ==
  ASSUME NEW X, NEW a \in Seq(X), NEW b \in Seq(X), NEW c \in Seq(X),
         IsPrefix(a, b), IsPrefix(b, c)
  PROVE  IsPrefix(a, c)
<1>1. /\ Len(a) \in Nat /\ Len(b) \in Nat /\ Len(c) \in Nat
      /\ Len(a) <= Len(b) /\ \A i \in 1..Len(a) : a[i] = b[i]
      /\ Len(b) <= Len(c) /\ \A i \in 1..Len(b) : b[i] = c[i]
  BY PrefixAgrees, LenProperties
<1>2. Len(a) <= Len(c) /\ \A i \in 1..Len(a) : a[i] = c[i]
  BY <1>1
<1> QED
  BY <1>2, PrefixAgrees

\* And a sequence begins what is put together from it and another.
LEMMA BeginsItself ==
  ASSUME NEW X, NEW a \in Seq(X), NEW b \in Seq(X)
  PROVE  a \o b \in Seq(X) /\ IsPrefix(a, a \o b)
<1>1. Len(a) \in Nat /\ Len(b) \in Nat /\ Len(a \o b) = Len(a) + Len(b) /\ a \o b \in Seq(X)
  BY LenProperties, ConcatProperties
<1>2. \A i \in 1..Len(a) : (a \o b)[i] = a[i]
  BY <1>1, ConcatProperties
<1>3. SubSeq(a, 1, Len(a)) = SubSeq(a \o b, 1, Len(a))
  BY <1>1, <1>2
<1> QED
  BY <1>1, <1>3 DEF IsPrefix

\* An object is below the prefix of one S3 route at most.
LEMMA OneRoute ==
  ASSUME NEW d, check_route_s3_prefix_overlap(d), Typed(d.routes),
         NEW i \in DOMAIN d.routes, NEW j \in DOMAIN d.routes,
         d.routes[i].type = "s3", d.routes[j].type = "s3",
         NEW object \in Seq(STRING),
         IsPrefix(s3_prefix(d.routes[i]), object),
         IsPrefix(s3_prefix(d.routes[j]), object)
  PROVE  i = j
<1>1. s3_prefix(d.routes[i]) \in Seq(STRING) /\ s3_prefix(d.routes[j]) \in Seq(STRING)
  BY ConcatProperties DEF Typed, Paths, s3_prefix
<1> QED
  BY <1>1, PrefixesMeet DEF check_route_s3_prefix_overlap

\* What a file says at a path of these is of the type that it has there.
LEMMA AsSaid ==
  ASSUME NEW d, DataOK(d), NEW p \in DOMAIN d
  PROVE  /\ RoutesAt(p, 0) => Typed(d[p]) /\ (HashAside => NoHashIn(d[p]))
         /\ \A k \in {"store", "pocket_key_format"} : SecretsAt(p, 0, k) => d[p] \in Said(k)
<1> SUFFICES ASSUME Leaf(p, 0)
             PROVE  /\ RoutesAt(p, 0) => Typed(d[p]) /\ (HashAside => NoHashIn(d[p]))
                    /\ \A k \in {"store", "pocket_key_format"} :
                         SecretsAt(p, 0, k) => d[p] \in Said(k)
  BY DEF Leaf
<1>1. PICK t \in Tomls : \E q \in DOMAIN t : \E n \in 0..1 : Below(q, p, n) /\ d[p] = t[q]
  BY DEF DataOK
<1>2. PICK q \in DOMAIN t : \E n \in 0..1 : Below(q, p, n) /\ d[p] = t[q]
  BY <1>1
<1>3. PICK n \in 0..1 : Below(q, p, n) /\ d[p] = t[q]
  BY <1>2
<1>4. RoutesAt(p, 0) => RoutesAt(q, n)
  BY <1>3 DEF Below, RoutesAt
<1>5. \A k : SecretsAt(p, 0, k) => SecretsAt(q, n, k)
  BY <1>3 DEF Below, SecretsAt
<1>6. RoutesAt(p, 0) => Typed(d[p])
  BY <1>3, <1>4, TomlsAssumption DEF Typed
<1>7. ASSUME NEW k, SecretsAt(p, 0, k) PROVE d[p] \in Said(k)
  BY <1>3, <1>5, <1>7 DEF Said
<1>8. RoutesAt(p, 0) /\ HashAside => NoHashIn(d[p])
  BY <1>3, <1>4 DEF HashAside
<1> QED
  BY <1>6, <1>7, <1>8

\* The settings of a derived stage were accepted, its routes are typed.
LEMMA DerivedIsAccepted ==
  ASSUME SettingsInv, NEW st \in Derived
  PROVE  /\ st \in Stages /\ DataOK(data[st]) /\ Accepted(data[st])
         /\ \A x \in Distributions(data[st]) :
              /\ Typed(Distribution(data[st], x).routes)
              /\ HashAside => NoHashIn(Distribution(data[st], x).routes)
              /\ DistributionAccepted(Distribution(data[st], x))
<1>1. st \in Stages /\ DataOK(data[st]) /\ Accepted(data[st])
  BY DEF SettingsInv, Derived
<1>2. ASSUME NEW x \in Distributions(data[st])
      PROVE  /\ Typed(Distribution(data[st], x).routes)
             /\ HashAside => NoHashIn(Distribution(data[st], x).routes)
             /\ DistributionAccepted(Distribution(data[st], x))
  <2> DEFINE at == <<"cloudfront", x, "routes">>
  <2>1. Distribution(data[st], x).routes = Get(data[st], at, <<>>)
    BY DEF Distribution
  <2>2. RoutesAt(at, 0)
    BY DEF RoutesAt
  <2>3. /\ Typed(Get(data[st], at, <<>>))
        /\ HashAside => NoHashIn(Get(data[st], at, <<>>))
    BY <1>1, <2>2, AsSaid DEF Get, Typed, NoHashIn
  <2> QED
    BY <1>1, <2>1, <2>3 DEF Accepted, check_cloudfront
<1> QED
  BY <1>1, <1>2

\* An upload deletes below its prefix, and what is there is no other route's of the
\* same distribution: of those an object has one at most
\* (check_route_s3_prefix_overlap).
THEOREM UploadsStayApart == SettingsSpec => []UploadsApart
PROOF
<1>1. SettingsInv => UploadsApart
  <2> SUFFICES ASSUME SettingsInv, NEW st \in Derived, NEW x \in Distributions(data[st]),
                      NEW i \in Uploadable(Distribution(data[st], x)),
                      NEW j \in DOMAIN Distribution(data[st], x).routes,
                      NEW f \in Contents,
                      Distribution(data[st], x).routes[j].type = "s3", i # j,
                      IsPrefix(s3_prefix(Distribution(data[st], x).routes[i]),
                               s3_prefix(Distribution(data[st], x).routes[j]) \o f)
               PROVE  FALSE
    BY DEF UploadsApart
  <2> DEFINE d == Distribution(data[st], x)
             object == s3_prefix(d.routes[j]) \o f
  <2>1. Typed(d.routes) /\ check_route_s3_prefix_overlap(d)
    BY DerivedIsAccepted DEF DistributionAccepted
  <2>2. i \in DOMAIN d.routes /\ d.routes[i].type = "s3"
    BY DEF Uploadable
  <2>3. s3_prefix(d.routes[j]) \in Seq(STRING) /\ f \in Seq(STRING)
    BY <2>1, ContentsAssumption, ConcatProperties DEF Typed, Paths, s3_prefix
  <2>4. object \in Seq(STRING) /\ IsPrefix(s3_prefix(d.routes[j]), object)
    BY <2>3, BeginsItself
  <2> HIDE DEF d
  <2> QED
    BY <2>1, <2>2, <2>4, OneRoute DEF d
<1> QED
  BY <1>1, SettingsInvariance, PTL

\* A backup that is written down is made, by a plan that destroy finds again, of
\* a database that the stage has and owns (check_backup_targets).
THEOREM BackupsAreMade == SettingsSpec => []DeclaredIsBackedUp
PROOF
<1>1. SettingsInv => DeclaredIsBackedUp
  <2> SUFFICES ASSUME SettingsInv, NEW st \in Derived, NEW e \in BackupEngines(data[st])
               PROVE  /\ BackupContext(data[st]) # NotGiven
                      /\ e \in BackupContext(data[st]).plans \cap BackupContext(data[st]).cleanup
    BY DEF DeclaredIsBackedUp
  <2> DEFINE d == data[st]
             context == [plans |-> BackupEngines(d),
                         cleanup |-> {q \in {"dsql"} : Has(d, <<q>>)}
                                       \cup {q \in {"rds"} : ManagedRds(d)}]
  <2>1. check_backup_targets(d)
    BY DerivedIsAccepted DEF Accepted
  <2>2. \/ e = "dsql" /\ Has(d, <<"dsql">>)
        \/ e = "rds" /\ ManagedRds(d)
    BY <2>1 DEF BackupEngines, check_backup_targets
  <2>3. BackupContext(d) = context
    BY <2>2 DEF BackupContext
  <2>4. context # NotGiven
    <3>1. context \in [plans : SUBSET {"dsql", "rds"}, cleanup : SUBSET {"dsql", "rds"}]
      BY DEF BackupEngines
    <3> QED
      BY <3>1, NotGivenAssumption
  <2> QED
    BY <2>2, <2>3, <2>4
<1> QED
  BY <1>1, SettingsInvariance, PTL

\* What refers to a handler leads to one: a schedule to one container, which has
\* its target, and a route to a domain that a stack exports
\* (check_scheduler_handlers, _check_cloudfront_entry, _build_api_origins), where
\* the schedule and the handler have their logical ids to themselves.
THEOREM ReferencesLead == SettingsSpec => []ReferencesResolve
PROOF
<1>1. SettingsInv => ReferencesResolve
  <2> SUFFICES ASSUME SettingsInv, NEW st \in Derived PROVE
        LET d == data[st]
            in(c) == Kept(DOMAIN SchedulerContext(d, c).schedules, SchedulerContext(d, c).schedules)
        IN /\ \A k \in DOMAIN Schedules(d) :
                LET c == Schedules(d)[k].handler[1]
                    h == Schedules(d)[k].handler[2]
                    like == {l \in DOMAIN Schedules(d) : Schedules(d)[l].handler[1] = c}
                IN k \in Kept(like, Camel) /\ h \in LambdaFunctions(d, c) =>
                     /\ {e \in Containers(d) : k \in in(e)} = {c}
                     /\ IF Schedules(d)[k].scheduler = "sqs"
                        THEN /\ h \in SqsQueues(d, c)
                             /\ Capital[h] \in SchedulerContext(d, c).sqs_queue_logical_names
                        ELSE h \in SchedulerContext(d, c).invoked_functions
           /\ \A ref \in api_origins(d) :
                ref[2] \in LambdaFunctions(d, ref[1]) => ref[2] \in export_api_domain(d, ref[1])
    BY DEF ReferencesResolve
  <2> DEFINE d == data[st]
             of(c) == {k \in DOMAIN Schedules(d) : Schedules(d)[k].handler[1] = c}
             in(c) == Kept(DOMAIN SchedulerContext(d, c).schedules, SchedulerContext(d, c).schedules)
  <2>1. check_scheduler_handlers(d) /\ check_cloudfront(d)
    BY DerivedIsAccepted DEF Accepted
  <2>2. ASSUME NEW c PROVE in(c) = Kept(of(c), Camel)
    <3>1. SchedulerContext(d, c).schedules = [k \in of(c) |-> Camel[k]]
      BY DEF SchedulerContext
    <3> HIDE DEF of
    <3> QED
      BY <3>1 DEF Kept
  <2>3. ASSUME NEW k \in DOMAIN Schedules(d),
               k \in Kept(of(Schedules(d)[k].handler[1]), Camel),
               Schedules(d)[k].handler[2] \in LambdaFunctions(d, Schedules(d)[k].handler[1])
        PROVE  LET e == Schedules(d)[k]
                   c == e.handler[1]
                   h == e.handler[2]
               IN /\ {b \in Containers(d) : k \in in(b)} = {c}
                  /\ IF e.scheduler = "sqs"
                     THEN /\ h \in SqsQueues(d, c)
                          /\ Capital[h] \in SchedulerContext(d, c).sqs_queue_logical_names
                     ELSE h \in SchedulerContext(d, c).invoked_functions
    <3> DEFINE e == Schedules(d)[k]
               c == e.handler[1]
               h == e.handler[2]
    <3>1. /\ c \in Containers(d) /\ h \in DOMAIN Handlers(d, c)
          /\ e.scheduler = "sqs" => Handlers(d, c)[h].sqs
      BY <2>1 DEF check_scheduler_handlers, resolve_handler
    <3>2. {b \in Containers(d) : k \in in(b)} = {c}
      <4>1. c \in Containers(d) /\ k \in in(c)
        BY <2>2, <2>3, <3>1
      <4>2. ASSUME NEW b \in Containers(d), k \in in(b) PROVE b = c
        <5>1. k \in of(b)
          BY <2>2, <4>2 DEF Kept
        <5> QED
          BY <5>1
      <4> HIDE DEF in, c
      <4> QED
        BY <4>1, <4>2
    <3>3. e.scheduler = "sqs" =>
            /\ h \in SqsQueues(d, c)
            /\ Capital[h] \in SchedulerContext(d, c).sqs_queue_logical_names
      <4> SUFFICES ASSUME e.scheduler = "sqs"
                   PROVE  /\ h \in SqsQueues(d, c)
                          /\ Capital[h] \in SchedulerContext(d, c).sqs_queue_logical_names
        OBVIOUS
      <4>1. h \in SqsQueues(d, c)
        BY <2>3, <3>1 DEF SqsQueues
      <4>2. Capital[h] \in SchedulerContext(d, c).sqs_queue_logical_names
        BY DEF SchedulerContext
      <4> QED
        BY <4>1, <4>2
    <3>4. e.scheduler # "sqs" => h \in SchedulerContext(d, c).invoked_functions
      BY <3>1 DEF SchedulerContext
    <3> QED
      BY <3>2, <3>3, <3>4
  <2>4. ASSUME NEW ref \in api_origins(d), ref[2] \in LambdaFunctions(d, ref[1])
        PROVE  ref[2] \in export_api_domain(d, ref[1])
    <3>0. PICK x \in Distributions(d) :
            \E r \in Range(Distribution(d, x).routes) : r.type = "lambda" /\ ref = r.handler
      BY DEF api_origins, LambdaRoutes
    <3>1. PICK r \in Range(Distribution(d, x).routes) : r.type = "lambda" /\ ref = r.handler
      BY <3>0
    <3>2. /\ resolve_handler(d, ref)
          /\ Handlers(d, ref[1])[ref[2]].apigateway
      BY <2>1, <3>1 DEF check_cloudfront, check_lambda_handlers
    <3>3. ref = <<ref[1], ref[2]>>
      <4>1. PICK i \in DOMAIN Distribution(d, x).routes : r = Distribution(d, x).routes[i]
        BY DEF Range
      <4>2. ref # NotGiven
        BY <3>1, DerivedIsAccepted DEF DistributionAccepted, RouteAccepted, check_lambda_route
      <4>3. Typed(Distribution(d, x).routes)
        BY DerivedIsAccepted
      <4>4. ref \in STRING \X STRING
        BY <3>1, <4>1, <4>2, <4>3 DEF Typed
      <4> QED
        BY <4>4
    <3> QED
      BY <2>4, <3>2, <3>3 DEF export_api_domain
  <2> QED
    BY <2>3, <2>4
<1> QED
  BY <1>1, SettingsInvariance, PTL

\* The store that a container shares is the project's: the settings check sees
\* to it that all say the same store and the same key format.
LEMMA OneSharedStore ==
  ASSUME NEW d, NEW st, NEW c \in Containers(d), check_container_secrets_consistency(d)
  PROVE  LET project == _project_secrets_context(d, st)
             shared == _container_shared_secrets_context(d, st, c)
         IN /\ shared.store = project.store
            /\ shared.pocket_key = project.pocket_key
            /\ shared.stage = project.stage
            /\ DOMAIN shared.managed \subseteq DOMAIN project.managed
            /\ DOMAIN _injected_managed_specs(d) \subseteq DOMAIN shared.managed
            /\ \A k \in DOMAIN shared.managed : Place(shared, k) = Place(project, k)
<1> DEFINE declaring == {e \in Containers(d) : HasSecrets(d, e)}
           base == project_secrets_base(d)
           injected == _injected_managed_specs(d)
           s == IF HasSecrets(d, c) THEN Secrets(d, c) ELSE base
           project == _project_secrets_context(d, st)
           shared == _container_shared_secrets_context(d, st, c)
           owned == UNION {DOMAIN Shared(Secrets(d, e).managed) : e \in Containers(d)}
<1>1. /\ s.store = base.store /\ s.format = base.format
      /\ ~HasSecrets(d, c) => s.managed = NoKeys
  <2>1. CASE HasSecrets(d, c)
    <3>1. PICK e \in declaring : base = [Secrets(d, e) EXCEPT !.managed = NoKeys, !.user = NoKeys]
      BY <2>1 DEF project_secrets_base
    <3>2. base.store = Secrets(d, e).store /\ base.format = Secrets(d, e).format
      BY <3>1 DEF Secrets
    <3> QED
      BY <2>1, <3>2 DEF check_container_secrets_consistency
  <2>2. CASE ~HasSecrets(d, c)
    BY <2>2 DEF project_secrets_base, Secrets
  <2> QED
    BY <2>1, <2>2
<1>2. /\ project.store = base.store
      /\ project.pocket_key = Expand(base.format, st, format_vars)
      /\ project.stage = st
      /\ DOMAIN project.managed = DOMAIN injected \cup owned
  BY DEF _project_secrets_context, View, Over, project_secrets_base, Secrets
<1>3. /\ shared.store = s.store
      /\ shared.pocket_key = Expand(s.format, st, format_vars)
      /\ shared.stage = st
      /\ DOMAIN shared.managed = DOMAIN injected \cup DOMAIN Shared(s.managed)
  BY DEF _container_shared_secrets_context, View, Over, project_secrets_base, Secrets
<1>4. DOMAIN Shared(s.managed) \subseteq owned
  BY <1>1 DEF Shared, Only, NoKeys
<1> HIDE DEF s, base, project, shared, owned, injected
<1>5. \A k \in DOMAIN shared.managed : Place(shared, k) = Place(project, k)
  BY <1>1, <1>2, <1>3 DEF Place
<1> QED
  BY <1>1, <1>2, <1>3, <1>4, <1>5 DEF project, shared, injected

\* What a container reads is a secret of the user's, or in the store that it
\* shares, if that has it, and otherwise in its own.
LEMMA ReadFrom ==
  ASSUME NEW d, NEW st, NEW c
  PROVE  LET own == _container_secrets_context(d, st, c)
             shared == _container_shared_secrets_context(d, st, c)
             read == get_secrets(d, st, c).values
         IN /\ DOMAIN read = DOMAIN own.managed \cup DOMAIN shared.managed \cup DOMAIN shared.user
            /\ \A k \in DOMAIN read :
                 /\ k \in DOMAIN shared.user => \A v, l : read[k] # Place(v, l)
                 /\ k \notin DOMAIN shared.user =>
                      read[k] = IF k \in DOMAIN shared.managed THEN Place(shared, k) ELSE Place(own, k)
            /\ DOMAIN own.managed = {k \in DOMAIN Secrets(d, c).managed :
                                        ~Secrets(d, c).managed[k].shared}
            /\ DOMAIN shared.user \subseteq DOMAIN Secrets(d, c).user
<1> DEFINE own == _container_secrets_context(d, st, c)
           shared == _container_shared_secrets_context(d, st, c)
           read == get_secrets(d, st, c).values
           s == IF HasSecrets(d, c) THEN Secrets(d, c) ELSE project_secrets_base(d)
<1>1. DOMAIN own.managed = {k \in DOMAIN Secrets(d, c).managed :
                                        ~Secrets(d, c).managed[k].shared}
  BY DEF _container_secrets_context, View, Secrets, Unshared, Only
<1>2. read = Over(shared.user, Over([k \in DOMAIN shared.managed |-> Place(shared, k)],
                                   [k \in DOMAIN own.managed |-> Place(own, k)]))
  BY DEF get_secrets
<1>3. /\ DOMAIN shared.user = DOMAIN s.user
      /\ \A k \in DOMAIN shared.user : \E store, text : shared.user[k] = <<store, text>>
  <2> DEFINE key == Expand(s.format, st, format_vars)
             store(spec) == IF spec.store # NotGiven THEN spec.store ELSE s.store
  <2>1. shared.user = [k \in DOMAIN s.user |->
          IF s.user[k].name # NotGiven
          THEN <<store(s.user[k]), Expand(s.user[k].name, st, format_vars)>>
          ELSE user_secret_path(key, s.user[k].type, store(s.user[k]))]
    BY DEF _container_shared_secrets_context, View, project_secrets_base, Secrets
  <2>2. ASSUME NEW k \in DOMAIN s.user PROVE \E place, text : shared.user[k] = <<place, text>>
    <3>1. CASE s.user[k].name # NotGiven
      BY <2>1, <3>1
    <3>2. CASE s.user[k].name = NotGiven
      <4>1. shared.user[k] = user_secret_path(key, s.user[k].type, store(s.user[k]))
        BY <2>1, <3>2
      <4> HIDE DEF key, store
      <4> QED
        BY <4>1 DEF user_secret_path
    <3> QED
      BY <3>1, <3>2
  <2> QED
    BY <2>1, <2>2
<1>4. DOMAIN s.user \subseteq DOMAIN Secrets(d, c).user
  <2>1. ~HasSecrets(d, c) => s.user = NoKeys
    BY DEF project_secrets_base, Secrets
  <2>2. HasSecrets(d, c) => s.user = Secrets(d, c).user
    OBVIOUS
  <2>3. DOMAIN NoKeys = {}
    BY DEF NoKeys
  <2> HIDE DEF s
  <2> QED
    BY <2>1, <2>2, <2>3
<1> HIDE DEF own, shared, read, s
<1>5. \A store, text, v, l : <<store, text>> # Place(v, l)
  <2> SUFFICES ASSUME NEW store, NEW text, NEW v, NEW l PROVE <<store, text>> # Place(v, l)
    OBVIOUS
  <2>1. Len(<<store, text>>) = 2 /\ Len(Place(v, l)) \in {3, 4}
    BY DEF Place
  <2> QED
    BY <2>1
<1>6. /\ DOMAIN read = DOMAIN own.managed \cup DOMAIN shared.managed \cup DOMAIN shared.user
      /\ \A k \in DOMAIN read :
           /\ k \in DOMAIN shared.user => read[k] = shared.user[k]
           /\ k \notin DOMAIN shared.user =>
                read[k] = IF k \in DOMAIN shared.managed THEN Place(shared, k) ELSE Place(own, k)
  <2> DEFINE places == Over([k \in DOMAIN shared.managed |-> Place(shared, k)],
                            [k \in DOMAIN own.managed |-> Place(own, k)])
  <2>1. /\ DOMAIN places = DOMAIN own.managed \cup DOMAIN shared.managed
        /\ \A k \in DOMAIN places :
             places[k] = IF k \in DOMAIN shared.managed THEN Place(shared, k) ELSE Place(own, k)
    BY DEF Over
  <2>2. read = Over(shared.user, places)
    BY <1>2
  <2> HIDE DEF places
  <2> QED
    BY <2>1, <2>2 DEF Over
<1>7. ASSUME NEW k \in DOMAIN shared.user PROVE \A v, l : read[k] # Place(v, l)
  <2>1. PICK store, text : shared.user[k] = <<store, text>>
    BY <1>3
  <2>2. read[k] = <<store, text>>
    BY <1>6, <2>1
  <2> QED
    BY <1>5, <2>2
<1> QED
  BY <1>1, <1>3, <1>4, <1>6, <1>7 DEF own, shared, read

\* A container with a secret has a table of them.
LEMMA WithSecrets ==
  ASSUME NEW d, DataOK(d), NEW c, NEW k \in DOMAIN Secrets(d, c).managed
  PROVE  HasSecrets(d, c)
<1> DEFINE path == <<"container", c, "secrets">>
           table == <<"container", c, "secrets", "managed">>
<1>1. k \in Keys(d, table)
  BY DEF Secrets, Table
<1>2. PICK p \in DOMAIN d : IsPrefix(table, p)
  BY <1>1 DEF Keys, IsStrictPrefix
<1>3. PICK X : p \in Seq(X)
  BY DEF DataOK
<1> DEFINE Y == X \cup {"container", c, "secrets", "managed"}
<1>4. p \in Seq(Y)
  BY <1>3, SeqMonotonic
<1>5. path \in Seq(Y) /\ table \in Seq(Y)
  OBVIOUS
<1> HIDE DEF Y
<1>6. Len(p) \in Nat /\ Len(table) <= Len(p) /\ \A i \in 1..Len(table) : table[i] = p[i]
  <2> HIDE DEF table
  <2> QED
    BY <1>2, <1>4, <1>5, PrefixAgrees, LenProperties
<1>7. Len(path) <= Len(p) /\ \A i \in 1..Len(path) : path[i] = p[i]
  BY <1>6
<1>8. IsPrefix(path, p)
  BY <1>4, <1>5, <1>7, PrefixAgrees
<1> QED
  BY <1>8 DEF HasSecrets, Has

\* What a runtime opens at its start (get_secrets) IAM lets it open, and what it
\* reads, but for secrets of the user's, some view of the deploy has: one value,
\* generated where it is read.
THEOREM ReadsAreServed == SettingsSpec => []ReadsServed
PROOF
<1>1. SettingsInv => ReadsServed
  <2> SUFFICES ASSUME SettingsInv, NEW st \in Derived, NEW c \in Containers(data[st])
               PROVE  LET read == get_secrets(data[st], st, c)
                          user == _container_shared_secrets_context(data[st], st, c).user
                      IN /\ read.opened \subseteq
                              UNION {allowed_resources(v) : v \in secrets_views(data[st], st, c)}
                         /\ \A k \in DOMAIN read.values \ DOMAIN user :
                              \E v \in all_secrets_views(data[st], st) :
                                k \in DOMAIN v.managed /\ Place(v, k) = read.values[k]
    BY DEF ReadsServed
  <2> DEFINE d == data[st]
             own == _container_secrets_context(d, st, c)
             shared == _container_shared_secrets_context(d, st, c)
             project == _project_secrets_context(d, st)
             read == get_secrets(d, st, c)
  <2>1. check_container_secrets_consistency(d) /\ DataOK(d)
    BY DerivedIsAccepted DEF Accepted
  <2>2. read.opened \subseteq UNION {allowed_resources(v) : v \in secrets_views(d, st, c)}
    <3>1. read.opened = allowed_resources(own) \cup allowed_resources(shared)
      BY DEF get_secrets, allowed_resources
    <3>2. secrets_views(d, st, c) = {own, shared}
      BY DEF secrets_views
    <3> HIDE DEF own, shared, read, d
    <3> QED
      BY <3>1, <3>2
  <2>3. ASSUME NEW k \in DOMAIN read.values \ DOMAIN shared.user
        PROVE  \E v \in all_secrets_views(d, st) :
                 k \in DOMAIN v.managed /\ Place(v, k) = read.values[k]
    <3>1. project \in all_secrets_views(d, st)
      BY DEF all_secrets_views
    <3>2. CASE k \in DOMAIN shared.managed
      <4>1. read.values[k] = Place(shared, k)
        BY <3>2, ReadFrom
      <4>2. k \in DOMAIN project.managed /\ Place(shared, k) = Place(project, k)
        BY <2>1, <3>2, OneSharedStore
      <4> HIDE DEF own, shared, project, read, d
      <4> QED
        BY <3>1, <4>1, <4>2
    <3>3. CASE k \notin DOMAIN shared.managed
      <4>1. k \in DOMAIN own.managed /\ read.values[k] = Place(own, k)
        BY <3>3, ReadFrom
      <4>2. HasSecrets(d, c)
        BY <2>1, <4>1, ReadFrom, WithSecrets
      <4>3. own \in all_secrets_views(d, st)
        BY <4>2 DEF all_secrets_views
      <4> HIDE DEF own, shared, project, read, d
      <4> QED
        BY <4>1, <4>3
    <3> QED
      BY <3>2, <3>3
  <2> QED
    BY <2>2, <2>3
<1> QED
  BY <1>1, SettingsInvariance, PTL

\* The value that CloudFront checks requests against (managed_secret_view) is the
\* one that every container with a managed secret of that name reads, shared or not
\* (_check_cloudfront_secret_ref_uniqueness); a header of the WAF is no secret of the
\* user's (_check_cloudfront_waf_allow_rules).
THEOREM OneValueForAll == SettingsSpec => []OneValue
PROOF
<1>1. SettingsInv => OneValue
  <2> SUFFICES ASSUME SettingsInv, NEW st \in Derived, NEW x \in Distributions(data[st]),
                      NEW k \in CloudFrontSecrets(data[st], x), NEW c \in Containers(data[st]),
                      k \in DOMAIN get_secrets(data[st], st, c).values,
                      k \notin DOMAIN Secrets(data[st], c).user \ Headers(data[st], x)
               PROVE  get_secrets(data[st], st, c).values[k]
                        = Place(managed_secret_view(data[st], st, k), k)
    BY DEF OneValue
  <2> DEFINE d == data[st]
             own == _container_secrets_context(d, st, c)
             shared == _container_shared_secrets_context(d, st, c)
             project == _project_secrets_context(d, st)
             read == get_secrets(d, st, c).values
             cf == Distribution(d, x)
             owners == managed_secret_owners(d, k)
             unshared == {e \in owners : ~Secrets(d, e).managed[k].shared}
  <2>1. /\ check_container_secrets_consistency(d)
        /\ check_cloudfront_secret_ref_uniqueness(d, x)
        /\ check_cloudfront_waf_allow_rules(d, x)
        /\ DataOK(d)
    BY DerivedIsAccepted DEF Accepted, check_cloudfront
  <2>0. k \notin DOMAIN Secrets(d, c).user /\ k \notin DOMAIN shared.user
    <3>1. k \in Headers(d, x) => k \notin DOMAIN Secrets(d, c).user
      BY <2>1 DEF check_cloudfront_waf_allow_rules
    <3> QED
      BY <3>1, ReadFrom
  <2>2. \/ k \in DOMAIN _injected_managed_specs(d)
        \/ k \in {cf.token_secret, cf.basic_auth, cf.signing_key}
    <3> DEFINE named == {q \in {cf.token_secret, cf.basic_auth, cf.signing_key} \ {NotGiven} :
                           managed_secret_owners(d, q) # {}}
    <3>1. \/ k \in named \/ k \in Headers(d, x)
          \/ cf.enable_origin_verify /\ k = ORIGIN_VERIFY_SECRET_KEY
      BY DEF CloudFrontSecrets
    <3>2. Headers(d, x) \subseteq DOMAIN _injected_managed_specs(d)
      BY DEF _injected_managed_specs
    <3>3. cf.enable_origin_verify => ORIGIN_VERIFY_SECRET_KEY \in DOMAIN _injected_managed_specs(d)
      <4> SUFFICES ASSUME cf.enable_origin_verify
                   PROVE  ORIGIN_VERIFY_SECRET_KEY \in DOMAIN _injected_managed_specs(d)
        OBVIOUS
      <4>1. \E y \in Distributions(d) : Distribution(d, y).enable_origin_verify
        OBVIOUS
      <4> QED
        BY <4>1 DEF _injected_managed_specs
    <3> QED
      BY <3>1, <3>2, <3>3
  <2>3. CASE k \in DOMAIN _injected_managed_specs(d)
    <3>1. k \in DOMAIN shared.managed
      BY <2>1, <2>3, OneSharedStore
    <3> QED
      BY <2>0, <2>1, <3>1, OneSharedStore, ReadFrom DEF managed_secret_view
  <2>4. CASE /\ k \notin DOMAIN _injected_managed_specs(d)
             /\ k \in {cf.token_secret, cf.basic_auth, cf.signing_key}
    <3>1. ~Ambiguous(d, k)
      BY <2>1, <2>4 DEF check_cloudfront_secret_ref_uniqueness
    <3>2. IsFiniteSet(unshared) /\ Cardinality(unshared) \in Nat
      <4>1. IsFiniteSet(Containers(d)) /\ unshared \in SUBSET Containers(d)
        BY <2>1, FewContainers DEF managed_secret_owners
      <4> HIDE DEF d, unshared
      <4> QED
        BY <4>1, FS_Subset, FS_CardinalityType
    <3>3. CASE k \in DOMAIN project.managed
      <4>1. owners \ unshared # {}
        <5>1. PICK e \in Containers(d) : k \in DOMAIN Shared(Secrets(d, e).managed)
          BY <2>4, <3>3
             DEF _project_secrets_context, View, Over, project_secrets_base, Secrets
        <5> QED
          BY <5>1 DEF Shared, Only, managed_secret_owners
      <4>2. unshared = {}
        <5>1. Cardinality(unshared) + 1 <= 1
          BY <3>1, <3>2, <4>1 DEF Ambiguous
        <5> HIDE DEF unshared
        <5> QED
          BY <3>2, <5>1, FS_EmptySet
      <4>3. k \in DOMAIN shared.managed
        BY <2>0, <4>2, ReadFrom DEF managed_secret_owners
      <4> QED
        BY <2>0, <2>1, <3>3, <4>3, OneSharedStore, ReadFrom DEF managed_secret_view
    <3>4. CASE k \notin DOMAIN project.managed
      <4>1. k \notin DOMAIN shared.managed
        BY <2>1, <3>4, OneSharedStore
      <4>2. c \in unshared /\ read[k] = Place(own, k)
        BY <2>0, <4>1, ReadFrom DEF managed_secret_owners
      <4>3. unshared = {c}
        <5>1. Cardinality(unshared) <= 1
          BY <3>1, <3>2 DEF Ambiguous
        <5> HIDE DEF unshared
        <5> QED
          BY <3>2, <4>2, <5>1, FS_EmptySet, FS_Singleton
      <4>4. managed_secret_view(d, st, k) = own
        BY <3>4, <4>3 DEF managed_secret_view
      <4> QED
        BY <4>2, <4>4
    <3> QED
      BY <3>3, <3>4
  <2> QED
    BY <2>2, <2>3, <2>4
<1> QED
  BY <1>1, SettingsInvariance, PTL

\* Of natural numbers one is the least.
LEMMA LeastOf ==
  ASSUME NEW S \in SUBSET Nat, S # {}
  PROVE  \E i \in S : \A j \in S : i <= j
<1> DEFINE before == {ss \in Nat \X Nat : ss[1] < ss[2]}
<1>1. PICK i \in S : \A j \in S : <<j, i>> \notin before
  <2>1. IsWellFoundedOn(before, Nat)
    BY NatLessThanWellFounded DEF OpToRel
  <2> HIDE DEF before
  <2> QED
    BY <2>1, WFMin
<1>2. ASSUME NEW j \in S PROVE i <= j
  <2>1. <<j, i>> \in Nat \X Nat /\ <<j, i>>[1] = j /\ <<j, i>>[2] = i
    OBVIOUS
  <2>2. ~(j < i)
    BY <1>1, <2>1
  <2> QED
    BY <2>1, <2>2
<1> QED
  BY <1>2

\* Put together one after another, pieces are a text that begins with each of these.
LEMMA Flattened ==
  ASSUME NEW X, NEW p \in Seq(Seq(X)), p # <<>>
  PROVE  \E g \in [1..Len(p) -> Seq(X)] :
           /\ g[1] = p[1] /\ \A i \in 2..Len(p) : g[i] = g[i - 1] \o p[i]
           /\ FlattenSeq(p) = g[Len(p)]
<1> DEFINE N == Len(p)
           Flat(g, n) == /\ g \in [1..n -> Seq(X)]
                         /\ \A i \in 1..n : g[i] = IF i = 1 THEN p[i] ELSE g[i - 1] \o p[i]
           missing == {n \in 0..N : ~\E g : Flat(g, n)}
<1>1. N \in Nat \ {0} /\ \A i \in 1..N : p[i] \in Seq(X)
  BY EmptySeq, LenProperties, ElementOfSeq
<1> HIDE DEF N
<1>2. missing = {}
  <2> SUFFICES ASSUME missing # {} PROVE FALSE
    OBVIOUS
  <2>1. PICK n \in missing : \A m \in missing : n <= m
    <3>1. missing \in SUBSET Nat
      BY <1>1
    <3> HIDE DEF missing
    <3> QED
      BY <3>1, LeastOf
  <2>2. CASE n = 0
    <3>1. Flat([i \in 1..0 |-> p[i]], 0)
      OBVIOUS
    <3> QED
      BY <2>2, <3>1
  <2>3. CASE n # 0
    <3>1. n - 1 \in 0..N /\ n \in 1..N /\ n - 1 \notin missing
      <4>1. n \in 0..N
        OBVIOUS
      <4> HIDE DEF missing
      <4>2. n - 1 \in 0..N /\ n \in 1..N /\ ~(n <= n - 1)
        BY <1>1, <2>3, <4>1
      <4> QED
        BY <2>1, <4>2
    <3>2. PICK g : Flat(g, n - 1)
      BY <3>1
    <3> DEFINE h == [i \in 1..n |-> IF i \in 1..(n - 1) THEN g[i]
                                    ELSE IF i = 1 THEN p[i] ELSE g[i - 1] \o p[i]]
    <3>3. h \in [1..n -> Seq(X)]
      <4> SUFFICES ASSUME NEW i \in 1..n PROVE h[i] \in Seq(X)
        OBVIOUS
      <4>1. i \in 1..(n - 1) => h[i] = g[i] /\ g[i] \in Seq(X)
        BY <3>2
      <4>2. i # 1 => g[i - 1] \in Seq(X)
        <5>1. i # 1 => i - 1 \in 1..(n - 1)
          BY <1>1, <3>1
        <5> QED
          BY <3>2, <5>1
      <4>3. p[i] \in Seq(X)
        BY <1>1, <3>1
      <4>4. i \notin 1..(n - 1) => h[i] = IF i = 1 THEN p[i] ELSE g[i - 1] \o p[i]
        OBVIOUS
      <4> HIDE DEF h
      <4> QED
        BY <4>1, <4>2, <4>3, <4>4, ConcatProperties
    <3>4. \A i \in 1..n : h[i] = IF i = 1 THEN p[i] ELSE h[i - 1] \o p[i]
      <4> SUFFICES ASSUME NEW i \in 1..n PROVE h[i] = IF i = 1 THEN p[i] ELSE h[i - 1] \o p[i]
        OBVIOUS
      <4>1. i # 1 => i - 1 \in 1..(n - 1) /\ h[i - 1] = g[i - 1]
        BY <3>1
      <4>2. i \in 1..(n - 1) => h[i] = g[i] /\ g[i] = IF i = 1 THEN p[i] ELSE g[i - 1] \o p[i]
        BY <3>2
      <4>3. i \notin 1..(n - 1) => h[i] = IF i = 1 THEN p[i] ELSE g[i - 1] \o p[i]
        OBVIOUS
      <4> HIDE DEF h
      <4> QED
        BY <4>1, <4>2, <4>3
    <3> HIDE DEF h
    <3>5. Flat(h, n)
      BY <3>3, <3>4
    <3> QED
      BY <2>1, <3>5
  <2> QED
    BY <2>2, <2>3
<1>3. PICK f : Flat(f, N)
  <2>1. N \notin missing
    BY <1>2
  <2>2. N \in 0..N
    BY <1>1
  <2> QED
    BY <2>1, <2>2
<1> DEFINE Rec(g) == g = [i \in 1..N |-> IF i = 1 THEN p[i] ELSE g[i - 1] \o p[i]]
           flatten == CHOOSE g : Rec(g)
<1>4. Rec(f)
  BY <1>3
<1>5. Rec(flatten)
  BY <1>4
<1>6. FlattenSeq(p) = flatten[N]
  BY <1>1 DEF FlattenSeq, N
<1> HIDE DEF flatten
<1>7. /\ DOMAIN flatten = 1..N
      /\ \A i \in 1..N : flatten[i] = IF i = 1 THEN p[i] ELSE flatten[i - 1] \o p[i]
  BY <1>5
<1>8. \A i \in 1..N : flatten[i] = f[i]
  <2> DEFINE other == {i \in 1..N : flatten[i] # f[i]}
  <2> SUFFICES ASSUME other # {} PROVE FALSE
    OBVIOUS
  <2>1. PICK i \in other : \A j \in other : i <= j
    <3>1. other \in SUBSET Nat
      BY <1>1
    <3> HIDE DEF other
    <3> QED
      BY <3>1, LeastOf
  <2>2. i # 1 => i - 1 \in 1..N /\ ~(i <= i - 1)
    BY <1>1
  <2>3. i # 1 => flatten[i - 1] = f[i - 1]
    BY <2>1, <2>2
  <2> QED
    BY <1>3, <1>7, <2>3
<1>9. flatten = f
  <2>1. flatten = [i \in 1..N |-> flatten[i]]
    BY <1>5, <1>7
  <2>2. f = [i \in 1..N |-> f[i]]
    BY <1>3
  <2> QED
    BY <1>8, <2>1, <2>2
<1>10. f[1] = p[1] /\ \A i \in 2..N : f[i] = f[i - 1] \o p[i]
  <2>1. \A i \in 1..N : f[i] = IF i = 1 THEN p[i] ELSE f[i - 1] \o p[i]
    BY <1>3
  <2>2. 1 \in 1..N /\ \A i \in 2..N : i \in 1..N /\ i # 1
    BY <1>1
  <2> QED
    BY <2>1, <2>2
<1> QED
  BY <1>3, <1>6, <1>9, <1>10 DEF N

\* Texts that are the same, with ends of one length, have the same ends and the
\* same beginnings.
LEMMA Cancelled ==
  ASSUME NEW X
  PROVE  \A s, t, u, v \in Seq(X) : s \o t = u \o v /\ Len(t) = Len(v) => s = u /\ t = v
<1> SUFFICES ASSUME NEW s \in Seq(X), NEW t \in Seq(X), NEW u \in Seq(X), NEW v \in Seq(X),
                    s \o t = u \o v, Len(t) = Len(v)
             PROVE  s = u /\ t = v
  OBVIOUS
<1>1. /\ Len(s) \in Nat /\ Len(t) \in Nat /\ Len(u) \in Nat /\ Len(v) \in Nat
      /\ Len(s \o t) = Len(s) + Len(t) /\ Len(u \o v) = Len(u) + Len(v)
  BY LenProperties, ConcatProperties
<1>2. Len(s) = Len(u)
  BY <1>1
<1>3. \A i \in 1..Len(s) : s[i] = u[i]
  BY <1>1, <1>2, ConcatProperties
<1>4. s = u
  BY <1>2, <1>3, SeqEqual
<1>5. t = v
  <2>1. ASSUME NEW i \in 1..Len(t) PROVE t[i] = v[i]
    <3>1. /\ Len(s) + i \in 1..Len(s) + Len(t) /\ ~(Len(s) + i <= Len(s))
          /\ Len(s) + i - Len(s) = i
      BY <1>1
    <3>2. (s \o t)[Len(s) + i] = t[i]
      BY <3>1, ConcatProperties
    <3>3. (u \o v)[Len(u) + i] = v[i]
      BY <1>2, <3>1, ConcatProperties
    <3> QED
      BY <1>2, <3>2, <3>3
  <2> QED
    BY <2>1, SeqEqual
<1> QED
  BY <1>4, <1>5

\* a and b are texts of N pieces, that differ at the slots J alone: there the
\* pieces of a are n, those of b are m.  A and B are what these begin with.
Slotted(X, N, J, a, b, n, m, A, B) ==
  /\ N \in Nat \ {0} /\ J \subseteq 1..N /\ J # {}
  /\ n \in Seq(X) /\ m \in Seq(X)
  /\ a \in [1..N -> Seq(X)] /\ b \in [1..N -> Seq(X)]
  /\ \A i \in 1..N : IF i \in J THEN a[i] = n /\ b[i] = m ELSE a[i] = b[i]
  /\ A \in [1..N -> Seq(X)] /\ B \in [1..N -> Seq(X)]
  /\ A[1] = a[1] /\ \A i \in 2..N : A[i] = A[i - 1] \o a[i]
  /\ B[1] = b[1] /\ \A i \in 2..N : B[i] = B[i - 1] \o b[i]

\* What is in the slots makes one of the texts the longer.
LEMMA LongerSlots ==
  ASSUME NEW X, NEW N, NEW J, NEW a, NEW b, NEW n, NEW m, NEW A, NEW B,
         Slotted(X, N, J, a, b, n, m, A, B), Len(m) < Len(n)
  PROVE  A[N] # B[N]
<1> DEFINE Ahead(i) == /\ Len(B[i]) <= Len(A[i])
                       /\ (\E j \in J : j <= i) => Len(B[i]) < Len(A[i])
           not == {i \in 1..N : ~Ahead(i)}
<1>1. /\ N \in Nat \ {0} /\ Len(n) \in Nat /\ Len(m) \in Nat
      /\ \A i \in 1..N : Len(a[i]) \in Nat /\ Len(b[i]) \in Nat /\ Len(A[i]) \in Nat /\ Len(B[i]) \in Nat
      /\ \A i \in 1..N : IF i \in J THEN Len(b[i]) < Len(a[i]) ELSE Len(b[i]) = Len(a[i])
  BY LenProperties DEF Slotted
<1>2. /\ Len(A[1]) = Len(a[1]) /\ Len(B[1]) = Len(b[1])
      /\ \A i \in 2..N : Len(A[i]) = Len(A[i - 1]) + Len(a[i]) /\ Len(B[i]) = Len(B[i - 1]) + Len(b[i])
  <2>1. Len(A[1]) = Len(a[1]) /\ Len(B[1]) = Len(b[1])
    BY DEF Slotted
  <2>2. ASSUME NEW i \in 2..N
        PROVE  Len(A[i]) = Len(A[i - 1]) + Len(a[i]) /\ Len(B[i]) = Len(B[i - 1]) + Len(b[i])
    <3>1. i - 1 \in 1..N /\ i \in 1..N
      BY <1>1
    <3>2. /\ A[i - 1] \in Seq(X) /\ a[i] \in Seq(X) /\ A[i] = A[i - 1] \o a[i]
          /\ B[i - 1] \in Seq(X) /\ b[i] \in Seq(X) /\ B[i] = B[i - 1] \o b[i]
      BY <3>1 DEF Slotted
    <3> QED
      BY <3>2, ConcatProperties
  <2> QED
    BY <2>1, <2>2
<1>3. not = {}
  <2> SUFFICES ASSUME not # {} PROVE FALSE
    OBVIOUS
  <2>1. PICK i \in not : \A j \in not : i <= j
    <3>1. not \in SUBSET Nat
      BY <1>1
    <3> HIDE DEF not
    <3> QED
      BY <3>1, LeastOf
  <2>2. CASE i = 1
    <3>1. \A j \in J : j <= 1 => 1 \in J
      BY DEF Slotted
    <3>2. Ahead(1)
      BY <1>1, <1>2, <3>1
    <3> QED
      BY <2>2, <3>2
  <2>3. CASE i # 1
    <3>1. i - 1 \in 1..N /\ i \in 2..N /\ ~(i <= i - 1)
      BY <1>1, <2>3
    <3>2. Ahead(i - 1)
      <4> HIDE DEF Ahead
      <4> QED
        BY <2>1, <3>1
    <3>3. \A j \in J : j <= i => j <= i - 1 \/ i \in J
      BY <1>1, <3>1 DEF Slotted
    <3>4. /\ Len(A[i]) = Len(A[i - 1]) + Len(a[i]) /\ Len(B[i]) = Len(B[i - 1]) + Len(b[i])
          /\ Len(A[i - 1]) \in Nat /\ Len(a[i]) \in Nat
          /\ Len(B[i - 1]) \in Nat /\ Len(b[i]) \in Nat
          /\ IF i \in J THEN Len(b[i]) < Len(a[i]) ELSE Len(b[i]) = Len(a[i])
      BY <1>1, <1>2, <3>1
    <3>5. Ahead(i)
      <4> DEFINE p == Len(A[i - 1])
                 q == Len(B[i - 1])
                 r == Len(a[i])
                 t == Len(b[i])
      <4>0. /\ p \in Nat /\ q \in Nat /\ r \in Nat /\ t \in Nat
            /\ Len(A[i]) = p + r /\ Len(B[i]) = q + t
            /\ q <= p /\ ((\E j \in J : j <= i - 1) => q < p)
            /\ i \in J => t < r
            /\ i \notin J => t = r
        BY <3>2, <3>4
      <4> HIDE DEF p, q, r, t
      <4>1. CASE i \in J
        <5>1. q + t < p + r /\ q + t <= p + r
          BY <4>0, <4>1
        <5> QED
          BY <4>0, <5>1
      <4>2. CASE i \notin J
        <5>1. q + t <= p + r /\ (q < p => q + t < p + r)
          BY <4>0, <4>2
        <5>2. (\E j \in J : j <= i) => \E j \in J : j <= i - 1
          BY <3>3, <4>2
        <5> QED
          BY <4>0, <5>1, <5>2
      <4> QED
        BY <4>1, <4>2
    <3> QED
      BY <3>5
  <2> QED
    BY <2>2, <2>3
<1>4. Ahead(N)
  <2>1. N \in 1..N
    BY <1>1
  <2> HIDE DEF Ahead
  <2> QED
    BY <1>3, <2>1
<1>5. \E j \in J : j <= N
  <2>1. PICK j \in J : j \in 1..N
    BY DEF Slotted
  <2> QED
    BY <1>1, <2>1
<1>6. Len(B[N]) < Len(A[N]) /\ Len(A[N]) \in Nat /\ Len(B[N]) \in Nat
  <2>1. N \in 1..N
    BY <1>1
  <2> QED
    BY <1>1, <1>4, <1>5, <2>1
<1> QED
  BY <1>6

\* Texts that are the same have the same in their slots.
LEMMA SameSlots ==
  ASSUME NEW X, NEW N, NEW J, NEW a, NEW b, NEW n, NEW m, NEW A, NEW B,
         Slotted(X, N, J, a, b, n, m, A, B), A[N] = B[N]
  PROVE  n = m
<1>1. Len(n) = Len(m)
  <2>1. ~(Len(m) < Len(n))
    BY LongerSlots
  <2>2. Slotted(X, N, J, b, a, m, n, B, A)
    BY DEF Slotted
  <2>3. ~(Len(n) < Len(m))
    BY <2>2, LongerSlots
  <2>4. Len(n) \in Nat /\ Len(m) \in Nat
    BY LenProperties DEF Slotted
  <2> QED
    BY <2>1, <2>3, <2>4
<1>2. N \in Nat \ {0}
  BY DEF Slotted
<1>3. ASSUME NEW i \in 2..N, A[i] = B[i] PROVE A[i - 1] = B[i - 1] /\ a[i] = b[i]
  <2>1. i - 1 \in 1..N /\ i \in 1..N
    BY <1>2
  <2>2. /\ A[i - 1] \in Seq(X) /\ a[i] \in Seq(X) /\ A[i] = A[i - 1] \o a[i]
        /\ B[i - 1] \in Seq(X) /\ b[i] \in Seq(X) /\ B[i] = B[i - 1] \o b[i]
    BY <2>1 DEF Slotted
  <2>3. Len(a[i]) = Len(b[i])
    BY <1>1, <2>1 DEF Slotted
  <2>4. A[i - 1] \o a[i] = B[i - 1] \o b[i]
    BY <1>3, <2>2
  <2>5. \A s, t \in Seq(X) : \A u, v \in Seq(X) :
          s \o t = u \o v /\ Len(t) = Len(v) => s = u /\ t = v
    BY Cancelled
  <2>6. \A u, v \in Seq(X) :
          A[i - 1] \o a[i] = u \o v /\ Len(a[i]) = Len(v) => A[i - 1] = u /\ a[i] = v
    BY <2>2, <2>5
  <2> QED
    BY <2>2, <2>3, <2>4, <2>6
<1>4. \A k \in 0..(N - 1) : A[N - k] = B[N - k]
  <2> DEFINE not == {k \in 0..(N - 1) : A[N - k] # B[N - k]}
  <2> SUFFICES ASSUME not # {} PROVE FALSE
    OBVIOUS
  <2>1. PICK k \in not : \A j \in not : k <= j
    <3>1. not \in SUBSET Nat
      BY <1>2
    <3> HIDE DEF not
    <3> QED
      BY <3>1, LeastOf
  <2>2. k # 0
    BY <1>2, <2>1
  <2>3. k - 1 \in 0..(N - 1) /\ ~(k <= k - 1) /\ N - (k - 1) \in 2..N /\ N - (k - 1) - 1 = N - k
    BY <1>2, <2>2
  <2>4. A[N - (k - 1)] = B[N - (k - 1)]
    BY <2>1, <2>3
  <2>5. A[N - k] = B[N - k]
    BY <1>3, <2>3, <2>4
  <2> QED
    BY <2>1, <2>5
<1>5. \A i \in 1..N : A[i] = B[i]
  <2> SUFFICES ASSUME NEW i \in 1..N PROVE A[i] = B[i]
    OBVIOUS
  <2>1. N - i \in 0..(N - 1) /\ N - (N - i) = i
    BY <1>2
  <2>2. A[N - (N - i)] = B[N - (N - i)]
    BY <1>4, <2>1
  <2> QED
    BY <2>1, <2>2
<1>6. \A i \in 1..N : a[i] = b[i]
  <2>1. a[1] = b[1]
    BY <1>2, <1>5 DEF Slotted
  <2>2. \A i \in 1..N : i = 1 \/ i \in 2..N
    BY <1>2
  <2> QED
    BY <1>3, <1>5, <2>1, <2>2
<1> QED
  BY <1>6 DEF Slotted

\* The pieces that a text may have, and the formats that keys may be made of.
Pieces == STRING \cup {"stage", "-", "project", "namespace", "user", "/"}

\* Formats, and what is put in their slots, are texts.
LEMMA Texts ==
  /\ \A f \in KeyFormats : f \in Seq(Pieces)
  /\ \A w \in Stages \cup ContainerNames \cup {Project, Namespace} : Spelling[w] \in Seq(Pieces)
<1>1. STRING \subseteq Pieces
  BY DEF Pieces
<1>2. \A s \in Seq(STRING) : s \in Seq(Pieces)
  BY <1>1, SeqMonotonic
<1>3. \A f \in Said("pocket_key_format") : f \in Seq(STRING)
  BY TomlsAssumption DEF Said
<1>4. pocket_key_format \in Seq(Pieces)
  BY DEF pocket_key_format, Pieces
<1>5. \A w \in Stages \cup ContainerNames \cup {Project, Namespace} : Spelling[w] \in Seq(STRING)
  BY SpellingAssumption
<1> QED
  BY <1>2, <1>3, <1>4, <1>5 DEF KeyFormats

\* A format with a slot for it makes of two namespaces two texts.
LEMMA SameExpansion ==
  ASSUME NEW f \in KeyFormats, "namespace" \in Range(f), NEW st \in Stages,
         NEW n \in Seq(Pieces), NEW m \in Seq(Pieces),
         Expand(f, st, n) = Expand(f, st, m)
  PROVE  n = m
<1> DEFINE N == Len(f)
           J == {i \in 1..N : f[i] = "namespace"}
           of(namespace) == [i \in DOMAIN f |->
             CASE f[i] = "stage" -> Spelling[st]
               [] f[i] = "project" -> Spelling[Project]
               [] f[i] = "namespace" -> namespace
               [] OTHER -> <<f[i]>>]
           a == of(n)
           b == of(m)
<1>1. /\ f \in Seq(Pieces) /\ N \in Nat /\ DOMAIN f = 1..N
      /\ \A i \in 1..N : f[i] \in Pieces
  BY Texts, LenProperties, ElementOfSeq
<1>2. J \subseteq 1..N /\ J # {} /\ N \in Nat \ {0}
  BY <1>1 DEF Range
<1>3. ASSUME NEW namespace \in Seq(Pieces)
      PROVE  of(namespace) \in [1..N -> Seq(Pieces)]
  <2>1. ASSUME NEW i \in 1..N PROVE of(namespace)[i] \in Seq(Pieces)
    <3>1. /\ Spelling[st] \in Seq(Pieces) /\ Spelling[Project] \in Seq(Pieces)
          /\ <<f[i]>> \in Seq(Pieces)
      BY <1>1, Texts
    <3> QED
      BY <1>1, <3>1
  <2> QED
    BY <1>1, <2>1
<1>4. \A i \in 1..N : IF i \in J THEN a[i] = n /\ b[i] = m ELSE a[i] = b[i]
  BY <1>1
<1>5. a \in [1..N -> Seq(Pieces)] /\ b \in [1..N -> Seq(Pieces)]
  BY <1>3
<1>6. Expand(f, st, n) = FlattenSeq(a) /\ Expand(f, st, m) = FlattenSeq(b)
  BY DEF Expand
<1> HIDE DEF N, J, a, b
<1>7. /\ a \in Seq(Seq(Pieces)) /\ Len(a) = N /\ a # <<>>
      /\ b \in Seq(Seq(Pieces)) /\ Len(b) = N /\ b # <<>>
  BY <1>2, <1>5
<1>8. PICK A \in [1..N -> Seq(Pieces)] :
        /\ A[1] = a[1] /\ \A i \in 2..N : A[i] = A[i - 1] \o a[i]
        /\ FlattenSeq(a) = A[N]
  <2>1. \E g \in [1..Len(a) -> Seq(Pieces)] :
          /\ g[1] = a[1] /\ \A i \in 2..Len(a) : g[i] = g[i - 1] \o a[i]
          /\ FlattenSeq(a) = g[Len(a)]
    BY <1>7, Flattened
  <2> QED
    BY <1>7, <2>1
<1>9. PICK B \in [1..N -> Seq(Pieces)] :
        /\ B[1] = b[1] /\ \A i \in 2..N : B[i] = B[i - 1] \o b[i]
        /\ FlattenSeq(b) = B[N]
  <2>1. \E g \in [1..Len(b) -> Seq(Pieces)] :
          /\ g[1] = b[1] /\ \A i \in 2..Len(b) : g[i] = g[i - 1] \o b[i]
          /\ FlattenSeq(b) = g[Len(b)]
    BY <1>7, Flattened
  <2> QED
    BY <1>7, <2>1
<1>10. Slotted(Pieces, N, J, a, b, n, m, A, B)
  BY <1>2, <1>4, <1>5, <1>8, <1>9 DEF Slotted
<1>11. A[N] = B[N]
  BY <1>6, <1>8, <1>9
<1> QED
  BY <1>10, <1>11, SameSlots

\* Containers are named as the pattern lets them, and their namespaces are theirs.
LEMMA NamespacesTellApart ==
  ASSUME NEW d, check_container_names(d)
  PROVE  /\ format_vars \in Seq(Pieces)
         /\ \A c \in Containers(d) :
              container_format_vars(c) \in Seq(Pieces) /\ container_format_vars(c) # format_vars
         /\ \A c, e \in Containers(d) : container_format_vars(c) = container_format_vars(e) => c = e
<1> DEFINE end == <<"-">> \o Spelling[Namespace]
<1>1. /\ <<"-">> \in Seq(Pieces) /\ Len(<<"-">>) = 1
      /\ Spelling[Namespace] \in Seq(Pieces) /\ Len(Spelling[Namespace]) \in Nat
  BY Texts, LenProperties DEF Pieces
<1>2. end \in Seq(Pieces) /\ Len(end) = 1 + Len(Spelling[Namespace])
  BY <1>1, ConcatProperties
<1>3. ASSUME NEW c \in Containers(d)
      PROVE  /\ c \in ContainerNames /\ Spelling[c] \in Seq(Pieces)
             /\ container_format_vars(c) = Spelling[c] \o end
  <2>1. c \in ContainerNames /\ Spelling[c] \in Seq(Pieces)
    BY Texts DEF check_container_names
  <2>2. container_format_vars(c) = (Spelling[c] \o <<"-">>) \o Spelling[Namespace]
    BY DEF container_format_vars
  <2>3. (Spelling[c] \o <<"-">>) \o Spelling[Namespace] = Spelling[c] \o end
    <3> DEFINE name == Spelling[c]
               dash == <<"-">>
               namespace == Spelling[Namespace]
    <3>1. name \in Seq(Pieces) /\ dash \in Seq(Pieces) /\ namespace \in Seq(Pieces)
      BY <1>1, <2>1
    <3> HIDE DEF name, dash, namespace
    <3>2. (name \o dash) \o namespace = name \o (dash \o namespace)
      BY <3>1, ConcatAssociative
    <3> QED
      BY <3>2 DEF name, dash, namespace, end
  <2> QED
    BY <2>1, <2>2, <2>3
<1> HIDE DEF end
<1>4. ASSUME NEW c \in Containers(d)
      PROVE  container_format_vars(c) \in Seq(Pieces) /\ container_format_vars(c) # format_vars
  <2>1. /\ Spelling[c] \o end \in Seq(Pieces)
        /\ Len(Spelling[c] \o end) = Len(Spelling[c]) + Len(end) /\ Len(Spelling[c]) \in Nat
    BY <1>2, <1>3, ConcatProperties, LenProperties
  <2>2. Spelling[c] \o end # Spelling[Namespace]
    BY <1>1, <1>2, <2>1
  <2> QED
    BY <1>3, <2>1, <2>2 DEF format_vars
<1>5. ASSUME NEW c \in Containers(d), NEW e \in Containers(d),
             container_format_vars(c) = container_format_vars(e)
      PROVE  c = e
  <2>1. Spelling[c] = Spelling[e]
    <3>1. \A s, t \in Seq(Pieces) : \A u, v \in Seq(Pieces) :
            s \o t = u \o v /\ Len(t) = Len(v) => s = u /\ t = v
      BY Cancelled
    <3>2. \A u, v \in Seq(Pieces) :
            Spelling[c] \o end = u \o v /\ Len(end) = Len(v) => Spelling[c] = u /\ end = v
      BY <1>2, <1>3, <3>1
    <3> QED
      BY <1>2, <1>3, <1>5, <3>2
  <2> QED
    BY <1>3, <2>1, SpellingAssumption DEF IsInjective
<1>6. format_vars \in Seq(Pieces)
  BY <1>1 DEF format_vars
<1> QED
  BY <1>4, <1>5, <1>6

\* What a view is told apart by: the store of the stage, and the key that its
\* format gives it for the namespace n.
Keyed(v, d, st, n) ==
  LET base == project_secrets_base(d)
  IN v.store = base.store /\ v.stage = st /\ v.pocket_key = Expand(base.format, st, n)

\* All views of a stage have one store and one format, a file's or the default.
LEMMA ViewsAreKeyed ==
  ASSUME NEW d, DataOK(d), check_container_secrets_consistency(d), NEW st
  PROVE  /\ project_secrets_base(d).format \in KeyFormats
         /\ Keyed(_project_secrets_context(d, st), d, st, format_vars)
         /\ \A c \in Containers(d) :
              /\ Keyed(_container_shared_secrets_context(d, st, c), d, st, format_vars)
              /\ HasSecrets(d, c) =>
                   Keyed(_container_secrets_context(d, st, c), d, st, container_format_vars(c))
<1> DEFINE declaring == {e \in Containers(d) : HasSecrets(d, e)}
           base == project_secrets_base(d)
<1>1. base.format \in KeyFormats
  <2>1. PICK e : base = [Secrets(d, e) EXCEPT !.managed = NoKeys, !.user = NoKeys]
    BY DEF project_secrets_base
  <2>2. base.format = Secrets(d, e).format
    BY <2>1 DEF Secrets
  <2> DEFINE at == <<"container", e, "secrets", "pocket_key_format">>
  <2>3. SecretsAt(at, 0, "pocket_key_format")
    BY DEF SecretsAt
  <2>4. Get(d, at, pocket_key_format) \in KeyFormats
    BY <2>3, AsSaid DEF Get, KeyFormats
  <2> QED
    BY <2>2, <2>4 DEF Secrets
<1>2. ASSUME NEW c \in declaring
      PROVE  Secrets(d, c).store = base.store /\ Secrets(d, c).format = base.format
  <2>1. PICK e \in declaring : base = [Secrets(d, e) EXCEPT !.managed = NoKeys, !.user = NoKeys]
    BY DEF project_secrets_base
  <2>2. base.store = Secrets(d, e).store /\ base.format = Secrets(d, e).format
    BY <2>1 DEF Secrets
  <2> QED
    BY <2>2 DEF check_container_secrets_consistency
<1>3. Keyed(_project_secrets_context(d, st), d, st, format_vars)
  BY DEF Keyed, _project_secrets_context, View, project_secrets_base, Secrets
<1>4. ASSUME NEW c \in Containers(d)
      PROVE  Keyed(_container_shared_secrets_context(d, st, c), d, st, format_vars)
  <2> DEFINE s == IF HasSecrets(d, c) THEN Secrets(d, c) ELSE base
  <2>1. s.store = base.store /\ s.format = base.format
    BY <1>2
  <2>2. LET shared == _container_shared_secrets_context(d, st, c)
        IN shared.store = s.store /\ shared.stage = st
           /\ shared.pocket_key = Expand(s.format, st, format_vars)
    BY DEF _container_shared_secrets_context, View, project_secrets_base, Secrets
  <2> HIDE DEF s
  <2> QED
    BY <2>1, <2>2 DEF Keyed
<1>5. ASSUME NEW c \in Containers(d), HasSecrets(d, c)
      PROVE  Keyed(_container_secrets_context(d, st, c), d, st, container_format_vars(c))
  <2>1. Secrets(d, c).store = base.store /\ Secrets(d, c).format = base.format
    BY <1>2, <1>5
  <2>2. LET own == _container_secrets_context(d, st, c)
        IN own.store = Secrets(d, c).store /\ own.stage = st
           /\ own.pocket_key = Expand(Secrets(d, c).format, st, container_format_vars(c))
    BY DEF _container_secrets_context, View, Secrets
  <2> QED
    BY <2>1, <2>2 DEF Keyed
<1> QED
  BY <1>1, <1>3, <1>4, <1>5

\* Views that have a place in common have it for one key, and if it is in Secrets
\* Manager they are of one stage.
LEMMA OnePlace ==
  ASSUME NEW v, NEW w, NEW k, NEW l, Place(v, k) = Place(w, l)
  PROVE  /\ v.pocket_key = w.pocket_key /\ k = l
         /\ v.store = "sm" => v.stage = w.stage
  BY DEF Place

\* Where keys have a slot for it, views of a stage with a place in common are of
\* one namespace.
LEMMA PlacesTellApart ==
  ASSUME ContainersInKeys, NEW d, project_secrets_base(d).format \in KeyFormats,
         NEW st \in Stages, NEW n \in Seq(Pieces), NEW m \in Seq(Pieces),
         NEW v, NEW w, NEW k, NEW l,
         Keyed(v, d, st, n), Keyed(w, d, st, m), Place(v, k) = Place(w, l)
  PROVE  n = m
<1> DEFINE f == project_secrets_base(d).format
<1>1. Expand(f, st, n) = Expand(f, st, m)
  BY OnePlace DEF Keyed
<1>2. f \in KeyFormats /\ "namespace" \in Range(f)
  BY DEF ContainersInKeys
<1> HIDE DEF f
<1> QED
  BY <1>1, <1>2, SameExpansion

\* Where the formats have a slot for the container, no other container takes a
\* value from where a container of the stage keeps its own (container_format_vars),
\* and none of another stage if that is in Secrets Manager.
THEOREM StoresStayApart ==
  ASSUME ContainersInKeys PROVE SettingsSpec => []StoresApart
PROOF
<1>1. SettingsInv => StoresApart
  <2> SUFFICES ASSUME SettingsInv, NEW st \in Derived, NEW su \in Derived,
                      NEW c \in Containers(data[st]), NEW e \in Containers(data[su]),
                      NEW k \in DOMAIN _container_secrets_context(data[st], st, c).managed,
                      NEW l \in DOMAIN get_secrets(data[su], su, e).values,
                      get_secrets(data[su], su, e).values[l]
                        = Place(_container_secrets_context(data[st], st, c), k)
               PROVE  /\ st = su => c = e
                      /\ st # su => _container_secrets_context(data[st], st, c).store # "sm"
    BY DEF StoresApart
  <2> DEFINE d == data[st]
             mine == _container_secrets_context(d, st, c)
             own == _container_secrets_context(data[su], su, e)
             shared == _container_shared_secrets_context(data[su], su, e)
             read == get_secrets(data[su], su, e).values
  <2>1. /\ st \in Stages /\ DataOK(d) /\ check_container_names(d)
        /\ check_container_secrets_consistency(d)
        /\ DataOK(data[su])
    BY DerivedIsAccepted DEF Accepted
  <2>2. \/ l \in DOMAIN shared.managed /\ Place(mine, k) = Place(shared, l)
        \/ l \in DOMAIN own.managed /\ Place(mine, k) = Place(own, l)
    BY ReadFrom
  <2>3. mine.stage = st /\ own.stage = su /\ shared.stage = su
    BY DEF _container_secrets_context, _container_shared_secrets_context, View
  <2>4. HasSecrets(d, c)
    BY <2>1, ReadFrom, WithSecrets
  <2>5. l \in DOMAIN own.managed => HasSecrets(data[su], e)
    BY <2>1, ReadFrom, WithSecrets
  <2>6. st # su => mine.store # "sm"
    <3> HIDE DEF mine, own, shared
    <3> QED
      BY <2>2, <2>3, OnePlace
  <2>7. st = su => c = e
    <3> SUFFICES ASSUME st = su PROVE c = e
      OBVIOUS
    <3>1. /\ project_secrets_base(d).format \in KeyFormats
          /\ Keyed(mine, d, st, container_format_vars(c))
          /\ Keyed(shared, d, st, format_vars)
          /\ l \in DOMAIN own.managed => Keyed(own, d, st, container_format_vars(e))
      BY <2>1, <2>4, <2>5, ViewsAreKeyed
    <3>2. /\ format_vars \in Seq(Pieces)
          /\ container_format_vars(c) \in Seq(Pieces) /\ container_format_vars(c) # format_vars
          /\ container_format_vars(e) \in Seq(Pieces)
          /\ container_format_vars(c) = container_format_vars(e) => c = e
      BY <2>1, NamespacesTellApart
    <3> HIDE DEF d, mine, own, shared
    <3>3. Place(mine, k) # Place(shared, l)
      BY <2>1, <3>1, <3>2, PlacesTellApart
    <3>4. l \in DOMAIN own.managed /\ Place(mine, k) = Place(own, l) => c = e
      BY <2>1, <3>1, <3>2, PlacesTellApart
    <3> QED
      BY <2>2, <3>3, <3>4
  <2> QED
    BY <2>6, <2>7
<1> QED
  BY <1>1, SettingsInvariance, PTL

\* There, too, what a deploy deletes because a view of a store does not have it
\* (_cleanup_orphaned_secrets) is read by no container of the stage, and if the
\* store is Secrets Manager by none of another.
THEOREM CleanupSparesWhatIsRead ==
  ASSUME ContainersInKeys PROVE SettingsSpec => []CleanupSparesLive
PROOF
<1>1. SettingsInv => CleanupSparesLive
  <2> SUFFICES ASSUME SettingsInv, NEW st \in Derived, NEW su \in Derived,
                      NEW v \in all_secrets_views(data[st], st), NEW e \in Containers(data[su]),
                      NEW k \in DOMAIN get_secrets(data[su], su, e).values,
                      get_secrets(data[su], su, e).values[k] = Place(v, k)
               PROVE  /\ st = su => k \in DOMAIN v.managed
                      /\ st # su => v.store # "sm"
    BY DEF CleanupSparesLive
  <2> DEFINE d == data[st]
             own == _container_secrets_context(data[su], su, e)
             shared == _container_shared_secrets_context(data[su], su, e)
             project == _project_secrets_context(d, st)
             read == get_secrets(data[su], su, e).values
  <2>1. /\ st \in Stages /\ DataOK(d) /\ check_container_names(d)
        /\ check_container_secrets_consistency(d) /\ DataOK(data[su])
    BY DerivedIsAccepted DEF Accepted
  <2>2. \/ k \in DOMAIN shared.managed /\ Place(v, k) = Place(shared, k)
        \/ k \in DOMAIN own.managed /\ Place(v, k) = Place(own, k)
    BY ReadFrom
  <2>3. \/ v = project
        \/ \E c \in Containers(d) : HasSecrets(d, c) /\ v = _container_secrets_context(d, st, c)
    BY DEF all_secrets_views
  <2>4. v.stage = st /\ own.stage = su /\ shared.stage = su
    <3>1. project.stage = st /\ own.stage = su /\ shared.stage = su
      BY DEF _project_secrets_context, _container_secrets_context,
             _container_shared_secrets_context, View
    <3>2. \A c : _container_secrets_context(d, st, c).stage = st
      BY DEF _container_secrets_context, View
    <3> HIDE DEF d, own, shared, project
    <3> QED
      BY <2>3, <3>1, <3>2
  <2>5. st # su => v.store # "sm"
    <3> HIDE DEF own, shared
    <3> QED
      BY <2>2, <2>4, OnePlace
  <2>6. st = su => k \in DOMAIN v.managed
    <3> SUFFICES ASSUME st = su PROVE k \in DOMAIN v.managed
      OBVIOUS
    <3>1. k \in DOMAIN own.managed => HasSecrets(d, e)
      BY <2>1, ReadFrom, WithSecrets
    <3>2. /\ project_secrets_base(d).format \in KeyFormats
          /\ Keyed(project, d, st, format_vars) /\ Keyed(shared, d, st, format_vars)
          /\ k \in DOMAIN own.managed => Keyed(own, d, st, container_format_vars(e))
      BY <2>1, <3>1, ViewsAreKeyed
    <3>3. /\ format_vars \in Seq(Pieces)
          /\ \A c \in Containers(d) :
               /\ container_format_vars(c) \in Seq(Pieces)
               /\ container_format_vars(c) # format_vars
               /\ container_format_vars(c) = container_format_vars(e) => c = e
      BY <2>1, NamespacesTellApart
    <3>4. CASE v = project
      <4>1. DOMAIN shared.managed \subseteq DOMAIN project.managed
        BY <2>1, OneSharedStore
      <4>2. container_format_vars(e) \in Seq(Pieces) /\ container_format_vars(e) # format_vars
        BY <3>3
      <4> HIDE DEF d, own, shared, project
      <4>3. k \in DOMAIN own.managed => Place(v, k) # Place(own, k)
        BY <2>1, <3>2, <3>3, <3>4, <4>2, PlacesTellApart
      <4> QED
        BY <2>2, <3>4, <4>1, <4>3
    <3>5. ASSUME NEW c \in Containers(d), HasSecrets(d, c), v = _container_secrets_context(d, st, c)
          PROVE  k \in DOMAIN v.managed
      <4>1. Keyed(v, d, st, container_format_vars(c))
        BY <2>1, <3>5, ViewsAreKeyed
      <4>2. /\ container_format_vars(c) \in Seq(Pieces) /\ container_format_vars(c) # format_vars
            /\ container_format_vars(e) \in Seq(Pieces)
            /\ container_format_vars(c) = container_format_vars(e) => c = e
        BY <3>3
      <4>3. c = e => v = own
        BY <3>5
      <4> HIDE DEF d, own, shared
      <4>4. Place(v, k) # Place(shared, k)
        BY <2>1, <3>2, <3>3, <4>1, <4>2, PlacesTellApart
      <4>5. k \in DOMAIN own.managed /\ Place(v, k) = Place(own, k) => c = e
        BY <2>1, <3>2, <4>1, <4>2, PlacesTellApart
      <4> QED
        BY <2>2, <4>3, <4>4, <4>5
    <3> QED
      BY <2>3, <3>4, <3>5
  <2> QED
    BY <2>5, <2>6
<1> QED
  BY <1>1, SettingsInvariance, PTL

\* A behaviour is that of a route or an asset of the distribution which the request
\* matches; the default one only if no route before it does.
LEMMA BehaviorMatches ==
  ASSUME NEW d, Typed(d.routes), check_routes(d), NEW url
  PROVE  LET extra == extra_s3_routes(d) \cup extra_lambda_routes(d)
             b == Behavior(d, url)
         IN \/ \E i \in extra : Matches(d.routes[i], url) /\ b = d.routes[i]
            \/ /\ ~\E i \in extra : Matches(d.routes[i], url)
               /\ \/ \E f \in d.managed_assets : Matches(Asset(f), url) /\ b = Asset(f)
                  \/ \E i \in DOMAIN d.routes : d.routes[i].is_default /\ b = d.routes[i]
<1> DEFINE of(routes) == {i \in routes : Matches(d.routes[i], url)}
           First(routes) == d.routes[CHOOSE i \in routes : \A j \in routes : i <= j]
           s3 == of(extra_s3_routes(d))
           lambda == of(extra_lambda_routes(d))
           assets == {f \in d.managed_assets : Matches(Asset(f), url)}
           b == Behavior(d, url)
<1>1. b = IF s3 # {} THEN First(s3) ELSE IF lambda # {} THEN First(lambda)
          ELSE IF assets # {} THEN Asset(CHOOSE f \in assets : TRUE) ELSE default_route(d)
  BY DEF Behavior
<1>2. ASSUME NEW S \in SUBSET DOMAIN d.routes, S # {} PROVE \E i \in S : First(S) = d.routes[i]
  <2>1. S \in SUBSET Nat
    BY DEF Typed
  <2>2. \E i \in S : \A j \in S : i <= j
    BY <1>2, <2>1, LeastOf
  <2> QED
    BY <2>2
<1>3. /\ s3 \in SUBSET DOMAIN d.routes /\ lambda \in SUBSET DOMAIN d.routes
      /\ \A i \in s3 \cup lambda : Matches(d.routes[i], url)
      /\ s3 \subseteq extra_s3_routes(d) /\ lambda \subseteq extra_lambda_routes(d)
  BY DEF extra_s3_routes, extra_lambda_routes
<1>4. CASE s3 # {}
  <2>1. PICK i \in s3 : b = d.routes[i]
    BY <1>1, <1>2, <1>3, <1>4
  <2> QED
    BY <1>3, <2>1
<1>5. CASE s3 = {} /\ lambda # {}
  <2>1. PICK i \in lambda : b = d.routes[i]
    BY <1>1, <1>2, <1>3, <1>5
  <2> QED
    BY <1>3, <2>1
<1>6. CASE s3 = {} /\ lambda = {}
  <2>1. ~\E i \in extra_s3_routes(d) \cup extra_lambda_routes(d) : Matches(d.routes[i], url)
    BY <1>6
  <2>2. assets # {} => \E f \in d.managed_assets : Matches(Asset(f), url) /\ b = Asset(f)
    <3>1. assets # {} => (CHOOSE f \in assets : TRUE) \in assets
      OBVIOUS
    <3> QED
      BY <1>1, <1>6, <3>1
  <2>3. assets = {} => \E i \in DOMAIN d.routes : d.routes[i].is_default /\ b = d.routes[i]
    <3>1. \E i \in DOMAIN d.routes : d.routes[i].is_default
      BY FS_EmptySet DEF check_routes
    <3>2. \E i \in DOMAIN d.routes : d.routes[i].is_default /\ default_route(d) = d.routes[i]
      BY <3>1 DEF default_route
    <3>3. assets = {} => b = default_route(d)
      BY <1>1, <1>6
    <3> QED
      BY <3>2, <3>3
  <2> QED
    BY <2>1, <2>2, <2>3
<1> QED
  BY <1>4, <1>5, <1>6

\* Of what some sequences begin with in common one is the longest.
LEMMA LongestInCommon ==
  ASSUME NEW X, NEW tops \in SUBSET Seq(X), NEW t \in tops
  PROVE  LET common == {p \in UNION {Prefixes(s) : s \in tops} : \A s \in tops : IsPrefix(p, s)}
             longest == CHOOSE p \in common : \A q \in common : Len(q) <= Len(p)
         IN longest \in Seq(X) /\ IsPrefix(longest, t)
<1> DEFINE common == {p \in UNION {Prefixes(s) : s \in tops} : \A s \in tops : IsPrefix(p, s)}
           longest == CHOOSE p \in common : \A q \in common : Len(q) <= Len(p)
           missing == {k \in Nat : \E p \in common : k = Len(t) - Len(p)}
<1>1. ASSUME NEW p \in common
      PROVE  p \in Seq(X) /\ IsPrefix(p, t) /\ Len(p) \in Nat /\ Len(t) - Len(p) \in missing
  <2>1. PICK s \in tops : p \in Prefixes(s)
    OBVIOUS
  <2>2. PICK l \in 0..Len(s) : p = SubSeq(s, 1, l)
    BY <2>1 DEF Prefixes
  <2>3. Len(s) \in Nat /\ s \in Seq(X)
    BY LenProperties
  <2>4. p \in Seq(X)
    BY <2>2, <2>3, SubSeqProperties
  <2>5. IsPrefix(p, t) /\ Len(p) \in Nat /\ Len(t) \in Nat /\ Len(p) <= Len(t)
    BY <2>4, LenProperties DEF IsPrefix
  <2> QED
    BY <2>4, <2>5
<1>2. <<>> \in common
  <2>1. ASSUME NEW s \in tops PROVE IsPrefix(<<>>, s) /\ <<>> = SubSeq(s, 1, 0) /\ Len(s) \in Nat
    <3>1. Len(s) \in Nat /\ s \in Seq(X) /\ <<>> \in Seq(X) /\ Len(<<>>) = 0
      BY LenProperties
    <3>2. <<>> = SubSeq(s, 1, 0)
      BY <3>1, SubSeqEmpty
    <3>3. IsPrefix(<<>>, s)
      <4>1. SubSeq(<<>>, 1, 0) = <<>>
        OBVIOUS
      <4> QED
        BY <3>1, <3>2, <4>1 DEF IsPrefix
    <3> QED
      BY <3>1, <3>2, <3>3
  <2>2. <<>> \in Prefixes(t)
    BY <2>1 DEF Prefixes
  <2> QED
    BY <2>1, <2>2
<1>3. missing \in SUBSET Nat /\ missing # {}
  BY <1>1, <1>2
<1>4. PICK k \in missing : \A m \in missing : k <= m
  <2> HIDE DEF missing
  <2> QED
    BY <1>3, LeastOf
<1>5. PICK p \in common : k = Len(t) - Len(p)
  BY <1>4
<1>6. ASSUME NEW q \in common PROVE Len(q) <= Len(p)
  <2>1. Len(t) - Len(p) <= Len(t) - Len(q)
    BY <1>1, <1>4, <1>5
  <2> HIDE DEF common
  <2>2. Len(q) \in Nat /\ Len(p) \in Nat /\ Len(t) \in Nat
    BY <1>1, LenProperties
  <2> QED
    BY <2>1, <2>2
<1>7. longest \in common
  BY <1>5, <1>6
<1> QED
  BY <1>1, <1>7

\* CloudFront may read what begins with the place of a route, or of the assets.
LEMMA MayRead ==
  ASSUME NEW d, Typed(d.routes), NEW X, STRING \subseteq X, "pocket_managed" \in X,
         NEW top \in Seq(X), NEW rest \in Seq(X),
         \/ d.managed_assets # {} /\ top = <<"pocket_managed">>
         \/ \E r \in Range(d.routes) :
              /\ RouteAccepted(r) /\ r.type = "s3"
              /\ top = IF r.origin_path = NoPath THEN r.path_pattern.segs ELSE r.origin_path.segs
  PROVE  IsPrefix(bucket_policy_prefix(d), top \o rest)
<1> DEFINE topOf(r) == IF r.origin_path = NoPath THEN r.path_pattern.segs ELSE r.origin_path.segs
           tops == ({topOf(r) : r \in {q \in Range(d.routes) : q.type # "lambda"}} \ {<<>>})
                     \cup (IF d.managed_assets = {} THEN {} ELSE {<<"pocket_managed">>})
           common == {p \in UNION {Prefixes(t) : t \in tops} : \A t \in tops : IsPrefix(p, t)}
           longest == CHOOSE p \in common : \A q \in common : Len(q) <= Len(p)
<1>1. bucket_policy_prefix(d) = IF tops = {} THEN <<>> ELSE longest
  BY DEF bucket_policy_prefix
<1>2. top \in tops
  <2>1. CASE d.managed_assets # {} /\ top = <<"pocket_managed">>
    BY <2>1
  <2>2. ASSUME NEW r \in Range(d.routes), RouteAccepted(r), r.type = "s3", top = topOf(r)
        PROVE  top \in tops
    <3>1. PICK i \in DOMAIN d.routes : r = d.routes[i]
      BY DEF Range
    <3>2. r.origin_path \in Paths /\ ~r.origin_path.star
      BY <3>1 DEF Typed
    <3>3. r.origin_path = NoPath => r.path_pattern.segs # <<>>
      BY <2>2 DEF RouteAccepted, check_origin_path
    <3>4. r.origin_path # NoPath => r.origin_path.segs # <<>>
      <4>1. r.origin_path.bad = FALSE \/ r.origin_path = NoPath
        BY <2>2, <3>2 DEF RouteAccepted, check_origin_path, Paths
      <4>2. r.origin_path = [segs |-> r.origin_path.segs, star |-> r.origin_path.star,
                             bad |-> r.origin_path.bad]
        BY <3>2 DEF Paths
      <4>3. r.origin_path.star = FALSE
        BY <3>2 DEF Paths
      <4> QED
        BY <4>1, <4>2, <4>3 DEF NoPath
    <3>5. top # <<>>
      BY <2>2, <3>3, <3>4
    <3> QED
      BY <2>2, <3>5
  <2> QED
    BY <2>1, <2>2
<1>3. tops \in SUBSET Seq(X)
  <2>1. ASSUME NEW i \in DOMAIN d.routes PROVE topOf(d.routes[i]) \in Seq(X)
    <3>1. d.routes[i].origin_path \in Paths /\ d.routes[i].path_pattern \in Paths
      BY DEF Typed
    <3>2. \A s \in Seq(STRING) : s \in Seq(X)
      BY SeqMonotonic
    <3> QED
      BY <3>1, <3>2 DEF Paths
  <2>2. <<"pocket_managed">> \in Seq(X)
    OBVIOUS
  <2>3. \A r \in Range(d.routes) : topOf(r) \in Seq(X)
    <3> HIDE DEF topOf
    <3> QED
      BY <2>1 DEF Range
  <2> HIDE DEF topOf
  <2> QED
    BY <2>2, <2>3
<1>4. longest \in Seq(X) /\ IsPrefix(longest, top)
  <2> HIDE DEF tops
  <2> QED
    BY <1>2, <1>3, LongestInCommon
<1>5. IsPrefix(top, top \o rest) /\ top \o rest \in Seq(X)
  BY BeginsItself
<1>6. IsPrefix(longest, top \o rest)
  <2> HIDE DEF longest
  <2> QED
    BY <1>4, <1>5, PrefixesChain
<1> QED
  BY <1>1, <1>2, <1>6

\* The function takes the hash away that a link has behind the pattern.
LEMMA HashComesOff ==
  ASSUME NEW X, NEW segs \in Seq(X), NEW f \in Seq(X), f # <<>>,
         Hash \in X, Hash \notin Range(segs)
  PROVE  LET url == segs \o <<Hash>> \o f
             at == SelectInSeq(url, LAMBDA s : s = Hash)
         IN at \in 1..(Len(url) - 1) /\ RemoveAt(url, at) = segs \o f
<1> DEFINE url == segs \o <<Hash>> \o f
           n == Len(segs)
           I == {i \in 1..Len(url) : url[i] = Hash}
           at == SelectInSeq(url, LAMBDA s : s = Hash)
<1>1. /\ n \in Nat /\ Len(f) \in Nat /\ Len(f) > 0 /\ <<Hash>> \in Seq(X) /\ Len(<<Hash>>) = 1
      /\ segs \o <<Hash>> \in Seq(X) /\ Len(segs \o <<Hash>>) = n + 1
      /\ url \in Seq(X) /\ Len(url) = n + 1 + Len(f)
  <2>1. n \in Nat /\ Len(f) \in Nat /\ Len(f) > 0 /\ <<Hash>> \in Seq(X) /\ Len(<<Hash>>) = 1
    BY LenProperties, EmptySeq
  <2>2. segs \o <<Hash>> \in Seq(X) /\ Len(segs \o <<Hash>>) = n + 1
    BY <2>1, ConcatProperties
  <2> QED
    BY <2>1, <2>2, ConcatProperties
<1>2. /\ url[n + 1] = Hash /\ \A i \in 1..n : url[i] = segs[i]
      /\ \A i \in 1..n + 1 : url[i] = (segs \o <<Hash>>)[i]
  <2>1. \A i \in 1..n + 1 : url[i] = (segs \o <<Hash>>)[i]
    BY <1>1, ConcatProperties
  <2>2. (segs \o <<Hash>>)[n + 1] = Hash /\ \A i \in 1..n : (segs \o <<Hash>>)[i] = segs[i]
    BY <1>1, ConcatProperties
  <2> QED
    BY <1>1, <2>1, <2>2
<1>3. n + 1 \in I /\ \A i \in I : n + 1 <= i
  <2>1. \A i \in 1..n : segs[i] # Hash
    BY <1>1 DEF Range
  <2> HIDE DEF url
  <2>2. n + 1 \in 1..Len(url)
    BY <1>1
  <2>3. ASSUME NEW i \in 1..Len(url), url[i] = Hash PROVE n + 1 <= i
    <3>1. i \notin 1..n
      BY <1>2, <2>1, <2>3
    <3> QED
      BY <1>1, <3>1
  <2> QED
    BY <1>2, <2>2, <2>3
<1>4. at = n + 1
  <2>1. at = IF I # {} THEN Min(I) ELSE 0
    BY DEF SelectInSeq
  <2>2. I \subseteq Nat
    OBVIOUS
  <2> HIDE DEF I, at
  <2>3. Min(I) = n + 1
    <3>1. Min(I) \in I /\ \A i \in I : Min(I) <= i
      BY <1>3 DEF Min
    <3>2. Min(I) <= n + 1 /\ n + 1 <= Min(I) /\ Min(I) \in Nat
      BY <1>3, <2>2, <3>1
    <3> QED
      BY <1>1, <3>2
  <2> QED
    BY <1>3, <2>1, <2>3
<1>5. SubSeq(url, 1, n) = segs
  BY <1>1, <1>2
<1>6. SubSeq(url, n + 2, Len(url)) = f
  BY <1>1, SubSeqOfConcat2, SubSeqFull
<1>7. RemoveAt(url, at) = SubSeq(url, 1, at - 1) \o SubSeq(url, at + 1, Len(url))
  BY DEF RemoveAt
<1> HIDE DEF url, at
<1>8. at - 1 = n /\ at + 1 = n + 2 /\ at \in 1..(Len(url) - 1)
  BY <1>1, <1>4
<1>9. RemoveAt(url, at) = segs \o f
  BY <1>5, <1>6, <1>7, <1>8
<1> QED
  BY <1>8, <1>9 DEF url, at

\* It does not matter in which order sequences are put together.
LEMMA Regrouped ==
  ASSUME NEW X, NEW a \in Seq(X), NEW b \in Seq(X), NEW c \in Seq(X)
  PROVE  a \o (b \o c) = (a \o b) \o c
  BY ConcatAssociative

\* A sequence of two is put together from two of one.
LEMMA PairOf == ASSUME NEW a, NEW b PROVE <<a>> \o <<b>> = <<a, b>>
<1>1. <<a, b>> = Append(<<a>>, b)
  OBVIOUS
<1>2. <<a>> \in Seq({a, b}) /\ b \in {a, b}
  OBVIOUS
<1>3. Append(<<a>>, b) = <<a>> \o <<b>>
  BY <1>2, AppendIsConcat
<1> QED
  BY <1>1, <1>3

\* What CloudFront asks the bucket for, for a link of a route, is the object that
\* the upload writes: the prefix of the route and the file, or the page that stands
\* for all pages of an SPA.
LEMMA ObjectOfFile ==
  ASSUME NEW X, NEW r, r.origin_path.segs \in Seq(X), r.path_pattern.segs \in Seq(X),
         Hash \in X, "index.html" \in X, NEW f \in Seq(X), f # <<>>,
         r.versioning = "deploy_hash" => ~r.is_default /\ Hash \notin Range(r.path_pattern.segs)
  PROVE  ObjectOf(r, Link(r, f)) =
           s3_prefix(r) \o (IF r.is_spa /\ Last(f) \in Pages THEN <<"index.html">> ELSE f)
<1> DEFINE segs == r.path_pattern.segs
           origin == r.origin_path.segs
           infix == IF r.versioning = "deploy_hash" THEN <<Hash>> ELSE <<>>
           url == segs \o infix \o f
           page == <<"index.html">>
<1>1. /\ Len(f) \in Nat /\ Len(f) > 0 /\ infix \in Seq(X) /\ page \in Seq(X)
      /\ segs \o infix \in Seq(X) /\ Len(segs \o infix) \in Nat
      /\ url \in Seq(X) /\ Len(url) = Len(segs \o infix) + Len(f)
  <2>1. Len(f) \in Nat /\ Len(f) > 0
    BY LenProperties, EmptySeq
  <2>2. infix \in Seq(X) /\ page \in Seq(X)
    OBVIOUS
  <2>3. segs \o infix \in Seq(X) /\ Len(segs \o infix) \in Nat
    <3> HIDE DEF infix
    <3> QED
      BY <2>2, ConcatProperties, LenProperties
  <2> HIDE DEF segs, infix
  <2> QED
    BY <2>1, <2>2, <2>3, ConcatProperties
<1>2. Last(url) = Last(f)
  <2> DEFINE start == segs \o infix
  <2>1. url = start \o f
    OBVIOUS
  <2> HIDE DEF start, url
  <2>2. Len(url) - Len(start) = Len(f) /\ Len(url) \in Len(start) + 1 .. Len(start) + Len(f)
    BY <1>1 DEF start
  <2>3. \A i \in 1..Len(start) + Len(f) :
          (start \o f)[i] = IF i <= Len(start) THEN start[i] ELSE f[i - Len(start)]
    BY <1>1, ConcatProperties DEF start
  <2>4. (start \o f)[Len(url)] = f[Len(url) - Len(start)]
    <3>1. Len(start) \in Nat /\ Len(f) \in Nat
      BY <1>1 DEF start
    <3>2. Len(url) \in 1..Len(start) + Len(f) /\ ~(Len(url) <= Len(start))
      BY <2>2, <3>1
    <3> QED
      BY <2>3, <3>2
  <2> QED
    BY <2>1, <2>2, <2>4 DEF Last
<1>3. Link(r, f) = url
  BY DEF Link
<1>4. Rewritten(r, url) = segs \o (IF r.is_spa /\ Last(f) \in Pages THEN page ELSE f)
  <2>1. CASE r.is_spa /\ Last(f) \in Pages
    BY <1>2, <2>1 DEF Rewritten, spa_fallback_uri
  <2>2. CASE ~(r.is_spa /\ Last(f) \in Pages) /\ r.versioning = "deploy_hash"
    <3> DEFINE at == SelectInSeq(url, LAMBDA s : s = Hash)
    <3>1. url = segs \o <<Hash>> \o f
      BY <2>2
    <3>2. at \in 1..(Len(url) - 1) /\ RemoveAt(url, at) = segs \o f
      BY <2>2, <3>1, HashComesOff
    <3>3. Rewritten(r, url) = IF at \in 1..(Len(url) - 1) THEN RemoveAt(url, at) ELSE url
      BY <1>2, <2>2 DEF Rewritten
    <3> HIDE DEF at, url
    <3> QED
      BY <2>2, <3>2, <3>3
  <2>3. CASE ~(r.is_spa /\ Last(f) \in Pages) /\ r.versioning # "deploy_hash"
    <3>1. Rewritten(r, url) = url
      BY <1>2, <2>3 DEF Rewritten
    <3>2. url = segs \o <<>> \o f /\ segs \o <<>> = segs
      BY <2>3, ConcatEmptySeq
    <3> QED
      BY <2>3, <3>1, <3>2
  <2> QED
    BY <2>1, <2>2, <2>3
<1>5. ASSUME NEW g \in Seq(X) PROVE origin \o (segs \o g) = (origin \o segs) \o g
  <2>1. origin \in Seq(X) /\ segs \in Seq(X)
    OBVIOUS
  <2> HIDE DEF origin, segs
  <2> QED
    BY <2>1, Regrouped
<1> QED
  BY <1>1, <1>3, <1>4, <1>5 DEF ObjectOf, s3_prefix

\* A link of a route with a pattern never comes to the default route.
LEMMA LinkMatches ==
  ASSUME NEW d, Typed(d.routes), NEW i \in DOMAIN d.routes, RouteAccepted(d.routes[i]),
         d.routes[i].path_pattern.star, NEW f \in Contents
  PROVE  /\ i \in extra_s3_routes(d) \cup extra_lambda_routes(d)
         /\ Matches(d.routes[i], Link(d.routes[i], f))
<1> DEFINE X == STRING \cup {Hash}
           r == d.routes[i]
           segs == r.path_pattern.segs
           infix == IF r.versioning = "deploy_hash" THEN <<Hash>> ELSE <<>>
<1>1. i \in extra_s3_routes(d) \cup extra_lambda_routes(d)
  <2>1. r.path_pattern # NoPath
    BY DEF NoPath
  <2>2. ~r.is_default
    BY <2>1 DEF RouteAccepted, check_is_default
  <2> QED
    BY <2>2 DEF extra_s3_routes, extra_lambda_routes
<1>2. segs \in Seq(X) /\ f \in Seq(X) /\ f # <<>> /\ infix \in Seq(X)
  <2>1. segs \in Seq(STRING) /\ f \in Seq(STRING) /\ f # <<>>
    BY ContentsAssumption DEF Typed, Paths
  <2>2. Hash \in X /\ STRING \subseteq X
    OBVIOUS
  <2> HIDE DEF X
  <2>3. infix \in Seq(X)
    BY <2>2
  <2>4. \A s \in Seq(STRING) : s \in Seq(X)
    BY <2>2, SeqMonotonic
  <2> QED
    BY <2>1, <2>3, <2>4
<1> HIDE DEF X, infix
<1>3. segs \o infix \o f = segs \o (infix \o f) /\ infix \o f \in Seq(X) /\ infix \o f # <<>>
  <2>1. infix \o f \in Seq(X) /\ infix \o f # <<>>
    BY <1>2, ConcatProperties, ConcatSimplifications
  <2>2. segs \o (infix \o f) = (segs \o infix) \o f
    <3>1. segs \in Seq(X)
      BY <1>2
    <3> HIDE DEF segs
    <3> QED
      BY <1>2, <3>1, Regrouped
  <2> QED
    BY <2>1, <2>2
<1>4. IsPrefix(segs, segs \o (infix \o f)) /\ segs # segs \o (infix \o f)
  <2> DEFINE rest == infix \o f
  <2>1. rest \in Seq(X) /\ rest # <<>>
    BY <1>3
  <2> HIDE DEF rest
  <2>2. IsPrefix(segs, segs \o rest) /\ segs # segs \o rest
    BY <1>2, <2>1, BeginsItself, ConcatEqualIffEmpty
  <2> QED
    BY <2>2 DEF rest
<1>5. Link(r, f) = segs \o infix \o f
  BY DEF Link, infix
<1> QED
  BY <1>1, <1>3, <1>4, <1>5 DEF Matches, IsStrictPrefix

\* Where nothing in a pattern is taken for the hash, a link of a route with a pattern
\* comes to no default route, and what a link is served from is the object that the
\* upload of its route writes, but for a default route with deploy_hash, where it
\* never is; the policy of the bucket (bucket_policy_prefix) covers it.
THEOREM LinksAreServed == ASSUME HashAside PROVE SettingsSpec => []FilesServed
PROOF
<1>1. SettingsInv => FilesServed
  <2> SUFFICES ASSUME SettingsInv, NEW st \in Derived, NEW x \in Distributions(data[st])
        PROVE  LET d == Distribution(data[st], x)
               IN /\ \A r \in Range(d.routes) : \A f \in Contents :
                       LET b == Behavior(d, Link(r, f))
                           object == ObjectOf(r, Link(r, f))
                           written == s3_prefix(r) \o (IF r.is_spa /\ Last(f) \in Pages
                                                      THEN <<"index.html">> ELSE f)
                       IN /\ r.path_pattern.star => ~b.is_default
                          /\ r.type = "s3" /\ b = r =>
                               /\ object = written <=> ~(r.is_default /\ r.versioning = "deploy_hash")
                               /\ IsPrefix(bucket_policy_prefix(d), object)
                  /\ \A f \in d.managed_assets :
                       LET b == Behavior(d, <<f>>)
                       IN b.type = "asset" =>
                            /\ ObjectOf(b, <<f>>) = <<"pocket_managed", f>>
                            /\ IsPrefix(bucket_policy_prefix(d), ObjectOf(b, <<f>>))
    BY DEF FilesServed
  <2> DEFINE d == Distribution(data[st], x)
             X == STRING \cup {"pocket_managed", "index.html", Hash}
  <2>1. /\ Typed(d.routes) /\ NoHashIn(d.routes) /\ check_routes(d)
        /\ \A r \in Range(d.routes) : RouteAccepted(r)
    BY DerivedIsAccepted DEF DistributionAccepted
  <2> HIDE DEF d
  <2>2. ASSUME NEW r \in Range(d.routes), NEW f \in Contents, r.path_pattern.star
        PROVE  ~Behavior(d, Link(r, f)).is_default
    <3>1. PICK i \in DOMAIN d.routes : r = d.routes[i]
      BY DEF Range
    <3>2. /\ i \in extra_s3_routes(d) \cup extra_lambda_routes(d)
          /\ Matches(d.routes[i], Link(r, f))
      BY <2>1, <2>2, <3>1, LinkMatches
    <3>3. PICK j \in extra_s3_routes(d) \cup extra_lambda_routes(d) :
            Behavior(d, Link(r, f)) = d.routes[j]
      BY <2>1, <3>2, BehaviorMatches
    <3> QED
      BY <3>3 DEF extra_s3_routes, extra_lambda_routes
  <2>3. ASSUME NEW r \in Range(d.routes), NEW f \in Contents, r.type = "s3",
               ~(r.is_default /\ r.versioning = "deploy_hash")
        PROVE  LET object == ObjectOf(r, Link(r, f))
               IN /\ object = s3_prefix(r) \o (IF r.is_spa /\ Last(f) \in Pages
                                              THEN <<"index.html">> ELSE f)
                  /\ IsPrefix(bucket_policy_prefix(d), object)
    <3> DEFINE file == IF r.is_spa /\ Last(f) \in Pages THEN <<"index.html">> ELSE f
               top == IF r.origin_path = NoPath THEN r.path_pattern.segs ELSE r.origin_path.segs
               rest == IF r.origin_path = NoPath THEN file ELSE r.path_pattern.segs \o file
    <3>1. PICK i \in DOMAIN d.routes : r = d.routes[i]
      BY DEF Range
    <3>2. /\ r.origin_path.segs \in Seq(STRING) /\ r.path_pattern.segs \in Seq(STRING)
          /\ f \in Seq(STRING) /\ f # <<>>
      BY <2>1, <3>1, ContentsAssumption DEF Typed, Paths
    <3>3. /\ r.origin_path.segs \in Seq(X) /\ r.path_pattern.segs \in Seq(X)
          /\ f \in Seq(X) /\ <<"index.html">> \in Seq(X)
      <4>1. <<"index.html">> \in Seq(X)
        OBVIOUS
      <4> QED
        BY <3>2, <4>1, SeqMonotonic
    <3>4. STRING \subseteq X /\ "pocket_managed" \in X /\ "index.html" \in X /\ Hash \in X
      OBVIOUS
    <3> HIDE DEF X
    <3>5. r.versioning = "deploy_hash" => ~r.is_default /\ Hash \notin Range(r.path_pattern.segs)
      BY <2>1, <2>3, <3>1 DEF NoHashIn
    <3>6. ObjectOf(r, Link(r, f)) = s3_prefix(r) \o file
      BY <3>2, <3>3, <3>4, <3>5, ObjectOfFile
    <3>7. file \in Seq(X) /\ top \in Seq(X) /\ rest \in Seq(X)
      BY <3>3, ConcatProperties
    <3>8. s3_prefix(r) \o file = top \o rest
      <4>1. CASE r.origin_path = NoPath
        <5>1. s3_prefix(r) = r.path_pattern.segs
          BY <3>3, <4>1, ConcatEmptySeq DEF s3_prefix, NoPath
        <5> QED
          BY <4>1, <5>1
      <4>2. CASE r.origin_path # NoPath
        <5>1. r.origin_path.segs \o (r.path_pattern.segs \o file)
                = (r.origin_path.segs \o r.path_pattern.segs) \o file
          <6> DEFINE origin == r.origin_path.segs
                     segs == r.path_pattern.segs
          <6>1. origin \in Seq(X) /\ segs \in Seq(X)
            BY <3>3
          <6> HIDE DEF origin, segs, file
          <6>2. origin \o (segs \o file) = (origin \o segs) \o file
            BY <3>7, <6>1, Regrouped
          <6> QED
            BY <6>2 DEF origin, segs
        <5> QED
          BY <4>2, <5>1 DEF s3_prefix
      <4> QED
        BY <4>1, <4>2
    <3>9. IsPrefix(bucket_policy_prefix(d), top \o rest)
      <4>1. RouteAccepted(r)
        BY <2>1
      <4> HIDE DEF rest
      <4> QED
        BY <2>1, <2>3, <3>4, <3>7, <4>1, MayRead
    <3> HIDE DEF file, top, rest
    <3>10. IsPrefix(bucket_policy_prefix(d), ObjectOf(r, Link(r, f)))
      BY <3>6, <3>8, <3>9
    <3> QED
      BY <3>6, <3>10 DEF file
  <2>4. ASSUME NEW f \in d.managed_assets, Behavior(d, <<f>>).type = "asset"
        PROVE  /\ ObjectOf(Behavior(d, <<f>>), <<f>>) = <<"pocket_managed", f>>
               /\ IsPrefix(bucket_policy_prefix(d), ObjectOf(Behavior(d, <<f>>), <<f>>))
    <3>1. \A i \in DOMAIN d.routes : d.routes[i] # Behavior(d, <<f>>)
      BY <2>1, <2>4 DEF Typed
    <3>2. PICK g \in d.managed_assets : Matches(Asset(g), <<f>>) /\ Behavior(d, <<f>>) = Asset(g)
      <4>1. extra_s3_routes(d) \cup extra_lambda_routes(d) \subseteq DOMAIN d.routes
        BY DEF extra_s3_routes, extra_lambda_routes
      <4> QED
        BY <2>1, <3>1, <4>1, BehaviorMatches
    <3>3. Behavior(d, <<f>>) = Asset(f)
      <4>1. <<g>> = <<f>>
        BY <3>2 DEF Matches, Asset
      <4>2. g = f
        BY <4>1
      <4> QED
        BY <3>2, <4>2
    <3>4. Rewritten(Asset(f), <<f>>) = <<f>>
      BY NotGivenAssumption DEF Rewritten, Asset
    <3>5. ObjectOf(Asset(f), <<f>>) = <<"pocket_managed">> \o <<f>>
      BY <3>4 DEF ObjectOf, Asset
    <3>6. <<"pocket_managed">> \o <<f>> = <<"pocket_managed", f>>
      BY PairOf
    <3>7. IsPrefix(bucket_policy_prefix(d), <<"pocket_managed">> \o <<f>>)
      <4> DEFINE Y == X \cup {f}
      <4>1. STRING \subseteq Y /\ "pocket_managed" \in Y /\ f \in Y
        OBVIOUS
      <4> HIDE DEF Y
      <4>2. <<"pocket_managed">> \in Seq(Y) /\ <<f>> \in Seq(Y) /\ d.managed_assets # {}
        BY <4>1
      <4> QED
        BY <2>1, <4>1, <4>2, MayRead
    <3> QED
      BY <3>3, <3>5, <3>6, <3>7
  <2>5. ASSUME NEW r \in Range(d.routes), NEW f \in Contents, r.type = "s3",
               r.is_default, r.versioning = "deploy_hash"
        PROVE  LET object == ObjectOf(r, Link(r, f))
                   written == s3_prefix(r) \o (IF r.is_spa /\ Last(f) \in Pages
                                              THEN <<"index.html">> ELSE f)
               IN object # written /\ IsPrefix(bucket_policy_prefix(d), object)
    <3> DEFINE origin == r.origin_path.segs
               link == <<Hash>> \o f
    <3>1. /\ r.path_pattern = NoPath /\ ~r.is_spa /\ r.origin_path # NoPath /\ RouteAccepted(r)
      <4>1. RouteAccepted(r)
        BY <2>1
      <4> QED
        BY <2>5, <4>1, NotGivenAssumption
           DEF RouteAccepted, check_is_default, check_flags, check_origin_path, NoPath
    <3>2. PICK i \in DOMAIN d.routes : r = d.routes[i]
      BY DEF Range
    <3>3. /\ origin \in Seq(STRING) /\ f \in Seq(STRING) /\ f # <<>>
      BY <2>1, <3>2, ContentsAssumption DEF Typed, Paths
    <3>4. STRING \subseteq X /\ "pocket_managed" \in X /\ Hash \in X
      OBVIOUS
    <3> HIDE DEF X
    <3> HIDE DEF origin
    <3>5. origin \in Seq(X) /\ f \in Seq(X) /\ <<Hash>> \in Seq(X) /\ Len(<<Hash>>) = 1
      <4>1. \A s \in Seq(STRING) : s \in Seq(X)
        BY <3>4, SeqMonotonic
      <4>2. <<Hash>> \in Seq(X) /\ Len(<<Hash>>) = 1
        BY <3>4
      <4> QED
        BY <3>3, <4>1, <4>2
    <3>6. /\ link \in Seq(X) /\ Len(link) = 1 + Len(f) /\ Len(f) \in Nat /\ Len(origin) \in Nat
          /\ Len(link) \in Nat
      BY <3>5, ConcatProperties, LenProperties
    <3>7. Link(r, f) = link
      BY <2>5, <3>1, <3>5, ConcatEmptySeq DEF Link, NoPath
    <3>8. ObjectOf(r, Link(r, f)) = origin \o link
      BY <2>5, <3>1, <3>7 DEF ObjectOf, Rewritten, origin
    <3>9. s3_prefix(r) \o f = origin \o f
      <4>1. r.path_pattern.segs = <<>>
        BY <3>1 DEF NoPath
      <4>2. s3_prefix(r) = origin
        BY <3>5, <4>1, ConcatEmptySeq DEF s3_prefix, origin
      <4> QED
        BY <4>2
    <3> HIDE DEF link
    <3>10. origin \o link # origin \o f
      <4>1. Len(origin \o link) = Len(origin) + Len(link) /\ Len(origin \o f) = Len(origin) + Len(f)
        BY <3>5, <3>6, ConcatProperties
      <4> QED
        BY <3>6, <4>1
    <3>11. IsPrefix(bucket_policy_prefix(d), origin \o link)
      <4>1. origin = IF r.origin_path = NoPath THEN r.path_pattern.segs ELSE r.origin_path.segs
        BY <3>1 DEF origin
      <4> QED
        BY <2>1, <2>5, <3>1, <3>4, <3>5, <3>6, <4>1, MayRead
    <3> QED
      BY <3>1, <3>8, <3>9, <3>10, <3>11
  <2>6. \A r \in Range(d.routes) : \A f \in Contents :
          LET b == Behavior(d, Link(r, f))
              object == ObjectOf(r, Link(r, f))
              written == s3_prefix(r) \o (IF r.is_spa /\ Last(f) \in Pages
                                         THEN <<"index.html">> ELSE f)
          IN /\ r.path_pattern.star => ~b.is_default
             /\ r.type = "s3" /\ b = r =>
                  /\ object = written <=> ~(r.is_default /\ r.versioning = "deploy_hash")
                  /\ IsPrefix(bucket_policy_prefix(d), object)
    BY <2>2, <2>3, <2>5
  <2> QED
    BY <2>4, <2>6 DEF d
<1> QED
  BY <1>1, SettingsInvariance, PTL
=============================================================================
