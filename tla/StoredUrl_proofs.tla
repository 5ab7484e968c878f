--------------------------- MODULE StoredUrl_proofs ---------------------------
(***************************************************************************)
(* What the stored URL owes to the commands, for any number of stages,     *)
(* operators, commands and cuts.  All of it follows from what each step of *)
(* a command may rely on: which commands get there (StepInv), what a       *)
(* resource is like (ResInv), what it means to be alone (AloneInv), and    *)
(* what a command that is alone therefore still knows (KnowInv).           *)
(***************************************************************************)
EXTENDS StoredUrl, TLAPS, FiniteSetTheorems

Resource == [id : Nat, endpoint : Nat, role : Nat, database : BOOLEAN, active : BOOLEAN]
Url == [endpoint : Nat, password : Nat]
AllCommands == {"none", "create", "store", "deploy", "reset", "branch_out", "live", "delete"}
Steps == {"idle", "status", "ensure", "branch", "role", "database", "post", "wait", "connect",
          "sql", "drop", "url", "put", "print", "plan", "endpoint", "delete", "project"}
Run == [cmd : AllCommands, stage : Stages \cup {NoStage}, at : Steps, memo : Nat,
        url : Url, absent : SUBSET Stages, alone : BOOLEAN]

TypeInv ==
    /\ provider \in {"neon", "tidb", "upstash"} /\ project \in BOOLEAN
    /\ root \in Stages \cup {NoStage}
    /\ res \in [Stages -> Resource] /\ stored \in [Stages -> Url] /\ run \in [Ops -> Run]
    /\ \A o \in Ops : run[o].at # "idle" => run[o].stage \in Stages

\* Which commands, and with which provider, get to a step.
StepOf(r) ==
    /\ r.at # "idle" => /\ r.cmd = "branch_out" => provider = "neon"
                        /\ r.cmd = "live" => provider = "tidb"
                        /\ r.cmd \in {"create", "reset"} => provider # "upstash"
    /\ r.at = "status" => r.cmd = "deploy"
    /\ r.at \in {"ensure", "branch", "post"} => r.cmd \in {"create", "store", "deploy",
         "branch_out"}
    /\ r.at = "branch" => provider = "neon"
    /\ r.at = "role" => r.cmd \in {"create", "store", "deploy"} /\ provider = "neon"
    /\ r.at = "database" => r.cmd \in {"create", "store", "deploy", "reset"} /\ provider = "neon"
    /\ r.at = "wait" => r.cmd \in {"create", "store", "deploy"} /\ provider = "tidb"
    /\ r.at \in {"connect", "sql"} => r.cmd \in {"create", "store", "deploy", "reset"}
                                        /\ provider = "tidb"
    /\ r.at = "drop" => r.cmd = "reset"
    /\ r.at = "url" => r.cmd \in {"store", "deploy", "live"}
    /\ r.at = "put" => r.cmd \in {"store", "deploy"} /\ r.url.password # 0
    /\ r.at = "print" => r.cmd = "live"
    /\ r.at \in {"plan", "endpoint", "delete", "project"} => r.cmd = "delete"
    /\ r.at = "endpoint" => provider = "neon"
    /\ r.at = "project" => provider = "neon" /\ r.stage = root /\ r.absent = Stages
StepInv == \A o \in Ops : StepOf(run[o])

ResOf(r, u) ==
    /\ r.id = 0 => r = Gone
    /\ provider = "neon" /\ r.id # 0 => r.active /\ project
    /\ provider = "upstash" /\ r.id # 0 => r.database /\ r.role # 0
    /\ u = NoUrl \/ u.password # 0
ResInv == \A s \in Stages : ResOf(res[s], stored[s])

\* Whoever is alone meets nobody.
AloneInv == \A o, p \in Ops : o # p /\ run[o].at # "idle" /\ run[o].alone
                                  => ~Meet(run[o].cmd, run[o].stage, p)

\* What a command r that is alone knows of the resource m and the URL u of its stage.
KnowOf(r, m, u) ==
    /\ r.at = "put" /\ ~(provider = "tidb" /\ r.cmd = "deploy") =>
          /\ r.url = [endpoint |-> m.endpoint, password |-> m.role]
          /\ m.active /\ m.database
    /\ r.at = "put" /\ r.cmd = "deploy" => u = NoUrl
    /\ r.at = "url" /\ provider = "neon" => m.database
    /\ r.at = "url" /\ provider = "tidb" /\ r.cmd = "store" =>
          m.database /\ r.memo = m.role /\ r.memo # 0
    /\ r.at = "sql" /\ r.cmd = "store" => r.memo = m.role /\ r.memo # 0
    /\ r.at \in {"ensure", "post"} /\ provider = "tidb" /\ r.cmd = "deploy" => m.id = 0
    /\ r.at \in {"wait", "connect"} /\ r.cmd = "deploy" => r.memo # 0
KnowInv == \A o \in Ops : run[o].at # "idle" /\ run[o].alone =>
              KnowOf(run[o], res[run[o].stage], stored[run[o].stage])

Inv == TypeInv /\ StepInv /\ ResInv /\ AloneInv /\ KnowInv

-----------------------------------------------------------------------------
(* Every stage and every command hold a few numbers; one that nobody holds   *)
(* is among the first ones, and it is not 0, which stands for none.          *)
LEMMA ImagesAreFew ==
  ASSUME NEW S, IsFiniteSet(S), NEW n \in Nat, NEW f
  PROVE  /\ IsFiniteSet({f[a] : a \in S \X (1 .. n)})
         /\ Cardinality({f[a] : a \in S \X (1 .. n)}) <= n * Cardinality(S)
<1> DEFINE A == S \X (1 .. n)
           T == {f[a] : a \in A}
           g == [a \in A |-> f[a]]
<1>1. g \in [A -> T] /\ \A t \in T : \E a \in A : g[a] = t
  OBVIOUS
<1>2. IsFiniteSet(1 .. n) /\ Cardinality(1 .. n) = n
  BY FS_Interval
<1>3. IsFiniteSet(A) /\ Cardinality(A) = Cardinality(S) * n
  BY <1>2, FS_Product
<1> HIDE DEF g, T
<1>4. g \in Surjection(A, T)
  BY <1>1 DEF Surjection
<1>5. IsFiniteSet(T) /\ Cardinality(T) <= Cardinality(A)
  BY <1>3, <1>4, FS_Surjection
<1> QED
  BY <1>3, <1>5, FS_CardinalityType DEF T

LEMMA FewAreHeld ==
  /\ IsFiniteSet(Held)
  /\ Cardinality(Held) <= 5 * Cardinality(Stages) + 3 * Cardinality(Ops)
<1> DEFINE f == [a \in Stages \X (1 .. 5) |->
                   LET s == a[1] IN
                   IF a[2] = 1 THEN res[s].id ELSE IF a[2] = 2 THEN res[s].endpoint
                   ELSE IF a[2] = 3 THEN res[s].role ELSE IF a[2] = 4 THEN stored[s].endpoint
                   ELSE stored[s].password]
           g == [a \in Ops \X (1 .. 3) |->
                   LET o == a[1] IN
                   IF a[2] = 1 THEN run[o].memo ELSE IF a[2] = 2 THEN run[o].url.endpoint
                   ELSE run[o].url.password]
           OfF(s) == {res[s].id, res[s].endpoint, res[s].role, stored[s].endpoint,
                      stored[s].password}
           OfG(o) == {run[o].memo, run[o].url.endpoint, run[o].url.password}
           F == {f[a] : a \in Stages \X (1 .. 5)}
           G == {g[a] : a \in Ops \X (1 .. 3)}
<1>1. F = UNION {OfF(s) : s \in Stages}
  <2>1. ASSUME NEW a \in Stages \X (1 .. 5) PROVE f[a] \in OfF(a[1]) /\ a[1] \in Stages
    OBVIOUS
  <2>2. ASSUME NEW s \in Stages
        PROVE  /\ f[<<s, 1>>] = res[s].id
               /\ f[<<s, 2>>] = res[s].endpoint
               /\ f[<<s, 3>>] = res[s].role
               /\ f[<<s, 4>>] = stored[s].endpoint
               /\ f[<<s, 5>>] = stored[s].password
               /\ \A i \in 1 .. 5 : <<s, i>> \in Stages \X (1 .. 5)
    OBVIOUS
  <2> HIDE DEF f
  <2>3. ASSUME NEW s \in Stages, NEW v \in OfF(s) PROVE v \in F
    <3>1. \E i \in 1 .. 5 : v = f[<<s, i>>]
      BY <2>2, <2>3
    <3>2. PICK a \in Stages \X (1 .. 5) : v = f[a]
      BY <2>2, <3>1
    <3> QED
      BY <3>2
  <2> HIDE DEF OfF
  <2> QED
    BY <2>1, <2>3
<1>2. G = UNION {OfG(o) : o \in Ops}
  <2>1. ASSUME NEW a \in Ops \X (1 .. 3) PROVE g[a] \in OfG(a[1]) /\ a[1] \in Ops
    OBVIOUS
  <2>2. ASSUME NEW o \in Ops
        PROVE  /\ g[<<o, 1>>] = run[o].memo
               /\ g[<<o, 2>>] = run[o].url.endpoint
               /\ g[<<o, 3>>] = run[o].url.password
               /\ \A i \in 1 .. 3 : <<o, i>> \in Ops \X (1 .. 3)
    OBVIOUS
  <2> HIDE DEF g
  <2>3. ASSUME NEW o \in Ops, NEW v \in OfG(o) PROVE v \in G
    <3>1. \E i \in 1 .. 3 : v = g[<<o, i>>]
      BY <2>2, <2>3
    <3>2. PICK a \in Ops \X (1 .. 3) : v = g[a]
      BY <2>2, <3>1
    <3> QED
      BY <3>2
  <2> HIDE DEF OfG
  <2> QED
    BY <2>1, <2>3
<1>3. Held = F \cup G
  BY <1>1, <1>2 DEF Held
<1> HIDE DEF f, g
<1>4. IsFiniteSet(Stages) /\ IsFiniteSet(Ops) /\ 5 \in Nat /\ 3 \in Nat
  BY StagesAssumption
<1>5. IsFiniteSet(F) /\ Cardinality(F) <= 5 * Cardinality(Stages)
  BY <1>4, ImagesAreFew, Zenon
<1>6. IsFiniteSet(G) /\ Cardinality(G) <= 3 * Cardinality(Ops)
  BY <1>4, ImagesAreFew, Zenon
<1> HIDE DEF F, G
<1>7. /\ IsFiniteSet(F \cup G)
      /\ Cardinality(F \cup G) = Cardinality(F) + Cardinality(G) - Cardinality(F \cap G)
      /\ Cardinality(F \cap G) \in Nat
  BY <1>5, <1>6, FS_Union, FS_Intersection, FS_CardinalityType
<1> QED
  BY <1>3, <1>4, <1>5, <1>6, <1>7, FS_CardinalityType

LEMMA NewIsANumber == New \in Nat /\ New # 0 /\ New <= Cardinality(Held) + 1
<1> DEFINE c == Cardinality(Held)
           d == c + 1
<1>1. d \in Nat /\ d > c /\ d >= 1
  BY FewAreHeld, FS_CardinalityType
<1>2. \E n \in 1 .. d : n \notin Held
  <2> HIDE DEF d
  <2> SUFFICES ASSUME 1 .. d \subseteq Held PROVE FALSE
    OBVIOUS
  <2>1. Cardinality(1 .. d) <= c
    BY FewAreHeld, FS_Subset
  <2>2. Cardinality(1 .. d) = d
    BY <1>1, FS_Interval
  <2> QED
    BY <1>1, <2>1, <2>2, FewAreHeld, FS_CardinalityType
<1> QED
  BY <1>1, <1>2 DEF New

-----------------------------------------------------------------------------
(* What a step of o does: o goes on with its command or is through with it,  *)
(* and the resource of its stage may be another one.                         *)
Moved(o) == /\ run' \in [Ops -> Run]
            /\ \A p \in Ops : p # o => run'[p] = run[p]
Continues(o) == /\ run'[o].cmd = run[o].cmd /\ run'[o].stage = run[o].stage
                /\ run'[o].alone = run[o].alone
Moves(o) == Moved(o) /\ (run'[o].at = "idle" \/ Continues(o))

Changed(o, m) ==
    /\ res' \in [Stages -> Resource] /\ res'[run[o].stage] = m
    /\ \A s \in Stages : s # run[o].stage => res'[s] = res[s]

LEMMA Becomes ==
  ASSUME TypeInv, NEW o \in Ops, NEW r \in Run, run' = [run EXCEPT ![o] = r]
  PROVE  Moved(o) /\ run'[o] = r
BY DEF TypeInv, Moved

LEMMA Ends ==
  ASSUME TypeInv, NEW o \in Ops, End(o)
  PROVE  Moved(o) /\ run'[o].at = "idle"
<1>1. Idle \in Run /\ Idle.at = "idle"
  BY DEF Idle, NoUrl, Run, Url, AllCommands, Steps
<1> QED
  BY <1>1, Becomes DEF End

LEMMA Goes ==
  ASSUME TypeInv, NEW o \in Ops, NEW l \in Steps, Goto(o, l)
  PROVE  Moved(o) /\ Continues(o) /\ run'[o].at = l /\ run'[o].memo = run[o].memo
         /\ run'[o].url = run[o].url
<1> DEFINE r == [run[o] EXCEPT !.at = l]
<1>1. r \in Run /\ r.cmd = run[o].cmd /\ r.stage = run[o].stage /\ r.alone = run[o].alone
      /\ r.at = l /\ r.memo = run[o].memo /\ r.url = run[o].url
  BY DEF TypeInv, Run
<1>2. run' = [run EXCEPT ![o] = r]
  BY DEF Goto, TypeInv
<1> HIDE DEF r
<1> QED
  BY <1>1, <1>2, Becomes DEF Continues

LEMMA Sets ==
  ASSUME TypeInv, NEW o \in Ops, run[o].stage \in Stages, NEW m \in Resource, SetMine(o, m)
  PROVE  Changed(o, m)
BY DEF TypeInv, SetMine, Stage, Changed

LEMMA Stays ==
  ASSUME TypeInv, NEW o \in Ops, run[o].stage \in Stages, UNCHANGED res
  PROVE  Changed(o, res[run[o].stage])
BY DEF TypeInv, Changed

LEMMA Remembers ==
  ASSUME TypeInv, NEW o \in Ops, NEW n \in Nat,
         run' = [run EXCEPT ![o].memo = n]
  PROVE  Moved(o) /\ Continues(o) /\ run'[o].memo = n /\ run'[o].at = run[o].at
<1> DEFINE r == [run[o] EXCEPT !.memo = n]
<1>1. r \in Run /\ r.cmd = run[o].cmd /\ r.stage = run[o].stage /\ r.alone = run[o].alone
      /\ r.memo = n /\ r.at = run[o].at
  BY DEF TypeInv, Run
<1>2. run' = [run EXCEPT ![o] = r]
  BY DEF TypeInv
<1> HIDE DEF r
<1> QED
  BY <1>1, <1>2, Becomes DEF Continues

LEMMA GoesRemembering ==
  ASSUME TypeInv, NEW o \in Ops, NEW l \in Steps, NEW n \in Nat,
         run' = [run EXCEPT ![o].at = l, ![o].memo = n]
  PROVE  Moved(o) /\ Continues(o) /\ run'[o].at = l /\ run'[o].memo = n
<1> DEFINE r == [run[o] EXCEPT !.at = l, !.memo = n]
<1>1. r \in Run /\ r.cmd = run[o].cmd /\ r.stage = run[o].stage /\ r.alone = run[o].alone
      /\ r.at = l /\ r.memo = n
  BY DEF TypeInv, Run
<1>2. run' = [run EXCEPT ![o] = r]
  BY DEF TypeInv
<1> HIDE DEF r
<1> QED
  BY <1>1, <1>2, Becomes DEF Continues

LEMMA GoesWithUrl ==
  ASSUME TypeInv, NEW o \in Ops, NEW l \in Steps, NEW u \in Url,
         run' = [run EXCEPT ![o].at = l, ![o].url = u]
  PROVE  Moved(o) /\ Continues(o) /\ run'[o].at = l /\ run'[o].url = u
<1> DEFINE r == [run[o] EXCEPT !.at = l, !.url = u]
<1>1. r \in Run /\ r.cmd = run[o].cmd /\ r.stage = run[o].stage /\ r.alone = run[o].alone
      /\ r.at = l /\ r.url = u
  BY DEF TypeInv, Run
<1>2. run' = [run EXCEPT ![o] = r]
  BY DEF TypeInv
<1> HIDE DEF r
<1> QED
  BY <1>1, <1>2, Becomes DEF Continues

LEMMA GoesPlanned ==
  ASSUME TypeInv, NEW o \in Ops, NEW l \in Steps, NEW S \in SUBSET Stages,
         run' = [run EXCEPT ![o].at = l, ![o].absent = S]
  PROVE  Moved(o) /\ Continues(o) /\ run'[o].at = l /\ run'[o].absent = S
<1> DEFINE r == [run[o] EXCEPT !.at = l, !.absent = S]
<1>1. r \in Run /\ r.cmd = run[o].cmd /\ r.stage = run[o].stage /\ r.alone = run[o].alone
      /\ r.at = l /\ r.absent = S
  BY DEF TypeInv, Run
<1>2. run' = [run EXCEPT ![o] = r]
  BY DEF TypeInv
<1> HIDE DEF r
<1> QED
  BY <1>1, <1>2, Becomes DEF Continues

LEMMA StepsOn ==
  ASSUME TypeInv, NEW o \in Ops,
         \/ End(o)
         \/ \E l \in Steps : Goto(o, l)
         \/ \E n \in Nat : run' = [run EXCEPT ![o].memo = n]
         \/ \E l \in Steps, n \in Nat : run' = [run EXCEPT ![o].at = l, ![o].memo = n]
         \/ \E l \in Steps, u \in Url : run' = [run EXCEPT ![o].at = l, ![o].url = u]
         \/ \E l \in Steps, S \in SUBSET Stages :
               run' = [run EXCEPT ![o].at = l, ![o].absent = S]
  PROVE  Moves(o)
<1>1. CASE End(o)
  BY <1>1, Ends DEF Moves
<1>2. CASE \E l \in Steps : Goto(o, l)
  BY <1>2, Goes DEF Moves
<1>3. CASE \E n \in Nat : run' = [run EXCEPT ![o].memo = n]
  BY <1>3, Remembers DEF Moves
<1>4. CASE \E l \in Steps, n \in Nat : run' = [run EXCEPT ![o].at = l, ![o].memo = n]
  BY <1>4, GoesRemembering DEF Moves
<1>5. CASE \E l \in Steps, u \in Url : run' = [run EXCEPT ![o].at = l, ![o].url = u]
  BY <1>5, GoesWithUrl DEF Moves
<1>6. CASE \E l \in Steps, S \in SUBSET Stages :
              run' = [run EXCEPT ![o].at = l, ![o].absent = S]
  BY <1>6, GoesPlanned DEF Moves
<1> QED
  BY <1>1, <1>2, <1>3, <1>4, <1>5, <1>6

-----------------------------------------------------------------------------
(* A step of o concerns nobody but o, and those who meet o.                  *)
LEMMA Local ==
  ASSUME Inv, NEW o \in Ops, NEW s \in Stages, s = run[o].stage, run[o].at # "idle",
         UNCHANGED <<provider, root, project>>,
         Moves(o), Changed(o, res'[s]),
         stored' \in [Stages -> Url], \A t \in Stages : t # s => stored'[t] = stored[t],
         StepOf(run'[o]), ResOf(res'[s], stored'[s]),
         run'[o].at # "idle" /\ run[o].alone => KnowOf(run'[o], res'[s], stored'[s])
  PROVE  Inv'
<1>0. TypeInv'
  BY DEF Inv, TypeInv, Moves, Moved, Continues, Changed
<1>1. StepInv'
  BY DEF Inv, StepInv, Moves, Moved, StepOf
<1>2. ResInv'
  BY DEF Inv, ResInv, Changed, ResOf
<1>3. AloneInv'
  BY DEF Inv, AloneInv, Moves, Moved, Continues, Meet
<1>4. KnowInv'
  <2> SUFFICES ASSUME NEW p \in Ops, run'[p].at # "idle", run'[p].alone
               PROVE  KnowOf(run[p], res[run[p].stage], stored[run[p].stage])'
    BY DEF KnowInv
  <2>1. CASE p = o
    BY <2>1 DEF Moves, Continues, KnowOf
  <2>2. CASE p # o
    <3>1. run'[p] = run[p]
      BY <2>2 DEF Moves, Moved
    <3>2. run[p].stage # s /\ run[p].stage \in Stages
      BY <2>2, <3>1 DEF Inv, TypeInv, AloneInv, Meet
    <3>3. KnowOf(run[p], res[run[p].stage], stored[run[p].stage])
      BY <3>1 DEF Inv, KnowInv
    <3> QED
      BY <3>1, <3>2, <3>3 DEF Changed, KnowOf
  <2> QED
    BY <2>1, <2>2
<1> QED
  BY <1>0, <1>1, <1>2, <1>3, <1>4 DEF Inv

-----------------------------------------------------------------------------
(* One lemma per step.  <1>1 is what o finds, <1>3 to <1>5 are what it does, *)
(* <1>6 to <1>8 what its next step and its stage keep of the invariant.      *)

LEMMA DeployStatusKeeps ==
  ASSUME Inv, NEW o \in Ops, DeployStatus(o)
  PROVE  Inv'
<1> DEFINE s == run[o].stage
<1>1. /\ run[o] \in Run /\ s \in Stages /\ run[o].at # "idle"
      /\ res[s] \in Resource /\ stored[s] \in Url
      /\ StepOf(run[o]) /\ ResOf(res[s], stored[s])
      /\ run[o].alone => KnowOf(run[o], res[s], stored[s])
  BY DEF DeployStatus, At, Inv, TypeInv, StepInv, ResInv, KnowInv
<1>2. TypeInv
  BY DEF Inv
<1>3. Moves(o)
  BY <1>1, <1>2, StepsOn DEF DeployStatus, Status, At, Stage, Reached, NeonStatus, TidbStatus,
       UpstashStatus, Steps
<1>4. Changed(o, res'[s])
  BY <1>1, <1>2, Stays DEF DeployStatus, Changed
<1>5. /\ UNCHANGED <<provider, root, project>>
      /\ stored' \in [Stages -> Url] /\ \A t \in Stages : t # s => stored'[t] = stored[t]
  BY <1>1, <1>2 DEF DeployStatus, TypeInv
<1>6. StepOf(run'[o])
  BY <1>1, <1>2 DEF DeployStatus, Status, At, Stage, Goto, End, Reached, NeonStatus, TidbStatus,
       UpstashStatus, Idle, NoUrl, TypeInv, StepOf, Run, Url, Resource
<1>7. ResOf(res'[s], stored'[s])
  BY <1>1, <1>2 DEF DeployStatus, Status, At, Stage, Goto, End, Reached, NeonStatus, TidbStatus,
       UpstashStatus, Idle, NoUrl, TypeInv, StepOf, ResOf, Run, Url, Resource, Steps, AllCommands
<1>8. run'[o].at # "idle" /\ run[o].alone => KnowOf(run'[o], res'[s], stored'[s])
  BY <1>1, <1>2 DEF DeployStatus, Status, At, Stage, Goto, End, Reached, NeonStatus, TidbStatus,
       UpstashStatus, Idle, NoUrl, TypeInv, StepOf, ResOf, KnowOf, Run, Url, Resource
<1> QED
  BY <1>1, <1>3, <1>4, <1>5, <1>6, <1>7, <1>8, Local

LEMMA EnsureBranchKeeps ==
  ASSUME Inv, NEW o \in Ops, EnsureBranch(o)
  PROVE  Inv'
<1> DEFINE s == run[o].stage
<1>1. /\ run[o] \in Run /\ s \in Stages /\ run[o].at # "idle"
      /\ res[s] \in Resource /\ stored[s] \in Url
      /\ StepOf(run[o]) /\ ResOf(res[s], stored[s])
      /\ run[o].alone => KnowOf(run[o], res[s], stored[s])
  BY DEF EnsureBranch, At, Inv, TypeInv, StepInv, ResInv, KnowInv
<1>2. TypeInv
  BY DEF Inv
<1>3. Moves(o)
  BY <1>1, <1>2, StepsOn DEF EnsureBranch, At, Mine, Stage, Steps
<1>4. Changed(o, res'[s])
  BY <1>1, <1>2, Stays DEF EnsureBranch, Changed
<1>5. /\ UNCHANGED <<provider, root, project>>
      /\ stored' \in [Stages -> Url] /\ \A t \in Stages : t # s => stored'[t] = stored[t]
  BY <1>1, <1>2 DEF EnsureBranch, TypeInv
<1>6. StepOf(run'[o])
  BY <1>1, <1>2 DEF EnsureBranch, At, Mine, Goto, End, Stage, Idle, NoUrl, TypeInv, StepOf, Run,
       Url, Resource
<1>7. ResOf(res'[s], stored'[s])
  BY <1>1, <1>2 DEF EnsureBranch, At, Mine, Goto, End, Stage, Idle, NoUrl, TypeInv, StepOf, ResOf,
       Run, Url, Resource, Steps, AllCommands
<1>8. run'[o].at # "idle" /\ run[o].alone => KnowOf(run'[o], res'[s], stored'[s])
  BY <1>1, <1>2 DEF EnsureBranch, At, Mine, Goto, End, Stage, Idle, NoUrl, TypeInv, StepOf, ResOf,
       KnowOf, Run, Url, Resource
<1> QED
  BY <1>1, <1>3, <1>4, <1>5, <1>6, <1>7, <1>8, Local

LEMMA EnsureClusterKeeps ==
  ASSUME Inv, NEW o \in Ops, EnsureCluster(o)
  PROVE  Inv'
<1> DEFINE s == run[o].stage
<1>1. /\ run[o] \in Run /\ s \in Stages /\ run[o].at # "idle"
      /\ res[s] \in Resource /\ stored[s] \in Url
      /\ StepOf(run[o]) /\ ResOf(res[s], stored[s])
      /\ run[o].alone => KnowOf(run[o], res[s], stored[s])
  BY DEF EnsureCluster, At, Inv, TypeInv, StepInv, ResInv, KnowInv
<1>2. TypeInv
  BY DEF Inv
<1>3. Moves(o)
  BY <1>1, <1>2, StepsOn DEF EnsureCluster, At, Cluster, Stage, Steps
<1>4. Changed(o, res'[s])
  BY <1>1, <1>2, Stays DEF EnsureCluster, Changed
<1>5. /\ UNCHANGED <<provider, root, project>>
      /\ stored' \in [Stages -> Url] /\ \A t \in Stages : t # s => stored'[t] = stored[t]
  BY <1>1, <1>2 DEF EnsureCluster, TypeInv
<1>6. StepOf(run'[o])
  BY <1>1, <1>2 DEF EnsureCluster, At, Cluster, Goto, Stage, TypeInv, StepOf, Run, Url, Resource
<1>7. ResOf(res'[s], stored'[s])
  BY <1>1, <1>2 DEF EnsureCluster, At, Cluster, Goto, Stage, TypeInv, StepOf, ResOf, Run, Url,
       Resource, Steps, AllCommands
<1>8. run'[o].at # "idle" /\ run[o].alone => KnowOf(run'[o], res'[s], stored'[s])
  BY <1>1, <1>2 DEF EnsureCluster, At, Cluster, Goto, Stage, TypeInv, StepOf, ResOf, KnowOf, Run,
       Url, Resource
<1> QED
  BY <1>1, <1>3, <1>4, <1>5, <1>6, <1>7, <1>8, Local

LEMMA EnsureRedisKeeps ==
  ASSUME Inv, NEW o \in Ops, EnsureRedis(o)
  PROVE  Inv'
<1> DEFINE s == run[o].stage
<1>1. /\ run[o] \in Run /\ s \in Stages /\ run[o].at # "idle"
      /\ res[s] \in Resource /\ stored[s] \in Url
      /\ StepOf(run[o]) /\ ResOf(res[s], stored[s])
      /\ run[o].alone => KnowOf(run[o], res[s], stored[s])
  BY DEF EnsureRedis, At, Inv, TypeInv, StepInv, ResInv, KnowInv
<1>2. TypeInv
  BY DEF Inv
<1>3. Moves(o)
  BY <1>1, <1>2, StepsOn DEF EnsureRedis, At, Redis, Stage, Steps
<1>4. Changed(o, res'[s])
  BY <1>1, <1>2, Stays DEF EnsureRedis, Changed
<1>5. /\ UNCHANGED <<provider, root, project>>
      /\ stored' \in [Stages -> Url] /\ \A t \in Stages : t # s => stored'[t] = stored[t]
  BY <1>1, <1>2 DEF EnsureRedis, TypeInv
<1>6. StepOf(run'[o])
  BY <1>1, <1>2 DEF EnsureRedis, At, Redis, Goto, Stage, TypeInv, StepOf, Run, Url, Resource
<1>7. ResOf(res'[s], stored'[s])
  BY <1>1, <1>2 DEF EnsureRedis, At, Redis, Goto, Stage, TypeInv, StepOf, ResOf, Run, Url,
       Resource, Steps, AllCommands
<1>8. run'[o].at # "idle" /\ run[o].alone => KnowOf(run'[o], res'[s], stored'[s])
  BY <1>1, <1>2 DEF EnsureRedis, At, Redis, Goto, Stage, TypeInv, StepOf, ResOf, KnowOf, Run, Url,
       Resource
<1> QED
  BY <1>1, <1>3, <1>4, <1>5, <1>6, <1>7, <1>8, Local

LEMMA CreateBranchKeeps ==
  ASSUME Inv, NEW o \in Ops, CreateBranch(o)
  PROVE  Inv'
<1> DEFINE s == run[o].stage
<1>1. /\ run[o] \in Run /\ s \in Stages /\ run[o].at # "idle"
      /\ res[s] \in Resource /\ stored[s] \in Url
      /\ StepOf(run[o]) /\ ResOf(res[s], stored[s])
      /\ run[o].alone => KnowOf(run[o], res[s], stored[s])
  BY DEF CreateBranch, At, Inv, TypeInv, StepInv, ResInv, KnowInv
<1>2. TypeInv
  BY DEF Inv
<1>3. Moves(o)
  BY <1>1, <1>2, StepsOn DEF CreateBranch, Mine, Stage, Steps
<1>9. \/ run'[o].at = "idle" /\ Changed(o, res[s])
      \/ /\ project
         /\ \E b \in Resource : b.active /\ Changed(o, [b EXCEPT !.id = New, !.endpoint = New])
         /\ \/ run'[o].at = "idle"
            \/ Continues(o) /\ run'[o].at = "role" /\ run[o].cmd # "branch_out"
  <2> DEFINE from == IF run[o].cmd = "branch_out" THEN {b \in Stages : Status(b) = "COMPLETED"}
                     ELSE {IF Parent[Stage(o)] = NoStage THEN root ELSE Parent[Stage(o)]}
             bases == IF from = {NoStage} THEN {[Gone EXCEPT !.active = TRUE]}
                      ELSE {res[b] : b \in {b \in from : res[b].id # 0}}
  <2>1. CASE res' = res /\ End(o)
    BY <1>1, <1>2, <2>1, Ends, Stays
  <2>2. ASSUME project, NEW b \in bases,
               SetMine(o, [b EXCEPT !.id = New, !.endpoint = New]),
               IF run[o].cmd = "branch_out" THEN End(o) ELSE Goto(o, "role")
        PROVE  /\ \E c \in Resource : /\ c.active
                                     /\ Changed(o, [c EXCEPT !.id = New, !.endpoint = New])
               /\ \/ run'[o].at = "idle"
                  \/ Continues(o) /\ run'[o].at = "role" /\ run[o].cmd # "branch_out"
    <3>1. from \subseteq Stages \cup {NoStage}
      BY <1>1, <1>2, StagesAssumption DEF TypeInv, Stage
    <3>2. from # {NoStage} => from \subseteq Stages
      <4>1. CASE run[o].cmd = "branch_out"
        BY <4>1
      <4>2. CASE run[o].cmd # "branch_out"
        BY <3>1, <4>2
      <4> QED
        BY <4>1, <4>2
    <3>3. \A c \in Stages : res[c].id # 0 => res[c] \in Resource /\ res[c].active
      BY <1>1 DEF Inv, TypeInv, ResInv, ResOf, StepOf, CreateBranch, At
    <3>4. [Gone EXCEPT !.active = TRUE] \in Resource /\ [Gone EXCEPT !.active = TRUE].active
      BY DEF Gone, Resource
    <3>5. b \in Resource /\ b.active
      <4> HIDE DEF from
      <4>1. CASE from = {NoStage}
        BY <2>2, <3>4, <4>1
      <4>2. CASE from # {NoStage}
        BY <2>2, <3>2, <3>3, <4>2
      <4> QED
        BY <4>1, <4>2
    <3>6. [b EXCEPT !.id = New, !.endpoint = New] \in Resource
      BY <3>5, NewIsANumber DEF Resource
    <3>7. Changed(o, [b EXCEPT !.id = New, !.endpoint = New])
      BY <1>1, <1>2, <2>2, <3>6, Sets
    <3>8. \/ run'[o].at = "idle"
          \/ Continues(o) /\ run'[o].at = "role" /\ run[o].cmd # "branch_out"
      BY <1>2, <2>2, Ends, Goes DEF Steps
    <3> QED
      BY <3>5, <3>7, <3>8
  <2> HIDE DEF bases
  <2>3. \/ res' = res /\ End(o)
        \/ /\ project
           /\ \E b \in bases : SetMine(o, [b EXCEPT !.id = New, !.endpoint = New])
           /\ IF run[o].cmd = "branch_out" THEN End(o) ELSE Goto(o, "role")
    BY DEF CreateBranch, bases
  <2> QED
    BY <2>1, <2>2, <2>3
<1>4. Changed(o, res'[s])
  BY <1>9 DEF Changed
<1>10. run[o].at = "branch" /\ stored' = stored
  BY DEF CreateBranch, At
<1>5. /\ UNCHANGED <<provider, root, project>>
      /\ stored' \in [Stages -> Url] /\ \A t \in Stages : t # s => stored'[t] = stored[t]
  BY <1>1, <1>2 DEF CreateBranch, TypeInv
<1>11. \/ res'[s] = res[s]
       \/ /\ project /\ res'[s].id # 0 /\ res'[s].active
          /\ res'[s].database \in BOOLEAN
  BY <1>9, NewIsANumber DEF Changed, Resource
<1>6. StepOf(run'[o])
  BY <1>1, <1>2, <1>9, <1>10, <1>11 DEF Continues, StepOf, ResOf, Gone, TypeInv
<1>7. ResOf(res'[s], stored'[s])
  BY <1>1, <1>5, <1>9, <1>10, <1>11 DEF Continues, StepOf, ResOf, Gone, Resource
<1>8. run'[o].at # "idle" /\ run[o].alone => KnowOf(run'[o], res'[s], stored'[s])
  BY <1>1, <1>9, <1>10, <1>11 DEF Continues, StepOf, ResOf, Gone, KnowOf, Resource
<1> QED
  BY <1>1, <1>3, <1>4, <1>5, <1>6, <1>7, <1>8, Local

LEMMA EnsureRoleKeeps ==
  ASSUME Inv, NEW o \in Ops, EnsureRole(o)
  PROVE  Inv'
<1> DEFINE s == run[o].stage
<1>1. /\ run[o] \in Run /\ s \in Stages /\ run[o].at # "idle"
      /\ res[s] \in Resource /\ stored[s] \in Url
      /\ StepOf(run[o]) /\ ResOf(res[s], stored[s])
      /\ run[o].alone => KnowOf(run[o], res[s], stored[s])
  BY DEF EnsureRole, At, Inv, TypeInv, StepInv, ResInv, KnowInv
<1>2. TypeInv
  BY DEF Inv
<1>3. Moves(o)
  BY <1>1, <1>2, StepsOn DEF EnsureRole, At, Mine, Stage, Steps
<1>4. Changed(o, res'[s])
  BY <1>1, <1>2, Sets, Stays, NewIsANumber DEF EnsureRole, At, Mine, Stage, NoUrl, Changed, Resource
<1>5. /\ UNCHANGED <<provider, root, project>>
      /\ stored' \in [Stages -> Url] /\ \A t \in Stages : t # s => stored'[t] = stored[t]
  BY <1>1, <1>2 DEF EnsureRole, TypeInv
<1>6. StepOf(run'[o])
  BY <1>1, <1>2, NewIsANumber DEF EnsureRole, At, Mine, Goto, End, SetMine, Stage, Idle, NoUrl,
       TypeInv, StepOf, Run, Url, Resource
<1>7. ResOf(res'[s], stored'[s])
  BY <1>1, <1>2, NewIsANumber DEF EnsureRole, At, Mine, Goto, End, SetMine, Stage, Idle, NoUrl,
       TypeInv, StepOf, ResOf, Run, Url, Resource, Steps, AllCommands
<1>8. run'[o].at # "idle" /\ run[o].alone => KnowOf(run'[o], res'[s], stored'[s])
  BY <1>1, <1>2, NewIsANumber DEF EnsureRole, At, Mine, Goto, End, SetMine, Stage, Idle, NoUrl,
       TypeInv, StepOf, ResOf, KnowOf, Run, Url, Resource
<1> QED
  BY <1>1, <1>3, <1>4, <1>5, <1>6, <1>7, <1>8, Local

LEMMA EnsureDatabaseKeeps ==
  ASSUME Inv, NEW o \in Ops, EnsureDatabase(o)
  PROVE  Inv'
<1> DEFINE s == run[o].stage
<1>1. /\ run[o] \in Run /\ s \in Stages /\ run[o].at # "idle"
      /\ res[s] \in Resource /\ stored[s] \in Url
      /\ StepOf(run[o]) /\ ResOf(res[s], stored[s])
      /\ run[o].alone => KnowOf(run[o], res[s], stored[s])
  BY DEF EnsureDatabase, At, Inv, TypeInv, StepInv, ResInv, KnowInv
<1>2. TypeInv
  BY DEF Inv
<1>3. Moves(o)
  BY <1>1, <1>2, StepsOn DEF EnsureDatabase, At, Mine, Stage, Steps
<1>4. Changed(o, res'[s])
  BY <1>1, <1>2, Sets, Stays DEF EnsureDatabase, At, Mine, Stage, NoUrl, Changed, Resource
<1>5. /\ UNCHANGED <<provider, root, project>>
      /\ stored' \in [Stages -> Url] /\ \A t \in Stages : t # s => stored'[t] = stored[t]
  BY <1>1, <1>2 DEF EnsureDatabase, TypeInv
<1>6. StepOf(run'[o])
  BY <1>1, <1>2 DEF EnsureDatabase, At, Mine, Goto, End, SetMine, Stage, Idle, NoUrl, TypeInv,
       StepOf, Run, Url, Resource
<1>7. ResOf(res'[s], stored'[s])
  BY <1>1, <1>2 DEF EnsureDatabase, At, Mine, Goto, End, SetMine, Stage, Idle, NoUrl, TypeInv,
       StepOf, ResOf, Run, Url, Resource, Steps, AllCommands
<1>8. run'[o].at # "idle" /\ run[o].alone => KnowOf(run'[o], res'[s], stored'[s])
  BY <1>1, <1>2 DEF EnsureDatabase, At, Mine, Goto, End, SetMine, Stage, Idle, NoUrl, TypeInv,
       StepOf, ResOf, KnowOf, Run, Url, Resource
<1> QED
  BY <1>1, <1>3, <1>4, <1>5, <1>6, <1>7, <1>8, Local

LEMMA CreateClusterKeeps ==
  ASSUME Inv, NEW o \in Ops, CreateCluster(o)
  PROVE  Inv'
<1> DEFINE s == run[o].stage
<1>1. /\ run[o] \in Run /\ s \in Stages /\ run[o].at # "idle"
      /\ res[s] \in Resource /\ stored[s] \in Url
      /\ StepOf(run[o]) /\ ResOf(res[s], stored[s])
      /\ run[o].alone => KnowOf(run[o], res[s], stored[s])
  BY DEF CreateCluster, At, Inv, TypeInv, StepInv, ResInv, KnowInv
<1>2. TypeInv
  BY DEF Inv
<1>3. Moves(o)
  BY <1>1, <1>2, StepsOn, NewIsANumber DEF CreateCluster, At, Cluster, Stage, Steps, Run, Url,
       Resource
<1>4. Changed(o, res'[s])
  BY <1>1, <1>2, Sets, Stays, NewIsANumber DEF CreateCluster, At, Cluster, Stage, NoUrl, Changed,
       Resource
<1>5. /\ UNCHANGED <<provider, root, project>>
      /\ stored' \in [Stages -> Url] /\ \A t \in Stages : t # s => stored'[t] = stored[t]
  BY <1>1, <1>2 DEF CreateCluster, TypeInv
<1>6. StepOf(run'[o])
  BY <1>1, <1>2, NewIsANumber DEF CreateCluster, At, Cluster, End, SetMine, Stage, Idle, NoUrl,
       TypeInv, StepOf, Run, Url, Resource
<1>7. ResOf(res'[s], stored'[s])
  BY <1>1, <1>2, NewIsANumber DEF CreateCluster, At, Cluster, End, SetMine, Stage, Idle, NoUrl,
       TypeInv, StepOf, ResOf, Run, Url, Resource, Steps, AllCommands
<1>8. run'[o].at # "idle" /\ run[o].alone => KnowOf(run'[o], res'[s], stored'[s])
  BY <1>1, <1>2, NewIsANumber DEF CreateCluster, At, Cluster, End, SetMine, Stage, Idle, NoUrl,
       TypeInv, StepOf, ResOf, KnowOf, Run, Url, Resource
<1> QED
  BY <1>1, <1>3, <1>4, <1>5, <1>6, <1>7, <1>8, Local

LEMMA WaitClusterKeeps ==
  ASSUME Inv, NEW o \in Ops, WaitCluster(o)
  PROVE  Inv'
<1> DEFINE s == run[o].stage
<1>1. /\ run[o] \in Run /\ s \in Stages /\ run[o].at # "idle"
      /\ res[s] \in Resource /\ stored[s] \in Url
      /\ StepOf(run[o]) /\ ResOf(res[s], stored[s])
      /\ run[o].alone => KnowOf(run[o], res[s], stored[s])
  BY DEF WaitCluster, At, Inv, TypeInv, StepInv, ResInv, KnowInv
<1>2. TypeInv
  BY DEF Inv
<1>3. Moves(o)
  BY <1>1, <1>2, StepsOn DEF WaitCluster, At, Cluster, Stage, Steps
<1>4. Changed(o, res'[s])
  BY <1>1, <1>2, Stays DEF WaitCluster, Changed
<1>5. /\ UNCHANGED <<provider, root, project>>
      /\ stored' \in [Stages -> Url] /\ \A t \in Stages : t # s => stored'[t] = stored[t]
  BY <1>1, <1>2 DEF WaitCluster, TypeInv
<1>6. StepOf(run'[o])
  BY <1>1, <1>2 DEF WaitCluster, At, Cluster, Goto, End, Stage, Idle, NoUrl, TypeInv, StepOf, Run,
       Url, Resource
<1>7. ResOf(res'[s], stored'[s])
  BY <1>1, <1>2 DEF WaitCluster, At, Cluster, Goto, End, Stage, Idle, NoUrl, TypeInv, StepOf,
       ResOf, Run, Url, Resource, Steps, AllCommands
<1>8. run'[o].at # "idle" /\ run[o].alone => KnowOf(run'[o], res'[s], stored'[s])
  BY <1>1, <1>2 DEF WaitCluster, At, Cluster, Goto, End, Stage, Idle, NoUrl, TypeInv, StepOf,
       ResOf, KnowOf, Run, Url, Resource
<1> QED
  BY <1>1, <1>3, <1>4, <1>5, <1>6, <1>7, <1>8, Local

LEMMA ConnectKeeps ==
  ASSUME Inv, NEW o \in Ops, Connect(o)
  PROVE  Inv'
<1> DEFINE s == run[o].stage
<1>1. /\ run[o] \in Run /\ s \in Stages /\ run[o].at # "idle"
      /\ res[s] \in Resource /\ stored[s] \in Url
      /\ StepOf(run[o]) /\ ResOf(res[s], stored[s])
      /\ run[o].alone => KnowOf(run[o], res[s], stored[s])
  BY DEF Connect, At, Inv, TypeInv, StepInv, ResInv, KnowInv
<1>2. TypeInv
  BY DEF Inv
<1>3. Moves(o)
  BY <1>1, <1>2, StepsOn, NewIsANumber DEF Connect, At, Cluster, Rotate, Stage, Steps, Run, Url,
       Resource
<1>4. Changed(o, res'[s])
  BY <1>1, <1>2, Sets, Stays, NewIsANumber DEF Connect, At, Cluster, Rotate, Stage, NoUrl,
       Changed, Resource
<1>5. /\ UNCHANGED <<provider, root, project>>
      /\ stored' \in [Stages -> Url] /\ \A t \in Stages : t # s => stored'[t] = stored[t]
  BY <1>1, <1>2 DEF Connect, TypeInv
<1>9. \/ run'[o].at = "idle" /\ res'[s] = res[s]
      \/ /\ run[o].memo = 0 /\ res[s].active /\ res'[s] = [res[s] EXCEPT !.role = New]
         /\ Continues(o) /\ run'[o].memo = New /\ run'[o].at = run[o].at
      \/ /\ run[o].memo # 0 /\ run[o].memo = res[s].role /\ res'[s] = res[s]
         /\ Continues(o) /\ run'[o].memo = run[o].memo
         /\ run'[o].at = IF run[o].cmd = "reset" THEN "drop" ELSE "sql"
  <2>1. CASE run[o].memo = 0 /\ res[s].active /\ Rotate(o)
    <3>1. [res[s] EXCEPT !.role = New] \in Resource
      BY <1>1, NewIsANumber DEF Resource
    <3>2. Changed(o, [res[s] EXCEPT !.role = New])
      BY <1>1, <1>2, <2>1, <3>1, Sets DEF Rotate, Cluster, Stage
    <3>3. Continues(o) /\ run'[o].memo = New /\ run'[o].at = run[o].at
      BY <1>2, <2>1, Remembers, NewIsANumber DEF Rotate
    <3> QED
      BY <2>1, <3>2, <3>3 DEF Changed
  <2>2. CASE /\ run[o].memo # 0 /\ run[o].memo = res[s].role /\ res' = res
             /\ Goto(o, IF run[o].cmd = "reset" THEN "drop" ELSE "sql")
    BY <1>2, <2>2, Goes DEF Steps
  <2>3. CASE End(o) /\ res' = res
    BY <1>2, <2>3, Ends
  <2> QED
    BY <2>1, <2>2, <2>3 DEF Connect, Cluster, Stage
<1>10. run[o].at = "connect" /\ stored' = stored
  BY DEF Connect, At
<1>6. StepOf(run'[o])
  BY <1>1, <1>2, <1>9, <1>10, NewIsANumber DEF Continues, StepOf, ResOf, Gone, TypeInv
<1>7. ResOf(res'[s], stored'[s])
  BY <1>1, <1>5, <1>9, <1>10, NewIsANumber DEF Continues, StepOf, ResOf, Gone, Resource
<1>8. run'[o].at # "idle" /\ run[o].alone => KnowOf(run'[o], res'[s], stored'[s])
  BY <1>1, <1>9, <1>10, NewIsANumber DEF Continues, StepOf, ResOf, Gone, KnowOf, Resource
<1> QED
  BY <1>1, <1>3, <1>4, <1>5, <1>6, <1>7, <1>8, Local

LEMMA CreateDatabaseKeeps ==
  ASSUME Inv, NEW o \in Ops, CreateDatabase(o)
  PROVE  Inv'
<1> DEFINE s == run[o].stage
<1>1. /\ run[o] \in Run /\ s \in Stages /\ run[o].at # "idle"
      /\ res[s] \in Resource /\ stored[s] \in Url
      /\ StepOf(run[o]) /\ ResOf(res[s], stored[s])
      /\ run[o].alone => KnowOf(run[o], res[s], stored[s])
  BY DEF CreateDatabase, At, Inv, TypeInv, StepInv, ResInv, KnowInv
<1>2. TypeInv
  BY DEF Inv
<1>3. Moves(o)
  BY <1>1, <1>2, StepsOn DEF CreateDatabase, At, Cluster, Stage, Steps
<1>4. Changed(o, res'[s])
  BY <1>1, <1>2, Sets, Stays DEF CreateDatabase, At, Cluster, Stage, NoUrl, Changed, Resource
<1>5. /\ UNCHANGED <<provider, root, project>>
      /\ stored' \in [Stages -> Url] /\ \A t \in Stages : t # s => stored'[t] = stored[t]
  BY <1>1, <1>2 DEF CreateDatabase, TypeInv
<1>6. StepOf(run'[o])
  BY <1>1, <1>2 DEF CreateDatabase, At, Cluster, Goto, End, SetMine, Stage, Idle, NoUrl, TypeInv,
       StepOf, Run, Url, Resource
<1>7. ResOf(res'[s], stored'[s])
  BY <1>1, <1>2 DEF CreateDatabase, At, Cluster, Goto, End, SetMine, Stage, Idle, NoUrl, TypeInv,
       StepOf, ResOf, Run, Url, Resource, Steps, AllCommands
<1>8. run'[o].at # "idle" /\ run[o].alone => KnowOf(run'[o], res'[s], stored'[s])
  BY <1>1, <1>2 DEF CreateDatabase, At, Cluster, Goto, End, SetMine, Stage, Idle, NoUrl, TypeInv,
       StepOf, ResOf, KnowOf, Run, Url, Resource
<1> QED
  BY <1>1, <1>3, <1>4, <1>5, <1>6, <1>7, <1>8, Local

LEMMA CreateRedisKeeps ==
  ASSUME Inv, NEW o \in Ops, CreateRedis(o)
  PROVE  Inv'
<1> DEFINE s == run[o].stage
<1>1. /\ run[o] \in Run /\ s \in Stages /\ run[o].at # "idle"
      /\ res[s] \in Resource /\ stored[s] \in Url
      /\ StepOf(run[o]) /\ ResOf(res[s], stored[s])
      /\ run[o].alone => KnowOf(run[o], res[s], stored[s])
  BY DEF CreateRedis, At, Inv, TypeInv, StepInv, ResInv, KnowInv
<1>2. TypeInv
  BY DEF Inv
<1>3. Moves(o)
  BY <1>1, <1>2, StepsOn DEF CreateRedis, At, Redis, Stage, Steps
<1>4. Changed(o, res'[s])
  BY <1>1, <1>2, Sets, Stays, NewIsANumber DEF CreateRedis, At, Redis, Stage, NoUrl, Changed,
       Resource
<1>5. /\ UNCHANGED <<provider, root, project>>
      /\ stored' \in [Stages -> Url] /\ \A t \in Stages : t # s => stored'[t] = stored[t]
  BY <1>1, <1>2 DEF CreateRedis, TypeInv
<1>6. StepOf(run'[o])
  BY <1>1, <1>2, NewIsANumber DEF CreateRedis, At, Redis, Goto, End, SetMine, Stage, Idle, NoUrl,
       TypeInv, StepOf, Run, Url, Resource
<1>7. ResOf(res'[s], stored'[s])
  BY <1>1, <1>2, NewIsANumber DEF CreateRedis, At, Redis, Goto, End, SetMine, Stage, Idle, NoUrl,
       TypeInv, StepOf, ResOf, Run, Url, Resource, Steps, AllCommands
<1>8. run'[o].at # "idle" /\ run[o].alone => KnowOf(run'[o], res'[s], stored'[s])
  BY <1>1, <1>2, NewIsANumber DEF CreateRedis, At, Redis, Goto, End, SetMine, Stage, Idle, NoUrl,
       TypeInv, StepOf, ResOf, KnowOf, Run, Url, Resource
<1> QED
  BY <1>1, <1>3, <1>4, <1>5, <1>6, <1>7, <1>8, Local

LEMMA DropDatabaseKeeps ==
  ASSUME Inv, NEW o \in Ops, DropDatabase(o)
  PROVE  Inv'
<1> DEFINE s == run[o].stage
<1>1. /\ run[o] \in Run /\ s \in Stages /\ run[o].at # "idle"
      /\ res[s] \in Resource /\ stored[s] \in Url
      /\ StepOf(run[o]) /\ ResOf(res[s], stored[s])
      /\ run[o].alone => KnowOf(run[o], res[s], stored[s])
  BY DEF DropDatabase, At, Inv, TypeInv, StepInv, ResInv, KnowInv
<1>2. TypeInv
  BY DEF Inv
<1>3. Moves(o)
  BY <1>1, <1>2, StepsOn DEF DropDatabase, At, Mine, Stage, Steps
<1>4. Changed(o, res'[s])
  BY <1>1, <1>2, Sets, Stays DEF DropDatabase, At, Mine, Stage, NoUrl, Changed, Resource
<1>5. /\ UNCHANGED <<provider, root, project>>
      /\ stored' \in [Stages -> Url] /\ \A t \in Stages : t # s => stored'[t] = stored[t]
  BY <1>1, <1>2 DEF DropDatabase, TypeInv
<1>9. \/ run'[o].at = "idle" /\ res'[s] = res[s]
      \/ /\ ~(res[s].id = 0) /\ res'[s] = [res[s] EXCEPT !.database = FALSE]
         /\ Continues(o) /\ run'[o].at = IF provider = "neon" THEN "database" ELSE "sql"
  <2>1. CASE res[s].id = 0
    BY <1>1, <1>2, <2>1, Ends DEF DropDatabase, Mine, Stage
  <2>2. CASE ~(res[s].id = 0)
    <3>1. [res[s] EXCEPT !.database = FALSE] \in Resource
      BY <1>1 DEF Resource
    <3>2. Changed(o, [res[s] EXCEPT !.database = FALSE])
      BY <1>1, <1>2, <2>2, <3>1, Sets DEF DropDatabase, Mine, Stage
    <3>3. Continues(o) /\ run'[o].at = IF provider = "neon" THEN "database" ELSE "sql"
      BY <1>1, <1>2, <2>2, Goes DEF DropDatabase, Mine, Stage, Steps
    <3> QED
      BY <2>2, <3>2, <3>3 DEF Changed
  <2> QED
    BY <2>1, <2>2
<1>10. run[o].at = "drop" /\ stored' = stored
  BY DEF DropDatabase, At
<1>6. StepOf(run'[o])
  BY <1>1, <1>2, <1>9, <1>10 DEF Continues, StepOf, ResOf, Gone, TypeInv
<1>7. ResOf(res'[s], stored'[s])
  BY <1>1, <1>5, <1>9, <1>10 DEF Continues, StepOf, ResOf, Gone, Resource
<1>8. run'[o].at # "idle" /\ run[o].alone => KnowOf(run'[o], res'[s], stored'[s])
  BY <1>1, <1>9, <1>10 DEF Continues, StepOf, ResOf, Gone, KnowOf, Resource
<1> QED
  BY <1>1, <1>3, <1>4, <1>5, <1>6, <1>7, <1>8, Local

LEMMA KeepManagedKeeps ==
  ASSUME Inv, NEW o \in Ops, KeepManaged(o)
  PROVE  Inv'
<1> DEFINE s == run[o].stage
<1>1. /\ run[o] \in Run /\ s \in Stages /\ run[o].at # "idle"
      /\ res[s] \in Resource /\ stored[s] \in Url
      /\ StepOf(run[o]) /\ ResOf(res[s], stored[s])
      /\ run[o].alone => KnowOf(run[o], res[s], stored[s])
  BY DEF KeepManaged, At, Inv, TypeInv, StepInv, ResInv, KnowInv
<1>2. TypeInv
  BY DEF Inv
<1>3. Moves(o)
  BY <1>1, <1>2, StepsOn DEF KeepManaged, At, Stage, Steps
<1>4. Changed(o, res'[s])
  BY <1>1, <1>2, Stays DEF KeepManaged, Changed
<1>5. /\ UNCHANGED <<provider, root, project>>
      /\ stored' \in [Stages -> Url] /\ \A t \in Stages : t # s => stored'[t] = stored[t]
  BY <1>1, <1>2 DEF KeepManaged, TypeInv
<1>6. StepOf(run'[o])
  BY <1>1, <1>2 DEF KeepManaged, NoUrl, At, Stage, End, Idle, TypeInv, StepOf, Run, Url, Resource
<1>7. ResOf(res'[s], stored'[s])
  BY <1>1, <1>2 DEF KeepManaged, NoUrl, At, Stage, End, Idle, TypeInv, StepOf, ResOf, Run, Url,
       Resource, Steps, AllCommands
<1>8. run'[o].at # "idle" /\ run[o].alone => KnowOf(run'[o], res'[s], stored'[s])
  BY <1>1, <1>2 DEF KeepManaged, NoUrl, At, Stage, End, Idle, TypeInv, StepOf, ResOf, KnowOf, Run,
       Url, Resource
<1> QED
  BY <1>1, <1>3, <1>4, <1>5, <1>6, <1>7, <1>8, Local

LEMMA NeonUrlKeeps ==
  ASSUME Inv, NEW o \in Ops, NeonUrl(o)
  PROVE  Inv'
<1> DEFINE s == run[o].stage
<1>1. /\ run[o] \in Run /\ s \in Stages /\ run[o].at # "idle"
      /\ res[s] \in Resource /\ stored[s] \in Url
      /\ StepOf(run[o]) /\ ResOf(res[s], stored[s])
      /\ run[o].alone => KnowOf(run[o], res[s], stored[s])
  BY DEF NeonUrl, At, Computes, Inv, TypeInv, StepInv, ResInv, KnowInv
<1>2. TypeInv
  BY DEF Inv
<1>3. Moves(o)
  BY <1>1, <1>2, StepsOn DEF NeonUrl, Mine, Computes, Stage, At, Steps, Run, Url, Resource
<1>4. Changed(o, res'[s])
  BY <1>1, <1>2, Stays DEF NeonUrl, Changed
<1>5. /\ UNCHANGED <<provider, root, project>>
      /\ stored' \in [Stages -> Url] /\ \A t \in Stages : t # s => stored'[t] = stored[t]
  BY <1>1, <1>2 DEF NeonUrl, TypeInv
<1>9. \/ run'[o].at = "idle"
      \/ /\ ~(res[s].endpoint = 0 \/ res[s].role = 0)
         /\ Continues(o) /\ run'[o].at = "put"
         /\ run'[o].url = [endpoint |-> res[s].endpoint, password |-> res[s].role]
  <2>1. CASE res[s].endpoint = 0 \/ res[s].role = 0
    BY <1>1, <1>2, <2>1, Ends DEF NeonUrl, Mine, Stage
  <2>2. CASE ~(res[s].endpoint = 0 \/ res[s].role = 0)
    <3> DEFINE u == [endpoint |-> res[s].endpoint, password |-> res[s].role]
    <3>1. u \in Url
      BY <1>1 DEF Resource, Url
    <3>2. run' = [run EXCEPT ![o].at = "put", ![o].url = u]
      BY <2>2 DEF NeonUrl, Mine, Stage
    <3>3. Continues(o) /\ run'[o].at = "put" /\ run'[o].url = u
      <4> HIDE DEF u
      <4> QED
        BY <1>2, <3>1, <3>2, GoesWithUrl DEF Steps
    <3> QED
      BY <2>2, <3>3
  <2> QED
    BY <2>1, <2>2
<1>10. /\ run[o].at = "url" /\ stored' = stored /\ res'[s] = res[s] /\ provider = "neon"
       /\ run[o].cmd = "deploy" => stored[s] = NoUrl
  BY DEF NeonUrl, Computes, At, Stage
<1>6. StepOf(run'[o])
  BY <1>1, <1>2, <1>9, <1>10 DEF Continues, StepOf, ResOf, Gone, TypeInv
<1>7. ResOf(res'[s], stored'[s])
  BY <1>1, <1>5, <1>9, <1>10 DEF Continues, StepOf, ResOf, Gone, Resource
<1>8. run'[o].at # "idle" /\ run[o].alone => KnowOf(run'[o], res'[s], stored'[s])
  <2> SUFFICES ASSUME run'[o].at # "idle", run[o].alone
               PROVE  KnowOf(run'[o], res'[s], stored'[s])
    OBVIOUS
  <2>1. res[s].id # 0
    BY <1>1, <1>9 DEF ResOf, Gone
  <2>2. res[s].active /\ res[s].database
    BY <1>1, <1>9, <1>10, <2>1 DEF ResOf, KnowOf
  <2>3. /\ Continues(o) /\ run'[o].at = "put" /\ res'[s] = res[s] /\ stored'[s] = stored[s]
        /\ run'[o].url = [endpoint |-> res[s].endpoint, password |-> res[s].role]
        /\ run[o].cmd = "deploy" => stored[s] = NoUrl
    BY <1>9, <1>10
  <2> QED
    BY <2>2, <2>3 DEF KnowOf, Continues
<1> QED
  BY <1>1, <1>3, <1>4, <1>5, <1>6, <1>7, <1>8, Local

LEMMA RedisUrlKeeps ==
  ASSUME Inv, NEW o \in Ops, RedisUrl(o)
  PROVE  Inv'
<1> DEFINE s == run[o].stage
<1>1. /\ run[o] \in Run /\ s \in Stages /\ run[o].at # "idle"
      /\ res[s] \in Resource /\ stored[s] \in Url
      /\ StepOf(run[o]) /\ ResOf(res[s], stored[s])
      /\ run[o].alone => KnowOf(run[o], res[s], stored[s])
  BY DEF RedisUrl, At, Computes, Inv, TypeInv, StepInv, ResInv, KnowInv
<1>2. TypeInv
  BY DEF Inv
<1>3. Moves(o)
  BY <1>1, <1>2, StepsOn DEF RedisUrl, Redis, Computes, Stage, At, Steps, Run, Url, Resource
<1>4. Changed(o, res'[s])
  BY <1>1, <1>2, Stays DEF RedisUrl, Changed
<1>5. /\ UNCHANGED <<provider, root, project>>
      /\ stored' \in [Stages -> Url] /\ \A t \in Stages : t # s => stored'[t] = stored[t]
  BY <1>1, <1>2 DEF RedisUrl, TypeInv
<1>9. \/ run'[o].at = "idle"
      \/ /\ ~(~res[s].active)
         /\ Continues(o) /\ run'[o].at = "put"
         /\ run'[o].url = [endpoint |-> res[s].endpoint, password |-> res[s].role]
  <2>1. CASE ~res[s].active
    BY <1>1, <1>2, <2>1, Ends DEF RedisUrl, Redis, Stage
  <2>2. CASE ~(~res[s].active)
    <3> DEFINE u == [endpoint |-> res[s].endpoint, password |-> res[s].role]
    <3>1. u \in Url
      BY <1>1 DEF Resource, Url
    <3>2. run' = [run EXCEPT ![o].at = "put", ![o].url = u]
      BY <2>2 DEF RedisUrl, Redis, Stage
    <3>3. Continues(o) /\ run'[o].at = "put" /\ run'[o].url = u
      <4> HIDE DEF u
      <4> QED
        BY <1>2, <3>1, <3>2, GoesWithUrl DEF Steps
    <3> QED
      BY <2>2, <3>3
  <2> QED
    BY <2>1, <2>2
<1>10. /\ run[o].at = "url" /\ stored' = stored /\ res'[s] = res[s] /\ provider = "upstash"
       /\ run[o].cmd = "deploy" => stored[s] = NoUrl
  BY DEF RedisUrl, Computes, At, Stage
<1>6. StepOf(run'[o])
  BY <1>1, <1>2, <1>9, <1>10 DEF Continues, StepOf, ResOf, Gone, TypeInv
<1>7. ResOf(res'[s], stored'[s])
  BY <1>1, <1>5, <1>9, <1>10 DEF Continues, StepOf, ResOf, Gone, Resource
<1>8. run'[o].at # "idle" /\ run[o].alone => KnowOf(run'[o], res'[s], stored'[s])
  <2> SUFFICES ASSUME run'[o].at # "idle", run[o].alone
               PROVE  KnowOf(run'[o], res'[s], stored'[s])
    OBVIOUS
  <2>1. res[s].id # 0
    BY <1>1, <1>9 DEF ResOf, Gone
  <2>2. res[s].active /\ res[s].database
    BY <1>1, <1>9, <1>10, <2>1 DEF ResOf, KnowOf
  <2>3. /\ Continues(o) /\ run'[o].at = "put" /\ res'[s] = res[s] /\ stored'[s] = stored[s]
        /\ run'[o].url = [endpoint |-> res[s].endpoint, password |-> res[s].role]
        /\ run[o].cmd = "deploy" => stored[s] = NoUrl
    BY <1>9, <1>10
  <2> QED
    BY <2>2, <2>3 DEF KnowOf, Continues
<1> QED
  BY <1>1, <1>3, <1>4, <1>5, <1>6, <1>7, <1>8, Local

LEMMA TidbUrlKeeps ==
  ASSUME Inv, NEW o \in Ops, TidbUrl(o)
  PROVE  Inv'
<1> DEFINE s == run[o].stage
<1>1. /\ run[o] \in Run /\ s \in Stages /\ run[o].at # "idle"
      /\ res[s] \in Resource /\ stored[s] \in Url
      /\ StepOf(run[o]) /\ ResOf(res[s], stored[s])
      /\ run[o].alone => KnowOf(run[o], res[s], stored[s])
  BY DEF TidbUrl, At, Computes, Inv, TypeInv, StepInv, ResInv, KnowInv
<1>2. TypeInv
  BY DEF Inv
<1>3. Moves(o)
  <2>1. /\ "print" \in Steps /\ "put" \in Steps
        /\ [endpoint |-> res[s].endpoint, password |-> run[o].memo] \in Url
    BY <1>1 DEF Steps, Run, Url, Resource
  <2> QED
    BY <1>1, <1>2, <2>1, StepsOn, NewIsANumber DEF TidbUrl, Cluster, Rotate, Stage
<1>4. Changed(o, res'[s])
  BY <1>1, <1>2, Sets, Stays, NewIsANumber DEF TidbUrl, Cluster, Rotate, Computes, Stage, NoUrl,
       At, Changed, Resource
<1>5. /\ UNCHANGED <<provider, root, project>>
      /\ stored' \in [Stages -> Url] /\ \A t \in Stages : t # s => stored'[t] = stored[t]
  BY <1>1, <1>2 DEF TidbUrl, TypeInv
<1>9. \/ run'[o].at = "idle" /\ res'[s] = res[s]
      \/ /\ run[o].memo = 0 /\ res[s].active /\ res'[s] = [res[s] EXCEPT !.role = New]
         /\ Continues(o) /\ run'[o].memo = New /\ run'[o].at = run[o].at
      \/ /\ run[o].memo # 0 /\ res[s].active /\ res'[s] = res[s]
         /\ Continues(o) /\ run'[o].at = IF run[o].cmd = "live" THEN "print" ELSE "put"
         /\ run'[o].url = [endpoint |-> res[s].endpoint, password |-> run[o].memo]
  <2>1. CASE run[o].memo = 0 /\ res[s].active /\ Rotate(o)
    <3>1. [res[s] EXCEPT !.role = New] \in Resource
      BY <1>1, NewIsANumber DEF Resource
    <3>2. Changed(o, [res[s] EXCEPT !.role = New])
      BY <1>1, <1>2, <2>1, <3>1, Sets DEF Rotate, Cluster, Stage
    <3>3. Continues(o) /\ run'[o].memo = New /\ run'[o].at = run[o].at
      BY <1>2, <2>1, Remembers, NewIsANumber DEF Rotate
    <3> QED
      BY <2>1, <3>2, <3>3 DEF Changed
  <2>2. CASE /\ run[o].memo # 0 /\ res[s].active /\ res' = res
             /\ run' = [run EXCEPT ![o].at = IF run[o].cmd = "live" THEN "print" ELSE "put",
                                   ![o].url = [endpoint |-> res[s].endpoint,
                                               password |-> run[o].memo]]
    <3> DEFINE u == [endpoint |-> res[s].endpoint, password |-> run[o].memo]
               l == IF run[o].cmd = "live" THEN "print" ELSE "put"
    <3>1. u \in Url /\ l \in Steps
      BY <1>1 DEF Resource, Run, Url, Steps
    <3>2. run' = [run EXCEPT ![o].at = l, ![o].url = u]
      BY <2>2
    <3>3. Continues(o) /\ run'[o].at = l /\ run'[o].url = u
      <4> HIDE DEF u, l
      <4> QED
        BY <1>2, <3>1, <3>2, GoesWithUrl
    <3> QED
      BY <2>2, <3>3
  <2>3. CASE End(o) /\ res' = res
    BY <1>2, <2>3, Ends
  <2> QED
    BY <2>1, <2>2, <2>3 DEF TidbUrl, Cluster, Stage
<1>10. /\ run[o].at = "url" /\ stored' = stored /\ provider = "tidb"
       /\ run[o].cmd = "deploy" => stored[s] = NoUrl
  BY DEF TidbUrl, Computes, At, Stage
<1>6. StepOf(run'[o])
  BY <1>1, <1>2, <1>9, <1>10, NewIsANumber DEF Continues, StepOf, ResOf, Gone, TypeInv
<1>7. ResOf(res'[s], stored'[s])
  BY <1>1, <1>5, <1>9, <1>10, NewIsANumber DEF Continues, StepOf, ResOf, Gone, Resource
<1>8. run'[o].at # "idle" /\ run[o].alone => KnowOf(run'[o], res'[s], stored'[s])
  BY <1>1, <1>9, <1>10, NewIsANumber DEF Continues, StepOf, ResOf, Gone, KnowOf, Resource
<1> QED
  BY <1>1, <1>3, <1>4, <1>5, <1>6, <1>7, <1>8, Local

LEMMA PutKeeps ==
  ASSUME Inv, NEW o \in Ops, Put(o)
  PROVE  Inv'
<1> DEFINE s == run[o].stage
<1>1. /\ run[o] \in Run /\ s \in Stages /\ run[o].at # "idle"
      /\ res[s] \in Resource /\ stored[s] \in Url
      /\ StepOf(run[o]) /\ ResOf(res[s], stored[s])
      /\ run[o].alone => KnowOf(run[o], res[s], stored[s])
  BY DEF Put, At, Inv, TypeInv, StepInv, ResInv, KnowInv
<1>2. TypeInv
  BY DEF Inv
<1>3. Moves(o)
  BY <1>1, <1>2, StepsOn DEF Put, At, Stage, Steps
<1>4. Changed(o, res'[s])
  BY <1>1, <1>2, Stays DEF Put, Changed
<1>5. /\ UNCHANGED <<provider, root, project>>
      /\ stored' \in [Stages -> Url] /\ \A t \in Stages : t # s => stored'[t] = stored[t]
  BY <1>1, <1>2 DEF Put, TypeInv, Stage, Run
<1>6. StepOf(run'[o])
  BY <1>1, <1>2 DEF Put, At, Stage, End, Idle, NoUrl, TypeInv, StepOf, Run, Url, Resource
<1>7. ResOf(res'[s], stored'[s])
  BY <1>1, <1>2 DEF Put, At, Stage, End, Idle, NoUrl, TypeInv, StepOf, ResOf, Run, Url, Resource,
       Steps, AllCommands
<1>8. run'[o].at # "idle" /\ run[o].alone => KnowOf(run'[o], res'[s], stored'[s])
  BY <1>1, <1>2 DEF Put, At, Stage, End, Idle, NoUrl, TypeInv, StepOf, ResOf, KnowOf, Run, Url,
       Resource
<1> QED
  BY <1>1, <1>3, <1>4, <1>5, <1>6, <1>7, <1>8, Local

LEMMA PrintUrlKeeps ==
  ASSUME Inv, NEW o \in Ops, PrintUrl(o)
  PROVE  Inv'
<1> DEFINE s == run[o].stage
<1>1. /\ run[o] \in Run /\ s \in Stages /\ run[o].at # "idle"
      /\ res[s] \in Resource /\ stored[s] \in Url
      /\ StepOf(run[o]) /\ ResOf(res[s], stored[s])
      /\ run[o].alone => KnowOf(run[o], res[s], stored[s])
  BY DEF PrintUrl, At, Inv, TypeInv, StepInv, ResInv, KnowInv
<1>2. TypeInv
  BY DEF Inv
<1>3. Moves(o)
  BY <1>1, <1>2, StepsOn DEF PrintUrl, At, Steps
<1>4. Changed(o, res'[s])
  BY <1>1, <1>2, Stays DEF PrintUrl, Changed
<1>5. /\ UNCHANGED <<provider, root, project>>
      /\ stored' \in [Stages -> Url] /\ \A t \in Stages : t # s => stored'[t] = stored[t]
  BY <1>1, <1>2 DEF PrintUrl, TypeInv
<1>6. StepOf(run'[o])
  BY <1>1, <1>2 DEF PrintUrl, At, End, Idle, NoUrl, TypeInv, StepOf, Run, Url, Resource
<1>7. ResOf(res'[s], stored'[s])
  BY <1>1, <1>2 DEF PrintUrl, At, End, Idle, NoUrl, TypeInv, StepOf, ResOf, Run, Url, Resource,
       Steps, AllCommands
<1>8. run'[o].at # "idle" /\ run[o].alone => KnowOf(run'[o], res'[s], stored'[s])
  BY <1>1, <1>2 DEF PrintUrl, At, End, Idle, NoUrl, TypeInv, StepOf, ResOf, KnowOf, Run, Url,
       Resource
<1> QED
  BY <1>1, <1>3, <1>4, <1>5, <1>6, <1>7, <1>8, Local

LEMMA PlanKeeps ==
  ASSUME Inv, NEW o \in Ops, Plan(o)
  PROVE  Inv'
<1> DEFINE s == run[o].stage
<1>1. /\ run[o] \in Run /\ s \in Stages /\ run[o].at # "idle"
      /\ res[s] \in Resource /\ stored[s] \in Url
      /\ StepOf(run[o]) /\ ResOf(res[s], stored[s])
      /\ run[o].alone => KnowOf(run[o], res[s], stored[s])
  BY DEF Plan, At, Inv, TypeInv, StepInv, ResInv, KnowInv
<1>2. TypeInv
  BY DEF Inv
<1>3. Moves(o)
  BY <1>1, <1>2, StepsOn DEF Plan, At, Stage, Mine, Reached, Others, Steps, Run, Url, Resource
<1>4. Changed(o, res'[s])
  BY <1>1, <1>2, Stays DEF Plan, Changed
<1>5. /\ UNCHANGED <<provider, root, project>>
      /\ stored' \in [Stages -> Url] /\ \A t \in Stages : t # s => stored'[t] = stored[t]
  BY <1>1, <1>2 DEF Plan, TypeInv
<1>9. \/ run'[o].at = "idle"
      \/ provider = "neon" /\ Continues(o) /\ run'[o].at = "endpoint"
      \/ Continues(o) /\ run'[o].at = "delete"
      \/ /\ s = root /\ provider = "neon"
         /\ Continues(o) /\ run'[o].at = "project" /\ run'[o].absent = Stages
  <2>1. CASE End(o)
    BY <1>2, <2>1, Ends
  <2>2. ASSUME NEW l \in Steps, Goto(o, l) PROVE Continues(o) /\ run'[o].at = l
    BY <1>2, <2>2, Goes
  <2>3. ASSUME Others(root) = {},
               run' = [run EXCEPT ![o].at = "project", ![o].absent = Stages \ Others(root)]
        PROVE  Continues(o) /\ run'[o].at = "project" /\ run'[o].absent = Stages
    <3>1. Stages \ Others(root) = Stages
      BY <2>3
    <3>2. run' = [run EXCEPT ![o].at = "project", ![o].absent = Stages]
      BY <2>3, <3>1
    <3> QED
      BY <1>2, <3>2, GoesPlanned DEF Steps
  <2> QED
    BY <2>1, <2>2, <2>3 DEF Plan, Mine, Stage, Steps
<1>10. run[o].at = "plan" /\ stored' = stored /\ res'[s] = res[s]
  BY DEF Plan, At
<1>6. StepOf(run'[o])
  BY <1>1, <1>2, <1>9, <1>10 DEF Continues, StepOf, ResOf, Gone, TypeInv
<1>7. ResOf(res'[s], stored'[s])
  BY <1>1, <1>5, <1>9, <1>10 DEF Continues, StepOf, ResOf, Gone, Resource
<1>8. run'[o].at # "idle" /\ run[o].alone => KnowOf(run'[o], res'[s], stored'[s])
  BY <1>1, <1>9, <1>10 DEF Continues, StepOf, ResOf, Gone, KnowOf, Resource
<1> QED
  BY <1>1, <1>3, <1>4, <1>5, <1>6, <1>7, <1>8, Local

LEMMA DeleteEndpointKeeps ==
  ASSUME Inv, NEW o \in Ops, DeleteEndpoint(o)
  PROVE  Inv'
<1> DEFINE s == run[o].stage
<1>1. /\ run[o] \in Run /\ s \in Stages /\ run[o].at # "idle"
      /\ res[s] \in Resource /\ stored[s] \in Url
      /\ StepOf(run[o]) /\ ResOf(res[s], stored[s])
      /\ run[o].alone => KnowOf(run[o], res[s], stored[s])
  BY DEF DeleteEndpoint, At, Inv, TypeInv, StepInv, ResInv, KnowInv
<1>2. TypeInv
  BY DEF Inv
<1>3. Moves(o)
  BY <1>1, <1>2, StepsOn DEF DeleteEndpoint, At, Mine, Stage, Steps
<1>4. Changed(o, res'[s])
  BY <1>1, <1>2, Sets, Stays DEF DeleteEndpoint, At, Mine, Stage, NoUrl, Changed, Resource
<1>5. /\ UNCHANGED <<provider, root, project>>
      /\ stored' \in [Stages -> Url] /\ \A t \in Stages : t # s => stored'[t] = stored[t]
  BY <1>1, <1>2 DEF DeleteEndpoint, TypeInv
<1>9. \/ run'[o].at = "idle" /\ res'[s] = res[s]
      \/ /\ ~(res[s].endpoint = 0) /\ res'[s] = [res[s] EXCEPT !.endpoint = 0]
         /\ Continues(o) /\ run'[o].at = "delete"
  <2>1. CASE res[s].endpoint = 0
    BY <1>1, <1>2, <2>1, Ends DEF DeleteEndpoint, Mine, Stage
  <2>2. CASE ~(res[s].endpoint = 0)
    <3>1. [res[s] EXCEPT !.endpoint = 0] \in Resource
      BY <1>1 DEF Resource
    <3>2. Changed(o, [res[s] EXCEPT !.endpoint = 0])
      BY <1>1, <1>2, <2>2, <3>1, Sets DEF DeleteEndpoint, Mine, Stage
    <3>3. Continues(o) /\ run'[o].at = "delete"
      BY <1>1, <1>2, <2>2, Goes DEF DeleteEndpoint, Mine, Stage, Steps
    <3> QED
      BY <2>2, <3>2, <3>3 DEF Changed
  <2> QED
    BY <2>1, <2>2
<1>10. run[o].at = "endpoint" /\ stored' = stored
  BY DEF DeleteEndpoint, At
<1>6. StepOf(run'[o])
  BY <1>1, <1>2, <1>9, <1>10 DEF Continues, StepOf, ResOf, Gone, TypeInv
<1>7. ResOf(res'[s], stored'[s])
  BY <1>1, <1>5, <1>9, <1>10 DEF Continues, StepOf, ResOf, Gone, Resource
<1>8. run'[o].at # "idle" /\ run[o].alone => KnowOf(run'[o], res'[s], stored'[s])
  BY <1>1, <1>9, <1>10 DEF Continues, StepOf, ResOf, Gone, KnowOf, Resource
<1> QED
  BY <1>1, <1>3, <1>4, <1>5, <1>6, <1>7, <1>8, Local

LEMMA DeleteKeeps ==
  ASSUME Inv, NEW o \in Ops, Delete(o)
  PROVE  Inv'
<1> DEFINE s == run[o].stage
<1>1. /\ run[o] \in Run /\ s \in Stages /\ run[o].at # "idle"
      /\ res[s] \in Resource /\ stored[s] \in Url
      /\ StepOf(run[o]) /\ ResOf(res[s], stored[s])
      /\ run[o].alone => KnowOf(run[o], res[s], stored[s])
  BY DEF Delete, At, Inv, TypeInv, StepInv, ResInv, KnowInv
<1>2. TypeInv
  BY DEF Inv
<1>3. Moves(o)
  BY <1>1, <1>2, StepsOn DEF Delete, At, Stage, Steps
<1>4. Changed(o, res'[s])
  BY <1>1, <1>2, Sets, Stays DEF Delete, Gone, At, Stage, NoUrl, Changed, Resource
<1>5. /\ UNCHANGED <<provider, root, project>>
      /\ stored' \in [Stages -> Url] /\ \A t \in Stages : t # s => stored'[t] = stored[t]
  BY <1>1, <1>2 DEF Delete, TypeInv
<1>6. StepOf(run'[o])
  BY <1>1, <1>2 DEF Delete, Gone, At, End, SetMine, Idle, Stage, NoUrl, TypeInv, StepOf, Run, Url,
       Resource
<1>7. ResOf(res'[s], stored'[s])
  BY <1>1, <1>2 DEF Delete, Gone, At, End, SetMine, Idle, Stage, NoUrl, TypeInv, StepOf, ResOf,
       Run, Url, Resource, Steps, AllCommands
<1>8. run'[o].at # "idle" /\ run[o].alone => KnowOf(run'[o], res'[s], stored'[s])
  BY <1>1, <1>2 DEF Delete, Gone, At, End, SetMine, Idle, Stage, NoUrl, TypeInv, StepOf, ResOf,
       KnowOf, Run, Url, Resource
<1> QED
  BY <1>1, <1>3, <1>4, <1>5, <1>6, <1>7, <1>8, Local

LEMMA CutKeeps ==
  ASSUME Inv, NEW o \in Ops, Cut(o)
  PROVE  Inv'
<1> DEFINE s == run[o].stage
<1>1. /\ run[o] \in Run /\ s \in Stages /\ run[o].at # "idle"
      /\ res[s] \in Resource /\ stored[s] \in Url
      /\ StepOf(run[o]) /\ ResOf(res[s], stored[s])
      /\ run[o].alone => KnowOf(run[o], res[s], stored[s])
  BY DEF Cut, At, Inv, TypeInv, StepInv, ResInv, KnowInv
<1>2. TypeInv
  BY DEF Inv
<1>3. Moves(o)
  BY <1>1, <1>2, StepsOn DEF Cut, At, Steps
<1>4. Changed(o, res'[s])
  BY <1>1, <1>2, Stays DEF Cut, Changed
<1>5. /\ UNCHANGED <<provider, root, project>>
      /\ stored' \in [Stages -> Url] /\ \A t \in Stages : t # s => stored'[t] = stored[t]
  BY <1>1, <1>2 DEF Cut, TypeInv
<1>6. StepOf(run'[o])
  BY <1>1, <1>2 DEF Cut, At, End, Idle, NoUrl, TypeInv, StepOf, Run, Url, Resource
<1>7. ResOf(res'[s], stored'[s])
  BY <1>1, <1>2 DEF Cut, At, End, Idle, NoUrl, TypeInv, StepOf, ResOf, Run, Url, Resource, Steps,
       AllCommands
<1>8. run'[o].at # "idle" /\ run[o].alone => KnowOf(run'[o], res'[s], stored'[s])
  BY <1>1, <1>2 DEF Cut, At, End, Idle, NoUrl, TypeInv, StepOf, ResOf, KnowOf, Run, Url, Resource
<1> QED
  BY <1>1, <1>3, <1>4, <1>5, <1>6, <1>7, <1>8, Local

-----------------------------------------------------------------------------
(* The steps that concern more than one stage or operator.                  *)
LEMMA DeleteProjectKeeps ==
  ASSUME Inv, NEW o \in Ops, DeleteProject(o)
  PROVE  Inv'
<1>1. /\ TypeInv /\ run[o].at = "project" /\ provider = "neon"
      /\ UNCHANGED <<provider, root, stored>> /\ project' = FALSE
  BY DEF Inv, StepInv, StepOf, DeleteProject, At
<1>2. Moved(o) /\ run'[o].at = "idle"
  BY <1>1, Ends DEF DeleteProject
<1>3. /\ Gone \in Resource /\ res' \in [Stages -> Resource]
      /\ \A s \in Stages : res'[s] = Gone
  BY DEF DeleteProject, Gone, Resource
<1>4. TypeInv'
  BY <1>1, <1>2, <1>3 DEF TypeInv, Moved
<1>5. StepInv'
  BY <1>1, <1>2 DEF Inv, StepInv, Moved, StepOf
<1>6. ResInv'
  BY <1>1, <1>3 DEF Inv, ResInv, ResOf, Gone
<1>7. AloneInv'
  BY <1>1, <1>2 DEF Inv, AloneInv, Moved, Meet
<1>8. KnowInv'
  <2>1. \A p \in Ops : p # o /\ run[p].at # "idle" => ~run[p].alone
    BY <1>1 DEF Inv, AloneInv, Meet, StepInv, StepOf
  <2> QED
    BY <1>2, <2>1 DEF KnowInv, Moved
<1> QED
  BY <1>4, <1>5, <1>6, <1>7, <1>8 DEF Inv

LEMMA BecomeActiveKeeps ==
  ASSUME Inv, NEW s \in Stages, BecomeActive(s)
  PROVE  Inv'
<1>1. /\ TypeInv /\ provider # "neon" /\ res[s].id # 0 /\ res[s] \in Resource
      /\ res' = [res EXCEPT ![s].active = TRUE]
      /\ UNCHANGED <<provider, root, project, stored, run>>
  BY DEF Inv, TypeInv, BecomeActive
<1>2. /\ [res[s] EXCEPT !.active = TRUE] \in Resource
      /\ res' = [res EXCEPT ![s] = [res[s] EXCEPT !.active = TRUE]]
  BY <1>1 DEF TypeInv, Resource
<1>3. /\ res' \in [Stages -> Resource]
      /\ \A t \in Stages : /\ res'[t].id = res[t].id /\ res'[t].endpoint = res[t].endpoint
                           /\ res'[t].role = res[t].role /\ res'[t].database = res[t].database
                           /\ res'[t] = res[t] \/ (t = s /\ res'[t].active)
  BY <1>1, <1>2 DEF TypeInv, Resource
<1>4. TypeInv'
  BY <1>1, <1>3 DEF TypeInv
<1>5. StepInv' /\ AloneInv'
  BY <1>1 DEF Inv, StepInv, StepOf, AloneInv, Meet
<1>6. ResInv'
  BY <1>1, <1>3 DEF Inv, ResInv, ResOf
<1>7. KnowInv'
  <2> SUFFICES ASSUME NEW o \in Ops, run[o].at # "idle", run[o].alone
               PROVE  KnowOf(run[o], res[run[o].stage], stored[run[o].stage])'
    BY <1>1 DEF KnowInv
  <2>1. run[o].stage \in Stages
    BY <1>1 DEF TypeInv
  <2>2. KnowOf(run[o], res[run[o].stage], stored[run[o].stage])
    BY DEF Inv, KnowInv
  <2> QED
    BY <1>1, <1>3, <2>1, <2>2 DEF KnowOf
<1> QED
  BY <1>4, <1>5, <1>6, <1>7 DEF Inv

\* What an operator may ask of a provider.
Asked(c) == /\ c \in AllCommands \ {"none"}
            /\ c = "branch_out" => provider = "neon"
            /\ c = "live" => provider = "tidb"
            /\ c \in {"create", "reset"} => provider # "upstash"

LEMMA CommandsAreAsked ==
  ASSUME TypeInv, NEW c \in Commands
  PROVE  Asked(c)
<1>1. CASE provider = "neon"
  BY <1>1 DEF Commands, NeonCommands, Asked, AllCommands
<1>2. CASE provider = "tidb"
  BY <1>2 DEF Commands, TidbCommands, Asked, AllCommands
<1>3. CASE provider = "upstash" /\ provisioning = "deploy"
  <2>1. Commands = {"delete"}
    BY <1>3 DEF Commands
  <2> QED
    BY <2>1 DEF Asked, AllCommands
<1>4. CASE provider = "upstash" /\ provisioning # "deploy"
  <2>1. Commands = {}
    BY <1>4 DEF Commands
  <2> QED
    BY <2>1
<1> QED
  BY <1>1, <1>2, <1>3, <1>4 DEF TypeInv

LEMMA First ==
  ASSUME NEW c, Asked(c)
  PROVE  /\ c \in {"create", "store", "branch_out"} => FirstStep(c) = "ensure"
         /\ c = "deploy" => FirstStep(c) = "status"
         /\ c = "reset" /\ provider = "neon" => FirstStep(c) = "drop"
         /\ c = "reset" /\ provider # "neon" => FirstStep(c) = "connect"
         /\ c = "live" => FirstStep(c) = "url"
         /\ c = "delete" => FirstStep(c) = "plan"
BY DEF FirstStep

LEMMA BeginKeeps ==
  ASSUME Inv, NEW o \in Ops, NEW c, Asked(c), NEW s \in Stages, Begin(o, c, s)
  PROVE  Inv'
<1> DEFINE r == [Idle EXCEPT !.cmd = c, !.stage = s, !.at = FirstStep(c),
                             !.alone = \A q \in Ops \ {o} : ~Meet(c, s, q)]
<1>1. TypeInv /\ UNCHANGED <<provider, root, project, res, stored>>
  BY DEF Inv, Begin
<1>2. FirstStep(c) \in {"ensure", "status", "drop", "connect", "url", "plan"}
  BY First DEF Asked, AllCommands
<1>3. /\ r \in Run /\ r.cmd = c /\ r.stage = s /\ r.at = FirstStep(c) /\ r.at # "idle"
      /\ r.alone => \A q \in Ops \ {o} : ~Meet(c, s, q)
  BY <1>2 DEF Idle, NoUrl, Run, Url, Steps, Asked
<1>4. \A p \in Ops : [run[p] EXCEPT !.alone = FALSE] \in Run
  BY <1>1 DEF TypeInv, Run
<1>5. run' \in [Ops -> Run] /\ run'[o] = r
  BY <1>1, <1>3, <1>4 DEF Begin, TypeInv
<1>6. \A p \in Ops \ {o} : run'[p] = IF Meet(c, s, p) THEN [run[p] EXCEPT !.alone = FALSE]
                                     ELSE run[p]
  BY DEF Begin
<1>7. \A p \in Ops \ {o} :
        /\ run'[p].cmd = run[p].cmd /\ run'[p].stage = run[p].stage /\ run'[p].at = run[p].at
        /\ run'[p].memo = run[p].memo /\ run'[p].url = run[p].url
        /\ run'[p].absent = run[p].absent
        /\ run'[p].alone => run[p].alone /\ ~Meet(c, s, p)
  BY <1>1, <1>6 DEF TypeInv, Run
<1> HIDE DEF r
<1>8. TypeInv'
  BY <1>1, <1>3, <1>5, <1>7 DEF TypeInv
<1>9. StepInv'
  <2>1. StepOf(r)
    BY <1>1, <1>3, First DEF TypeInv, StepOf, Asked, AllCommands
  <2>2. \A p \in Ops \ {o} : StepOf(run[p])'
    BY <1>1, <1>7 DEF Inv, StepInv, StepOf
  <2>3. StepOf(run[o])'
    BY <1>1, <1>5, <2>1 DEF StepOf
  <2> QED
    BY <2>2, <2>3 DEF StepInv
<1>10. ResInv'
  BY <1>1 DEF Inv, ResInv, ResOf
<1>11. AloneInv'
  <2> SUFFICES ASSUME NEW p \in Ops, NEW q \in Ops, p # q, run'[p].at # "idle", run'[p].alone
               PROVE  ~Meet(run[p].cmd, run[p].stage, q)'
    BY DEF AloneInv
  <2>1. CASE p = o
    BY <1>1, <1>3, <1>5, <1>7, <2>1 DEF Meet
  <2>2. CASE q = o
    BY <1>1, <1>3, <1>5, <1>7, <2>2 DEF Meet
  <2>3. CASE p # o /\ q # o
    BY <1>1, <1>7, <2>3 DEF Meet, Inv, AloneInv
  <2> QED
    BY <2>1, <2>2, <2>3
<1>12. KnowInv'
  <2> SUFFICES ASSUME NEW p \in Ops, run'[p].at # "idle", run'[p].alone
               PROVE  KnowOf(run[p], res[run[p].stage], stored[run[p].stage])'
    BY DEF KnowInv
  <2>1. CASE p = o
    BY <1>1, <1>3, <1>5, <2>1, First DEF KnowOf, Asked, AllCommands
  <2>2. CASE p # o
    <3>1. KnowOf(run[p], res[run[p].stage], stored[run[p].stage])
      BY <1>7, <2>2 DEF Inv, KnowInv
    <3> QED
      BY <1>1, <1>7, <2>2, <3>1 DEF KnowOf
  <2> QED
    BY <2>1, <2>2
<1> QED
  BY <1>8, <1>9, <1>10, <1>11, <1>12 DEF Inv

LEMMA UsedAreStages == Used \subseteq Stages
BY StagesAssumption DEF Used

\* Whoever begins a command begins one that may be asked of the provider.
LEMMA Beginnings ==
  ASSUME TypeInv, NEW o \in Ops, NEW s \in Stages,
         \/ \E c \in Commands : Start(o, c, s)
         \/ \E force \in BOOLEAN : StoreUrl(o, s, force)
         \/ Deploy(o, s)
         \/ Retry(s)
  PROVE  \E p \in Ops, c \in AllCommands : Asked(c) /\ Begin(p, c, s)
<1>1. Asked("store") /\ Asked("deploy")
  BY DEF Asked, AllCommands
<1>2. ASSUME NEW c \in Commands, Start(o, c, s)
      PROVE  \E p \in Ops, d \in AllCommands : Asked(d) /\ Begin(p, d, s)
  <2>1. Asked(c) /\ Begin(o, c, s)
    BY <1>2, CommandsAreAsked DEF Start
  <2> QED
    BY <2>1 DEF Asked
<1>3. CASE (\E force \in BOOLEAN : StoreUrl(o, s, force)) \/ Deploy(o, s)
  BY <1>1, <1>3 DEF StoreUrl, Deploy, AllCommands
<1>4. CASE Retry(s)
  BY <1>1, <1>4, StagesAssumption DEF Retry, AllCommands
<1> QED
  BY <1>2, <1>3, <1>4

LEMMA Initially ==
  ASSUME Init
  PROVE  Inv
<1>1. /\ provider \in {"neon", "tidb", "upstash"} /\ project \in BOOLEAN
      /\ provider = "neon" => project
      /\ root \in Stages \cup {NoStage} /\ (root # NoStage => provider = "neon")
  BY StagesAssumption DEF Init
<1> DEFINE r == [Gone EXCEPT !.id = 1, !.endpoint = 1, !.active = TRUE]
<1>2. r \in Resource /\ Gone \in Resource /\ r.id = 1 /\ r.active /\ Gone.id = 0
  BY DEF Gone, Resource
<1>3. /\ res \in [Stages -> Resource]
      /\ \A s \in Stages : res[s] = Gone \/ (res[s] = r /\ provider = "neon")
  BY <1>1, <1>2, StagesAssumption DEF Init
<1>4. NoUrl \in Url /\ stored \in [Stages -> Url] /\ \A s \in Stages : stored[s] = NoUrl
  BY DEF Init, NoUrl, Url
<1>5. Idle \in Run /\ Idle.at = "idle"
  BY <1>4 DEF Idle, Run, AllCommands, Steps
<1>6. run \in [Ops -> Run] /\ \A o \in Ops : run[o].at = "idle"
  BY <1>5 DEF Init
<1> HIDE DEF r
<1>7. TypeInv
  BY <1>1, <1>3, <1>4, <1>6 DEF TypeInv
<1>8. StepInv /\ AloneInv /\ KnowInv
  BY <1>6 DEF StepInv, StepOf, AloneInv, KnowInv
<1>9. ResInv
  <2> SUFFICES ASSUME NEW s \in Stages PROVE ResOf(res[s], stored[s])
    BY DEF ResInv
  <2>1. CASE res[s] = Gone
    BY <1>2, <1>4, <2>1 DEF ResOf
  <2>2. CASE res[s] = r /\ provider = "neon"
    BY <1>1, <1>2, <1>4, <2>2 DEF ResOf
  <2> QED
    BY <1>3, <2>1, <2>2
<1> QED
  BY <1>7, <1>8, <1>9 DEF Inv

\* The ways to take a step.
LEMMA Actions ==
  ASSUME Inv, Next
  PROVE  \/ \E o \in Ops : Step(o) \/ Cut(o)
         \/ \E p \in Ops, c \in AllCommands, s \in Stages : Asked(c) /\ Begin(p, c, s)
         \/ \E s \in Stages : BecomeActive(s)
<1>1. TypeInv
  BY DEF Inv
<1>2. ASSUME NEW o \in Ops, NEW s \in Stages,
             \/ \E c \in Commands : Start(o, c, s)
             \/ \E force \in BOOLEAN : StoreUrl(o, s, force)
             \/ Deploy(o, s)
      PROVE  \E p \in Ops, c \in AllCommands : Asked(c) /\ Begin(p, c, s)
  BY <1>1, <1>2, Beginnings
<1>3. ASSUME NEW s \in Stages, Retry(s)
      PROVE  \E p \in Ops, c \in AllCommands : Asked(c) /\ Begin(p, c, s)
  BY <1>1, <1>3, Beginnings, StagesAssumption
<1> QED
  BY <1>2, <1>3 DEF Next

LEMMA InvStep ==
  ASSUME Inv, [Next]_vars
  PROVE  Inv'
<1>1. ASSUME NEW o \in Ops, Step(o) PROVE Inv'
  BY <1>1, DeployStatusKeeps, EnsureBranchKeeps, EnsureClusterKeeps, EnsureRedisKeeps,
       CreateBranchKeeps, EnsureRoleKeeps, EnsureDatabaseKeeps, CreateClusterKeeps,
       WaitClusterKeeps, ConnectKeeps, CreateDatabaseKeeps, CreateRedisKeeps, DropDatabaseKeeps,
       KeepManagedKeeps, NeonUrlKeeps, RedisUrlKeeps, TidbUrlKeeps, PutKeeps, PrintUrlKeeps,
       PlanKeeps, DeleteEndpointKeeps, DeleteKeeps, DeleteProjectKeeps DEF Step
<1>2. ASSUME NEW o \in Ops, Cut(o) PROVE Inv'
  BY <1>2, CutKeeps
<1>3. ASSUME NEW p \in Ops, NEW c \in AllCommands, NEW s \in Stages, Asked(c), Begin(p, c, s)
      PROVE  Inv'
  BY <1>3, BeginKeeps
<1>4. ASSUME NEW s \in Stages, BecomeActive(s) PROVE Inv'
  BY <1>4, BecomeActiveKeeps
<1>5. CASE UNCHANGED vars
  <2>1. UNCHANGED <<provider, root, project, res, stored, run>>
    BY <1>5 DEF vars
  <2> QED
    BY <2>1 DEF Inv, TypeInv, StepInv, StepOf, ResInv, ResOf, AloneInv, Meet, KnowInv, KnowOf
<1> QED
  BY Actions, <1>1, <1>2, <1>3, <1>4, <1>5

\* Whatever is begun, repeated, met and cut off: each step of a command finds
\* what the step before left, for a command that is alone also in the stage.
THEOREM Invariance == Spec => []Inv
<1>1. Init => Inv
  BY Initially
<1>2. Inv /\ [Next]_vars => Inv'
  BY InvStep
<1> QED
  BY <1>1, <1>2, PTL DEF Spec

-----------------------------------------------------------------------------
(* What the invariant is for.                                               *)
LEMMA OnlyPutStores ==
  ASSUME NEW o \in Ops, Step(o), ~Put(o)
  PROVE  stored' = stored
<1>1. CASE DeployStatus(o)
  BY <1>1 DEF DeployStatus
<1>2. CASE EnsureBranch(o)
  BY <1>2 DEF EnsureBranch
<1>3. CASE EnsureCluster(o)
  BY <1>3 DEF EnsureCluster
<1>4. CASE EnsureRedis(o)
  BY <1>4 DEF EnsureRedis
<1>5. CASE CreateBranch(o)
  BY <1>5 DEF CreateBranch
<1>6. CASE EnsureRole(o)
  BY <1>6 DEF EnsureRole
<1>7. CASE EnsureDatabase(o)
  BY <1>7 DEF EnsureDatabase
<1>8. CASE CreateCluster(o)
  BY <1>8 DEF CreateCluster
<1>9. CASE WaitCluster(o)
  BY <1>9 DEF WaitCluster
<1>10. CASE Connect(o)
  BY <1>10 DEF Connect
<1>11. CASE CreateDatabase(o)
  BY <1>11 DEF CreateDatabase
<1>12. CASE CreateRedis(o)
  BY <1>12 DEF CreateRedis
<1>13. CASE DropDatabase(o)
  BY <1>13 DEF DropDatabase
<1>14. CASE KeepManaged(o)
  BY <1>14 DEF KeepManaged
<1>15. CASE NeonUrl(o)
  BY <1>15 DEF NeonUrl
<1>16. CASE RedisUrl(o)
  BY <1>16 DEF RedisUrl
<1>17. CASE TidbUrl(o)
  BY <1>17 DEF TidbUrl
<1>18. CASE PrintUrl(o)
  BY <1>18 DEF PrintUrl
<1>19. CASE Plan(o)
  BY <1>19 DEF Plan
<1>20. CASE DeleteEndpoint(o)
  BY <1>20 DEF DeleteEndpoint
<1>21. CASE Delete(o)
  BY <1>21 DEF Delete
<1>22. CASE DeleteProject(o)
  BY <1>22 DEF DeleteProject
<1> QED
  BY <1>1, <1>2, <1>3, <1>4, <1>5, <1>6, <1>7, <1>8, <1>9, <1>10, <1>11, <1>12, <1>13, <1>14,
       <1>15, <1>16, <1>17, <1>18, <1>19, <1>20, <1>21, <1>22 DEF Step

\* A request for one stage does not touch the URL of another.
LEMMA BreaksItsOwn ==
  ASSUME TypeInv, NEW o \in Ops, NEW m, SetMine(o, m), UNCHANGED stored,
         NEW s \in Stages, Connects(s), ~Connects(s)'
  PROVE  run[o].stage = s
BY DEF TypeInv, SetMine, Stage, Connects

\* What only adds to a resource breaks no URL.
Adds(s) == /\ res'[s].active = res[s].active /\ res'[s].endpoint = res[s].endpoint
           /\ res'[s].role = res[s].role /\ (res[s].database => res'[s].database)
LEMMA AddingBreaksNothing ==
  ASSUME NEW s \in Stages, UNCHANGED stored, Adds(s), Connects(s)
  PROVE  Connects(s)'
BY DEF Connects, Adds

\* Nothing that works is missing, or has no password.
LEMMA WhatConnects ==
  ASSUME Inv, NEW s \in Stages, Connects(s)
  PROVE  res[s].id # 0 /\ res[s].role # 0
<1>1. res[s].id # 0
  BY DEF Inv, ResInv, ResOf, Connects, Gone
<1>2. res[s].role # 0
  BY DEF Inv, ResInv, ResOf, Connects
<1> QED
  BY <1>1, <1>2

\* A step that takes a URL away sends a request of a command that may.
LEMMA StepIsAccounted ==
  ASSUME Inv, NEW o \in Ops, Step(o), NEW s \in Stages, Connects(s), ~Connects(s)'
  PROVE  Accounted(s)
<1>1. /\ TypeInv /\ StepOf(run[o]) /\ run[o] \in Run
      /\ \A t \in Stages : res[t] \in Resource
      /\ run[o].at # "idle" /\ run[o].alone =>
            KnowOf(run[o], res[run[o].stage], stored[run[o].stage])
  BY DEF Inv, TypeInv, StepInv, KnowInv
<1>2. res[s].id # 0 /\ res[s].role # 0
  BY WhatConnects
<1>3. ~(res' = res /\ stored' = stored)
  BY DEF Connects
<1>4. CASE CreateBranch(o)
  <2>1. ASSUME NEW m, SetMine(o, m), res[run[o].stage].id = 0, UNCHANGED stored PROVE FALSE
    BY <1>1, <1>2, <2>1, BreaksItsOwn
  <2> QED
    BY <1>3, <1>4, <2>1 DEF CreateBranch, Mine, Stage
<1>5. CASE EnsureRole(o)
  <2> DEFINE m == [Mine(o) EXCEPT !.role = IF @ = 0 THEN New ELSE @]
  <2>1. SetMine(o, m) /\ UNCHANGED stored
    BY <1>3, <1>5 DEF EnsureRole
  <2>2. run[o].stage = s
    BY <1>1, <2>1, BreaksItsOwn
  <2>3. res'[s] = [res[s] EXCEPT !.role = IF @ = 0 THEN New ELSE @]
    BY <1>1, <2>1, <2>2 DEF SetMine, Stage, Mine, TypeInv
  <2>4. Adds(s)
    BY <1>1, <1>2, <2>3 DEF Adds, Resource
  <2> QED
    BY <2>1, <2>4, AddingBreaksNothing
<1>6. CASE EnsureDatabase(o)
  <2>1. SetMine(o, [Mine(o) EXCEPT !.database = TRUE]) /\ UNCHANGED stored
    BY <1>3, <1>6 DEF EnsureDatabase
  <2>2. run[o].stage = s
    BY <1>1, <2>1, BreaksItsOwn
  <2>3. res'[s] = [res[s] EXCEPT !.database = TRUE]
    BY <1>1, <2>1, <2>2 DEF SetMine, Stage, Mine, TypeInv
  <2>4. Adds(s)
    BY <1>1, <2>3 DEF Adds, Resource
  <2> QED
    BY <2>1, <2>4, AddingBreaksNothing
<1>7. CASE CreateDatabase(o)
  <2>1. SetMine(o, [Cluster(o) EXCEPT !.database = TRUE]) /\ UNCHANGED stored
    BY <1>3, <1>7 DEF CreateDatabase
  <2>2. run[o].stage = s
    BY <1>1, <2>1, BreaksItsOwn
  <2>3. res'[s] = [res[s] EXCEPT !.database = TRUE]
    BY <1>1, <2>1, <2>2 DEF SetMine, Stage, Cluster, TypeInv
  <2>4. Adds(s)
    BY <1>1, <2>3 DEF Adds, Resource
  <2> QED
    BY <2>1, <2>4, AddingBreaksNothing
<1>8. CASE CreateCluster(o) \/ CreateRedis(o)
  <2>1. ASSUME NEW m, SetMine(o, m), res[run[o].stage].id = 0, UNCHANGED stored PROVE FALSE
    BY <1>1, <1>2, <2>1, BreaksItsOwn
  <2> QED
    BY <1>3, <1>8, <2>1 DEF CreateCluster, CreateRedis, Cluster, Redis, Stage
<1>9. ASSUME Rotate(o), UNCHANGED stored, run[o].memo = 0,
             run[o].at = "connect" \/ (run[o].at = "url" /\ provider = "tidb"
                                         /\ (run[o].cmd = "deploy" => stored[Stage(o)] = NoUrl))
      PROVE  Accounted(s)
  <2>1. run[o].stage = s
    BY <1>1, <1>9, BreaksItsOwn DEF Rotate
  <2>2. run'[o] # run[o]
    <3>1. run'[o].memo = New
      BY <1>1, <1>9, NewIsANumber, Remembers DEF Rotate
    <3> QED
      BY <1>9, <3>1, NewIsANumber
  <2>3. \/ run[o].cmd = "reset"
        \/ provider = "tidb" /\ run[o].cmd \in {"create", "live", "store"}
        \/ run[o].cmd = "deploy"
    BY <1>1, <1>9 DEF StepOf
  <2>4. run[o].cmd = "deploy" => ~run[o].alone
    BY <1>1, <1>9, <2>1 DEF KnowOf, Connects, Stage
  <2> QED
    BY <2>1, <2>2, <2>3, <2>4 DEF Accounted
<1>10. CASE Connect(o)
  BY <1>3, <1>9, <1>10 DEF Connect, At
<1>11. CASE TidbUrl(o)
  BY <1>3, <1>9, <1>11 DEF TidbUrl, Computes, At
<1>12. ASSUME NEW m, SetMine(o, m), UNCHANGED stored, run[o].at \in {"drop", "endpoint", "delete"},
              \/ End(o)
              \/ \E l \in Steps \ {run[o].at} : Goto(o, l)
       PROVE  Accounted(s)
  <2>1. run[o].stage = s
    BY <1>1, <1>12, BreaksItsOwn
  <2>2. run'[o] # run[o]
    BY <1>1, <1>12, Ends, Goes
  <2>3. run[o].cmd \in {"delete", "reset"}
    BY <1>1, <1>12 DEF StepOf
  <2> QED
    BY <2>1, <2>2, <2>3 DEF Accounted
<1>13. CASE DropDatabase(o)
  BY <1>3, <1>12, <1>13 DEF DropDatabase, At, Steps
<1>14. CASE DeleteEndpoint(o)
  BY <1>3, <1>12, <1>14 DEF DeleteEndpoint, At, Steps
<1>15. CASE Delete(o)
  BY <1>12, <1>15 DEF Delete, At
<1>16. CASE DeleteProject(o)
  <2>1. project
    BY <1>1, <1>2, <1>16 DEF DeleteProject, At, Inv, ResInv, ResOf, StepOf
  <2> QED
    BY <1>16, <2>1 DEF DeleteProject, Accounted
<1>17. CASE Put(o)
  <2>1. /\ run[o].at = "put" /\ End(o) /\ res' = res
        /\ stored' = [stored EXCEPT ![run[o].stage] = run[o].url]
    BY <1>17 DEF Put, At, Stage
  <2>2. run[o].stage = s
    BY <1>1, <2>1 DEF Connects, TypeInv
  <2>3. run'[o] # run[o]
    BY <1>1, <2>1, Ends
  <2>4. run[o].alone => provider = "tidb" /\ run[o].cmd = "store"
    <3> SUFFICES ASSUME run[o].alone PROVE provider = "tidb" /\ run[o].cmd = "store"
      OBVIOUS
    <3>1. KnowOf(run[o], res[s], stored[s])
      BY <1>1, <2>1, <2>2
    <3>2. run[o].cmd # "deploy"
      BY <2>1, <3>1 DEF KnowOf, Connects
    <3>3. stored'[s] = run[o].url
      BY <1>1, <2>1, <2>2 DEF TypeInv
    <3>4. run[o].url = stored[s]
      BY <2>1, <3>1, <3>2 DEF KnowOf, Connects
    <3> QED
      BY <2>1, <3>3, <3>4 DEF Connects
  <2>5. run[o].cmd \in {"store", "deploy"}
    BY <1>1, <2>1 DEF StepOf
  <2> QED
    BY <2>2, <2>3, <2>4, <2>5 DEF Accounted
<1>18. CASE DeployStatus(o)
  BY <1>3, <1>18 DEF DeployStatus
<1>19. CASE EnsureBranch(o)
  BY <1>3, <1>19 DEF EnsureBranch
<1>20. CASE EnsureCluster(o)
  BY <1>3, <1>20 DEF EnsureCluster
<1>21. CASE EnsureRedis(o)
  BY <1>3, <1>21 DEF EnsureRedis
<1>22. CASE WaitCluster(o)
  BY <1>3, <1>22 DEF WaitCluster
<1>23. CASE KeepManaged(o)
  BY <1>3, <1>23 DEF KeepManaged
<1>24. CASE NeonUrl(o)
  BY <1>3, <1>24 DEF NeonUrl
<1>25. CASE RedisUrl(o)
  BY <1>3, <1>25 DEF RedisUrl
<1>26. CASE PrintUrl(o)
  BY <1>3, <1>26 DEF PrintUrl
<1>27. CASE Plan(o)
  BY <1>3, <1>27 DEF Plan
<1> QED
  BY <1>4, <1>5, <1>6, <1>7, <1>8, <1>10, <1>11, <1>13, <1>14, <1>15, <1>16, <1>17, <1>18, <1>19,
       <1>20, <1>21, <1>22, <1>23, <1>24, <1>25, <1>26, <1>27 DEF Step

\* A URL that works stops working by a command for its own stage that says so,
\* by one that met another, or with the whole project.
THEOREM OthersDoNotBreak == Spec => OnlyOwnCommandsBreak
<1>1. Inv /\ [Next]_vars =>
        [\A s \in Stages : Connects(s) /\ ~Connects(s)' => Accounted(s)]_vars
  <2> SUFFICES ASSUME Inv, Next, NEW s \in Stages, Connects(s), ~Connects(s)'
               PROVE  Accounted(s)
    OBVIOUS
  <2>1. CASE \E o \in Ops : Step(o)
    BY <2>1, StepIsAccounted
  <2>2. CASE \E o \in Ops : Cut(o)
    BY <2>2 DEF Cut, Connects
  <2>3. CASE \E p \in Ops, c \in AllCommands, t \in Stages : Asked(c) /\ Begin(p, c, t)
    BY <2>3 DEF Begin, Connects
  <2>4. ASSUME NEW t \in Stages, BecomeActive(t) PROVE Accounted(s)
    <3>1. /\ res'[s].active /\ res'[s].endpoint = res[s].endpoint
          /\ res'[s].role = res[s].role /\ res'[s].database = res[s].database
      BY <2>4 DEF BecomeActive, Inv, TypeInv, Resource, Connects
    <3> QED
      BY <2>4, <3>1 DEF BecomeActive, Connects
  <2> QED
    BY Actions, <2>1, <2>2, <2>3, <2>4
<1> QED
  BY <1>1, Invariance, PTL DEF Spec, OnlyOwnCommandsBreak

\* A command that met nobody stores a URL that connects.
THEOREM StoredUrlConnects == Spec => PutConnects
<1>1. Inv /\ [Next]_vars =>
        [\A o \in Ops, s \in Stages :
           Puts(o, s) /\ stored'[s] # stored[s] /\ run[o].alone
               /\ ~(provider = "tidb" /\ run[o].cmd = "deploy")
           => Connects(s)']_vars
  <2> SUFFICES ASSUME Inv, Next, NEW o \in Ops, NEW s \in Stages, Puts(o, s),
                      stored'[s] # stored[s], run[o].alone,
                      ~(provider = "tidb" /\ run[o].cmd = "deploy")
               PROVE  Connects(s)'
    OBVIOUS
  <2>1. /\ TypeInv /\ run[o].at = "put" /\ run[o].stage = s
        /\ stored'[s] = run[o].url /\ run'[o] # run[o]
    BY DEF Puts, At, Stage, Idle, Inv
  <2>2. PICK p \in Ops : Put(p)
    <3>1. CASE \E p \in Ops : Step(p)
      BY <3>1, OnlyPutStores
    <3>2. CASE \E p \in Ops : Cut(p)
      BY <3>2 DEF Cut
    <3>3. CASE \E p \in Ops, c \in AllCommands, t \in Stages : Asked(c) /\ Begin(p, c, t)
      BY <3>3 DEF Begin
    <3>4. CASE \E t \in Stages : BecomeActive(t)
      BY <3>4 DEF BecomeActive
    <3> QED
      BY Actions, <3>1, <3>2, <3>3, <3>4
  <2>3. res' = res
    BY <2>2 DEF Put
  <2>4. /\ KnowOf(run[o], res[s], stored[s]) /\ StepOf(run[o])
    BY <2>1 DEF Inv, KnowInv, StepInv
  <2>5. /\ run[o].url = [endpoint |-> res[s].endpoint, password |-> res[s].role]
        /\ res[s].active /\ res[s].database
    BY <2>1, <2>4 DEF KnowOf
  <2>6. run[o].url # NoUrl
    BY <2>1, <2>4 DEF StepOf, NoUrl
  <2> QED
    BY <2>1, <2>3, <2>5, <2>6 DEF Connects
<1> QED
  BY <1>1, Invariance, PTL DEF Spec, PutConnects

\* A project goes only for a root stage that was planned alone in it.
THEOREM SeenBranchesAreKept == Spec => NoSeenBranchLost
<1>1. Inv /\ [Next]_vars =>
        [project /\ ~project' =>
          \E o \in Ops : run[o].cmd = "delete" /\ Others(run[o].stage) \subseteq run[o].absent]_vars
  <2> SUFFICES ASSUME Inv, Next, project, ~project'
               PROVE  \E o \in Ops : /\ run[o].cmd = "delete"
                                     /\ Others(run[o].stage) \subseteq run[o].absent
    OBVIOUS
  <2>1. ASSUME NEW o \in Ops, Step(o), ~DeleteProject(o) PROVE project' = project
    <3>1. CASE DeployStatus(o)
      BY <3>1 DEF DeployStatus
    <3>2. CASE EnsureBranch(o)
      BY <3>2 DEF EnsureBranch
    <3>3. CASE EnsureCluster(o)
      BY <3>3 DEF EnsureCluster
    <3>4. CASE EnsureRedis(o)
      BY <3>4 DEF EnsureRedis
    <3>5. CASE CreateBranch(o)
      BY <3>5 DEF CreateBranch
    <3>6. CASE EnsureRole(o)
      BY <3>6 DEF EnsureRole
    <3>7. CASE EnsureDatabase(o)
      BY <3>7 DEF EnsureDatabase
    <3>8. CASE CreateCluster(o)
      BY <3>8 DEF CreateCluster
    <3>9. CASE WaitCluster(o)
      BY <3>9 DEF WaitCluster
    <3>10. CASE Connect(o)
      BY <3>10 DEF Connect
    <3>11. CASE CreateDatabase(o)
      BY <3>11 DEF CreateDatabase
    <3>12. CASE CreateRedis(o)
      BY <3>12 DEF CreateRedis
    <3>13. CASE DropDatabase(o)
      BY <3>13 DEF DropDatabase
    <3>14. CASE KeepManaged(o)
      BY <3>14 DEF KeepManaged
    <3>15. CASE NeonUrl(o)
      BY <3>15 DEF NeonUrl
    <3>16. CASE RedisUrl(o)
      BY <3>16 DEF RedisUrl
    <3>17. CASE TidbUrl(o)
      BY <3>17 DEF TidbUrl
    <3>18. CASE Put(o)
      BY <3>18 DEF Put
    <3>19. CASE PrintUrl(o)
      BY <3>19 DEF PrintUrl
    <3>20. CASE Plan(o)
      BY <3>20 DEF Plan
    <3>21. CASE DeleteEndpoint(o)
      BY <3>21 DEF DeleteEndpoint
    <3>22. CASE Delete(o)
      BY <3>22 DEF Delete
    <3> QED
      BY <2>1, <3>1, <3>2, <3>3, <3>4, <3>5, <3>6, <3>7, <3>8, <3>9, <3>10, <3>11, <3>12, <3>13,
           <3>14, <3>15, <3>16, <3>17, <3>18, <3>19, <3>20, <3>21, <3>22 DEF Step
  <2>2. PICK o \in Ops : DeleteProject(o)
    <3>1. CASE \E o \in Ops : Cut(o)
      BY <3>1 DEF Cut
    <3>2. CASE \E p \in Ops, c \in AllCommands, t \in Stages : Asked(c) /\ Begin(p, c, t)
      BY <3>2 DEF Begin
    <3>3. CASE \E t \in Stages : BecomeActive(t)
      BY <3>3 DEF BecomeActive
    <3> QED
      BY Actions, <2>1, <3>1, <3>2, <3>3
  <2>3. run[o].cmd = "delete" /\ run[o].absent = Stages
    BY <2>2 DEF DeleteProject, At, Inv, StepInv, StepOf
  <2> QED
    BY <2>3 DEF Others
<1> QED
  BY <1>1, Invariance, PTL DEF Spec, NoSeenBranchLost

-----------------------------------------------------------------------------
(* Which numbers are held.  A step gives nobody a number but one that was    *)
(* held, 0, or the new one, which is why so few of them are enough; and an   *)
(* endpoint and a password are put into a URL together.                      *)
Numbers == Held \cup {0, New}
Whole(u) == u.endpoint = 0 <=> u.password = 0

UrlFits(u) == u.endpoint \in Numbers /\ u.password \in Numbers /\ Whole(u)
RunFits(r) == r.memo \in Numbers /\ UrlFits(r.url)
ResFits(m) == /\ m.id \in Numbers /\ m.endpoint \in Numbers /\ m.role \in Numbers
              /\ provider # "neon" /\ m.id # 0 => m.endpoint # 0

\* With TiDB and Upstash whoever has a resource has its host.
WholeInv == /\ \A s \in Stages : Whole(stored[s])
            /\ \A s \in Stages : provider # "neon" /\ res[s].id # 0 => res[s].endpoint # 0
            /\ \A o \in Ops : Whole(run[o].url)

LEMMA HeldFits ==
  ASSUME WholeInv
  PROVE  /\ \A s \in Stages : ResFits(res[s]) /\ UrlFits(stored[s])
         /\ \A o \in Ops : RunFits(run[o])
         /\ UrlFits(NoUrl) /\ RunFits(Idle) /\ ResFits(Gone)
<1>1. /\ \A s \in Stages : {res[s].id, res[s].endpoint, res[s].role, stored[s].endpoint,
                             stored[s].password} \subseteq Held
      /\ \A o \in Ops : {run[o].memo, run[o].url.endpoint, run[o].url.password} \subseteq Held
  BY DEF Held
<1>2. Held \subseteq Numbers /\ 0 \in Numbers
  BY DEF Numbers
<1>3. UrlFits(NoUrl) /\ RunFits(Idle) /\ ResFits(Gone)
  BY <1>2 DEF UrlFits, RunFits, ResFits, Whole, NoUrl, Idle, Gone
<1> QED
  BY <1>1, <1>2, <1>3 DEF WholeInv, UrlFits, RunFits, ResFits

\* What a command that goes on has in its memory.
LEMMA RunStaysFit ==
  ASSUME TypeInv, WholeInv, NEW o \in Ops,
         \/ End(o)
         \/ \E l \in Steps : Goto(o, l)
         \/ \E n \in Numbers : run' = [run EXCEPT ![o].memo = n]
         \/ \E l \in Steps, n \in Numbers : run' = [run EXCEPT ![o].at = l, ![o].memo = n]
         \/ \E l \in Steps, u \in Url :
               UrlFits(u) /\ run' = [run EXCEPT ![o].at = l, ![o].url = u]
         \/ \E l \in Steps, S \in SUBSET Stages :
               run' = [run EXCEPT ![o].at = l, ![o].absent = S]
  PROVE  \A p \in Ops : RunFits(run'[p])
<1>1. ASSUME NEW r, run' = [run EXCEPT ![o] = r], RunFits(r)
      PROVE  \A p \in Ops : RunFits(run'[p])
  BY <1>1, HeldFits DEF TypeInv
<1>2. run[o] \in Run /\ RunFits(run[o])
  BY HeldFits DEF TypeInv
<1>3. CASE End(o)
  BY <1>1, <1>3, HeldFits DEF End
<1>4. CASE \E l \in Steps : Goto(o, l)
  <2>1. PICK l \in Steps : run' = [run EXCEPT ![o] = [run[o] EXCEPT !.at = l]]
    BY <1>4 DEF Goto
  <2>2. RunFits([run[o] EXCEPT !.at = l])
    BY <1>2 DEF RunFits, Run
  <2> QED
    BY <1>1, <2>1, <2>2
<1>5. CASE \E n \in Numbers : run' = [run EXCEPT ![o].memo = n]
  <2>1. PICK n \in Numbers : run' = [run EXCEPT ![o] = [run[o] EXCEPT !.memo = n]]
    BY <1>5
  <2>2. RunFits([run[o] EXCEPT !.memo = n])
    BY <1>2 DEF RunFits, Run
  <2> QED
    BY <1>1, <2>1, <2>2
<1>6. CASE \E l \in Steps, n \in Numbers : run' = [run EXCEPT ![o].at = l, ![o].memo = n]
  <2>1. PICK l \in Steps, n \in Numbers :
          run' = [run EXCEPT ![o] = [run[o] EXCEPT !.at = l, !.memo = n]]
    BY <1>6 DEF TypeInv
  <2>2. RunFits([run[o] EXCEPT !.at = l, !.memo = n])
    BY <1>2 DEF RunFits, Run
  <2> QED
    BY <1>1, <2>1, <2>2
<1>7. CASE \E l \in Steps, u \in Url :
             UrlFits(u) /\ run' = [run EXCEPT ![o].at = l, ![o].url = u]
  <2>1. PICK l \in Steps, u \in Url :
          UrlFits(u) /\ run' = [run EXCEPT ![o] = [run[o] EXCEPT !.at = l, !.url = u]]
    BY <1>7 DEF TypeInv
  <2>2. RunFits([run[o] EXCEPT !.at = l, !.url = u])
    BY <1>2, <2>1 DEF RunFits, Run
  <2> QED
    BY <1>1, <2>1, <2>2
<1>8. CASE \E l \in Steps, S \in SUBSET Stages :
             run' = [run EXCEPT ![o].at = l, ![o].absent = S]
  <2>1. PICK l \in Steps, S \in SUBSET Stages :
          run' = [run EXCEPT ![o] = [run[o] EXCEPT !.at = l, !.absent = S]]
    BY <1>8 DEF TypeInv
  <2>2. RunFits([run[o] EXCEPT !.at = l, !.absent = S])
    BY <1>2 DEF RunFits, Run
  <2> QED
    BY <1>1, <2>1, <2>2
<1> QED
  BY <1>3, <1>4, <1>5, <1>6, <1>7, <1>8

LEMMA ResStaysFit ==
  ASSUME TypeInv, WholeInv, NEW o \in Ops,
         UNCHANGED res \/ \E m : ResFits(m) /\ SetMine(o, m)
  PROVE  \A s \in Stages : ResFits(res'[s])
BY HeldFits DEF TypeInv, SetMine, Stage

\* Every step of a command keeps to the numbers.
LEMMA StepFits ==
  ASSUME Inv, WholeInv, NEW o \in Ops, Step(o)
  PROVE  /\ \A s \in Stages : ResFits(res'[s]) /\ UrlFits(stored'[s])
         /\ \A p \in Ops : RunFits(run'[p])
<1> DEFINE s == run[o].stage
           m == res[s]
<1> USE DEF At
<1>1. TypeInv /\ run[o].at # "idle" /\ run[o] \in Run
  BY DEF Inv, TypeInv, Step, DeployStatus, EnsureBranch, EnsureCluster, EnsureRedis,
     CreateBranch, EnsureRole, EnsureDatabase, CreateCluster, WaitCluster, Connect,
     CreateDatabase, CreateRedis, DropDatabase, KeepManaged, NeonUrl, RedisUrl, TidbUrl,
     Computes, Put, PrintUrl, Plan, DeleteEndpoint, Delete, DeleteProject
<1>2. /\ s \in Stages /\ m \in Resource /\ ResFits(m)
      /\ RunFits(run[o]) /\ StepOf(run[o]) /\ ResOf(m, stored[s])
  BY <1>1, HeldFits DEF Inv, TypeInv, StepInv, ResInv
<1>3. New \in Numbers /\ 0 \in Numbers /\ New \in Nat /\ New # 0
  BY NewIsANumber DEF Numbers
<1>4. ASSUME NEW n \in {0, New}, NEW b \in BOOLEAN
      PROVE  /\ ResFits([m EXCEPT !.role = New])
             /\ ResFits([m EXCEPT !.role = IF @ = 0 THEN New ELSE @])
             /\ ResFits([m EXCEPT !.database = b])
             /\ ResFits([id |-> New, endpoint |-> New, role |-> New, database |-> b,
                        active |-> FALSE])
             /\ provider = "neon" => ResFits([m EXCEPT !.endpoint = n])
  BY <1>2, <1>3 DEF ResFits, Resource
<1>5. ASSUME UNCHANGED stored, UNCHANGED res \/ \E r : ResFits(r) /\ SetMine(o, r)
      PROVE  \A t \in Stages : ResFits(res'[t]) /\ UrlFits(stored'[t])
  <2>1. \A t \in Stages : ResFits(res'[t])
    BY <1>1, <1>5, ResStaysFit
  <2> QED
    BY <1>5, <2>1, HeldFits
<1>6. CASE DeployStatus(o)
  <2>1. \A t \in Stages : ResFits(res'[t]) /\ UrlFits(stored'[t])
    BY <1>6, <1>5 DEF DeployStatus
  <2>2. \A p \in Ops : RunFits(run'[p])
    BY <1>6, <1>1, RunStaysFit DEF DeployStatus, Steps
  <2> QED
    BY <2>1, <2>2
<1>7. CASE EnsureBranch(o)
  <2>1. \A t \in Stages : ResFits(res'[t]) /\ UrlFits(stored'[t])
    BY <1>7, <1>5 DEF EnsureBranch
  <2>2. \A p \in Ops : RunFits(run'[p])
    BY <1>7, <1>1, RunStaysFit DEF EnsureBranch, Steps
  <2> QED
    BY <2>1, <2>2
<1>8. CASE EnsureCluster(o)
  <2>1. \A t \in Stages : ResFits(res'[t]) /\ UrlFits(stored'[t])
    BY <1>8, <1>5 DEF EnsureCluster
  <2>2. \A p \in Ops : RunFits(run'[p])
    BY <1>8, <1>1, RunStaysFit DEF EnsureCluster, Steps
  <2> QED
    BY <2>1, <2>2
<1>9. CASE EnsureRedis(o)
  <2>1. \A t \in Stages : ResFits(res'[t]) /\ UrlFits(stored'[t])
    BY <1>9, <1>5 DEF EnsureRedis
  <2>2. \A p \in Ops : RunFits(run'[p])
    BY <1>9, <1>1, RunStaysFit DEF EnsureRedis, Steps
  <2> QED
    BY <2>1, <2>2
<1>10. CASE WaitCluster(o)
  <2>1. \A t \in Stages : ResFits(res'[t]) /\ UrlFits(stored'[t])
    BY <1>10, <1>5 DEF WaitCluster
  <2>2. \A p \in Ops : RunFits(run'[p])
    BY <1>10, <1>1, RunStaysFit DEF WaitCluster, Steps
  <2> QED
    BY <2>1, <2>2
<1>11. CASE KeepManaged(o)
  <2>1. \A t \in Stages : ResFits(res'[t]) /\ UrlFits(stored'[t])
    BY <1>11, <1>5 DEF KeepManaged
  <2>2. \A p \in Ops : RunFits(run'[p])
    BY <1>11, <1>1, RunStaysFit DEF KeepManaged
  <2> QED
    BY <2>1, <2>2
<1>12. CASE PrintUrl(o)
  <2>1. \A t \in Stages : ResFits(res'[t]) /\ UrlFits(stored'[t])
    BY <1>12, <1>5 DEF PrintUrl
  <2>2. \A p \in Ops : RunFits(run'[p])
    BY <1>12, <1>1, RunStaysFit DEF PrintUrl
  <2> QED
    BY <2>1, <2>2
<1>13. CASE Plan(o)
  <2>1. \A t \in Stages : ResFits(res'[t]) /\ UrlFits(stored'[t])
    BY <1>13, <1>5 DEF Plan
  <2>2. \A p \in Ops : RunFits(run'[p])
    BY <1>13, <1>1, RunStaysFit DEF Plan, Steps, Others
  <2> QED
    BY <2>1, <2>2
<1>14. CASE EnsureRole(o)
  <2>1. \A t \in Stages : ResFits(res'[t]) /\ UrlFits(stored'[t])
    BY <1>14, <1>4, <1>5 DEF EnsureRole, Mine, Cluster, Stage
  <2>2. \A p \in Ops : RunFits(run'[p])
    BY <1>14, <1>1, RunStaysFit DEF EnsureRole, Steps
  <2> QED
    BY <2>1, <2>2
<1>15. CASE EnsureDatabase(o)
  <2>1. \A t \in Stages : ResFits(res'[t]) /\ UrlFits(stored'[t])
    BY <1>15, <1>4, <1>5 DEF EnsureDatabase, Mine, Cluster, Stage
  <2>2. \A p \in Ops : RunFits(run'[p])
    BY <1>15, <1>1, RunStaysFit DEF EnsureDatabase, Steps
  <2> QED
    BY <2>1, <2>2
<1>16. CASE CreateDatabase(o)
  <2>1. \A t \in Stages : ResFits(res'[t]) /\ UrlFits(stored'[t])
    BY <1>16, <1>4, <1>5 DEF CreateDatabase, Mine, Cluster, Stage
  <2>2. \A p \in Ops : RunFits(run'[p])
    BY <1>16, <1>1, RunStaysFit DEF CreateDatabase, Steps
  <2> QED
    BY <2>1, <2>2
<1>17. CASE DropDatabase(o)
  <2>1. \A t \in Stages : ResFits(res'[t]) /\ UrlFits(stored'[t])
    BY <1>17, <1>4, <1>5 DEF DropDatabase, Mine, Cluster, Stage
  <2>2. \A p \in Ops : RunFits(run'[p])
    BY <1>17, <1>1, RunStaysFit DEF DropDatabase, Steps
  <2> QED
    BY <2>1, <2>2
<1>18. CASE DeleteEndpoint(o)
  <2>1. \A t \in Stages : ResFits(res'[t]) /\ UrlFits(stored'[t])
    BY <1>18, <1>2, <1>4, <1>5 DEF DeleteEndpoint, Mine, Stage, StepOf
  <2>2. \A p \in Ops : RunFits(run'[p])
    BY <1>18, <1>1, RunStaysFit DEF DeleteEndpoint, Steps
  <2> QED
    BY <2>1, <2>2
<1>19. CASE Delete(o)
  <2>1. \A t \in Stages : ResFits(res'[t]) /\ UrlFits(stored'[t])
    BY <1>19, <1>5, HeldFits DEF Delete
  <2>2. \A p \in Ops : RunFits(run'[p])
    BY <1>19, <1>1, RunStaysFit DEF Delete
  <2> QED
    BY <2>1, <2>2
<1>20. CASE DeleteProject(o)
  <2>1. \A t \in Stages : ResFits(res'[t]) /\ UrlFits(stored'[t])
    BY <1>20, HeldFits DEF DeleteProject
  <2>2. \A p \in Ops : RunFits(run'[p])
    BY <1>20, <1>1, RunStaysFit DEF DeleteProject
  <2> QED
    BY <2>1, <2>2
<1>21. CASE CreateRedis(o)
  <2>1. \A t \in Stages : ResFits(res'[t]) /\ UrlFits(stored'[t])
    BY <1>21, <1>4, <1>5 DEF CreateRedis
  <2>2. \A p \in Ops : RunFits(run'[p])
    BY <1>21, <1>1, RunStaysFit DEF CreateRedis, Steps
  <2> QED
    BY <2>1, <2>2
<1>22. CASE CreateCluster(o)
  <2>1. \A t \in Stages : ResFits(res'[t]) /\ UrlFits(stored'[t])
    BY <1>22, <1>4, <1>5 DEF CreateCluster
  <2>2. \A p \in Ops : RunFits(run'[p])
    BY <1>22, <1>1, <1>3, RunStaysFit DEF CreateCluster, Steps
  <2> QED
    BY <2>1, <2>2
<1>23. CASE Connect(o)
  <2>1. \A t \in Stages : ResFits(res'[t]) /\ UrlFits(stored'[t])
    BY <1>23, <1>4, <1>5 DEF Connect, Rotate, Cluster, Stage
  <2>2. \A p \in Ops : RunFits(run'[p])
    BY <1>23, <1>1, <1>3, RunStaysFit DEF Connect, Rotate, Steps
  <2> QED
    BY <2>1, <2>2
<1>24. CASE CreateBranch(o)
  <2>1. ASSUME NEW b, b = [Gone EXCEPT !.active = TRUE] \/ \E t \in Stages : b = res[t]
        PROVE  ResFits([b EXCEPT !.id = New, !.endpoint = New])
    <3>1. b \in Resource /\ b.role \in Numbers
      <4>1. CASE b = [Gone EXCEPT !.active = TRUE]
        BY <1>3, <4>1 DEF Resource, Gone
      <4>2. CASE \E t \in Stages : b = res[t]
        BY <1>1, <4>2, HeldFits DEF TypeInv, ResFits
      <4> QED
        BY <2>1, <4>1, <4>2
    <3> QED
      BY <1>3, <3>1 DEF ResFits, Resource
  <2>2. UNCHANGED res \/ \E r : ResFits(r) /\ SetMine(o, r)
    <3> DEFINE from == IF run[o].cmd = "branch_out"
                       THEN {b \in Stages : Status(b) = "COMPLETED"}
                       ELSE {IF Parent[Stage(o)] = NoStage THEN root ELSE Parent[Stage(o)]}
               bases == IF from = {NoStage} THEN {[Gone EXCEPT !.active = TRUE]}
                        ELSE {res[b] : b \in {b \in from : res[b].id # 0}}
    <3>1. UNCHANGED res \/ \E b \in bases : SetMine(o, [b EXCEPT !.id = New, !.endpoint = New])
      BY <1>24 DEF CreateBranch
    <3>2. from \subseteq Stages \/ from = {NoStage}
      BY <1>1, <1>2, StagesAssumption DEF TypeInv, Stage
    <3> HIDE DEF from
    <3>3. \A b \in bases : b = [Gone EXCEPT !.active = TRUE] \/ \E t \in Stages : b = res[t]
      BY <3>2
    <3> QED
      BY <2>1, <3>1, <3>3
  <2>3. \A t \in Stages : ResFits(res'[t]) /\ UrlFits(stored'[t])
    BY <1>24, <1>5, <2>2 DEF CreateBranch
  <2>4. End(o) \/ Goto(o, "role")
    BY <1>24 DEF CreateBranch
  <2>5. \A p \in Ops : RunFits(run'[p])
    BY <1>1, <2>4, RunStaysFit DEF Steps
  <2> QED
    BY <2>3, <2>5
<1>25. CASE NeonUrl(o)
  <2>1. \A t \in Stages : ResFits(res'[t]) /\ UrlFits(stored'[t])
    BY <1>25, <1>5 DEF NeonUrl
  <2> DEFINE u == [endpoint |-> m.endpoint, password |-> m.role]
  <2>2. CASE run' = [run EXCEPT ![o].at = "put", ![o].url = u] /\ m.endpoint # 0 /\ m.role # 0
    <3>1. m.endpoint # 0 /\ m.role # 0
      BY <1>25, <1>2, <2>2 DEF NeonUrl, ResOf, ResFits, Gone
    <3>2. u \in Url /\ UrlFits(u)
      BY <1>2, <3>1 DEF Url, Resource, UrlFits, ResFits, Whole
    <3> HIDE DEF u
    <3>3. \E l \in Steps : run' = [run EXCEPT ![o].at = l, ![o].url = u]
      BY <2>2 DEF Steps
    <3> QED
      BY <1>1, <2>1, <3>2, <3>3, RunStaysFit
  <2>3. CASE End(o)
    BY <1>1, <2>1, <2>3, RunStaysFit
  <2> QED
    BY <1>25, <2>2, <2>3 DEF NeonUrl, Mine, Stage
<1>26. CASE RedisUrl(o)
  <2>1. \A t \in Stages : ResFits(res'[t]) /\ UrlFits(stored'[t])
    BY <1>26, <1>5 DEF RedisUrl
  <2> DEFINE u == [endpoint |-> m.endpoint, password |-> m.role]
  <2>2. CASE run' = [run EXCEPT ![o].at = "put", ![o].url = u] /\ m.active
    <3>1. m.endpoint # 0 /\ m.role # 0
      BY <1>26, <1>2, <2>2 DEF RedisUrl, ResOf, ResFits, Gone
    <3>2. u \in Url /\ UrlFits(u)
      BY <1>2, <3>1 DEF Url, Resource, UrlFits, ResFits, Whole
    <3> HIDE DEF u
    <3>3. \E l \in Steps : run' = [run EXCEPT ![o].at = l, ![o].url = u]
      BY <2>2 DEF Steps
    <3> QED
      BY <1>1, <2>1, <3>2, <3>3, RunStaysFit
  <2>3. CASE End(o)
    BY <1>1, <2>1, <2>3, RunStaysFit
  <2> QED
    BY <1>26, <2>2, <2>3 DEF RedisUrl, Redis, Stage
<1>27. CASE TidbUrl(o)
  <2>1. \A t \in Stages : ResFits(res'[t]) /\ UrlFits(stored'[t])
    BY <1>27, <1>4, <1>5 DEF TidbUrl, Rotate, Cluster, Stage
  <2> DEFINE u == [endpoint |-> m.endpoint, password |-> run[o].memo]
  <2>2. CASE Rotate(o)
    BY <1>1, <1>3, <2>1, <2>2, RunStaysFit DEF Rotate
  <2>3. CASE /\ m.active /\ run[o].memo # 0
             /\ run' = [run EXCEPT ![o].at = IF run[o].cmd = "live" THEN "print" ELSE "put",
                                   ![o].url = u]
    <3>1. m.endpoint # 0
      BY <1>27, <1>2, <2>3 DEF TidbUrl, ResOf, ResFits, Gone
    <3>2. u \in Url /\ UrlFits(u)
      BY <1>1, <1>2, <2>3, <3>1 DEF Url, Resource, Run, UrlFits, ResFits, RunFits, Whole
    <3> HIDE DEF u
    <3>3. \E l \in Steps : run' = [run EXCEPT ![o].at = l, ![o].url = u]
      BY <2>3 DEF Steps
    <3> QED
      BY <1>1, <2>1, <3>2, <3>3, RunStaysFit
  <2>4. CASE End(o)
    BY <1>1, <2>1, <2>4, RunStaysFit
  <2> QED
    BY <1>27, <2>2, <2>3, <2>4 DEF TidbUrl, Cluster, Stage
<1>28. CASE Put(o)
  <2>1. \A t \in Stages : ResFits(res'[t]) /\ UrlFits(stored'[t])
    BY <1>28, <1>1, <1>2, HeldFits DEF Put, Stage, TypeInv, RunFits
  <2>2. \A p \in Ops : RunFits(run'[p])
    BY <1>28, <1>1, RunStaysFit DEF Put
  <2> QED
    BY <2>1, <2>2
<1> QED
  BY <1>6, <1>7, <1>8, <1>9, <1>10, <1>11, <1>12, <1>13, <1>14, <1>15, <1>16, <1>17, <1>18,
       <1>19, <1>20, <1>21, <1>22, <1>23, <1>24, <1>25, <1>26, <1>27, <1>28 DEF Step

\* Whatever runs, there are never more numbers than resources, URLs and
\* commands can hold, a URL has a host and a password or neither, and of what is
\* not there nothing is left.
THEOREM Typing == Spec => []TypeOK
<1> DEFINE Bounds == /\ provider \in Providers /\ provisioning \in {"command", "deploy"}
                     /\ root \in Roots \cup {NoStage}
                     /\ starts \in 0 .. MaxStarts /\ cuts \in 0 .. MaxCuts
                     /\ Held \subseteq Ids
<1>1. Inv /\ WholeInv /\ Bounds => TypeOK
  <2> SUFFICES ASSUME Inv, WholeInv, Bounds PROVE TypeOK
    OBVIOUS
  <2>1. ASSUME NEW s \in Stages
        PROVE  /\ res[s] \in [id : Ids, endpoint : Ids, role : Ids,
                              database : BOOLEAN, active : BOOLEAN]
               /\ res[s].id = 0 => res[s] = Gone
               /\ stored[s] \in Urls /\ Whole(stored[s])
    <3>1. {res[s].id, res[s].endpoint, res[s].role, stored[s].endpoint, stored[s].password}
            \subseteq Ids
      BY DEF Held
    <3>2. res[s] \in Resource /\ stored[s] \in Url /\ ResOf(res[s], stored[s])
      BY DEF Inv, TypeInv, ResInv
    <3> QED
      BY <3>1, <3>2 DEF Resource, Url, Urls, ResOf, WholeInv
  <2>2. ASSUME NEW o \in Ops
        PROVE  run[o].url \in Urls /\ run[o].memo \in Ids /\ run[o].absent \subseteq Stages
    <3>1. {run[o].memo, run[o].url.endpoint, run[o].url.password} \subseteq Ids
      BY DEF Held
    <3>2. run[o] \in Run
      BY DEF Inv, TypeInv
    <3> QED
      BY <3>1, <3>2 DEF Run, Url, Urls
  <2> QED
    BY <2>1, <2>2 DEF TypeOK, Inv, TypeInv, Whole
<1>2. 0 \in Ids /\ 1 \in Ids /\ New \in Ids
  <2>1. /\ Cardinality(Held) \in Nat /\ Cardinality(Stages) \in Nat /\ Cardinality(Ops) \in Nat
        /\ Cardinality(Held) <= 5 * Cardinality(Stages) + 3 * Cardinality(Ops)
    BY FewAreHeld, FS_CardinalityType, StagesAssumption
  <2> QED
    BY <2>1, NewIsANumber DEF Ids
<1>3. ASSUME Bounds, \A s \in Stages : ResFits(res'[s]) /\ UrlFits(stored'[s]),
             \A o \in Ops : RunFits(run'[o]), UNCHANGED provider
      PROVE  WholeInv' /\ Held' \subseteq Ids
  <2>1. Numbers \subseteq Ids
    BY <1>2, <1>3 DEF Numbers
  <2>2. \A n \in Held' : n \in Numbers
    BY <1>3 DEF Held, ResFits, UrlFits, RunFits
  <2>3. WholeInv'
    BY <1>3 DEF WholeInv, ResFits, UrlFits, RunFits, Whole
  <2>4. Ids' = Ids
    BY DEF Ids
  <2> QED
    BY <2>1, <2>2, <2>3, <2>4
<1>4. Init => WholeInv /\ Bounds
  <2> SUFFICES ASSUME Init PROVE WholeInv /\ Bounds
    OBVIOUS
  <2> DEFINE first == [Gone EXCEPT !.id = 1, !.endpoint = 1, !.active = TRUE]
  <2>1. \A s \in Stages : (res[s] = Gone \/ res[s] = first) /\ stored[s] = NoUrl
    BY DEF Init
  <2>2. \A o \in Ops : run[o] = Idle
    BY DEF Init
  <2>5. /\ \A s \in Stages : /\ {res[s].id, res[s].endpoint, res[s].role} \subseteq {0, 1}
                             /\ res[s].id = res[s].endpoint
                             /\ stored[s].endpoint = 0 /\ stored[s].password = 0
        /\ \A o \in Ops : run[o].memo = 0 /\ run[o].url.endpoint = 0 /\ run[o].url.password = 0
    <3>1. /\ first.id = 1 /\ first.endpoint = 1 /\ first.role = 0
          /\ Gone.id = 0 /\ Gone.endpoint = 0 /\ Gone.role = 0
      BY DEF Gone
    <3>2. /\ NoUrl.endpoint = 0 /\ NoUrl.password = 0
          /\ Idle.memo = 0 /\ Idle.url = NoUrl
      BY DEF NoUrl, Idle
    <3> HIDE DEF first
    <3> QED
      BY <2>1, <2>2, <3>1, <3>2
  <2>3. \A n \in Held : n \in {0, 1}
    BY <2>5 DEF Held
  <2>4. WholeInv
    BY <2>5 DEF WholeInv, Whole
  <2> QED
    BY <1>2, <2>3, <2>4, BoundsAssumption DEF Init
<1>5. Inv /\ WholeInv /\ Bounds /\ [Next]_vars => (WholeInv /\ Bounds)'
  <2> SUFFICES ASSUME Inv, WholeInv, Bounds, [Next]_vars PROVE WholeInv' /\ Bounds'
    OBVIOUS
  <2>1. CASE UNCHANGED vars
    BY <2>1 DEF vars, WholeInv, Whole, Held, Ids
  <2> SUFFICES ASSUME Next PROVE WholeInv' /\ Bounds'
    BY <2>1
  <2>2. /\ UNCHANGED <<provider, provisioning, root>>
        /\ starts' \in 0 .. MaxStarts /\ cuts' \in 0 .. MaxCuts
    <3>1. ASSUME NEW o \in Ops, Step(o)
          PROVE  UNCHANGED <<provider, provisioning, root, starts, cuts>>
      BY <3>1 DEF Step, DeployStatus, EnsureBranch, EnsureCluster, EnsureRedis,
         CreateBranch, EnsureRole, EnsureDatabase, CreateCluster, WaitCluster, Connect,
         CreateDatabase, CreateRedis, DropDatabase, KeepManaged, NeonUrl, RedisUrl, TidbUrl,
         Put, PrintUrl, Plan, DeleteEndpoint, Delete, DeleteProject
    <3>2. ASSUME NEW o \in Ops, Cut(o)
          PROVE  UNCHANGED <<provider, provisioning, root, starts>> /\ cuts' \in 0 .. MaxCuts
      BY <3>2, BoundsAssumption DEF Cut
    <3>3. ASSUME NEW o \in Ops, NEW s \in Stages,
                 \/ \E c \in Commands : Start(o, c, s)
                 \/ \E force \in BOOLEAN : StoreUrl(o, s, force)
                 \/ Deploy(o, s)
          PROVE  /\ UNCHANGED <<provider, provisioning, root, cuts>>
                 /\ starts' \in 0 .. MaxStarts
      <4>1. starts < MaxStarts /\ starts' = starts + 1 /\ starts' \in 0 .. MaxStarts
        BY <3>3, BoundsAssumption DEF Start, StoreUrl, Deploy
      <4>2. \E c : Begin(o, c, s)
        BY <3>3 DEF Start, StoreUrl, Deploy
      <4> QED
        BY <4>1, <4>2 DEF Begin
    <3>4. ASSUME NEW s \in Stages, Retry(s) \/ BecomeActive(s)
          PROVE  UNCHANGED <<provider, provisioning, root, starts, cuts>>
      BY <3>4 DEF Retry, Begin, BecomeActive
    <3> QED
      BY <3>1, <3>2, <3>3, <3>4 DEF Next
  <2>3. /\ \A s \in Stages : ResFits(res'[s]) /\ UrlFits(stored'[s])
        /\ \A o \in Ops : RunFits(run'[o])
    <3>1. TypeInv
      BY DEF Inv
    <3>2. ASSUME NEW o \in Ops, Cut(o)
          PROVE  UNCHANGED <<res, stored>> /\ \A p \in Ops : RunFits(run'[p])
      BY <3>1, <3>2, RunStaysFit DEF Cut
    <3>3. ASSUME NEW o \in Ops, NEW c \in AllCommands, NEW s \in Stages, Begin(o, c, s)
          PROVE  UNCHANGED <<res, stored>> /\ \A p \in Ops : RunFits(run'[p])
      <4>1. ASSUME NEW p \in Ops, p # o
            PROVE  run'[p].memo = run[p].memo /\ run'[p].url = run[p].url
        <5>1. run'[p] = [run[p] EXCEPT !.alone = FALSE] \/ run'[p] = run[p]
          BY <3>3, <4>1 DEF Begin
        <5> QED
          BY <3>1, <5>1 DEF TypeInv, Run
      <4>2. run'[o].memo = Idle.memo /\ run'[o].url = Idle.url
        BY <3>3 DEF Begin, Idle
      <4> QED
        BY <3>3, <4>1, <4>2, HeldFits DEF Begin, RunFits
    <3>4. ASSUME NEW s \in Stages, BecomeActive(s)
          PROVE  UNCHANGED <<run, stored>> /\ \A t \in Stages : ResFits(res'[t])
      BY <3>1, <3>4, HeldFits DEF BecomeActive, TypeInv, ResFits, Resource
    <3> QED
      BY <3>2, <3>3, <3>4, Actions, StepFits, HeldFits
  <2> QED
    BY <1>3, <2>2, <2>3
<1> QED
  <2>1. Spec => [](Inv /\ WholeInv /\ Bounds)
    BY <1>4, <1>5, Invariance, PTL DEF Spec
  <2> QED
    BY <1>1, <2>1, PTL
=============================================================================
