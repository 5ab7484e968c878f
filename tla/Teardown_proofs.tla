-------------------------- MODULE Teardown_proofs ---------------------------
(***************************************************************************)
(* What holds of deploys and destroys for any stages, owners and guests,   *)
(* whatever each declares, and wherever their commands are cut off.        *)
(***************************************************************************)
EXTENDS Teardown, TLAPS

\* The command of a stage deploys it, or destroys it; and, of a destroy, it has
\* the deletion of a part before it, or the wait for its end.
Deploying(s) == \E p \in Parts \cup Common \cup {"tag"} : <<"create", p>> \in run[s]
Destroying(s) == <<"finish", "stage">> \in run[s]
Pending(s, p) == <<"delete", p>> \in run[s] \/ <<"await", p>> \in run[s]

\* What a destroy deletes of a stage, whatever it was told to leave.
Destroyed(s) == Parts \ ({"waf", "secrets", "record", "sg"} \cup Spared(s))

\* A command deploys a stage, or destroys it, or deletes its WAF.
StepsInv ==
  \A s \in Stages :
    \/ run[s] \subseteq DeploySteps(s)
    \/ /\ Destroying(s)
       /\ run[s] \subseteq ({"delete", "await"} \X ((has[s] \cup {"untag", "sg"}) \ {"waf"}))
                             \cup {<<"finish", "stage">>}
    \/ run[s] \subseteq {<<"delete", "waf">>, <<"await", "waf">>}

\* What a deploy has passed is up, and the VPC of a guest knows of it.
DeployInv ==
  \A s \in Stages : Deploying(s) =>
    /\ \A p \in has[s] \cap {"acm", "keys", "container", "cloudfront"} :
         <<"create", p>> \notin run[s] => Is(s, p) = "up"
    /\ s \in Guests /\ <<"create", "container">> \in run[s]
         /\ <<"create", "tag">> \notin run[s] => s \in tags \cup wiped

\* What a destroy has passed is gone.
DestroyInv ==
  \A s \in Stages : Destroying(s) =>
    /\ \A p \in Destroyed(s) : ~Pending(s, p) => Is(s, p) = "none"
    /\ <<"delete", "untag">> \notin run[s] => s \notin tags

\* A part is not deleted while a part of the stage uses it, nor is the
\* distribution while the bucket names it.
OrderInv ==
  \A s \in Stages :
    /\ Is(s, "policy") # "none" => Is(s, "cloudfront") \in {"up", "broken"}
    /\ Is(s, "acm") = "going" => Is(s, "cloudfront") = "none"
    /\ Is(s, "container") = "going" => Is(s, "cloudfront") = "none"
    /\ Is(s, "keys") = "going" =>
         Is(s, "cloudfront") = "none" /\ Is(s, "container") = "none"

\* Only stacks and clusters take time to be deleted.
GoingInv == \A t \in Things : state[t] = "going" => t[2] \in Stacks \cup {"rds"}

\* The VPC is deleted for an owner who has left it, and who comes to it first
\* if he deploys again.
VpcInv ==
  state[<<Shared, "vpc">>] = "going" =>
    \E s \in Owners :
      /\ "vpc" \in has[s]
      /\ \A p \in {"rds", "container"} :
           /\ Is(s, p) = "none"
           /\ <<"create", p>> \in run[s] => <<"create", "vpc">> \in run[s]

Orderly ==
  /\ StepsInv /\ DeployInv /\ DestroyInv /\ OrderInv /\ GoingInv /\ VpcInv
  /\ ConsumersAreTagged /\ EndedDestroyIsClean

-----------------------------------------------------------------------------
\* What comes before the next step of a deploy is not among the steps to come.
LEMMA DeployPassed ==
  ASSUME NEW s \in Stages, NEW p, At(s, "create", p)
  PROVE  /\ p = "container" => <<"create", "tag">> \notin run[s]
         /\ p \in {"container", "rds"} => <<"create", "vpc">> \notin run[s]
         /\ p = "container" => <<"create", "keys">> \notin run[s]
         /\ p = "cloudfront" => \A q \in {"acm", "keys", "container"} :
                                  <<"create", q>> \notin run[s]
         /\ p = "policy" => <<"create", "cloudfront">> \notin run[s]
  BY DEF At, Place, DeployOrder

\* The same for a destroy.
LEMMA DestroyPassed ==
  ASSUME NEW s \in Stages, NEW todo \in {"delete", "await", "finish"}, NEW p,
         At(s, todo, p)
  PROVE  /\ p = "cloudfront" => ~Pending(s, "policy")
         /\ p \in {"acm", "container", "keys"} => ~Pending(s, "cloudfront")
         /\ p \in {"keys", "vpc", "untag"} => ~Pending(s, "container")
         /\ p = "vpc" => ~Pending(s, "rds")
         /\ p = "stage" => /\ \A q \in Destroyed(s) : ~Pending(s, q)
                           /\ <<"delete", "untag">> \notin run[s]
<1>1. \A any \in {"delete", "await"} : \A q :
        <<any, q>> \in run[s] => DestroyOrder[p] <= DestroyOrder[q]
  BY DEF At, Place
<1>2. \A q \in Destroyed(s) : q \in {"image", "build", "acm", "external", "bucket", "rds",
                              "keys", "container", "cloudfront", "policy"}
  BY DEF Destroyed, Parts
<1>3. \A q \in Destroyed(s) : DestroyOrder[q] < DestroyOrder["stage"]
  BY <1>2 DEF DestroyOrder
<1>4. p = "stage" => \A q \in Destroyed(s) : ~Pending(s, q)
  <2> SUFFICES ASSUME p = "stage", NEW q \in Destroyed(s), NEW any \in {"delete", "await"},
                      <<any, q>> \in run[s]
               PROVE  FALSE
    BY DEF Pending
  <2>1. DestroyOrder["stage"] <= DestroyOrder[q]
    BY <1>1
  <2>2. DestroyOrder["stage"] = 17 /\ DestroyOrder[q] \in Nat
    BY <1>2 DEF DestroyOrder
  <2> QED
    BY <1>3, <2>1, <2>2
<1> QED
  BY <1>1, <1>4 DEF Pending, DestroyOrder

\* Which parts are of a stage, and which of all.
LEMMA SomeParts ==
  /\ Parts \cap Common = {} /\ "vpc" \in Common /\ "sg" \notin Common
  /\ {"acm", "keys", "container", "cloudfront", "policy", "rds"} \subseteq Parts \ {"sg"}
  /\ \A s : Destroyed(s) \subseteq Parts \ {"sg"}
  /\ \A s : {"acm", "keys", "container", "cloudfront", "policy", "rds"} \subseteq Destroyed(s)
  BY DEF Parts, Common, Destroyed, Spared

\* Only what all stages have in common is one thing for two of them.
LEMMA Apart ==
  /\ \A s \in Stages, p \in Parts \cup Common : Thing(s, p) \in Things
  /\ \A s, u \in Stages, p, q \in Parts \cup Common :
       Thing(s, p) = Thing(u, q) <=> p = q /\ (s = u \/ p \in Common)
  /\ \A s \in Stages : Thing(s, "vpc") = <<Shared, "vpc">>
  /\ \A s \in Stages, p \in Parts : Thing(s, p) = <<s, p>>
  BY StagesAssumption DEF Thing, Things, Common, Parts

\* What setting the state of a part does to the state of every part.
LEMMA SetEffect ==
  ASSUME TypeOK, NEW s \in Stages, NEW p \in Parts \cup Common,
         NEW v \in {"none", "up", "broken", "going"}, Set(s, p, v)
  PROVE  /\ state' \in [Things -> {"none", "up", "broken", "going"}]
         /\ \A u \in Stages, q \in Parts \cup Common :
              state'[Thing(u, q)] =
                IF q = p /\ (u = s \/ p \in Common) THEN v ELSE state[Thing(u, q)]
         /\ \A t \in Things : state'[t] = IF t = Thing(s, p) THEN v ELSE state[t]
  BY Apart DEF TypeOK, Set

\* What replacing a step, or stopping, does to the steps of every stage.
LEMMA RunEffect ==
  ASSUME TypeOK, NEW s \in Stages, NEW todo, NEW p, NEW steps \in SUBSET Steps,
         Replace(s, todo, p, steps)
  PROVE  /\ run' \in [Stages -> SUBSET Steps]
         /\ \A u \in Stages : u # s => run'[u] = run[u]
         /\ \A step : step \in run'[s] <=>
              step \in steps \/ (step \in run[s] /\ step # <<todo, p>>)
  BY DEF TypeOK, Replace

\* The same, when nothing replaces it.
LEMMA GoEffect ==
  ASSUME TypeOK, NEW s \in Stages, NEW todo, NEW p, Go(s, todo, p)
  PROVE  /\ run' \in [Stages -> SUBSET Steps]
         /\ \A u \in Stages : u # s => run'[u] = run[u]
         /\ \A step : step \in run'[s] <=> step \in run[s] /\ step # <<todo, p>>
  BY DEF TypeOK, Replace, Go

\* The same, when the command stops.
LEMMA RaiseEffect ==
  ASSUME TypeOK, NEW s \in Stages, Raise(s)
  PROVE  /\ run' \in [Stages -> SUBSET Steps]
         /\ \A u \in Stages : u # s => run'[u] = run[u]
         /\ run'[s] = {}
  BY DEF TypeOK, Raise

\* A deploy goes on: a part is up that was not, or was already.
LEMMA MadeKeeps ==
  ASSUME TypeOK, Orderly, NEW s \in Stages, NEW p \in Parts \cup Common,
         At(s, "create", p), Go(s, "create", p),
         state' \in [Things -> {"none", "up", "broken", "going"}],
         \A t \in Things : state'[t] = "going" => state[t] = "going",
         \A u \in Stages, q \in (Parts \cup Common) \ {"sg"} :
           state'[Thing(u, q)] =
             IF q = p /\ (u = s \/ p \in Common) THEN "up" ELSE state[Thing(u, q)],
         tags' \subseteq tags, wiped' \subseteq Guests, tags \cup wiped = tags' \cup wiped',
         UNCHANGED <<has, deploys, gone, cuts>>
  PROVE  TypeOK' /\ Orderly'
<1> USE StagesAssumption
<1>0. /\ StepsInv /\ DeployInv /\ DestroyInv /\ OrderInv /\ GoingInv /\ VpcInv
      /\ ConsumersAreTagged /\ EndedDestroyIsClean
  BY DEF Orderly
<1>a. /\ run' \in [Stages -> SUBSET Steps]
      /\ \A u \in Stages : u # s => run'[u] = run[u]
      /\ \A step : step \in run'[s] <=> step \in run[s] /\ step # <<"create", p>>
  BY GoEffect
<1>b. <<"create", p>> \in run[s] /\ run[s] \subseteq DeploySteps(s) /\ p \in has[s]
  BY <1>0 DEF At, StepsInv, DeploySteps, Parts, Common
<1>c. Deploying(s) /\ ~Destroying(s) /\ s \notin gone
  BY <1>b DEF Deploying, Destroying, DeploySteps, TypeOK
<1>d. /\ \A u \in Stages, q \in Parts \ {"sg"} :
           u # s => state'[Thing(u, q)] = state[Thing(u, q)]
      /\ \A q \in Parts \ {"sg"} :
           state'[Thing(s, q)] = IF q = p THEN "up" ELSE state[Thing(s, q)]
      /\ state'[<<Shared, "vpc">>] = IF p = "vpc" THEN "up" ELSE state[<<Shared, "vpc">>]
  <2>1. \A u \in Stages, q \in Parts \ {"sg"} :
          state'[Thing(u, q)] = IF q = p /\ u = s THEN "up" ELSE state[Thing(u, q)]
    BY SomeParts
  <2>2. state'[Thing(s, "vpc")] = IF p = "vpc" THEN "up" ELSE state[Thing(s, "vpc")]
    BY SomeParts
  <2> QED
    BY <2>1, <2>2, Apart
<1>e. \A q \in {"acm", "keys", "container", "cloudfront"} :
        q \in has[s] /\ <<"create", q>> \notin run[s] => Is(s, q) = "up"
  BY <1>0, <1>c DEF DeployInv
<1>f. \A q \in {"acm", "keys", "container", "cloudfront"} :
        <<"create", q>> \notin run[s] => Is(s, q) # "going"
  BY <1>e, SomeParts DEF TypeOK
<1>1. TypeOK'
  BY <1>0, <1>a, <1>b, <1>c, <1>d, SomeParts DEF TypeOK, Is
<1>2. StepsInv'
  BY <1>0, <1>a, <1>b, <1>c, <1>d, SomeParts
  DEF StepsInv, Destroying, DeploySteps
<1>3. DeployInv'
  <2>1. ASSUME NEW u \in Stages, u # s, Deploying(u)'
        PROVE  Deploying(u) /\ run'[u] = run[u]
    BY <1>a, <2>1 DEF Deploying
  <2>2. \A q \in has[s] \cap {"acm", "keys", "container", "cloudfront"} :
          <<"create", q>> \notin run'[s] => state'[Thing(s, q)] = "up"
    BY <1>a, <1>d, <1>e, SomeParts DEF Is
  <2>3. s \in Guests /\ <<"create", "container">> \in run'[s]
          /\ <<"create", "tag">> \notin run'[s] => s \in tags' \cup wiped'
    BY <1>0, <1>a, <1>b, <1>c, SomeParts DEF DeployInv, Parts, Common
  <2>4. \A u \in Stages, q \in {"acm", "keys", "container", "cloudfront"} :
          u # s => state'[Thing(u, q)] = state[Thing(u, q)]
    BY <1>d, SomeParts
  <2> QED
    BY <1>0, <2>1, <2>2, <2>3, <2>4 DEF DeployInv, Is
<1>4. DestroyInv'
  BY <1>0, <1>a, <1>b, <1>c, <1>d, SomeParts
  DEF DestroyInv, Destroying, Pending, Is
<1>5. OrderInv'
  <2>1. \A u \in Stages, q \in {"acm", "keys", "container", "cloudfront", "policy"} :
          u # s => state'[Thing(u, q)] = state[Thing(u, q)]
    BY <1>d, SomeParts
  <2>2. \A q \in {"acm", "keys", "container", "cloudfront", "policy"} :
          state'[Thing(s, q)] = IF q = p THEN "up" ELSE state[Thing(s, q)]
    BY <1>d, SomeParts
  <2>3. p = "policy" => Is(s, "cloudfront") = "up"
    BY <1>b, <1>e, DeployPassed DEF TypeOK
  <2>4. p = "cloudfront" => \A q \in {"acm", "keys", "container"} : Is(s, q) # "going"
    BY <1>f, DeployPassed
  <2>5. p = "container" => Is(s, "keys") # "going"
    BY <1>f, DeployPassed
  <2> QED
    BY <1>0, <2>1, <2>2, <2>3, <2>4, <2>5 DEF OrderInv, Is
<1>6. GoingInv'
  BY <1>0, <1>a, <1>b, <1>c, <1>d, SomeParts DEF GoingInv
<1>7. VpcInv'
  <2> SUFFICES ASSUME p # "vpc", state[<<Shared, "vpc">>] = "going"
               PROVE  VpcInv'
    BY <1>d DEF VpcInv
  <2>1. PICK w \in Owners :
          /\ "vpc" \in has[w]
          /\ \A q \in {"rds", "container"} :
               /\ Is(w, q) = "none"
               /\ <<"create", q>> \in run[w] => <<"create", "vpc">> \in run[w]
    BY <1>0 DEF VpcInv
  <2>2. w = s => p \notin {"rds", "container"}
    BY <1>b, <2>1, DeployPassed
  <2>3. \A q \in {"rds", "container"} : state'[Thing(w, q)] = state[Thing(w, q)]
    BY <1>d, <2>2, SomeParts DEF Stages
  <2>4. <<"create", "vpc">> \in run[w] => <<"create", "vpc">> \in run'[w]
    BY <1>a DEF Stages
  <2>5. \A q : <<"create", q>> \in run'[w] => <<"create", q>> \in run[w]
    BY <1>a DEF Stages
  <2> QED
    BY <2>1, <2>3, <2>4, <2>5 DEF VpcInv, Is
<1>8. ConsumersAreTagged'
  <2>1. s \in Guests /\ p = "container" => s \in tags \cup wiped
    BY <1>0, <1>b, <1>c, DeployPassed DEF DeployInv
  <2>2. \A u \in Guests : state'[Thing(u, "container")] # "none" =>
          (u = s /\ p = "container") \/ state[Thing(u, "container")] # "none"
    BY <1>d, SomeParts DEF Stages
  <2> QED
    BY <1>0, <2>1, <2>2 DEF ConsumersAreTagged, Is
<1>9. EndedDestroyIsClean'
  BY <1>0, <1>a, <1>b, <1>c, <1>d, SomeParts
  DEF EndedDestroyIsClean, Left, Spared, Is, TypeOK
<1> QED
  BY <1>1, <1>2, <1>3, <1>4, <1>5, <1>6, <1>7, <1>8, <1>9 DEF Orderly

\* A command ends early and leaves everything as it is.
LEMMA StopKeeps ==
  ASSUME TypeOK, Orderly, NEW s \in Stages, Raise(s),
         UNCHANGED <<has, state, tags, deploys, gone, wiped>>, cuts' \in 0..MaxCuts
  PROVE  TypeOK' /\ Orderly'
<1>0. /\ StepsInv /\ DeployInv /\ DestroyInv /\ OrderInv /\ GoingInv /\ VpcInv
      /\ ConsumersAreTagged /\ EndedDestroyIsClean
  BY DEF Orderly
<1>a. /\ run' \in [Stages -> SUBSET Steps]
      /\ \A u \in Stages : u # s => run'[u] = run[u]
      /\ run'[s] = {}
  BY RaiseEffect
<1>1. TypeOK'
  BY <1>0, <1>a DEF TypeOK, Is
<1>2. StepsInv'
  BY <1>0, <1>a DEF StepsInv, Destroying, DeploySteps
<1>3. DeployInv'
  BY <1>0, <1>a DEF DeployInv, Deploying, Is
<1>4. DestroyInv'
  BY <1>0, <1>a DEF DestroyInv, Destroying, Pending, Is
<1>5. OrderInv'
  BY <1>0, <1>a DEF OrderInv, Is
<1>6. GoingInv'
  BY <1>0, <1>a DEF GoingInv
<1>7. VpcInv'
  BY <1>0, <1>a DEF VpcInv, Is, Stages
<1>8. ConsumersAreTagged'
  BY <1>0, <1>a DEF ConsumersAreTagged, Is
<1>9. EndedDestroyIsClean'
  BY <1>0, <1>a DEF EndedDestroyIsClean, Left, Spared, Is
<1> QED
  BY <1>1, <1>2, <1>3, <1>4, <1>5, <1>6, <1>7, <1>8, <1>9 DEF Orderly

\* The creation of a stack fails, which ends the deploy.
LEMMA FailKeeps ==
  ASSUME TypeOK, Orderly, NEW s \in Stages, NEW p \in Stacks,
         At(s, "create", p), Is(s, p) = "none", Failed(s, p),
         UNCHANGED <<has, tags, deploys, gone, wiped, cuts>>
  PROVE  TypeOK' /\ Orderly'
<1> USE StagesAssumption
<1>0. /\ StepsInv /\ DeployInv /\ DestroyInv /\ OrderInv /\ GoingInv /\ VpcInv
      /\ ConsumersAreTagged /\ EndedDestroyIsClean
  BY DEF Orderly
<1>a. /\ run' \in [Stages -> SUBSET Steps]
      /\ \A u \in Stages : u # s => run'[u] = run[u]
      /\ run'[s] = {}
  BY RaiseEffect DEF Failed
<1>b. /\ p \in (Parts \cup Common) \ {"sg"} /\ p \in has[s]
      /\ <<"create", p>> \in run[s]
  BY <1>0 DEF At, StepsInv, DeploySteps, Parts, Common, Stacks
<1>c. Deploying(s) /\ s \notin gone
  BY <1>b DEF Deploying, TypeOK
<1>g. /\ state' \in [Things -> {"none", "up", "broken", "going"}]
      /\ \A u \in Stages, q \in Parts \cup Common :
           state'[Thing(u, q)] =
             IF q = p /\ (u = s \/ p \in Common) THEN "broken" ELSE state[Thing(u, q)]
      /\ \A t \in Things : state'[t] = IF t = Thing(s, p) THEN "broken" ELSE state[t]
  BY <1>b, SetEffect DEF Failed
<1>d. /\ \A u \in Stages, q \in Parts :
           u # s => state'[Thing(u, q)] = state[Thing(u, q)]
      /\ \A q \in Parts :
           state'[Thing(s, q)] = IF q = p THEN "broken" ELSE state[Thing(s, q)]
      /\ state'[<<Shared, "vpc">>] = IF p = "vpc" THEN "broken" ELSE state[<<Shared, "vpc">>]
  <2>1. \A u \in Stages, q \in Parts :
          state'[Thing(u, q)] = IF q = p /\ u = s THEN "broken" ELSE state[Thing(u, q)]
    BY <1>g, SomeParts
  <2>2. state'[Thing(s, "vpc")] = IF p = "vpc" THEN "broken" ELSE state[Thing(s, "vpc")]
    BY <1>g, SomeParts
  <2> QED
    BY <2>1, <2>2, Apart
<1>e. \A q \in {"acm", "keys", "container", "cloudfront"} :
        <<"create", q>> \notin run[s] => Is(s, q) # "going"
  BY <1>0, <1>c, SomeParts DEF DeployInv, TypeOK
<1>1. TypeOK'
  BY <1>a, <1>b, <1>c, <1>d, <1>g DEF TypeOK, Is
<1>2. StepsInv'
  BY <1>0, <1>a DEF StepsInv, Destroying, DeploySteps
<1>3. DeployInv'
  BY <1>0, <1>a, <1>b, <1>c, <1>d, SomeParts DEF DeployInv, Deploying, Is
<1>4. DestroyInv'
  BY <1>0, <1>a, <1>b, <1>c, <1>d, SomeParts
  DEF DestroyInv, Destroying, Pending, Is
<1>5. OrderInv'
  <2>1. \A u \in Stages, q \in {"acm", "keys", "container", "cloudfront", "policy"} :
          u # s => state'[Thing(u, q)] = state[Thing(u, q)]
    BY <1>d, SomeParts
  <2>2. \A q \in {"acm", "keys", "container", "cloudfront", "policy"} :
          state'[Thing(s, q)] = IF q = p THEN "broken" ELSE state[Thing(s, q)]
    BY <1>d, SomeParts
  <2>3. p # "policy"
    BY DEF Stacks
  <2>4. p = "cloudfront" => \A q \in {"acm", "keys", "container"} : Is(s, q) # "going"
    BY <1>e, DeployPassed
  <2>5. p = "container" => Is(s, "keys") # "going"
    BY <1>e, DeployPassed
  <2> QED
    BY <1>0, <2>1, <2>2, <2>3, <2>4, <2>5 DEF OrderInv, Is
<1>6. GoingInv'
  BY <1>0, <1>g DEF GoingInv
<1>7. VpcInv'
  <2> SUFFICES ASSUME p # "vpc", state[<<Shared, "vpc">>] = "going"
               PROVE  VpcInv'
    BY <1>d DEF VpcInv
  <2>1. PICK w \in Owners :
          /\ "vpc" \in has[w]
          /\ \A q \in {"rds", "container"} :
               /\ Is(w, q) = "none"
               /\ <<"create", q>> \in run[w] => <<"create", "vpc">> \in run[w]
    BY <1>0 DEF VpcInv
  <2>2. w = s => p \notin {"rds", "container"}
    BY <1>b, <2>1, DeployPassed
  <2>3. \A q \in {"rds", "container"} : state'[Thing(w, q)] = state[Thing(w, q)]
    BY <1>d, <2>2, SomeParts DEF Stages
  <2>4. run'[w] = run[w] \/ run'[w] = {}
    BY <1>a DEF Stages
  <2> QED
    BY <2>1, <2>3, <2>4 DEF VpcInv, Is
<1>8. ConsumersAreTagged'
  <2>1. s \in Guests /\ p = "container" => s \in tags \cup wiped
    BY <1>0, <1>b, <1>c, DeployPassed DEF DeployInv
  <2>2. \A u \in Guests : state'[Thing(u, "container")] # "none" =>
          (u = s /\ p = "container") \/ state[Thing(u, "container")] # "none"
    BY <1>d, SomeParts DEF Stages
  <2> QED
    BY <1>0, <2>1, <2>2 DEF ConsumersAreTagged, Is
<1>9. EndedDestroyIsClean'
  BY <1>0, <1>a, <1>b, <1>c, <1>d, SomeParts
  DEF EndedDestroyIsClean, Left, Spared, Is, TypeOK
<1> QED
  BY <1>1, <1>2, <1>3, <1>4, <1>5, <1>6, <1>7, <1>8, <1>9 DEF Orderly

\* A destroy goes on: a part is gone.
LEMMA DroppedKeeps ==
  ASSUME TypeOK, Orderly, NEW s \in Stages, NEW todo \in {"delete", "await"},
         NEW p \in Parts \cup Common, At(s, todo, p), Go(s, todo, p),
         state' \in [Things -> {"none", "up", "broken", "going"}],
         \A t \in Things : state'[t] = "going" => state[t] = "going",
         \A u \in Stages, q \in Parts \cup Common :
           state'[Thing(u, q)] =
             IF q = p /\ (u = s \/ p \in Common) THEN "none" ELSE state[Thing(u, q)],
         UNCHANGED <<has, tags, deploys, gone, wiped, cuts>>
  PROVE  TypeOK' /\ Orderly'
<1>0. /\ StepsInv /\ DeployInv /\ DestroyInv /\ OrderInv /\ GoingInv /\ VpcInv
      /\ ConsumersAreTagged /\ EndedDestroyIsClean
  BY DEF Orderly
<1>a. /\ run' \in [Stages -> SUBSET Steps]
      /\ \A u \in Stages : u # s => run'[u] = run[u]
      /\ \A step : step \in run'[s] <=> step \in run[s] /\ step # <<todo, p>>
  BY GoEffect
<1>b. <<todo, p>> \in run[s] /\ s \notin gone
  BY DEF At, TypeOK
<1>c. ~Deploying(s) /\ (p # "waf" => Destroying(s))
  BY <1>0, <1>b DEF Deploying, StepsInv, DeploySteps
<1>d. /\ \A u \in Stages, q \in Parts :
           u # s => state'[Thing(u, q)] = state[Thing(u, q)]
      /\ \A q \in Parts :
           state'[Thing(s, q)] = IF q = p THEN "none" ELSE state[Thing(s, q)]
      /\ state'[<<Shared, "vpc">>] = IF p = "vpc" THEN "none" ELSE state[<<Shared, "vpc">>]
  <2>1. \A u \in Stages, q \in Parts :
          state'[Thing(u, q)] = IF q = p /\ u = s THEN "none" ELSE state[Thing(u, q)]
    BY SomeParts
  <2>2. state'[Thing(s, "vpc")] = IF p = "vpc" THEN "none" ELSE state[Thing(s, "vpc")]
    BY SomeParts
  <2> QED
    BY <2>1, <2>2, Apart
<1>1. TypeOK'
  BY <1>a, <1>b, <1>d DEF TypeOK, Is
<1>2. StepsInv'
  BY <1>0, <1>a, <1>b, <1>c, <1>d, SomeParts
  DEF StepsInv, Destroying, DeploySteps
<1>3. DeployInv'
  <2>1. ~Deploying(s)'
    BY <1>a, <1>c DEF Deploying
  <2>2. \A u \in Stages : u # s => run'[u] = run[u] /\ (Deploying(u)' => Deploying(u))
    BY <1>a DEF Deploying
  <2>3. \A u \in Stages, q \in {"acm", "keys", "container", "cloudfront"} :
          u # s => state'[Thing(u, q)] = state[Thing(u, q)]
    BY <1>d, SomeParts
  <2> QED
    BY <1>0, <2>1, <2>2, <2>3 DEF DeployInv, Is
<1>4. DestroyInv'
  <2>1. Destroying(s)' => Destroying(s)
    BY <1>a DEF Destroying
  <2>2. \A q \in Destroyed(s) : ~Pending(s, q)' => q = p \/ ~Pending(s, q)
    BY <1>a DEF Pending
  <2>3. <<"delete", "untag">> \notin run'[s] => <<"delete", "untag">> \notin run[s]
    BY <1>a DEF Parts, Common
  <2>4. \A u \in Stages : u # s => run'[u] = run[u]
    BY <1>a
  <2>5. \A q \in Destroyed(s) : state'[Thing(s, q)] = "none" \/ q # p
    BY <1>d, SomeParts
  <2>6. \A u \in Stages : \A q \in Destroyed(u) :
          state'[Thing(u, q)] = "none" \/ state'[Thing(u, q)] = state[Thing(u, q)]
    BY <1>d, SomeParts
  <2> QED
    BY <1>0, <2>1, <2>2, <2>3, <2>4, <2>5, <2>6
    DEF DestroyInv, Destroying, Pending, Is
<1>5. OrderInv'
  <2>1. \A u \in Stages, q \in {"acm", "keys", "container", "cloudfront", "policy"} :
          u # s => state'[Thing(u, q)] = state[Thing(u, q)]
    BY <1>d, SomeParts
  <2>2. \A q \in {"acm", "keys", "container", "cloudfront", "policy"} :
          state'[Thing(s, q)] = IF q = p THEN "none" ELSE state[Thing(s, q)]
    BY <1>d, SomeParts
  <2>3. p = "cloudfront" => Is(s, "policy") = "none"
    BY <1>0, <1>c, DestroyPassed, SomeParts DEF DestroyInv
  <2> QED
    BY <1>0, <2>1, <2>2, <2>3 DEF OrderInv, Is
<1>6. GoingInv'
  BY <1>0, <1>a, <1>b, <1>c, <1>d, SomeParts DEF GoingInv
<1>7. VpcInv'
  <2> SUFFICES ASSUME state[<<Shared, "vpc">>] = "going"
               PROVE  VpcInv'
    BY <1>d DEF VpcInv
  <2>1. PICK w \in Owners :
          /\ "vpc" \in has[w]
          /\ \A q \in {"rds", "container"} :
               /\ Is(w, q) = "none"
               /\ <<"create", q>> \in run[w] => <<"create", "vpc">> \in run[w]
    BY <1>0 DEF VpcInv
  <2>2. \A q \in {"rds", "container"} : state'[Thing(w, q)] = "none"
    BY <1>d, <2>1, SomeParts DEF Stages, Is
  <2>3. \A q : <<"create", q>> \in run'[w] <=> <<"create", q>> \in run[w]
    BY <1>a DEF Stages
  <2> QED
    BY <2>1, <2>2, <2>3 DEF VpcInv, Is
<1>8. ConsumersAreTagged'
  BY <1>0, <1>a, <1>b, <1>c, <1>d, SomeParts DEF ConsumersAreTagged, Is, Stages
<1>9. EndedDestroyIsClean'
  BY <1>0, <1>a, <1>b, <1>c, <1>d, SomeParts
  DEF EndedDestroyIsClean, Left, Spared, Is, TypeOK
<1> QED
  BY <1>1, <1>2, <1>3, <1>4, <1>5, <1>6, <1>7, <1>8, <1>9 DEF Orderly

\* A destroy asks for the deletion of what takes time, and waits for it.
LEMMA RequestedKeeps ==
  ASSUME TypeOK, Orderly, NEW s \in Stages, NEW p \in Stacks \cup {"rds"},
         At(s, "delete", p), Is(s, p) # "none", Set(s, p, "going"),
         NEW steps \in SUBSET Steps, Replace(s, "delete", p, steps),
         <<"await", p>> \in steps,
         steps \subseteq {<<"await", p>>} \cup {step \in {<<"delete", "sg">>} : p = "rds"},
         UNCHANGED <<has, tags, deploys, gone, wiped, cuts>>
  PROVE  TypeOK' /\ Orderly'
<1> USE StagesAssumption
<1>0. /\ StepsInv /\ DeployInv /\ DestroyInv /\ OrderInv /\ GoingInv /\ VpcInv
      /\ ConsumersAreTagged /\ EndedDestroyIsClean
  BY DEF Orderly
<1>a. /\ run' \in [Stages -> SUBSET Steps]
      /\ \A u \in Stages : u # s => run'[u] = run[u]
      /\ \A step : step \in run'[s] <=>
           step \in steps \/ (step \in run[s] /\ step # <<"delete", p>>)
  BY RunEffect
<1>b. <<"delete", p>> \in run[s] /\ s \notin gone /\ p \in (Parts \cup Common) \ {"sg"}
  BY DEF At, TypeOK, Stacks, Parts, Common
<1>c. ~Deploying(s) /\ (p # "waf" => Destroying(s) /\ p \in has[s])
  <2>1. \A q : <<"create", q>> \notin run[s]
    BY <1>0, <1>b DEF StepsInv, DeploySteps
  <2>2. p # "waf" =>
          /\ Destroying(s)
          /\ run[s] \subseteq ({"delete", "await"} \X ((has[s] \cup {"untag", "sg"}) \ {"waf"}))
                               \cup {<<"finish", "stage">>}
    BY <1>0, <1>b DEF StepsInv, DeploySteps
  <2>3. p # "untag"
    BY DEF Stacks
  <2> QED
    BY <1>b, <2>1, <2>2, <2>3 DEF Deploying
<1>g. /\ state' \in [Things -> {"none", "up", "broken", "going"}]
      /\ \A u \in Stages, q \in Parts \cup Common :
           state'[Thing(u, q)] =
             IF q = p /\ (u = s \/ p \in Common) THEN "going" ELSE state[Thing(u, q)]
      /\ \A t \in Things : state'[t] = IF t = Thing(s, p) THEN "going" ELSE state[t]
  BY <1>b, SetEffect
<1>d. /\ \A u \in Stages, q \in Parts :
           u # s => state'[Thing(u, q)] = state[Thing(u, q)]
      /\ \A q \in Parts :
           state'[Thing(s, q)] = IF q = p THEN "going" ELSE state[Thing(s, q)]
      /\ state'[<<Shared, "vpc">>] = IF p = "vpc" THEN "going" ELSE state[<<Shared, "vpc">>]
  <2>1. \A u \in Stages, q \in Parts :
          state'[Thing(u, q)] = IF q = p /\ u = s THEN "going" ELSE state[Thing(u, q)]
    BY <1>g, SomeParts
  <2>2. state'[Thing(s, "vpc")] = IF p = "vpc" THEN "going" ELSE state[Thing(s, "vpc")]
    BY <1>g, SomeParts
  <2> QED
    BY <2>1, <2>2, Apart
<1>h. p # "waf" => \A q \in Destroyed(s) : ~Pending(s, q) => Is(s, q) = "none"
  BY <1>0, <1>c DEF DestroyInv
<1>i. {"cloudfront", "container", "rds", "policy"} \subseteq Destroyed(s)
  BY SomeParts
<1>1. TypeOK'
  BY <1>a, <1>b, <1>d, <1>g DEF TypeOK, Is
<1>2. StepsInv'
  <2>1. CASE p = "waf"
    <3>1. run[s] \subseteq {<<"delete", "waf">>, <<"await", "waf">>}
      BY <1>0, <1>b, <2>1 DEF StepsInv, DeploySteps
    <3> QED
      BY <1>0, <1>a, <2>1, <3>1 DEF StepsInv, DeploySteps, Destroying
  <2>2. CASE p # "waf"
    <3>1. run[s] \subseteq ({"delete", "await"} \X ((has[s] \cup {"untag", "sg"}) \ {"waf"}))
                             \cup {<<"finish", "stage">>}
      BY <1>0, <1>c, <2>2 DEF StepsInv, DeploySteps, Destroying
    <3>2. steps \subseteq {"delete", "await"} \X ((has[s] \cup {"untag", "sg"}) \ {"waf"})
      BY <1>c, <2>2
    <3>3. <<"finish", "stage">> \in run'[s]
      BY <1>a, <1>c, <2>2 DEF Destroying
    <3> QED
      BY <1>0, <1>a, <3>1, <3>2, <3>3 DEF StepsInv, DeploySteps, Destroying
  <2> QED
    BY <2>1, <2>2
<1>3. DeployInv'
  <2>1. ~Deploying(s)'
    BY <1>a, <1>c DEF Deploying
  <2>2. \A u \in Stages : u # s => run'[u] = run[u] /\ (Deploying(u)' => Deploying(u))
    BY <1>a DEF Deploying
  <2>3. \A u \in Stages, q \in {"acm", "keys", "container", "cloudfront"} :
          u # s => state'[Thing(u, q)] = state[Thing(u, q)]
    BY <1>d, SomeParts
  <2> QED
    BY <1>0, <2>1, <2>2, <2>3 DEF DeployInv, Is
<1>4. DestroyInv'
  <2>1. Destroying(s)' => Destroying(s)
    BY <1>a DEF Destroying
  <2>2. \A q \in Destroyed(s) : ~Pending(s, q)' => q # p /\ ~Pending(s, q)
    BY <1>a DEF Pending
  <2>3. <<"delete", "untag">> \notin run'[s] => <<"delete", "untag">> \notin run[s]
    BY <1>a, <1>b DEF Parts, Common
  <2>4. \A u \in Stages : u # s => run'[u] = run[u]
    BY <1>a
  <2>5. \A q \in Destroyed(s) : q # p => state'[Thing(s, q)] = state[Thing(s, q)]
    BY <1>d, SomeParts
  <2>6. \A u \in Stages : \A q \in Destroyed(u) : u # s => state'[Thing(u, q)] = state[Thing(u, q)]
    BY <1>d, SomeParts
  <2> QED
    BY <1>0, <2>1, <2>2, <2>3, <2>4, <2>5, <2>6
    DEF DestroyInv, Destroying, Pending, Is
<1>5. OrderInv'
  <2>1. \A u \in Stages, q \in {"acm", "keys", "container", "cloudfront", "policy"} :
          u # s => state'[Thing(u, q)] = state[Thing(u, q)]
    BY <1>d, SomeParts
  <2>2. \A q \in {"acm", "keys", "container", "cloudfront", "policy"} :
          state'[Thing(s, q)] = IF q = p THEN "going" ELSE state[Thing(s, q)]
    BY <1>d, SomeParts
  <2>3. p = "cloudfront" => Is(s, "policy") = "none"
    BY <1>h, <1>i, DestroyPassed
  <2>4. p \in {"acm", "container", "keys"} => Is(s, "cloudfront") = "none"
    BY <1>h, <1>i, DestroyPassed
  <2>5. p = "keys" => Is(s, "container") = "none"
    BY <1>h, <1>i, DestroyPassed
  <2>6. p # "policy"
    BY DEF Stacks
  <2> QED
    BY <1>0, <2>1, <2>2, <2>3, <2>4, <2>5, <2>6 DEF OrderInv, Is
<1>6. GoingInv'
  BY <1>0, <1>g, <1>b DEF GoingInv, Thing
<1>7. VpcInv'
  <2>1. CASE p = "vpc"
    <3>1. s \in Owners /\ "vpc" \in has[s]
      BY <1>c, <2>1, SomeParts DEF Stages, TypeOK
    <3>2. \A q \in {"rds", "container"} : Is(s, q) = "none"
      BY <1>h, <1>i, <2>1, DestroyPassed
    <3>3. \A q \in {"rds", "container"} : state'[Thing(s, q)] = "none"
      BY <1>d, <2>1, <3>2, SomeParts DEF Is
    <3>4. \A q \in {"rds", "container"} : <<"create", q>> \notin run'[s]
      <4>1. \A q \in {"rds", "container"} : <<"create", q>> \notin run[s]
        BY <1>c, SomeParts DEF Deploying
      <4>2. \A q : <<"create", q>> \notin steps
        OBVIOUS
      <4> QED
        BY <1>a, <4>1, <4>2
    <3> QED
      BY <3>1, <3>3, <3>4 DEF VpcInv, Is
  <2>2. CASE p # "vpc" /\ state[<<Shared, "vpc">>] = "going"
    <3>1. PICK w \in Owners :
            /\ "vpc" \in has[w]
            /\ \A q \in {"rds", "container"} :
                 /\ Is(w, q) = "none"
                 /\ <<"create", q>> \in run[w] => <<"create", "vpc">> \in run[w]
      BY <1>0, <2>2 DEF VpcInv
    <3>2. \A q \in {"rds", "container"} : state'[Thing(w, q)] = "none"
      BY <1>d, <3>1, SomeParts DEF Stages, Is
    <3>3. \A q : <<"create", q>> \in run'[w] <=> <<"create", q>> \in run[w]
      BY <1>a DEF Stages
    <3> QED
      BY <3>1, <3>2, <3>3 DEF VpcInv, Is
  <2> QED
    BY <1>d, <2>1, <2>2 DEF VpcInv
<1>8. ConsumersAreTagged'
  <2>1. p = "container" => Is(s, "container") # "none"
    OBVIOUS
  <2>2. \A u \in Guests : state'[Thing(u, "container")] # "none" =>
          state[Thing(u, "container")] # "none"
    BY <1>d, <2>1, SomeParts DEF Stages, Is
  <2> QED
    BY <1>0, <2>2 DEF ConsumersAreTagged, Is
<1>9. EndedDestroyIsClean'
  <2>1. \A u \in gone, q \in Parts : state'[Thing(u, q)] = state[Thing(u, q)]
    BY <1>b, <1>d DEF TypeOK
  <2> QED
    BY <1>0, <2>1 DEF EndedDestroyIsClean, Left, Spared, Is
<1> QED
  BY <1>1, <1>2, <1>3, <1>4, <1>5, <1>6, <1>7, <1>8, <1>9 DEF Orderly

\* A guest makes itself known to the VPC.
LEMMA TagKeeps ==
  ASSUME TypeOK, Orderly, NEW s \in Stages, Tag(s)
  PROVE  TypeOK' /\ Orderly'
<1> USE StagesAssumption
<1>0. /\ StepsInv /\ DeployInv /\ DestroyInv /\ OrderInv /\ GoingInv /\ VpcInv
      /\ ConsumersAreTagged /\ EndedDestroyIsClean
  BY DEF Orderly
<1>1. CASE Raise(s) /\ UNCHANGED <<tags, wiped>>
  BY <1>1, StopKeeps DEF Tag, TypeOK
<1>2. CASE Go(s, "create", "tag") /\ tags' = tags \cup {s} /\ wiped' = wiped \ {s}
  <2>a. /\ run' \in [Stages -> SUBSET Steps]
        /\ \A u \in Stages : u # s => run'[u] = run[u]
        /\ \A step : step \in run'[s] <=> step \in run[s] /\ step # <<"create", "tag">>
    BY <1>2, GoEffect
  <2>b. /\ <<"create", "tag">> \in run[s] /\ s \notin gone
        /\ UNCHANGED <<has, state, deploys, gone, cuts>>
        /\ tags' \cup wiped' = tags \cup wiped \cup {s}
    BY <1>2 DEF Tag, At, TypeOK
  <2>c. s \in Guests /\ Deploying(s) /\ run[s] \subseteq DeploySteps(s) /\ ~Destroying(s)
    <3>1. run[s] \subseteq DeploySteps(s)
      BY <1>0, <2>b DEF StepsInv
    <3>2. "tag" \notin has[s]
      BY DEF TypeOK, Parts, Common
    <3> QED
      BY <2>b, <3>1, <3>2 DEF DeploySteps, Deploying, Destroying
  <2>1. TypeOK'
    BY <1>0, <1>2, <2>a, <2>b, <2>c DEF TypeOK, Is
  <2>2. StepsInv'
    BY <1>0, <1>2, <2>a, <2>b, <2>c
    DEF StepsInv, Destroying, DeploySteps
  <2>3. DeployInv'
    <3>1. \A u \in Stages : (Deploying(u)' => Deploying(u)) /\ (u # s => run'[u] = run[u])
      BY <2>a DEF Deploying
    <3>2. \A q \in {"acm", "keys", "container", "cloudfront"} :
            <<"create", q>> \in run'[s] <=> <<"create", q>> \in run[s]
      BY <2>a
    <3> QED
      BY <1>0, <2>b, <2>c, <3>1, <3>2 DEF DeployInv, Is
  <2>4. DestroyInv'
    BY <1>0, <1>2, <2>a, <2>b, <2>c DEF DestroyInv, Destroying, Pending, Is
  <2>5. OrderInv'
    BY <1>0, <1>2, <2>a, <2>b, <2>c DEF OrderInv, Is
  <2>6. GoingInv'
    BY <1>0, <1>2, <2>a, <2>b, <2>c DEF GoingInv
  <2>7. VpcInv'
    BY <1>0, <1>2, <2>a, <2>b, <2>c DEF VpcInv, Is, Stages
  <2>8. ConsumersAreTagged'
    BY <1>0, <1>2, <2>a, <2>b, <2>c DEF ConsumersAreTagged, Is
  <2>9. EndedDestroyIsClean'
    BY <1>0, <1>2, <2>a, <2>b, <2>c
    DEF EndedDestroyIsClean, Left, Spared, Is
  <2> QED
    BY <2>1, <2>2, <2>3, <2>4, <2>5, <2>6, <2>7, <2>8, <2>9 DEF Orderly
<1> QED
  BY <1>1, <1>2 DEF Tag

\* A guest is no longer listed as a consumer.
LEMMA UntagKeeps ==
  ASSUME TypeOK, Orderly, NEW s \in Stages, Untag(s)
  PROVE  TypeOK' /\ Orderly'
<1>0. /\ StepsInv /\ DeployInv /\ DestroyInv /\ OrderInv /\ GoingInv /\ VpcInv
      /\ ConsumersAreTagged /\ EndedDestroyIsClean
  BY DEF Orderly
<1>a. /\ run' \in [Stages -> SUBSET Steps]
      /\ \A u \in Stages : u # s => run'[u] = run[u]
      /\ \A step : step \in run'[s] <=> step \in run[s] /\ step # <<"delete", "untag">>
  BY GoEffect DEF Untag
<1>b. <<"delete", "untag">> \in run[s] /\ s \notin gone /\ UNCHANGED state
  BY DEF Untag, At, TypeOK
<1>c. ~Deploying(s) /\ Destroying(s)
  BY <1>0, <1>b DEF StepsInv, DeploySteps, Deploying
<1>d. Is(s, "container") = "none"
  BY <1>0, <1>c, DestroyPassed, SomeParts DEF Untag, DestroyInv
<1>e. tags' = tags \ {s} /\ UNCHANGED <<has, deploys, gone, wiped, cuts>>
  BY DEF Untag, Kept
<1>1. TypeOK'
  BY <1>0, <1>a, <1>b, <1>c, <1>d, <1>e DEF TypeOK, Is
<1>2. StepsInv'
  BY <1>0, <1>a, <1>b, <1>c, <1>d, <1>e DEF StepsInv, Destroying, DeploySteps
<1>3. DeployInv'
  BY <1>0, <1>a, <1>b, <1>c, <1>d, <1>e DEF DeployInv, Deploying, Is
<1>4. DestroyInv'
  <2>1. Destroying(s)' => Destroying(s)
    BY <1>a DEF Destroying
  <2>2. \A q \in Destroyed(s) : ~Pending(s, q)' => ~Pending(s, q)
    BY <1>a, SomeParts DEF Pending, Parts
  <2> QED
    BY <1>0, <1>a, <1>b, <1>e, <2>1, <2>2
    DEF DestroyInv, Destroying, Pending, Is
<1>5. OrderInv'
  BY <1>0, <1>a, <1>b, <1>c, <1>d, <1>e DEF OrderInv, Is
<1>6. GoingInv'
  BY <1>0, <1>a, <1>b, <1>c, <1>d, <1>e DEF GoingInv
<1>7. VpcInv'
  BY <1>0, <1>a, <1>b, <1>c, <1>d, <1>e DEF VpcInv, Is, Stages
<1>8. ConsumersAreTagged'
  BY <1>0, <1>a, <1>b, <1>c, <1>d, <1>e DEF ConsumersAreTagged, Is
<1>9. EndedDestroyIsClean'
  BY <1>0, <1>a, <1>b, <1>c, <1>d, <1>e DEF EndedDestroyIsClean, Left, Spared, Is
<1> QED
  BY <1>1, <1>2, <1>3, <1>4, <1>5, <1>6, <1>7, <1>8, <1>9 DEF Orderly

\* With a consumer the VPC and its file system are left as they are.
LEMMA LeaveKeeps ==
  ASSUME TypeOK, Orderly, NEW s \in Stages, At(s, "delete", "vpc"), LeaveVpc(s),
         UNCHANGED <<has, state, tags, deploys, gone, wiped, cuts>>
  PROVE  TypeOK' /\ Orderly'
<1>0. /\ StepsInv /\ DeployInv /\ DestroyInv /\ OrderInv /\ GoingInv /\ VpcInv
      /\ ConsumersAreTagged /\ EndedDestroyIsClean
  BY DEF Orderly
<1>a. /\ run' \in [Stages -> SUBSET Steps]
      /\ \A u \in Stages : u # s => run'[u] = run[u]
      /\ \A step : step \in run'[s] <=>
           step \in run[s] /\ step \notin {"delete"} \X Common
  BY DEF LeaveVpc, TypeOK
<1>b. <<"delete", "vpc">> \in run[s] /\ s \notin gone
  BY DEF At, TypeOK
<1>c. ~Deploying(s) /\ Destroying(s)
  BY <1>0, <1>b DEF StepsInv, DeploySteps, Deploying
<1>1. TypeOK'
  BY <1>0, <1>a, <1>b, <1>c DEF TypeOK, Is
<1>2. StepsInv'
  BY <1>0, <1>a, <1>b, <1>c DEF StepsInv, Destroying, DeploySteps
<1>3. DeployInv'
  BY <1>0, <1>a, <1>b, <1>c DEF DeployInv, Deploying, Is
<1>4. DestroyInv'
  <2>1. Destroying(s)' => Destroying(s)
    BY <1>a DEF Destroying
  <2>2. \A q \in Destroyed(s) : ~Pending(s, q)' => ~Pending(s, q)
    BY <1>a, SomeParts DEF Pending
  <2>3. <<"delete", "untag">> \notin run'[s] => <<"delete", "untag">> \notin run[s]
    BY <1>a DEF Common
  <2> QED
    BY <1>0, <1>a, <1>b, <2>1, <2>2, <2>3
    DEF DestroyInv, Destroying, Pending, Is
<1>5. OrderInv'
  BY <1>0, <1>a, <1>b, <1>c DEF OrderInv, Is
<1>6. GoingInv'
  BY <1>0, <1>a, <1>b, <1>c DEF GoingInv
<1>7. VpcInv'
  BY <1>0, <1>a, <1>b, <1>c DEF VpcInv, Is, Stages
<1>8. ConsumersAreTagged'
  BY <1>0, <1>a, <1>b, <1>c DEF ConsumersAreTagged, Is
<1>9. EndedDestroyIsClean'
  BY <1>0, <1>a, <1>b, <1>c DEF EndedDestroyIsClean, Left, Spared, Is
<1> QED
  BY <1>1, <1>2, <1>3, <1>4, <1>5, <1>6, <1>7, <1>8, <1>9 DEF Orderly

\* A destroy leaves a repository or a database that may be others' as well.
LEMMA SparedKeeps ==
  ASSUME TypeOK, Orderly, NEW s \in Stages, NEW p \in Spared(s), Leave(s, p)
  PROVE  TypeOK' /\ Orderly'
<1>0. /\ StepsInv /\ DeployInv /\ DestroyInv /\ OrderInv /\ GoingInv /\ VpcInv
      /\ ConsumersAreTagged /\ EndedDestroyIsClean
  BY DEF Orderly
<1>a. /\ run' \in [Stages -> SUBSET Steps]
      /\ \A u \in Stages : u # s => run'[u] = run[u]
      /\ \A step : step \in run'[s] <=> step \in run[s] /\ step # <<"delete", p>>
  BY GoEffect DEF Leave
<1>b. /\ <<"delete", p>> \in run[s] /\ s \notin gone /\ p \in {"image", "external"}
      /\ UNCHANGED <<has, state, tags, deploys, gone, wiped, cuts>>
  BY DEF Leave, At, Kept, Spared, TypeOK
<1>c. ~Deploying(s) /\ Destroying(s)
  BY <1>0, <1>b DEF StepsInv, DeploySteps, Deploying
<1>1. TypeOK'
  BY <1>0, <1>a, <1>b, <1>c DEF TypeOK, Is
<1>2. StepsInv'
  BY <1>0, <1>a, <1>b, <1>c DEF StepsInv, Destroying, DeploySteps
<1>3. DeployInv'
  BY <1>0, <1>a, <1>b, <1>c DEF DeployInv, Deploying, Is
<1>4. DestroyInv'
  <2>1. Destroying(s)' => Destroying(s)
    BY <1>a DEF Destroying
  <2>2. \A q \in Destroyed(s) : ~Pending(s, q)' => ~Pending(s, q)
    BY <1>a DEF Pending, Destroyed
  <2>3. <<"delete", "untag">> \notin run'[s] => <<"delete", "untag">> \notin run[s]
    BY <1>a, <1>b
  <2> QED
    BY <1>0, <1>a, <1>b, <2>1, <2>2, <2>3
    DEF DestroyInv, Destroying, Pending, Is
<1>5. OrderInv' /\ GoingInv'
  BY <1>0, <1>b DEF OrderInv, GoingInv, Is
<1>6. VpcInv'
  BY <1>0, <1>a, <1>b, <1>c DEF VpcInv, Is, Stages
<1>7. ConsumersAreTagged' /\ EndedDestroyIsClean'
  BY <1>0, <1>b DEF ConsumersAreTagged, EndedDestroyIsClean, Left, Is
<1> QED
  BY <1>1, <1>2, <1>3, <1>4, <1>5, <1>6, <1>7 DEF Orderly

\* AWS carries a deletion out, or refuses it.
LEMMA SettleKeeps ==
  ASSUME TypeOK, Orderly, NEW t \in Things, Settle(t)
  PROVE  TypeOK' /\ Orderly'
<1>0. /\ StepsInv /\ DeployInv /\ DestroyInv /\ OrderInv /\ GoingInv /\ VpcInv
      /\ ConsumersAreTagged /\ EndedDestroyIsClean
  BY DEF Orderly
<1>a. /\ UNCHANGED <<has, run, deploys, gone, cuts>>
      /\ tags' \subseteq tags /\ wiped' \subseteq Guests
      /\ tags' \cup wiped' = tags \cup wiped
  BY DEF Settle, TypeOK
<1>b. state[t] = "going" /\ \E v \in {"none", "up", "broken"} : state' = [state EXCEPT ![t] = v]
  BY DEF Settle
<1>c. /\ state' \in [Things -> {"none", "up", "broken", "going"}]
      /\ \A x \in Things : state'[x] = state[x] \/ (state[x] = "going" /\ state'[x] # "going")
  BY <1>b DEF TypeOK
<1>d. \A u \in Stages, q \in Parts \cup Common :
        \/ state'[Thing(u, q)] = state[Thing(u, q)]
        \/ state[Thing(u, q)] = "going" /\ state'[Thing(u, q)] # "going"
  BY <1>c, Apart
<1>e. state'[<<Shared, "vpc">>] = "going" => state[<<Shared, "vpc">>] = "going"
  BY <1>c DEF Things, Common
<1>1. TypeOK'
  BY <1>a, <1>c, <1>d DEF TypeOK, Is
<1>2. StepsInv'
  BY <1>0, <1>a, <1>c, <1>d, <1>e, SomeParts
  DEF StepsInv, Destroying, DeploySteps
<1>3. DeployInv'
  BY <1>0, <1>a, <1>c, <1>d, <1>e, SomeParts DEF DeployInv, Deploying, Is
<1>4. DestroyInv'
  BY <1>0, <1>a, <1>c, <1>d, <1>e, SomeParts
  DEF DestroyInv, Destroying, Pending, Is
<1>5. OrderInv'
  BY <1>0, <1>a, <1>d, SomeParts DEF OrderInv, Is
<1>6. GoingInv'
  BY <1>0, <1>a, <1>c, <1>d, <1>e, SomeParts DEF GoingInv
<1>7. VpcInv'
  BY <1>0, <1>a, <1>c, <1>d, <1>e, SomeParts DEF VpcInv, Is, Stages
<1>8. ConsumersAreTagged'
  BY <1>0, <1>a, <1>c, <1>d, <1>e, SomeParts DEF ConsumersAreTagged, Is, Stages
<1>9. EndedDestroyIsClean'
  BY <1>0, <1>a, <1>c, <1>d, <1>e, SomeParts
  DEF EndedDestroyIsClean, Left, Spared, Is, TypeOK
<1> QED
  BY <1>1, <1>2, <1>3, <1>4, <1>5, <1>6, <1>7, <1>8, <1>9 DEF Orderly

\* A command starts, when no other runs on the stage.
LEMMA StartKeeps ==
  ASSUME TypeOK, Orderly, NEW s \in Stages, NEW steps \in SUBSET Steps, Start(s, steps),
         \/ steps = DeploySteps(s) /\ has[s] # {}
         \/ \E kept \in SUBSET Optional :
              steps = DestroySteps(s, kept) \cup {<<"finish", "stage">>}
         \/ steps = {<<"delete", "waf">>},
         deploys' \in [Stages -> 0..MaxDeploys],
         UNCHANGED <<has, state, tags, wiped, cuts>>
  PROVE  TypeOK' /\ Orderly'
<1> USE StagesAssumption
<1>0. /\ StepsInv /\ DeployInv /\ DestroyInv /\ OrderInv /\ GoingInv /\ VpcInv
      /\ ConsumersAreTagged /\ EndedDestroyIsClean
  BY DEF Orderly
<1>a. /\ run' \in [Stages -> SUBSET Steps]
      /\ \A u \in Stages : u # s => run'[u] = run[u]
      /\ run'[s] = steps /\ gone' = gone \ {s} /\ run[s] = {}
  BY DEF Start, TypeOK
<1>b. has[s] \subseteq (Parts \cup Common) \ {"sg"}
  BY DEF TypeOK
<1>c. "tag" \notin Parts \cup Common /\ "untag" \notin Parts \cup Common
  BY DEF Parts, Common
<1>d. \A p \in has[s] : steps = DeploySteps(s) => <<"create", p>> \in steps
  BY DEF DeploySteps
<1>e. Deploying(s)' => /\ steps = DeploySteps(s)
                       /\ \A p \in has[s] : <<"create", p>> \in run'[s]
                       /\ s \in Guests /\ "container" \in has[s] => <<"create", "tag">> \in run'[s]
                       /\ \A p : <<"create", p>> \in run'[s] => p \in has[s] \cup {"tag"}
  BY <1>a, <1>d DEF Deploying, DestroySteps, DeploySteps
<1>1. TypeOK'
  BY <1>0, <1>a DEF TypeOK, Is
<1>2. StepsInv'
  <2>1. CASE steps = DeploySteps(s)
    BY <1>0, <1>a, <2>1 DEF StepsInv, Destroying, DeploySteps
  <2>2. ASSUME NEW kept \in SUBSET Optional,
               steps = DestroySteps(s, kept) \cup {<<"finish", "stage">>}
        PROVE  StepsInv'
    <3>1. run'[s] \subseteq ({"delete", "await"} \X ((has[s] \cup {"untag", "sg"}) \ {"waf"}))
                              \cup {<<"finish", "stage">>}
      BY <1>a, <2>2 DEF DestroySteps
    <3>2. <<"finish", "stage">> \in run'[s]
      BY <1>a, <2>2
    <3> QED
      BY <1>0, <1>a, <3>1, <3>2 DEF StepsInv, Destroying, DeploySteps
  <2>3. CASE steps = {<<"delete", "waf">>}
    BY <1>0, <1>a, <2>3 DEF StepsInv, Destroying, DeploySteps
  <2> QED
    BY <2>1, <2>2, <2>3
<1>3. DeployInv'
  <2>1. \A u \in Stages : u # s => run'[u] = run[u] /\ (Deploying(u)' => Deploying(u))
    BY <1>a DEF Deploying
  <2>2. <<"create", "container">> \in run'[s] => "container" \in has[s] \/ ~Deploying(s)'
    BY <1>e
  <2> QED
    BY <1>0, <1>e, <2>1, <2>2 DEF DeployInv, Is
<1>4. DestroyInv'
  <2>1. ASSUME Destroying(s)'
        PROVE  /\ \A q \in Destroyed(s) : q \in has[s] => Pending(s, q)'
               /\ s \in Guests => <<"delete", "untag">> \in run'[s]
    <3>1. PICK kept \in SUBSET Optional :
            steps = DestroySteps(s, kept) \cup {<<"finish", "stage">>}
      BY <1>a, <2>1 DEF Destroying, DeploySteps
    <3>2. \A q \in Destroyed(s) \cap has[s] : <<"delete", q>> \in steps
      BY <3>1 DEF DestroySteps, Optional, Destroyed
    <3>3. s \in Guests => <<"delete", "untag">> \in steps
      BY <3>1 DEF DestroySteps
    <3> QED
      BY <1>a, <3>2, <3>3 DEF Pending
  <2>2. \A q \in Destroyed(s) : q \notin has[s] => Is(s, q) = "none"
    BY SomeParts DEF TypeOK
  <2>3. s \notin Guests => s \notin tags
    BY DEF TypeOK
  <2> QED
    BY <1>0, <1>a, <2>1, <2>2, <2>3 DEF DestroyInv, Destroying, Pending, Is
<1>5. OrderInv'
  BY <1>0, <1>a DEF OrderInv, Is
<1>6. GoingInv'
  BY <1>0, <1>a DEF GoingInv
<1>7. VpcInv'
  <2> SUFFICES ASSUME state[<<Shared, "vpc">>] = "going"
               PROVE  VpcInv'
    BY DEF VpcInv
  <2>1. PICK w \in Owners :
          /\ "vpc" \in has[w]
          /\ \A q \in {"rds", "container"} :
               /\ Is(w, q) = "none"
               /\ <<"create", q>> \in run[w] => <<"create", "vpc">> \in run[w]
    BY <1>0 DEF VpcInv
  <2>2. CASE w = s
    <3>1. \A q \in {"rds", "container"} : <<"create", q>> \in run'[s] => Deploying(s)'
      BY SomeParts DEF Deploying
    <3> QED
      BY <1>e, <2>1, <2>2, <3>1 DEF VpcInv, Is
  <2>3. CASE w # s
    BY <1>a, <2>1, <2>3 DEF VpcInv, Is, Stages
  <2> QED
    BY <2>2, <2>3
<1>8. ConsumersAreTagged'
  BY <1>0, <1>a DEF ConsumersAreTagged, Is
<1>9. EndedDestroyIsClean'
  BY <1>0, <1>a DEF EndedDestroyIsClean, Left, Spared, Is
<1> QED
  BY <1>1, <1>2, <1>3, <1>4, <1>5, <1>6, <1>7, <1>8, <1>9 DEF Orderly

\* A destroy ends well.
LEMMA FinishKeeps ==
  ASSUME TypeOK, Orderly, NEW s \in Stages, Finish(s)
  PROVE  TypeOK' /\ Orderly'
<1>0. /\ StepsInv /\ DeployInv /\ DestroyInv /\ OrderInv /\ GoingInv /\ VpcInv
      /\ ConsumersAreTagged /\ EndedDestroyIsClean
  BY DEF Orderly
<1>a. /\ run' \in [Stages -> SUBSET Steps]
      /\ \A u \in Stages : u # s => run'[u] = run[u]
      /\ run'[s] = {}
      /\ gone' = gone \cup {s} /\ UNCHANGED <<has, state, tags, deploys, wiped, cuts>>
  BY RaiseEffect DEF Finish
<1>b. Destroying(s)
  BY DEF Finish, At, Destroying
<1>c. (\A q \in Destroyed(s) : Is(s, q) = "none") /\ s \notin tags
  BY <1>0, <1>b, DestroyPassed DEF Finish, DestroyInv
<1>1. TypeOK'
  BY <1>0, <1>a DEF TypeOK, Is
<1>2. StepsInv'
  BY <1>0, <1>a DEF StepsInv, Destroying, DeploySteps
<1>3. DeployInv'
  BY <1>0, <1>a DEF DeployInv, Deploying, Is
<1>4. DestroyInv'
  BY <1>0, <1>a DEF DestroyInv, Destroying, Pending, Is
<1>5. OrderInv'
  BY <1>0, <1>a DEF OrderInv, Is
<1>6. GoingInv'
  BY <1>0, <1>a DEF GoingInv
<1>7. VpcInv'
  BY <1>0, <1>a DEF VpcInv, Is, Stages
<1>8. ConsumersAreTagged'
  BY <1>0, <1>a DEF ConsumersAreTagged, Is
<1>9. EndedDestroyIsClean'
  <2>1. Left(s) \subseteq {"waf", "secrets", "record", "sg"}
    BY <1>c DEF Left, Destroyed
  <2> QED
    BY <1>0, <1>a, <1>c, <2>1 DEF EndedDestroyIsClean, Left, Spared, Is
<1> QED
  BY <1>1, <1>2, <1>3, <1>4, <1>5, <1>6, <1>7, <1>8, <1>9 DEF Orderly

\* A deploy keeps the invariant with every step it takes.
LEMMA CreatesKeep ==
  ASSUME TypeOK, Orderly, NEW s \in Stages, run[s] # {}, Creates(s)
  PROVE  TypeOK' /\ Orderly'
<1> USE StagesAssumption, BoundsAssumption
<1>1. ASSUME NEW p \in Parts \cup Common, p # "sg", Make(s, p)
      PROVE  TypeOK' /\ Orderly'
  <2>1. Set(s, p, "up")
    BY <1>1 DEF Make
  <2> QED
    BY <1>1, <2>1, SetEffect, MadeKeeps DEF Make, Kept, TypeOK
<1>2. ASSUME NEW p \in Stacks, StackExists(s, p)
      PROVE  TypeOK' /\ Orderly'
  <2>1. p \in (Parts \cup Common) \ {"sg"}
    BY DEF Stacks, Parts, Common
  <2>2. CASE Unready(s, p)
    BY <1>2, <2>2, StopKeeps DEF StackExists, Kept, TypeOK
  <2>3. CASE ~Unready(s, p)
    <3>1. Is(s, p) = "up"
      BY <1>2, <2>1, <2>3, Apart DEF StackExists, Unready, Is, TypeOK
    <3>2. \A u \in Stages, q \in (Parts \cup Common) \ {"sg"} :
            state'[Thing(u, q)] =
              IF q = p /\ (u = s \/ p \in Common) THEN "up" ELSE state[Thing(u, q)]
      BY <1>2, <2>1, <3>1, Apart DEF StackExists, Is
    <3> QED
      BY <1>2, <2>1, <2>3, <3>2, MadeKeeps DEF StackExists, Kept, TypeOK
  <2> QED
    BY <2>2, <2>3
<1>3. CASE UpdateVpc(s)
  <2>1. \A u \in Stages, q \in (Parts \cup Common) \ {"sg"} :
          state'[Thing(u, q)] =
            IF q = "vpc" /\ (u = s \/ "vpc" \in Common) THEN "up" ELSE state[Thing(u, q)]
    BY <1>3, Apart, SomeParts DEF UpdateVpc, Is
  <2> QED
    BY <1>3, <2>1, SomeParts, MadeKeeps DEF UpdateVpc, TypeOK
<1>4. ASSUME NEW p \in Stacks, CreateStack(s, p)
      PROVE  TypeOK' /\ Orderly'
  <2>1. p \in (Parts \cup Common) \ {"sg"}
    BY DEF Stacks, Parts, Common
  <2>2. CASE Failed(s, p)
    BY <1>4, <2>2, FailKeeps DEF CreateStack, Kept
  <2>3. CASE Raise(s) /\ UNCHANGED state
    BY <1>4, <2>3, StopKeeps DEF CreateStack, Kept, TypeOK
  <2>4. CASE Set(s, p, "up") /\ Go(s, "create", p)
    BY <1>4, <2>1, <2>4, SetEffect, MadeKeeps DEF CreateStack, Kept, TypeOK
  <2> QED
    BY <1>4, <2>2, <2>3, <2>4 DEF CreateStack
<1>5. CASE CreateRds(s)
  <2>1. CASE Raise(s) /\ UNCHANGED state
    BY <1>5, <2>1, StopKeeps DEF CreateRds, Kept, TypeOK
  <2>2. CASE Is(s, "rds") = "up" /\ UNCHANGED state /\ Go(s, "create", "rds")
    <3>1. \A u \in Stages, q \in (Parts \cup Common) \ {"sg"} :
            state'[Thing(u, q)] =
              IF q = "rds" /\ (u = s \/ "rds" \in Common) THEN "up" ELSE state[Thing(u, q)]
      BY <2>2, SomeParts DEF Is
    <3> QED
      BY <1>5, <2>2, <3>1, SomeParts, MadeKeeps DEF CreateRds, Kept, TypeOK
  <2>3. CASE /\ state' = [state EXCEPT ![<<s, "rds">>] = "up", ![<<s, "sg">>] = "up"]
             /\ Go(s, "create", "rds")
    <3>1. /\ Thing(s, "rds") = <<s, "rds">> /\ Thing(s, "sg") = <<s, "sg">>
          /\ Thing(s, "rds") \in Things /\ Thing(s, "sg") \in Things
      BY Apart DEF Parts
    <3>2. /\ state' \in [Things -> {"none", "up", "broken", "going"}]
          /\ \A t \in Things : state'[t] = "going" => state[t] = "going"
          /\ \A u \in Stages, q \in (Parts \cup Common) \ {"sg"} :
               state'[Thing(u, q)] =
                 IF q = "rds" /\ (u = s \/ "rds" \in Common) THEN "up" ELSE state[Thing(u, q)]
      <4>1. \A t \in Things : state'[t] = IF t \in {Thing(s, "rds"), Thing(s, "sg")}
                                          THEN "up" ELSE state[t]
        BY <2>3, <3>1 DEF TypeOK
      <4>2. state' \in [Things -> {"none", "up", "broken", "going"}]
        BY <2>3, <3>1 DEF TypeOK
      <4>3. "sg" \in Parts \cup Common /\ "rds" \in Parts \cup Common
        BY DEF Parts
      <4> QED
        BY <4>1, <4>2, <4>3, Apart, SomeParts
    <3>3. At(s, "create", "rds") /\ UNCHANGED <<has, tags, deploys, gone, wiped, cuts>>
      BY <1>5 DEF CreateRds, Kept
    <3>4. wiped \subseteq Guests
      BY DEF TypeOK
    <3>5. Go(s, "create", "rds")
      BY <2>3
    <3> QED
      BY <3>5, <3>2, <3>3, <3>4, SomeParts, MadeKeeps
  <2> QED
    BY <1>5, <2>1, <2>2, <2>3 DEF CreateRds
<1>6. CASE Tag(s)
  BY <1>6, TagKeeps
<1>7. {"record", "efs", "build", "image", "external", "bucket", "secrets", "policy"}
        \subseteq (Parts \cup Common) \ {"sg"}
  BY DEF Parts, Common
<1> QED
  BY <1>1, <1>2, <1>3, <1>4, <1>5, <1>6, <1>7 DEF Creates, EnsureStateBucket,
     EnsureEfs, EnsureBuilder, EnsureImage, EnsureExternal, EnsureBucket,
     EnsureSecrets, EnsureBucketPolicy

\* So does a destroy.
LEMMA DeletesKeep ==
  ASSUME TypeOK, Orderly, NEW s \in Stages, Deletes(s)
  PROVE  TypeOK' /\ Orderly'
<1>1. ASSUME NEW p \in Parts \cup Common, NEW todo \in {"delete", "await"},
             At(s, todo, p), Go(s, todo, p), Set(s, p, "none"),
             UNCHANGED tags, Kept
      PROVE  TypeOK' /\ Orderly'
  BY <1>1, SetEffect, DroppedKeeps DEF Kept
<1>2. ASSUME NEW p \in Parts \cup Common, NEW todo \in {"delete", "await"},
             At(s, todo, p), Go(s, todo, p), Is(s, p) = "none",
             UNCHANGED <<state, tags>>, Kept
      PROVE  TypeOK' /\ Orderly'
  <2>1. \A u \in Stages, q \in Parts \cup Common :
          state'[Thing(u, q)] =
            IF q = p /\ (u = s \/ p \in Common) THEN "none" ELSE state[Thing(u, q)]
    BY <1>2, Apart DEF Is
  <2> QED
    BY <1>2, <2>1, DroppedKeeps DEF Kept, TypeOK
<1>3. ASSUME Raise(s), UNCHANGED <<state, tags>>, Kept
      PROVE  TypeOK' /\ Orderly'
  BY <1>3, StopKeeps DEF Kept, TypeOK
<1>4. ASSUME NEW p \in Parts \cup Common, Drop(s, p)
      PROVE  TypeOK' /\ Orderly'
  BY <1>1, <1>4 DEF Drop
<1>5. CASE DeleteBucketPolicy(s)
  <2>1. "policy" \in Parts \cup Common
    BY SomeParts
  <2>2. CASE Is(s, "cloudfront") = "broken"
    BY <1>3, <1>5, <2>2 DEF DeleteBucketPolicy
  <2>3. CASE Is(s, "cloudfront") = "none"
    <3>1. Is(s, "policy") = "none"
      BY <2>3 DEF Orderly, OrderInv
    <3> QED
      BY <1>2, <1>5, <2>1, <2>3, <3>1 DEF DeleteBucketPolicy
  <2>4. CASE Is(s, "cloudfront") \notin {"none", "broken"}
    BY <1>1, <1>5, <2>1, <2>4 DEF DeleteBucketPolicy
  <2> QED
    BY <2>2, <2>3, <2>4
<1>6. ASSUME NEW p \in Stacks \cup {"rds"}, AwaitDeleted(s, p)
      PROVE  TypeOK' /\ Orderly'
  <2>1. p \in Parts \cup Common
    BY DEF Stacks, Parts, Common
  <2> QED
    BY <1>2, <1>3, <1>6, <2>1 DEF AwaitDeleted
<1>7. ASSUME NEW p \in Stacks \cup {"rds"}, NEW more \in SUBSET {<<"delete", "sg">>},
             At(s, "delete", p), Is(s, p) # "none", Set(s, p, "going"),
             Replace(s, "delete", p, {<<"await", p>>} \cup more),
             more # {} => p = "rds", UNCHANGED tags, Kept
      PROVE  TypeOK' /\ Orderly'
  <2>1. {<<"await", p>>} \cup more \in SUBSET Steps
    BY DEF Steps, Stacks, Parts, Common
  <2> QED
    BY <1>7, <2>1, RequestedKeeps DEF Kept
<1>8. ASSUME NEW p \in Stacks, RequestDelete(s, p)
      PROVE  TypeOK' /\ Orderly'
  <2>1. p \in Parts \cup Common
    BY DEF Stacks, Parts, Common
  <2>2. {<<"await", p>>} \cup {} = {<<"await", p>>}
    OBVIOUS
  <2> QED
    BY <1>2, <1>7, <1>8, <2>1, <2>2 DEF RequestDelete
<1>9. CASE DeleteRds(s)
  <2>1. {<<"await", "rds">>} \cup {<<"delete", "sg">>} = {<<"await", "rds">>, <<"delete", "sg">>}
    OBVIOUS
  <2> QED
    BY <1>2, <1>3, <1>7, <1>9, <2>1, SomeParts DEF DeleteRds
<1>10. CASE DeleteVpc(s)
  <2>1. CASE tags # {}
    BY <1>10, <2>1, LeaveKeeps DEF DeleteVpc, Kept
  <2>2. CASE tags = {}
    <3>1. {<<"await", "vpc">>} \cup {} = {<<"await", "vpc">>}
      OBVIOUS
    <3> QED
      BY <1>2, <1>7, <1>10, <2>2, <3>1, SomeParts DEF DeleteVpc, Stacks
  <2> QED
    BY <2>1, <2>2
<1>11. CASE DeleteEfs(s)
  BY <1>1, <1>3, <1>11 DEF DeleteEfs, Common
<1>12. {"image", "build", "secrets", "sg", "bucket", "external", "record"} \subseteq Parts
  BY DEF Parts
<1>13. DeleteImage(s) \/ DeleteExternal(s) => TypeOK' /\ Orderly'
  BY <1>4, <1>12, SparedKeeps DEF DeleteImage, DeleteExternal, Spared
<1> QED
  BY <1>4, <1>5, <1>6, <1>8, <1>9, <1>10, <1>11, <1>12, <1>13, UntagKeeps, FinishKeeps
     DEF Deletes, DeleteBuilder, DeleteSecrets, DeleteSecurityGroup, DeleteBucket,
     DeleteStateBucket, RequestDelete

\* The inductive invariant: types, what a command has before it, that what it
\* has passed is up or gone, and that nothing is being deleted that the stage
\* itself still uses.
THEOREM Invariance == Spec => [](TypeOK /\ Orderly)
PROOF
<1> USE StagesAssumption, BoundsAssumption
<1>1. Init => TypeOK /\ Orderly
  <2> SUFFICES ASSUME Init PROVE TypeOK /\ Orderly
    OBVIOUS
  <2>1. \A s \in Stages, p \in Parts \cup Common : Is(s, p) = "none"
    BY Apart DEF Init, Is
  <2>2. state[<<Shared, "vpc">>] = "none"
    BY DEF Init, Things, Common
  <2>3. TypeOK
    BY <2>1 DEF Init, TypeOK
  <2>4. StepsInv
    BY DEF Init, StepsInv
  <2>5. DeployInv /\ DestroyInv
    BY DEF Init, DeployInv, DestroyInv, Deploying, Destroying
  <2>6. OrderInv /\ ConsumersAreTagged
    BY <2>1, SomeParts DEF OrderInv, ConsumersAreTagged, Stages
  <2>7. VpcInv /\ GoingInv /\ EndedDestroyIsClean
    BY <2>2 DEF Init, VpcInv, GoingInv, EndedDestroyIsClean
  <2> QED
    BY <2>3, <2>4, <2>5, <2>6, <2>7 DEF Orderly
<1>2. TypeOK /\ Orderly /\ [Next]_vars => (TypeOK /\ Orderly)'
  <2> SUFFICES ASSUME TypeOK, Orderly, [Next]_vars PROVE TypeOK' /\ Orderly'
    OBVIOUS
  <2>1. CASE UNCHANGED vars
    <3> USE <2>1 DEF vars
    <3>1. TypeOK' /\ StepsInv'
      BY DEF TypeOK, Is, Orderly, StepsInv, DeploySteps, Destroying
    <3>2. DeployInv' /\ DestroyInv'
      BY DEF Orderly, DeployInv, DestroyInv, Deploying, Destroying, Pending, Is
    <3>3. OrderInv' /\ GoingInv' /\ VpcInv'
      BY DEF Orderly, OrderInv, GoingInv, VpcInv, Is
    <3>4. ConsumersAreTagged' /\ EndedDestroyIsClean'
      BY DEF Orderly, ConsumersAreTagged, EndedDestroyIsClean, Left, Spared, Is
    <3> QED
      BY <3>1, <3>2, <3>3, <3>4 DEF Orderly
  <2>2. ASSUME NEW s \in Stages, Deploy(s) PROVE TypeOK' /\ Orderly'
    <3>1. has[s] \subseteq Parts \cup Common
      BY DEF TypeOK
    <3>2. DeploySteps(s) \in SUBSET Steps
      BY <3>1 DEF DeploySteps, Steps
    <3>3. deploys' \in [Stages -> 0..MaxDeploys]
      BY <2>2 DEF Deploy, TypeOK
    <3> QED
      BY <2>2, <3>2, <3>3, StartKeeps DEF Deploy
  <2>3. ASSUME NEW s \in Stages, NEW kept \in SUBSET (Optional \cap has[s]),
               Destroy(s, kept)
        PROVE  TypeOK' /\ Orderly'
    <3>1. has[s] \subseteq Parts \cup Common
      BY DEF TypeOK
    <3>2. DestroySteps(s, kept) \cup {<<"finish", "stage">>} \in SUBSET Steps
      BY <3>1 DEF DestroySteps, Steps
    <3> QED
      BY <2>3, <3>2, StartKeeps DEF Destroy, TypeOK
  <2>4. ASSUME NEW s \in Stages, DestroyWaf(s) PROVE TypeOK' /\ Orderly'
    <3>1. {<<"delete", "waf">>} \in SUBSET Steps
      BY DEF Steps, Parts
    <3> QED
      BY <2>4, <3>1, StartKeeps DEF DestroyWaf, TypeOK
  <2>5. ASSUME NEW s \in Stages, Step(s) PROVE TypeOK' /\ Orderly'
    BY <2>5, CreatesKeep, DeletesKeep DEF Step
  <2>6. ASSUME NEW s \in Stages, CutOff(s) PROVE TypeOK' /\ Orderly'
    <3>1. cuts' \in 0..MaxCuts
      BY <2>6 DEF CutOff, TypeOK
    <3> QED
      BY <2>6, <3>1, StopKeeps DEF CutOff
  <2> QED
    BY <2>1, <2>2, <2>3, <2>4, <2>5, <2>6, SettleKeeps DEF Next, Slow
<1> QED
  BY <1>1, <1>2, PTL DEF Spec

\* Types; what is not declared is not there, but for a security group.
COROLLARY Typing == Spec => []TypeOK
  BY Invariance, PTL

\* The owner of a VPC can tell from the tags of its stack which guests have a
\* container in it, up to the tags its own updates wiped (Container.deploy_init,
\* VpcStack.add_consumer_tag, remove_consumer_tag).
THEOREM GuestsAreKnown == Spec => []ConsumersAreTagged
PROOF
<1>1. Orderly => ConsumersAreTagged
  BY DEF Orderly
<1> QED
  BY <1>1, Invariance, PTL

\* When `pocket destroy` ends well the stage is gone but for what it was told
\* to leave, the WAF, and a security group whose cluster an earlier, cut-off
\* destroy deleted (destroy_cli._destroy_resources).
THEOREM DestroyIsThorough == Spec => []EndedDestroyIsClean
PROOF
<1>1. Orderly => EndedDestroyIsClean
  BY DEF Orderly
<1> QED
  BY <1>1, Invariance, PTL

\* Nothing but the end of a deletion takes a part out of being deleted.
LEMMA OnlySettles ==
  ASSUME TypeOK, GoingInv, Next, NEW t \in Things,
         state[t] = "going", state'[t] \in {"up", "broken"}
  PROVE  Settle(t)
<1>1. ASSUME NEW s \in Stages, NEW p \in Parts \cup Common,
             NEW v \in {"none", "up", "broken", "going"}, Set(s, p, v)
      PROVE  t = Thing(s, p) /\ v \in {"up", "broken"}
  BY <1>1, SetEffect
<1>2. \A s \in Stages, p \in Parts \cup Common : t = Thing(s, p) =>
        p \in Stacks \cup {"rds"} /\ Is(s, p) = "going"
  BY DEF GoingInv, Thing, Is
<1>3. Stacks \subseteq Parts \cup Common
  BY DEF Stacks, Parts, Common
<1>4. ASSUME NEW s \in Stages, Creates(s) PROVE FALSE
  <2>1. ASSUME NEW p \in {"record", "efs", "build", "image", "external", "bucket",
                          "secrets", "policy"}, Make(s, p)
        PROVE  FALSE
    <3>1. p \in Parts \cup Common /\ p \notin Stacks \cup {"rds"}
      BY DEF Parts, Common, Stacks
    <3> QED
      BY <1>1, <1>2, <2>1, <3>1 DEF Make
  <2>2. ASSUME NEW p \in Stacks, CreateStack(s, p) PROVE FALSE
    BY <1>1, <1>2, <1>3, <2>2 DEF CreateStack, Failed
  <2>3. ASSUME CreateRds(s) PROVE FALSE
    <3>1. CASE state' = [state EXCEPT ![<<s, "rds">>] = "up", ![<<s, "sg">>] = "up"]
      <4>1. t = <<s, "rds">> \/ t = <<s, "sg">>
        BY <3>1 DEF TypeOK
      <4>2. Thing(s, "rds") = <<s, "rds">> /\ t # <<s, "sg">>
        BY Apart, SomeParts DEF GoingInv, Stacks
      <4>3. Is(s, "rds") = "going"
        BY <4>1, <4>2 DEF Is
      <4>4. state' # state
        OBVIOUS
      <4>5. Is(s, "rds") \notin {"up", "going"} \/ UNCHANGED state
        BY <2>3 DEF CreateRds
      <4> QED
        BY <4>3, <4>4, <4>5
    <3> QED
      BY <2>3, <3>1 DEF CreateRds
  <2> QED
    BY <1>4, <2>1, <2>2, <2>3 DEF Creates, EnsureStateBucket, EnsureEfs,
       EnsureBuilder, EnsureImage, EnsureExternal, EnsureBucket, EnsureSecrets,
       EnsureBucketPolicy, Tag, UpdateVpc, StackExists
<1>5. ASSUME NEW s \in Stages, Deletes(s) PROVE FALSE
  <2>1. {"image", "build", "secrets", "sg", "bucket", "external", "record", "policy",
         "rds", "vpc", "efs"} \subseteq Parts \cup Common
    BY DEF Parts, Common
  <2>2. \A p \in Parts \cup Common : ~Set(s, p, "none") /\ ~Set(s, p, "going")
    BY <1>1
  <2>3. state' # state
    OBVIOUS
  <2> QED
    BY <1>3, <1>5, <2>1, <2>2, <2>3 DEF Deletes, DeleteImage, DeleteBuilder,
       DeleteSecrets, DeleteSecurityGroup, DeleteBucket, DeleteExternal,
       DeleteStateBucket, Drop, Leave, DeleteBucketPolicy, DeleteRds, DeleteVpc,
       DeleteEfs, Untag, Finish, RequestDelete, AwaitDeleted
<1>6. ASSUME NEW x \in Things, Settle(x) PROVE x = t
  BY <1>6 DEF Settle
<1> QED
  BY <1>4, <1>5, <1>6 DEF Next, Step, Slow, Deploy, DestroyWaf, CutOff, Destroy

\* And nothing but a step of a destroy, or of the WAF's, puts one into it.
LEMMA OnlyRequested ==
  ASSUME TypeOK, Next, NEW t \in Things, state[t] # "going", state'[t] = "going"
  PROVE  \E s \in Stages, p \in Stacks \cup {"rds"} :
           At(s, "delete", p) /\ t = Thing(s, p) /\ run'[s] # run[s]
<1>1. ASSUME NEW s \in Stages, NEW p \in Parts \cup Common,
             NEW v \in {"none", "up", "broken", "going"}, Set(s, p, v)
      PROVE  t = Thing(s, p) /\ v = "going"
  BY <1>1, SetEffect
<1>2. Stacks \subseteq Parts \cup Common /\ "rds" \in Parts
  BY DEF Stacks, Parts, Common
<1>3. state' # state
  OBVIOUS
<1>4. ASSUME NEW s \in Stages, Creates(s) PROVE FALSE
  <2>1. ASSUME NEW p \in {"record", "efs", "build", "image", "external", "bucket",
                          "secrets", "policy"}, Make(s, p)
        PROVE  FALSE
    <3>1. p \in Parts \cup Common
      BY DEF Parts, Common
    <3> QED
      BY <1>1, <2>1, <3>1 DEF Make
  <2>2. ASSUME NEW p \in Stacks, CreateStack(s, p) PROVE FALSE
    BY <1>1, <1>2, <1>3, <2>2 DEF CreateStack, Failed
  <2>3. ASSUME CreateRds(s) PROVE FALSE
    <3>1. ~(state' = [state EXCEPT ![<<s, "rds">>] = "up", ![<<s, "sg">>] = "up"])
      BY DEF TypeOK
    <3> QED
      BY <1>3, <2>3, <3>1 DEF CreateRds
  <2> QED
    BY <1>3, <1>4, <2>1, <2>2, <2>3 DEF Creates, EnsureStateBucket, EnsureEfs,
       EnsureBuilder, EnsureImage, EnsureExternal, EnsureBucket, EnsureSecrets,
       EnsureBucketPolicy, Tag, UpdateVpc, StackExists
<1>5. ASSUME NEW s \in Stages, Deletes(s)
      PROVE  \E p \in Stacks \cup {"rds"} :
               At(s, "delete", p) /\ t = Thing(s, p) /\ run'[s] # run[s]
  <2>1. ASSUME NEW p \in Stacks \cup {"rds"}, NEW steps, At(s, "delete", p),
               Set(s, p, "going"), Replace(s, "delete", p, steps),
               <<"delete", p>> \notin steps
        PROVE  At(s, "delete", p) /\ t = Thing(s, p) /\ run'[s] # run[s]
    BY <1>1, <1>2, <2>1 DEF At, Replace, TypeOK
  <2>2. CASE \E p \in Stacks \cup {"rds"} : RequestDelete(s, p)
    BY <1>3, <2>1, <2>2 DEF RequestDelete
  <2>3. CASE DeleteRds(s)
    BY <1>3, <2>1, <2>3 DEF DeleteRds
  <2>4. CASE DeleteVpc(s)
    BY <1>3, <2>1, <2>4 DEF DeleteVpc, Stacks
  <2>5. {"image", "build", "secrets", "sg", "bucket", "external", "record", "policy",
         "efs"} \subseteq Parts \cup Common
    BY DEF Parts, Common
  <2>6. \A p \in Parts \cup Common : ~Set(s, p, "none")
    BY <1>1
  <2> QED
    BY <1>3, <1>5, <2>2, <2>3, <2>4, <2>5, <2>6 DEF Deletes, DeleteImage, DeleteBuilder,
       DeleteSecrets, DeleteSecurityGroup, DeleteBucket, DeleteExternal,
       DeleteStateBucket, Drop, Leave, DeleteBucketPolicy, DeleteEfs, Untag, Finish,
       AwaitDeleted
<1>6. ASSUME NEW x \in Things, Settle(x) PROVE FALSE
  BY <1>6 DEF Settle, TypeOK
<1> QED
  BY <1>3, <1>4, <1>5, <1>6 DEF Next, Step, Slow, Deploy, DestroyWaf, CutOff, Destroy

\* Every deletion but the WAF's is asked for by a destroy whose own stage no longer
\* uses the thing, but for a security group left behind, and AWS refuses only
\* that of the VPC; however the commands before were cut off, and whatever the
\* other stages do meanwhile (destroy_cli._destroy_resources).
THEOREM DestroyKeepsOrder == Spec => DestroyInOrder
PROOF
<1> USE StagesAssumption
<1>1. TypeOK /\ Orderly /\ [Next]_vars =>
        [\A t \in Things \ (Stages \X {"waf"}) :
           /\ state[t] # "going" /\ state'[t] = "going" =>
                \E s \in Stages : run'[s] # run[s] /\ DoneWith(s, t)
           /\ state[t] = "going" /\ state'[t] \in {"up", "broken"} =>
                t = <<Shared, "vpc">>]_vars
  <2> SUFFICES ASSUME TypeOK, Orderly, Next, NEW t \in Things \ (Stages \X {"waf"})
               PROVE  /\ state[t] # "going" /\ state'[t] = "going" =>
                           \E s \in Stages : run'[s] # run[s] /\ DoneWith(s, t)
                      /\ state[t] = "going" /\ state'[t] \in {"up", "broken"} =>
                           t = <<Shared, "vpc">>
    OBVIOUS
  <2> USE DEF Orderly
  <2>1. ASSUME state[t] # "going", state'[t] = "going"
        PROVE  \E s \in Stages : run'[s] # run[s] /\ DoneWith(s, t)
    <3>1. PICK s \in Stages, p \in Stacks \cup {"rds"} :
            At(s, "delete", p) /\ t = Thing(s, p) /\ run'[s] # run[s]
      BY <2>1, OnlyRequested
    <3>2. p # "waf" /\ t[2] = p
      BY <3>1, Apart DEF Thing, Parts
    <3>3. Destroying(s)
      BY <3>1, <3>2 DEF At, StepsInv, DeploySteps
    <3>4. \A q \in Destroyed(s) : ~Pending(s, q) => Is(s, q) = "none"
      BY <3>3 DEF DestroyInv
    <3>5. /\ p \in {"acm", "container", "keys"} => Is(s, "cloudfront") = "none"
          /\ p \in {"keys", "vpc"} => Is(s, "container") = "none"
          /\ p = "vpc" => Is(s, "rds") = "none"
      BY <3>1, <3>4, DestroyPassed, SomeParts
    <3>6. ASSUME NEW q \in Parts, Uses(s, q, t) PROVE LeftBehind(s, q)
      <4>1. <<q, p>> \in References /\ Is(s, q) # "none"
        BY <3>2, <3>6 DEF Uses
      <4>2. \/ q = "cloudfront" /\ p \in {"acm", "container", "keys"}
            \/ q = "container" /\ p \in {"keys", "vpc"}
            \/ q \in {"rds", "sg"} /\ p = "vpc"
        BY <3>2, <4>1 DEF References, NetworkReferences, ContainerReferences,
           DistributionReferences, Parts, Stacks
      <4> QED
        BY <3>5, <4>1, <4>2 DEF LeftBehind
    <3> QED
      BY <3>1, <3>6 DEF DoneWith
  <2>2. ASSUME state[t] = "going", state'[t] \in {"up", "broken"}
        PROVE  t = <<Shared, "vpc">>
    <3>1. Settle(t)
      BY <2>2, OnlySettles
    <3>2. ~InUse(t) => state'[t] = "none"
      BY <3>1 DEF Settle, TypeOK
    <3>3. PICK u \in Stages, p \in Parts \cup Common : Uses(u, p, t)
      BY <2>2, <3>2 DEF InUse
    <3>4. CASE t[1] = Shared
      BY <2>2, <3>4 DEF Things, Common, Stacks, GoingInv
    <3>5. CASE t[1] # Shared
      <4>1. PICK v \in Stages, q \in Parts : t = <<v, q>>
        BY <3>5 DEF Things
      <4>2. q # "waf" /\ Thing(u, q) = t /\ <<p, q>> \in References /\ Is(u, p) # "none"
        BY <3>3, <4>1 DEF Uses
      <4>3. u = v /\ Is(u, q) = "going"
        BY <2>2, <4>1, <4>2, Apart DEF Is
      <4>4. q \in {"acm", "keys", "container"} /\ p \in {"cloudfront", "container"}
            /\ (p = "container" => q = "keys")
        BY <4>1, <4>2, SomeParts DEF References, NetworkReferences,
           ContainerReferences, DistributionReferences, Parts
      <4> QED
        BY <4>2, <4>3, <4>4 DEF OrderInv
    <3> QED
      BY <3>4, <3>5
  <2> QED
    BY <2>1, <2>2
<1> QED
  BY <1>1, Invariance, PTL DEF Spec, DestroyInOrder
=============================================================================
