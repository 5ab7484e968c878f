------------------------ MODULE PocketSecrets_proofs -------------------------
(***************************************************************************)
(* What holds of the managed secrets for any containers, any keys, either  *)
(* store, and any way the declarations are edited.                         *)
(***************************************************************************)
EXTENDS PocketSecrets, TLAPS

\* What is being written never replaces another value.
BatchInv ==
  \A k \in Keys : batch[k] # Missing =>
    store[at][k] = Missing \/ store[at][k].gen = batch[k].gen

\* A deploy leaves behind it only containers that run what pocket.toml says.
SwitchedInv ==
  cmd = "deploy" =>
    /\ \A c \in Containers \ (todo \cup {target}) : running[c] = decl[c]
    /\ pc = "role" => running[target] = decl[target]

Inv == TypeOK /\ BatchInv /\ SwitchedInv

\* The inductive invariant: the types, the phases of the commands, and the two
\* facts above, hold in every reachable state.
THEOREM Invariance == Spec => []Inv
PROOF
<1> USE PlacesAssumption, KeysAssumption, BoundAssumption
<1>1. Init => Inv
  <2> SUFFICES ASSUME Init PROVE Inv
    OBVIOUS
  <2>1. FlagsOK
    BY DEF Init, FlagsOK
  <2>2. DataOK
    BY DEF Init, DataOK, MixedIn, LeavingIn, NoDeclaration, EmptyBatch,
       Missing, Whole,
           Values, Places, Modes
  <2>3. PhaseOK
    BY DEF Init, PhaseOK, Quiet
  <2>4. BatchInv
    BY DEF Init, BatchInv, EmptyBatch
  <2>5. SwitchedInv
    BY DEF Init, SwitchedInv
  <2> QED
    BY <2>1, <2>2, <2>3, <2>4, <2>5 DEF Inv, TypeOK
<1>2. Inv /\ [Next]_vars => Inv'
  <2> SUFFICES ASSUME Inv, [Next]_vars PROVE Inv'
    OBVIOUS
  <2> USE DEF Inv, TypeOK, vars, lambdas, writing, loop, history
  <2>1. ASSUME NEW c \in Containers, NEW k \in Keys, NEW m \in Modes, Edit(c, k, m) PROVE Inv'
    <3>1. FlagsOK'
      BY <2>1 DEF Edit, FlagsOK
    <3>2. DataOK'
      BY <2>1 DEF Edit, MixedIn, LeavingIn, DataOK, Places, Values, Missing,
         EmptyBatch, Modes
    <3>3. PhaseOK'
      BY <2>1 DEF Edit, PhaseOK, DataOK, Quiet
    <3>4. BatchInv'
      BY <2>1 DEF Edit, MixedIn, LeavingIn, BatchInv, DataOK, PhaseOK, Quiet,
         EmptyBatch, Places, Values, Missing, Present
    <3>5. SwitchedInv'
      BY <2>1 DEF Edit, SwitchedInv, DataOK, PhaseOK
    <3> QED
      BY <3>1, <3>2, <3>3, <3>4, <3>5
  <2>2. ASSUME Deploy PROVE Inv'
    <3>1. FlagsOK'
      BY <2>2 DEF Deploy, FlagsOK
    <3>2. DataOK'
      BY <2>2 DEF Deploy, DataOK, Places, Values, Missing, EmptyBatch, Modes
    <3>3. PhaseOK'
      BY <2>2 DEF Deploy, PhaseOK, DataOK, Quiet
    <3>4. BatchInv'
      BY <2>2 DEF Deploy, BatchInv, DataOK, PhaseOK, Quiet, EmptyBatch, Places,
         Values, Missing, Present
    <3>5. SwitchedInv'
      BY <2>2 DEF Deploy, SwitchedInv, DataOK, PhaseOK
    <3> QED
      BY <3>1, <3>2, <3>3, <3>4, <3>5
  <2>3. ASSUME Delete PROVE Inv'
    <3>1. FlagsOK'
      BY <2>3 DEF Delete, FlagsOK
    <3>2. DataOK'
      BY <2>3
      DEF Delete, Views, DataOK, Places, Values, Missing, EmptyBatch, Modes
    <3>3. PhaseOK'
      BY <2>3 DEF Delete, PhaseOK, DataOK, Quiet
    <3>4. BatchInv'
      BY <2>3 DEF Delete, Views, BatchInv, DataOK, PhaseOK, Quiet, EmptyBatch,
         Places, Values, Missing, Present
    <3>5. SwitchedInv'
      BY <2>3 DEF Delete, SwitchedInv, DataOK, PhaseOK
    <3> QED
      BY <3>1, <3>2, <3>3, <3>4, <3>5
  <2>4. ASSUME NEW command \in {"create", "migrate"}, Ensure(command) PROVE Inv'
    <3>1. FlagsOK'
      BY <2>4 DEF Ensure, FlagsOK
    <3>2. DataOK'
      BY <2>4
      DEF Ensure, Views, DataOK, Places, Values, Missing, EmptyBatch, Modes
    <3>3. PhaseOK'
      BY <2>4 DEF Ensure, PhaseOK, DataOK, Quiet
    <3>4. BatchInv'
      BY <2>4 DEF Ensure, Views, BatchInv, DataOK, PhaseOK, Quiet, EmptyBatch,
         Places, Values, Missing, Present
    <3>5. SwitchedInv'
      BY <2>4 DEF Ensure, SwitchedInv, DataOK, PhaseOK
    <3> QED
      BY <3>1, <3>2, <3>3, <3>4, <3>5
  <2>5. ASSUME Write PROVE Inv'
    <3>1. FlagsOK'
      BY <2>5 DEF Write, FlagsOK
    <3>2. DataOK'
      BY <2>5 DEF Write, DataOK, Places, Values, Missing, EmptyBatch, Modes
    <3>3. PhaseOK'
      BY <2>5 DEF Write, PhaseOK, DataOK, Quiet
    <3>4. BatchInv'
      BY <2>5 DEF Write, BatchInv, DataOK, PhaseOK, Quiet, EmptyBatch, Places,
         Values, Missing, Present
    <3>5. SwitchedInv'
      BY <2>5 DEF Write, SwitchedInv, DataOK, PhaseOK
    <3> QED
      BY <3>1, <3>2, <3>3, <3>4, <3>5
  <2>6. ASSUME NEW k \in Keys, Put(k) PROVE Inv'
    <3>1. FlagsOK'
      BY <2>6 DEF Put, FlagsOK
    <3>0. batch[k] \in Values /\ Missing \in Values
             /\ [gen |-> batch[k].gen, part |-> "pem"] \in Values
      BY DEF DataOK, Values, Missing
    <3>a. \E v \in Values : /\ store' = [store EXCEPT ![at][k] = v]
                            /\ v.gen = batch[k].gen
      BY <2>6, <3>0 DEF Put
    <3>b. batch' = batch \/ batch' = [batch EXCEPT ![k] = Missing]
      BY <2>6 DEF Put
    <3>2. DataOK'
      <4>1. store' \in [Places -> [Keys -> Values]]
        BY <3>a DEF DataOK
      <4>2. batch' \in [Keys -> Values]
        BY <3>0, <3>b DEF DataOK
      <4> QED
        BY <2>6, <4>1, <4>2 DEF Put, DataOK, Places
    <3>3. PhaseOK'
      BY <2>6 DEF Put, PhaseOK, Quiet, EmptyBatch
    <3>4. BatchInv'
      BY <2>6, <3>a, <3>b DEF Put, BatchInv, DataOK
    <3>5. SwitchedInv'
      BY <2>6 DEF Put, SwitchedInv, DataOK, PhaseOK
    <3> QED
      BY <3>1, <3>2, <3>3, <3>4, <3>5
  <2>7. ASSUME NEW c \in Containers, Skip(c) PROVE Inv'
    <3>1. FlagsOK'
      BY <2>7 DEF Skip, FlagsOK
    <3>2. DataOK'
      BY <2>7
      DEF Skip, UpToDate, DataOK, Places, Values, Missing, EmptyBatch, Modes
    <3>3. PhaseOK'
      BY <2>7 DEF Skip, PhaseOK, DataOK, Quiet
    <3>4. BatchInv'
      BY <2>7 DEF Skip, UpToDate, BatchInv, DataOK, PhaseOK, Quiet, EmptyBatch,
         Places, Values, Missing, Present
    <3>5. SwitchedInv'
      BY <2>7 DEF Skip, UpToDate, SwitchedInv, DataOK, PhaseOK
    <3> QED
      BY <3>1, <3>2, <3>3, <3>4, <3>5
  <2>8. ASSUME NEW c \in Containers, Update(c) PROVE Inv'
    <3>1. FlagsOK'
      BY <2>8 DEF Update, FlagsOK
    <3>2. DataOK'
      BY <2>8
      DEF Update, Views, DataOK, Places, Values, Missing, EmptyBatch, Modes
    <3>3. PhaseOK'
      BY <2>8 DEF Update, PhaseOK, DataOK, Quiet
    <3>4. BatchInv'
      BY <2>8 DEF Update, Views, BatchInv, DataOK, PhaseOK, Quiet, EmptyBatch,
         Places, Values, Missing, Present
    <3>5. SwitchedInv'
      BY <2>8 DEF Update, SwitchedInv, DataOK, PhaseOK
    <3> QED
      BY <3>1, <3>2, <3>3, <3>4, <3>5
  <2>9. ASSUME NEW c \in Containers, Inherit(c) PROVE Inv'
    <3>1. FlagsOK'
      BY <2>9 DEF Inherit, FlagsOK
    <3>2. DataOK'
      BY <2>9 DEF Inherit, Inherited, DataOK, Places, Values, Missing,
         EmptyBatch, Modes
    <3>3. PhaseOK'
      BY <2>9 DEF Inherit, PhaseOK, DataOK, Quiet
    <3>4. BatchInv'
      BY <2>9 DEF Inherit, Inherited, BatchInv, DataOK, PhaseOK, Quiet,
         EmptyBatch, Places, Values, Missing, Present
    <3>5. SwitchedInv'
      BY <2>9 DEF Inherit, SwitchedInv, DataOK, PhaseOK
    <3> QED
      BY <3>1, <3>2, <3>3, <3>4, <3>5
  <2>10. ASSUME NEW p \in Places, Generate(p) PROVE Inv'
    <3>1. FlagsOK'
      BY <2>10 DEF Generate, FlagsOK
    <3>2. DataOK'
      BY <2>10
      DEF Generate, Whole, DataOK, Places, Values, Missing, EmptyBatch, Modes
    <3>3. PhaseOK'
      BY <2>10 DEF Generate, PhaseOK, DataOK, Quiet
    <3>4. BatchInv'
      BY <2>10 DEF Generate, Whole, BatchInv, DataOK, PhaseOK, Quiet,
         EmptyBatch, Places, Values, Missing, Present
    <3>5. SwitchedInv'
      BY <2>10 DEF Generate, SwitchedInv, DataOK, PhaseOK
    <3> QED
      BY <3>1, <3>2, <3>3, <3>4, <3>5
  <2>11. ASSUME NEW p \in Places, Clean(p) PROVE Inv'
    <3>1. FlagsOK'
      BY <2>11 DEF Clean, FlagsOK
    <3>a. Reading(p, Orphans(p)) \subseteq Containers \X Keys
      BY DEF Reading
    <3>b. store' \in [Places -> [Keys -> Values]]
      BY <2>11 DEF Clean, DataOK, Values, Missing, EmptyBatch
    <3>2. DataOK'
      BY <2>11, <3>a, <3>b DEF Clean, DataOK, Places
    <3>3. PhaseOK'
      BY <2>11 DEF Clean, PhaseOK, DataOK, Quiet
    <3>4. BatchInv'
      BY <2>11 DEF Clean, BatchInv, DataOK, PhaseOK, Quiet, EmptyBatch, Places,
         Values, Missing, Present
    <3>5. SwitchedInv'
      BY <2>11 DEF Clean, SwitchedInv, DataOK, PhaseOK
    <3> QED
      BY <3>1, <3>2, <3>3, <3>4, <3>5
  <2>12. ASSUME NEW p \in Places, Wipe(p) PROVE Inv'
    <3>1. FlagsOK'
      BY <2>12 DEF Wipe, FlagsOK
    <3>a. Reading(p, Keys) \subseteq Containers \X Keys
      BY DEF Reading
    <3>b. store' \in [Places -> [Keys -> Values]]
      BY <2>12 DEF Wipe, DataOK, Values, Missing, EmptyBatch
    <3>2. DataOK'
      BY <2>12, <3>a, <3>b DEF Wipe, DataOK, Places
    <3>3. PhaseOK'
      BY <2>12 DEF Wipe, PhaseOK, DataOK, Quiet
    <3>4. BatchInv'
      BY <2>12 DEF Wipe, BatchInv, DataOK, PhaseOK, Quiet, EmptyBatch, Places,
         Values, Missing, Present
    <3>5. SwitchedInv'
      BY <2>12 DEF Wipe, SwitchedInv, DataOK, PhaseOK
    <3> QED
      BY <3>1, <3>2, <3>3, <3>4, <3>5
  <2>13. ASSUME WipeDone PROVE Inv'
    <3>1. FlagsOK'
      BY <2>13 DEF WipeDone, FlagsOK
    <3>2. DataOK'
      BY <2>13 DEF WipeDone, DataOK, Places, Values, Missing, EmptyBatch, Modes
    <3>3. PhaseOK'
      BY <2>13 DEF WipeDone, PhaseOK, DataOK, Quiet
    <3>4. BatchInv'
      BY <2>13 DEF WipeDone, BatchInv, DataOK, PhaseOK, Quiet, EmptyBatch,
         Places, Values, Missing, Present
    <3>5. SwitchedInv'
      BY <2>13 DEF WipeDone, SwitchedInv, DataOK, PhaseOK
    <3> QED
      BY <3>1, <3>2, <3>3, <3>4, <3>5
  <2>14. ASSUME InheritDone PROVE Inv'
    <3>1. FlagsOK'
      BY <2>14 DEF InheritDone, FlagsOK
    <3>2. DataOK'
      BY <2>14 DEF InheritDone, Views, DataOK, Places, Values, Missing,
         EmptyBatch, Modes
    <3>3. PhaseOK'
      BY <2>14 DEF InheritDone, PhaseOK, DataOK, Quiet
    <3>4. BatchInv'
      BY <2>14 DEF InheritDone, Views, BatchInv, DataOK, PhaseOK, Quiet,
         EmptyBatch, Places, Values, Missing, Present
    <3>5. SwitchedInv'
      BY <2>14 DEF InheritDone, SwitchedInv, DataOK, PhaseOK
    <3> QED
      BY <3>1, <3>2, <3>3, <3>4, <3>5
  <2>15. ASSUME GenerateDone PROVE Inv'
    <3>1. FlagsOK'
      BY <2>15 DEF GenerateDone, FlagsOK
    <3>2. DataOK'
      BY <2>15 DEF GenerateDone, Views, DataOK, Places, Values, Missing,
         EmptyBatch, Modes
    <3>3. PhaseOK'
      BY <2>15 DEF GenerateDone, PhaseOK, DataOK, Quiet
    <3>4. BatchInv'
      BY <2>15 DEF GenerateDone, Views, BatchInv, DataOK, PhaseOK, Quiet,
         EmptyBatch, Places, Values, Missing, Present
    <3>5. SwitchedInv'
      BY <2>15 DEF GenerateDone, SwitchedInv, DataOK, PhaseOK
    <3> QED
      BY <3>1, <3>2, <3>3, <3>4, <3>5
  <2>16. ASSUME CreateStack PROVE Inv'
    <3>1. FlagsOK'
      BY <2>16 DEF CreateStack, FlagsOK
    <3>a. target \in Containers
      BY <2>16 DEF CreateStack, PhaseOK, DataOK
    <3>b. PlacesOf(target, decl[target]) \subseteq Places
      BY <3>a DEF PlacesOf, PlaceOf, Places
    <3>2. DataOK'
      BY <2>16, <3>a, <3>b DEF CreateStack, DataOK
    <3>3. PhaseOK'
      BY <2>16 DEF CreateStack, PhaseOK, DataOK, Quiet
    <3>4. BatchInv'
      BY <2>16 DEF CreateStack, PlacesOf, PlaceOf, BatchInv, DataOK, PhaseOK,
         Quiet, EmptyBatch, Places, Values, Missing, Present
    <3>5. SwitchedInv'
      BY <2>16 DEF CreateStack, SwitchedInv, DataOK, PhaseOK
    <3> QED
      BY <3>1, <3>2, <3>3, <3>4, <3>5
  <2>17. ASSUME UpdateCode PROVE Inv'
    <3>1. FlagsOK'
      BY <2>17 DEF UpdateCode, FlagsOK
    <3>2. DataOK'
      BY <2>17
      DEF UpdateCode, DataOK, Places, Values, Missing, EmptyBatch, Modes
    <3>3. PhaseOK'
      BY <2>17 DEF UpdateCode, PhaseOK, DataOK, Quiet
    <3>4. BatchInv'
      BY <2>17 DEF UpdateCode, BatchInv, DataOK, PhaseOK, Quiet, EmptyBatch,
         Places, Values, Missing, Present
    <3>5. SwitchedInv'
      BY <2>17 DEF UpdateCode, SwitchedInv, DataOK, PhaseOK
    <3> QED
      BY <3>1, <3>2, <3>3, <3>4, <3>5
  <2>18. ASSUME UpdateRole PROVE Inv'
    <3>1. FlagsOK'
      BY <2>18 DEF UpdateRole, FlagsOK
    <3>2. DataOK'
      BY <2>18 DEF UpdateRole, PlacesOf, PlaceOf, DataOK, Places, Values,
         Missing, EmptyBatch, Modes
    <3>3. PhaseOK'
      BY <2>18 DEF UpdateRole, PhaseOK, DataOK, Quiet
    <3>4. BatchInv'
      BY <2>18 DEF UpdateRole, PlacesOf, PlaceOf, BatchInv, DataOK, PhaseOK,
         Quiet, EmptyBatch, Places, Values, Missing, Present
    <3>5. SwitchedInv'
      BY <2>18 DEF UpdateRole, SwitchedInv, DataOK, PhaseOK
    <3> QED
      BY <3>1, <3>2, <3>3, <3>4, <3>5
  <2>19. ASSUME DeployDone PROVE Inv'
    <3>1. FlagsOK'
      BY <2>19 DEF DeployDone, FlagsOK
    <3>2. DataOK'
      BY <2>19
      DEF DeployDone, DataOK, Places, Values, Missing, EmptyBatch, Modes
    <3>3. PhaseOK'
      BY <2>19 DEF DeployDone, PhaseOK, DataOK, Quiet
    <3>4. BatchInv'
      BY <2>19 DEF DeployDone, BatchInv, DataOK, PhaseOK, Quiet, EmptyBatch,
         Places, Values, Missing, Present
    <3>5. SwitchedInv'
      BY <2>19 DEF DeployDone, SwitchedInv, DataOK, PhaseOK
    <3> QED
      BY <3>1, <3>2, <3>3, <3>4, <3>5
  <2>20. ASSUME RemoveResidue PROVE Inv'
    <3>1. FlagsOK'
      BY <2>20 DEF RemoveResidue, FlagsOK
    <3>a. store' \in [Places -> [Keys -> Values]]
      <4>1. Missing \in Values
        BY DEF Missing, Values
      <4>2. CASE UNCHANGED store
        BY <4>2 DEF DataOK
      <4>3. CASE ~ UNCHANGED store
        BY <2>20, <4>1, <4>3 DEF RemoveResidue, DataOK, Places
      <4> QED
        BY <4>2, <4>3
    <3>2. DataOK'
      BY <2>20, <3>a DEF RemoveResidue, DataOK, Places
    <3>3. PhaseOK'
      BY <2>20 DEF RemoveResidue, PhaseOK, DataOK, Quiet
    <3>4. BatchInv'
      BY <2>20 DEF RemoveResidue, BatchInv, DataOK, PhaseOK, Quiet, EmptyBatch,
         Places, Values, Missing, Present
    <3>5. SwitchedInv'
      BY <2>20 DEF RemoveResidue, SwitchedInv, DataOK, PhaseOK
    <3> QED
      BY <3>1, <3>2, <3>3, <3>4, <3>5
  <2>21. ASSUME RemoveLegacyStack PROVE Inv'
    <3>1. FlagsOK'
      BY <2>21 DEF RemoveLegacyStack, FlagsOK
    <3>2. DataOK'
      BY <2>21
      DEF RemoveLegacyStack, DataOK, Places, Values, Missing, EmptyBatch, Modes
    <3>3. PhaseOK'
      BY <2>21 DEF RemoveLegacyStack, PhaseOK, DataOK, Quiet
    <3>4. BatchInv'
      BY <2>21 DEF RemoveLegacyStack, BatchInv, DataOK, PhaseOK, Quiet,
         EmptyBatch, Places, Values, Missing, Present
    <3>5. SwitchedInv'
      BY <2>21 DEF RemoveLegacyStack, SwitchedInv, DataOK, PhaseOK
    <3> QED
      BY <3>1, <3>2, <3>3, <3>4, <3>5
  <2>22. ASSUME Interrupt PROVE Inv'
    <3>1. FlagsOK'
      BY <2>22 DEF Interrupt, FlagsOK
    <3>2. DataOK'
      BY <2>22
      DEF Interrupt, DataOK, Places, Values, Missing, EmptyBatch, Modes
    <3>3. PhaseOK'
      BY <2>22 DEF Interrupt, PhaseOK, DataOK, Quiet
    <3>4. BatchInv'
      BY <2>22 DEF Interrupt, BatchInv, DataOK, PhaseOK, Quiet, EmptyBatch,
         Places, Values, Missing, Present
    <3>5. SwitchedInv'
      BY <2>22 DEF Interrupt, SwitchedInv, DataOK, PhaseOK
    <3> QED
      BY <3>1, <3>2, <3>3, <3>4, <3>5
  <2>23. CASE UNCHANGED vars
    BY <2>23 DEF FlagsOK, DataOK, PhaseOK, BatchInv, SwitchedInv, Quiet, Places
  <2> QED
    BY <2>1, <2>2, <2>3, <2>4, <2>5, <2>6, <2>7, <2>8, <2>9, <2>10, <2>11,
       <2>12, <2>13, <2>14, <2>15, <2>16, <2>17, <2>18, <2>19, <2>20, <2>21,
       <2>22, <2>23 DEF Next, Step
<1> QED
  BY <1>1, <1>2, PTL DEF Spec

\* A value that a running image reads is neither replaced nor deleted under it
\* by anything but a rotation (mediator.py, migrations.py).
THEOREM RunningValuesAreKept == Spec => ValueKept
PROOF
<1> USE PlacesAssumption
<1>1. Inv /\ [Next]_vars =>
        [\A c \in Containers, k \in Keys :
           LET p == PlaceOf(c, running[c][k]) IN
           Kept(c, k) /\ running'[c][k] = running[c][k] /\ Present(p, k)
             /\ pc # "wipe"
           => store'[p][k].gen = store[p][k].gen]_vars
  <2> SUFFICES ASSUME Inv, Next, pc # "wipe",
                      NEW c \in Containers, NEW k \in Keys, NEW p,
                      p = PlaceOf(c, running[c][k]), Kept(c, k), Present(p, k)
               PROVE  store'[p][k].gen = store[p][k].gen
    OBVIOUS
  <2> USE DEF Inv, TypeOK, DataOK, vars, lambdas, writing, loop, history
  <2>0. /\ p \in Places
        /\ running[c][k] = "own" => p = c /\ k \in OwnKeys(c)
        /\ running[c][k] = "shared" => p = Project /\ k \in Expected
        /\ running[c][k] \in {"own", "shared"}
    <3>1. ASSUME NEW e \in Containers, decl[e][k] # "none" PROVE k \in Expected
      BY <3>1
      DEF Modes, Expected, SharedKeys, UnsharedDeclared, OwnKeys, DeclaredAs
    <3>2. running[c][k] = "shared" => k \in Expected
      BY <3>1 DEF Kept
    <3>3. QED
      BY <3>2 DEF PlaceOf, Kept, Places, OwnKeys, DeclaredAs
  <2>1. CASE UNCHANGED store
    BY <2>1
  <2>2. CASE Write
    BY <2>0, <2>2 DEF Write, BatchInv, Present, Places
  <2>3. ASSUME NEW j \in Keys, Put(j) PROVE store'[p][k].gen = store[p][k].gen
    <3>1. \E v : v.gen = batch[j].gen /\ store' = [store EXCEPT ![at][j] = v]
      BY <2>3 DEF Put
    <3>2. batch[j] # Missing
      BY <2>3 DEF Put
    <3> QED
      BY <2>0, <3>1, <3>2 DEF BatchInv, Present
  <2>4. ASSUME NEW q \in Places, Clean(q)
        PROVE  store'[p][k].gen = store[p][k].gen
    <3>1. q = p => k \notin Orphans(q)
      BY <2>0 DEF Orphans, Managed, Places
    <3> QED
      BY <2>0, <2>4, <3>1 DEF Clean, Places
  <2>5. CASE RemoveResidue
    <3>1. running[c] = decl[c]
      BY <2>5 DEF RemoveResidue, PhaseOK, SwitchedInv
    <3>2. p = Project => k \notin Residue
      BY <2>0, <3>1 DEF Residue, SharedKeys
    <3> QED
      BY <2>0, <2>5, <3>2 DEF RemoveResidue, Places
  <2>6. ASSUME NEW q \in Places, Wipe(q) PROVE FALSE
    BY <2>6 DEF Wipe
  <2> QED
    BY <2>1, <2>2, <2>3, <2>4, <2>5, <2>6
    DEF Next, Step, Edit, Deploy, Delete, Ensure, Skip, Update, Inherit,
        Generate, WipeDone, InheritDone, GenerateDone, CreateStack, UpdateCode,
        UpdateRole, DeployDone, RemoveLegacyStack, Interrupt
<1> QED
  BY <1>1, Invariance, PTL DEF Spec, ValueKept

\* The type invariant, as the runs check it.
COROLLARY Typing == Spec => []TypeOK
PROOF
<1>1. Inv => TypeOK
  BY DEF Inv
<1> QED
  BY <1>1, Invariance, PTL

-----------------------------------------------------------------------------
\* What the stores hold, and from which generation it is.

\* A value that is there, or is being written, is not empty.
ValueInv ==
  /\ \A p \in Places, k \in Keys : Present(p, k) => store[p][k].part # "none"
  /\ \A k \in Keys : batch[k] # Missing => batch[k].part # "none"

\* A container's store has what the container keeps for itself, but for keys
\* that once were kept apart; what is written is managed where it is written.
OwnInv ==
  /\ MixedIn(decl) \subseteq parted
  /\ \A c \in Containers, k \in Keys \ parted :
       Present(c, k) => decl[c][k] = "own"
  /\ \A k \in Keys : batch[k] # Missing => k \in Managed(at)

\* Generations are numbered in order, and none from before the last full
\* deletion is left.
AgeInv ==
  /\ next >= since
  /\ \A p \in Places, k \in Keys \ parted :
       Present(p, k) => store[p][k].gen >= since
  /\ \A k \in Keys \ parted : batch[k] # Missing => batch[k].gen >= since
  /\ pc = "wipe" =>
       \A p \in Places \ left, k \in Keys \ parted : ~Present(p, k)

\* An old copy in the project's store is the value of every container that has
\* taken the key over, and all have done so before anything is generated.
CopyInv ==
  \A c \in Containers, k \in Keys \ parted :
    Present(Project, k) =>
      /\ Present(c, k) => store[c][k].gen = store[Project][k].gen
      /\ at = c /\ batch[k] # Missing => batch[k].gen = store[Project][k].gen
      /\ decl[c][k] = "own" /\ pc = "inherit" /\ c \notin left =>
           Present(c, k) \/ (at = c /\ batch[k] # Missing)
      /\ decl[c][k] = "own" /\ pc \in {"generate", "clean"} => Present(c, k)

\* When a container is switched, all that is managed is there.
ReadyInv ==
  \A p \in Places : \A k \in Managed(p) :
    /\ pc = "generate" /\ p \notin left =>
         Present(p, k) \/ (at = p /\ batch[k] # Missing)
    /\ pc = "clean" => Present(p, k)

\* What a running image reads is there, or is known to be lost.
RunInv ==
  \A c \in Containers, k \in Keys :
    LET p == PlaceOf(c, running[c][k]) IN
    running[c][k] # "none" => Present(p, k) \/ <<c, k>> \in lost

\* After a deploy that ended well every container runs what pocket.toml says
\* and may read it; so do those that the deploy at hand has come to.
Switched(c) == running[c] = decl[c] /\ allowed[c] = PlacesOf(c, decl[c])
AllowedInv ==
  /\ settled => \A c \in Containers : Switched(c)
  /\ cmd = "deploy" =>
       \A c \in Containers \ (todo \cup {target}) : Switched(c)

Custody ==
  ValueInv /\ OwnInv /\ AgeInv /\ CopyInv /\ ReadyInv /\ RunInv /\ AllowedInv

-----------------------------------------------------------------------------
Still == <<decl, lambdas, legacy, pc, loop, at, next, history>>

\* Writing fills what is missing, or repeats what is there.
Filled ==
  /\ \A p \in Places, k \in Keys :
       \/ store'[p][k] = store[p][k]
       \/ /\ p = at /\ batch[k] # Missing
          /\ store'[p][k] # Missing /\ store'[p][k].part # "none"
          /\ store'[p][k].gen = batch[k].gen
  /\ \A k \in Keys :
       \/ batch'[k] = batch[k]
       \/ batch'[k] = Missing /\ (batch[k] # Missing => store'[at][k] # Missing)

\* Deleting takes values away.
Emptied ==
  \A p \in Places, k \in Keys :
    store'[p][k] = store[p][k] \/ store'[p][k] = Missing

LEMMA WriteFills ==
  ASSUME DataOK, ValueInv, Write
  PROVE  Filled /\ UNCHANGED Still
<1>1. \A p \in Places, k \in Keys :
        store'[p][k] = IF p = at /\ batch[k] # Missing THEN batch[k]
                       ELSE store[p][k]
  BY DEF Write, DataOK
<1>2. \A k \in Keys : batch'[k] = Missing
  BY DEF Write, EmptyBatch
<1> QED
  BY <1>1, <1>2 DEF DataOK, Filled, Still, Write, ValueInv

LEMMA PutFills ==
  ASSUME DataOK, ValueInv, NEW j \in Keys, Put(j)
  PROVE  Filled /\ UNCHANGED Still
<1>1. PICK v \in {batch[j], [gen |-> batch[j].gen, part |-> "pem"]} :
        store' = [store EXCEPT ![at][j] = v]
  BY DEF Put
<1>2. v # Missing /\ v.part # "none" /\ v.gen = batch[j].gen
  BY <1>1 DEF Put, Missing, ValueInv
<1>3. \A p \in Places, k \in Keys :
        store'[p][k] = IF p = at /\ k = j THEN v ELSE store[p][k]
  BY <1>1 DEF DataOK
<1>4. batch' = batch \/ batch' = [batch EXCEPT ![j] = Missing]
  BY DEF Put
<1>5. \A k \in Keys : batch'[k] = batch[k] \/ (k = j /\ batch'[k] = Missing)
  BY <1>4 DEF DataOK
<1>6. store'[at][j] # Missing
  BY <1>2, <1>3 DEF DataOK
<1>7. batch[j] # Missing
  BY DEF Put
<1> QED
  BY <1>2, <1>3, <1>5, <1>6, <1>7 DEF DataOK, Filled, Still, Put

\* What writing keeps.
LEMMA FillingKeeps ==
  ASSUME Inv, Custody, Filled, UNCHANGED Still
  PROVE  Custody'
<1> USE DEF Still, lambdas, loop, history, Present
<1>0. /\ DataOK /\ PhaseOK /\ BatchInv
      /\ ValueInv /\ OwnInv /\ AgeInv /\ CopyInv /\ ReadyInv /\ RunInv
      /\ AllowedInv
  BY DEF Inv, TypeOK, Custody
<1>1. ValueInv'
  BY <1>0 DEF ValueInv, Filled
<1>2. OwnInv'
  BY <1>0, PlacesAssumption
  DEF OwnInv, Filled, Managed, SharedKeys, OwnKeys, DeclaredAs,
     MixedIn, DataOK, Places
<1>3. AgeInv'
  BY <1>0 DEF AgeInv, Filled, PhaseOK, Quiet, EmptyBatch
<1>4. CopyInv'
  BY <1>0, PlacesAssumption
  DEF CopyInv, OwnInv, Filled, BatchInv, Managed, SharedKeys, OwnKeys,
      DeclaredAs, MixedIn, DataOK, Places
<1>5. ReadyInv'
  BY <1>0 DEF ReadyInv, Filled, Managed, SharedKeys, OwnKeys, DeclaredAs,
     DataOK, Places
<1>6. RunInv'
  BY <1>0 DEF RunInv, Filled, PlaceOf, Places
<1>7. AllowedInv'
  BY <1>0 DEF AllowedInv, Switched, PlacesOf
<1> QED
  BY <1>1, <1>2, <1>3, <1>4, <1>5, <1>6, <1>7 DEF Custody

\* Every step keeps it, one step of the proof for each action and under it one
\* for each part.
LEMMA CustodyStep ==
  ASSUME Inv, Custody, Next
  PROVE  Custody'
<1> USE PlacesAssumption DEF vars, lambdas, writing, loop, history
<1>0. /\ FlagsOK /\ DataOK /\ PhaseOK /\ BatchInv /\ SwitchedInv
      /\ ValueInv /\ OwnInv /\ AgeInv /\ CopyInv /\ ReadyInv /\ RunInv
      /\ AllowedInv
  BY DEF Inv, TypeOK, Custody
<1>1. ASSUME NEW c \in Containers, NEW k \in Keys, NEW m \in Modes, Edit(c, k, m)
      PROVE  Custody'
  <2>1. ValueInv'
    BY <1>0, <1>1 DEF Edit, ValueInv, Present
  <2>2. OwnInv'
    <3>1. (MixedIn(decl) \subseteq parted)'
      BY <1>0, <1>1 DEF Edit
    <3>2. \A e \in Containers, j \in Keys \ parted' :
            decl[e][j] = "own" => decl'[e][j] = "own"
      BY <1>0, <1>1 DEF Edit, LeavingIn
    <3>3. parted \subseteq parted' /\ Quiet'
      BY <1>0, <1>1 DEF Edit, PhaseOK, Quiet
    <3> QED
      BY <1>0, <1>1, <3>1, <3>2, <3>3
      DEF Edit, OwnInv, Present, Quiet, EmptyBatch
  <2>3. AgeInv'
    BY <1>0, <1>1 DEF Edit, AgeInv, Present
  <2>4. CopyInv'
    BY <1>0, <1>1 DEF Edit, CopyInv, Present
  <2>5. ReadyInv'
    BY <1>0, <1>1 DEF Edit, ReadyInv
  <2>6. RunInv'
    BY <1>0, <1>1 DEF Edit, RunInv, Present
  <2>7. AllowedInv'
    BY <1>0, <1>1 DEF Edit, AllowedInv, PhaseOK
  <2> QED
    BY <2>1, <2>2, <2>3, <2>4, <2>5, <2>6, <2>7 DEF Custody
<1>2. ASSUME Deploy PROVE Custody'
  <2>1. ValueInv'
    BY <1>0, <1>2 DEF Deploy, ValueInv, Present
  <2>2. OwnInv'
    BY <1>0, <1>2 DEF Deploy, OwnInv, Present, Managed, SharedKeys, OwnKeys
  <2>3. AgeInv'
    BY <1>0, <1>2 DEF Deploy, AgeInv, Present
  <2>4. CopyInv'
    BY <1>0, <1>2 DEF Deploy, CopyInv, Present
  <2>5. ReadyInv'
    BY <1>0, <1>2 DEF Deploy, ReadyInv
  <2>6. RunInv'
    BY <1>0, <1>2 DEF Deploy, RunInv, Present
  <2>7. AllowedInv'
    BY <1>0, <1>2 DEF Deploy, AllowedInv, Switched
  <2> QED
    BY <2>1, <2>2, <2>3, <2>4, <2>5, <2>6, <2>7 DEF Custody
<1>3. ASSUME Delete PROVE Custody'
  <2>1. ValueInv'
    BY <1>0, <1>3 DEF Delete, ValueInv, Present
  <2>2. OwnInv'
    BY <1>0, <1>3 DEF Delete, OwnInv, Present, Managed, SharedKeys, OwnKeys
  <2>3. AgeInv'
    BY <1>0, <1>3
    DEF Delete, AgeInv, Present, Places, OwnInv, Views, OwnKeys, DeclaredAs
  <2>4. CopyInv'
    BY <1>0, <1>3 DEF Delete, CopyInv, Present
  <2>5. ReadyInv'
    BY <1>0, <1>3 DEF Delete, ReadyInv
  <2>6. RunInv'
    BY <1>0, <1>3 DEF Delete, RunInv, Present
  <2>7. AllowedInv'
    BY <1>0, <1>3 DEF Delete, AllowedInv
  <2> QED
    BY <2>1, <2>2, <2>3, <2>4, <2>5, <2>6, <2>7 DEF Custody
<1>4. ASSUME NEW command \in {"create", "migrate"}, Ensure(command)
      PROVE  Custody'
  <2>1. ValueInv'
    BY <1>0, <1>4 DEF Ensure, ValueInv, Present
  <2>2. OwnInv'
    BY <1>0, <1>4 DEF Ensure, OwnInv, Present, Managed, SharedKeys, OwnKeys
  <2>3. AgeInv'
    BY <1>0, <1>4 DEF Ensure, AgeInv, Present
  <2>4. CopyInv'
    BY <1>0, <1>4 DEF Ensure, CopyInv, Present, Views, OwnKeys, DeclaredAs
  <2>5. ReadyInv'
    BY <1>0, <1>4 DEF Ensure, ReadyInv
  <2>6. RunInv'
    BY <1>0, <1>4 DEF Ensure, RunInv, Present
  <2>7. AllowedInv'
    BY <1>0, <1>4 DEF Ensure, AllowedInv, Switched
  <2> QED
    BY <2>1, <2>2, <2>3, <2>4, <2>5, <2>6, <2>7 DEF Custody
<1>5. ASSUME NEW c \in Containers, Skip(c) PROVE Custody'
  <2>1. ValueInv'
    BY <1>0, <1>5 DEF Skip, ValueInv, Present
  <2>2. OwnInv'
    BY <1>0, <1>5 DEF Skip, OwnInv, Present, Managed, SharedKeys, OwnKeys
  <2>3. AgeInv'
    BY <1>0, <1>5 DEF Skip, AgeInv, Present
  <2>4. CopyInv'
    BY <1>0, <1>5 DEF Skip, CopyInv, Present
  <2>5. ReadyInv'
    BY <1>0, <1>5 DEF Skip, ReadyInv
  <2>6. RunInv'
    BY <1>0, <1>5 DEF Skip, RunInv, Present
  <2>7. AllowedInv'
    BY <1>0, <1>5 DEF Skip, UpToDate, AllowedInv, Switched
  <2> QED
    BY <2>1, <2>2, <2>3, <2>4, <2>5, <2>6, <2>7 DEF Custody
<1>6. ASSUME NEW c \in Containers, Update(c) PROVE Custody'
  <2>1. ValueInv'
    BY <1>0, <1>6 DEF Update, ValueInv, Present
  <2>2. OwnInv'
    BY <1>0, <1>6 DEF Update, OwnInv, Present, Managed, SharedKeys, OwnKeys
  <2>3. AgeInv'
    BY <1>0, <1>6 DEF Update, AgeInv, Present
  <2>4. CopyInv'
    BY <1>0, <1>6 DEF Update, CopyInv, Present, Views, OwnKeys, DeclaredAs
  <2>5. ReadyInv'
    BY <1>0, <1>6 DEF Update, ReadyInv
  <2>6. RunInv'
    BY <1>0, <1>6 DEF Update, RunInv, Present
  <2>7. AllowedInv'
    BY <1>0, <1>6 DEF Update, AllowedInv, Switched, PhaseOK
  <2> QED
    BY <2>1, <2>2, <2>3, <2>4, <2>5, <2>6, <2>7 DEF Custody
<1>7. ASSUME NEW c \in Containers, Inherit(c) PROVE Custody'
  <2>1. ValueInv'
    BY <1>0, <1>7 DEF Inherit, ValueInv, Present, Places
  <2>2. OwnInv'
    BY <1>0, <1>7 DEF Inherit, OwnInv, Present, Managed, OwnKeys, Inherited
  <2>3. AgeInv'
    BY <1>0, <1>7 DEF Inherit, AgeInv, Present, Places
  <2>4. CopyInv'
    BY <1>0, <1>7 DEF Inherit, CopyInv, Present, EmptyBatch, Quiet, OwnKeys,
       DeclaredAs, Inherited, OwnInv, MixedIn, SharedKeys
  <2>5. ReadyInv'
    BY <1>0, <1>7 DEF Inherit, ReadyInv
  <2>6. RunInv'
    BY <1>0, <1>7 DEF Inherit, RunInv, Present
  <2>7. AllowedInv'
    BY <1>0, <1>7 DEF Inherit, AllowedInv, Switched
  <2> QED
    BY <2>1, <2>2, <2>3, <2>4, <2>5, <2>6, <2>7 DEF Custody
<1>8. ASSUME InheritDone PROVE Custody'
  <2>1. ValueInv'
    BY <1>0, <1>8 DEF InheritDone, ValueInv, Present
  <2>2. OwnInv'
    BY <1>0, <1>8 DEF InheritDone, OwnInv, Present, EmptyBatch, Quiet
  <2>3. AgeInv'
    BY <1>0, <1>8 DEF InheritDone, AgeInv, Present
  <2>4. CopyInv'
    BY <1>0, <1>8 DEF InheritDone, CopyInv, Present, EmptyBatch, Quiet
  <2>5. ReadyInv'
    BY <1>0, <1>8 DEF InheritDone, ReadyInv, Places, Managed, OwnKeys, Views
  <2>6. RunInv'
    BY <1>0, <1>8 DEF InheritDone, RunInv, Present
  <2>7. AllowedInv'
    BY <1>0, <1>8 DEF InheritDone, AllowedInv, Switched
  <2> QED
    BY <2>1, <2>2, <2>3, <2>4, <2>5, <2>6, <2>7 DEF Custody
<1>9. ASSUME NEW p \in Places, Generate(p) PROVE Custody'
  <2>1. ValueInv'
    BY <1>0, <1>9 DEF Generate, ValueInv, Present, Whole
  <2>2. OwnInv'
    BY <1>0, <1>9 DEF Generate, OwnInv, Present, Managed, SharedKeys, OwnKeys
  <2>3. AgeInv'
    BY <1>0, <1>9 DEF Generate, AgeInv, Present, DataOK, Whole
  <2>4. CopyInv'
    BY <1>0, <1>9 DEF Generate, CopyInv, Present, OwnKeys, DeclaredAs, Managed
  <2>5. ReadyInv'
    BY <1>0, <1>9 DEF Generate, ReadyInv, Present, EmptyBatch, Quiet, Managed,
       SharedKeys, OwnKeys, DeclaredAs, Whole, Missing
  <2>6. RunInv'
    BY <1>0, <1>9 DEF Generate, RunInv, Present
  <2>7. AllowedInv'
    BY <1>0, <1>9 DEF Generate, AllowedInv, Switched
  <2> QED
    BY <2>1, <2>2, <2>3, <2>4, <2>5, <2>6, <2>7 DEF Custody
<1>10. ASSUME GenerateDone PROVE Custody'
  <2>1. ValueInv'
    BY <1>0, <1>10 DEF GenerateDone, ValueInv, Present
  <2>2. OwnInv'
    BY <1>0, <1>10 DEF GenerateDone, OwnInv, Present, EmptyBatch, Quiet
  <2>3. AgeInv'
    BY <1>0, <1>10 DEF GenerateDone, AgeInv, Present
  <2>4. CopyInv'
    BY <1>0, <1>10 DEF GenerateDone, CopyInv, Present
  <2>5. ReadyInv'
    BY <1>0, <1>10 DEF GenerateDone, ReadyInv, Present, EmptyBatch, Quiet,
       Managed, SharedKeys, OwnKeys, DeclaredAs
  <2>6. RunInv'
    BY <1>0, <1>10 DEF GenerateDone, RunInv, Present
  <2>7. AllowedInv'
    BY <1>0, <1>10 DEF GenerateDone, AllowedInv, Switched
  <2> QED
    BY <2>1, <2>2, <2>3, <2>4, <2>5, <2>6, <2>7 DEF Custody
<1>11. ASSUME NEW p \in Places, Clean(p) PROVE Custody'
  <2>a. \A q \in Places, k \in Keys :
          store'[q][k] = IF q = p /\ k \in Orphans(p) THEN Missing
                         ELSE store[q][k]
    BY <1>0, <1>11 DEF Clean, DataOK
  <2>b. \A k \in Managed(p) : k \notin Orphans(p)
    BY DEF Orphans, Managed, Expected
  <2>c. \A c \in Containers, k \in Keys : decl[c][k] = "own" =>
          k \notin Orphans(c) /\ k \notin Orphans(Project)
    BY DEF Orphans, Managed, Expected, UnsharedDeclared, OwnKeys, DeclaredAs
  <2>1. ValueInv'
    BY <1>0, <1>11 DEF Clean, ValueInv, Present
  <2>2. OwnInv'
    BY <1>0, <1>11 DEF Clean, OwnInv, Present, Managed, SharedKeys, OwnKeys
  <2>3. AgeInv'
    BY <1>0, <1>11 DEF Clean, AgeInv, Present
  <2>4. CopyInv'
    BY <1>0, <1>11, <2>a, <2>c DEF Clean, CopyInv, Present
  <2>5. ReadyInv'
    BY <1>0, <1>11, <2>a, <2>b
    DEF Clean, ReadyInv, Present, Managed, SharedKeys, OwnKeys, DeclaredAs
  <2>6. RunInv'
    BY <1>0, <1>11, <2>a DEF Clean, RunInv, Present, Reading
  <2>7. AllowedInv'
    BY <1>0, <1>11 DEF Clean, AllowedInv, Switched
  <2> QED
    BY <2>1, <2>2, <2>3, <2>4, <2>5, <2>6, <2>7 DEF Custody
<1>12. ASSUME NEW p \in Places, Wipe(p) PROVE Custody'
  <2>1. ValueInv'
    BY <1>0, <1>12 DEF Wipe, ValueInv, Present, EmptyBatch
  <2>2. OwnInv'
    BY <1>0, <1>12
    DEF Wipe, OwnInv, Present, Managed, SharedKeys, OwnKeys, EmptyBatch
  <2>3. AgeInv'
    BY <1>0, <1>12 DEF Wipe, AgeInv, Present, EmptyBatch, DataOK
  <2>4. CopyInv'
    BY <1>0, <1>12 DEF Wipe, CopyInv, Present, EmptyBatch
  <2>5. ReadyInv'
    BY <1>0, <1>12 DEF Wipe, ReadyInv
  <2>6. RunInv'
    <3>1. \A q \in Places, k \in Keys : q # p => store'[q][k] = store[q][k]
      BY <1>0, <1>12 DEF Wipe
    <3> QED
      BY <1>0, <1>12, <3>1 DEF Wipe, RunInv, Present, Reading
  <2>7. AllowedInv'
    BY <1>0, <1>12 DEF Wipe, AllowedInv, Switched
  <2> QED
    BY <2>1, <2>2, <2>3, <2>4, <2>5, <2>6, <2>7 DEF Custody
<1>13. ASSUME WipeDone PROVE Custody'
  <2>1. ValueInv'
    BY <1>0, <1>13 DEF WipeDone, ValueInv, Present
  <2>2. OwnInv'
    BY <1>0, <1>13 DEF WipeDone, OwnInv, Present, Managed, SharedKeys, OwnKeys
  <2>3. AgeInv'
    BY <1>0, <1>13
    DEF WipeDone, AgeInv, Present, EmptyBatch, Quiet, DataOK, PhaseOK
  <2>4. CopyInv'
    BY <1>0, <1>13 DEF WipeDone, CopyInv, Present
  <2>5. ReadyInv'
    BY <1>0, <1>13 DEF WipeDone, ReadyInv
  <2>6. RunInv'
    BY <1>0, <1>13 DEF WipeDone, RunInv, Present
  <2>7. AllowedInv'
    BY <1>0, <1>13 DEF WipeDone, AllowedInv, Switched
  <2> QED
    BY <2>1, <2>2, <2>3, <2>4, <2>5, <2>6, <2>7 DEF Custody
<1>14. ASSUME CreateStack PROVE Custody'
  <2>a. \A k \in Keys : decl[target][k] # "none" =>
          Present(PlaceOf(target, decl[target][k]), k)
    BY <1>0, <1>14 DEF CreateStack, ReadyInv, Managed, PlaceOf, DataOK, Modes,
       PhaseOK, SharedKeys, OwnKeys, DeclaredAs, Places
  <2>1. ValueInv'
    BY <1>0, <1>14 DEF CreateStack, ValueInv, Present
  <2>2. OwnInv'
    BY <1>0, <1>14
    DEF CreateStack, OwnInv, Present, Managed, SharedKeys, OwnKeys
  <2>3. AgeInv'
    BY <1>0, <1>14 DEF CreateStack, AgeInv, Present
  <2>4. CopyInv'
    BY <1>0, <1>14 DEF CreateStack, CopyInv, Present
  <2>5. ReadyInv'
    BY <1>0, <1>14 DEF CreateStack, ReadyInv
  <2>6. RunInv'
    BY <1>0, <1>14, <2>a DEF CreateStack, RunInv, Present, DataOK
  <2>7. AllowedInv'
    BY <1>0, <1>14 DEF CreateStack, AllowedInv, Switched, DataOK
  <2> QED
    BY <2>1, <2>2, <2>3, <2>4, <2>5, <2>6, <2>7 DEF Custody
<1>15. ASSUME UpdateCode PROVE Custody'
  <2>a. \A k \in Keys : decl[target][k] # "none" =>
          Present(PlaceOf(target, decl[target][k]), k)
    BY <1>0, <1>15 DEF UpdateCode, ReadyInv, Managed, PlaceOf, DataOK, Modes,
       SharedKeys, OwnKeys, DeclaredAs, Places
  <2>1. ValueInv'
    BY <1>0, <1>15 DEF UpdateCode, ValueInv, Present
  <2>2. OwnInv'
    BY <1>0, <1>15
    DEF UpdateCode, OwnInv, Present, Managed, SharedKeys, OwnKeys
  <2>3. AgeInv'
    BY <1>0, <1>15 DEF UpdateCode, AgeInv, Present
  <2>4. CopyInv'
    BY <1>0, <1>15 DEF UpdateCode, CopyInv, Present
  <2>5. ReadyInv'
    BY <1>0, <1>15 DEF UpdateCode, ReadyInv
  <2>6. RunInv'
    BY <1>0, <1>15, <2>a DEF UpdateCode, RunInv, Present, DataOK
  <2>7. AllowedInv'
    BY <1>0, <1>15 DEF UpdateCode, AllowedInv, Switched
  <2> QED
    BY <2>1, <2>2, <2>3, <2>4, <2>5, <2>6, <2>7 DEF Custody
<1>16. ASSUME UpdateRole PROVE Custody'
  <2>1. ValueInv'
    BY <1>0, <1>16 DEF UpdateRole, ValueInv, Present
  <2>2. OwnInv'
    BY <1>0, <1>16
    DEF UpdateRole, OwnInv, Present, Managed, SharedKeys, OwnKeys
  <2>3. AgeInv'
    BY <1>0, <1>16 DEF UpdateRole, AgeInv, Present
  <2>4. CopyInv'
    BY <1>0, <1>16 DEF UpdateRole, CopyInv, Present
  <2>5. ReadyInv'
    BY <1>0, <1>16 DEF UpdateRole, ReadyInv
  <2>6. RunInv'
    BY <1>0, <1>16 DEF UpdateRole, RunInv, Present
  <2>7. AllowedInv'
    BY <1>0, <1>16 DEF UpdateRole, AllowedInv, Switched, DataOK, SwitchedInv
  <2> QED
    BY <2>1, <2>2, <2>3, <2>4, <2>5, <2>6, <2>7 DEF Custody
<1>17. ASSUME DeployDone PROVE Custody'
  <2>1. ValueInv'
    BY <1>0, <1>17 DEF DeployDone, ValueInv, Present
  <2>2. OwnInv'
    BY <1>0, <1>17
    DEF DeployDone, OwnInv, Present, Managed, SharedKeys, OwnKeys
  <2>3. AgeInv'
    BY <1>0, <1>17 DEF DeployDone, AgeInv, Present
  <2>4. CopyInv'
    BY <1>0, <1>17 DEF DeployDone, CopyInv, Present
  <2>5. ReadyInv'
    BY <1>0, <1>17 DEF DeployDone, ReadyInv
  <2>6. RunInv'
    BY <1>0, <1>17 DEF DeployDone, RunInv, Present
  <2>7. AllowedInv'
    BY <1>0, <1>17 DEF DeployDone, AllowedInv, Switched, PhaseOK
  <2> QED
    BY <2>1, <2>2, <2>3, <2>4, <2>5, <2>6, <2>7 DEF Custody
<1>18. ASSUME RemoveResidue PROVE Custody'
  <2>a. \A q \in Places, k \in Keys :
          \/ store'[q][k] = store[q][k]
          \/ q = Project /\ k \in Residue /\ store'[q][k] = Missing
    BY <1>0, <1>18 DEF RemoveResidue, DataOK
  <2>b. running = decl
    BY <1>0, <1>18 DEF RemoveResidue, AllowedInv, Switched, PhaseOK, DataOK
  <2>1. ValueInv'
    BY <1>0, <1>18 DEF RemoveResidue, ValueInv, Present, Places, DataOK
  <2>2. OwnInv'
    BY <1>0, <1>18, <2>a
    DEF RemoveResidue, OwnInv, Present, PhaseOK, Quiet, EmptyBatch, Places
  <2>3. AgeInv'
    BY <1>0, <1>18 DEF RemoveResidue, AgeInv, Present, DataOK, PhaseOK
  <2>4. CopyInv'
    BY <1>0, <1>18 DEF RemoveResidue, CopyInv, Present, Places, DataOK
  <2>5. ReadyInv'
    BY <1>0, <1>18 DEF RemoveResidue, ReadyInv
  <2>6. RunInv'
    BY <1>0, <1>18, <2>a, <2>b
    DEF RemoveResidue, RunInv, Present, PlaceOf, Residue, SharedKeys, Places
  <2>7. AllowedInv'
    BY <1>0, <1>18 DEF RemoveResidue, AllowedInv, Switched
  <2> QED
    BY <2>1, <2>2, <2>3, <2>4, <2>5, <2>6, <2>7 DEF Custody
<1>19. ASSUME RemoveLegacyStack PROVE Custody'
  <2>1. ValueInv'
    BY <1>0, <1>19 DEF RemoveLegacyStack, ValueInv, Present
  <2>2. OwnInv'
    BY <1>0, <1>19
    DEF RemoveLegacyStack, OwnInv, Present, Managed, SharedKeys, OwnKeys
  <2>3. AgeInv'
    BY <1>0, <1>19 DEF RemoveLegacyStack, AgeInv, Present
  <2>4. CopyInv'
    BY <1>0, <1>19 DEF RemoveLegacyStack, CopyInv, Present
  <2>5. ReadyInv'
    BY <1>0, <1>19 DEF RemoveLegacyStack, ReadyInv
  <2>6. RunInv'
    BY <1>0, <1>19 DEF RemoveLegacyStack, RunInv, Present
  <2>7. AllowedInv'
    BY <1>0, <1>19 DEF RemoveLegacyStack, AllowedInv, Switched
  <2> QED
    BY <2>1, <2>2, <2>3, <2>4, <2>5, <2>6, <2>7 DEF Custody
<1>20. ASSUME Interrupt PROVE Custody'
  <2>1. ValueInv'
    BY <1>0, <1>20 DEF Interrupt, ValueInv, Present, EmptyBatch
  <2>2. OwnInv'
    BY <1>0, <1>20 DEF Interrupt, OwnInv, Present, EmptyBatch
  <2>3. AgeInv'
    BY <1>0, <1>20 DEF Interrupt, AgeInv, Present, EmptyBatch
  <2>4. CopyInv'
    BY <1>0, <1>20 DEF Interrupt, CopyInv, Present, EmptyBatch
  <2>5. ReadyInv'
    BY <1>0, <1>20 DEF Interrupt, ReadyInv
  <2>6. RunInv'
    BY <1>0, <1>20 DEF Interrupt, RunInv, Present
  <2>7. AllowedInv'
    BY <1>0, <1>20 DEF Interrupt, AllowedInv, Switched
  <2> QED
    BY <2>1, <2>2, <2>3, <2>4, <2>5, <2>6, <2>7 DEF Custody
<1>21. CASE Write
  BY <1>0, <1>21, WriteFills, FillingKeeps
<1>22. ASSUME NEW k \in Keys, Put(k) PROVE Custody'
  BY <1>0, <1>22, PutFills, FillingKeeps
<1> QED
  BY <1>1, <1>2, <1>3, <1>4, <1>5, <1>6, <1>7, <1>8, <1>9, <1>10, <1>11, <1>12,
     <1>13, <1>14, <1>15, <1>16, <1>17, <1>18, <1>19, <1>20, <1>21, <1>22 DEF
     Next, Step

\* The stores are in order: what is in them is whole enough to be found, where
\* the declarations say it is kept, from after the last rotation, the same in
\* the project's store and in the container's that took it over, and what a
\* running image reads.
THEOREM StoresInOrder == Spec => []Custody
PROOF
<1> USE PlacesAssumption DEF vars, lambdas, writing, loop, history
<1>1. Init => Custody
  <2> SUFFICES ASSUME Init PROVE Custody
    OBVIOUS
  <2> USE DEF Init, Present, Missing, Whole, EmptyBatch, Places
  <2>1. ValueInv
    BY DEF ValueInv
  <2>2. OwnInv
    BY DEF OwnInv
  <2>3. AgeInv
    BY DEF AgeInv
  <2>4. CopyInv
    BY DEF CopyInv
  <2>5. ReadyInv
    BY DEF ReadyInv
  <2>6. RunInv
    BY DEF RunInv, NoDeclaration
  <2>7. AllowedInv
    BY DEF AllowedInv
  <2> QED
    BY <2>1, <2>2, <2>3, <2>4, <2>5, <2>6, <2>7 DEF Custody
<1>2. ASSUME Custody, UNCHANGED vars PROVE Custody'
  <2> USE <1>2 DEF Custody, Present
  <2>1. (ValueInv /\ AgeInv /\ CopyInv)'
    BY DEF ValueInv, AgeInv, CopyInv, Places
  <2>2. (OwnInv /\ ReadyInv)'
    BY DEF OwnInv, ReadyInv, Managed, SharedKeys, OwnKeys, DeclaredAs, MixedIn,
           Places
  <2>3. (RunInv /\ AllowedInv)'
    BY DEF RunInv, AllowedInv, Switched, PlaceOf, PlacesOf, Places
  <2> QED
    BY <2>1, <2>2, <2>3
<1>3. Inv /\ Custody /\ [Next]_vars => Custody'
  BY <1>2, CustodyStep
<1> QED
  BY <1>1, <1>3, Invariance, PTL DEF Spec

\* Once all managed secrets have been deleted in order to rotate them, no value
\* from before comes back into use, neither by inheritance nor by a write that
\* an earlier command left behind (Mediator.delete_pocket_managed_secrets,
\* _ensure_container_secret_inheritance).
THEOREM RotationTakesEffect == Spec => []RotationEffective
PROOF
<1>1. Inv /\ Custody => RotationEffective
  BY PlacesAssumption
  DEF Inv, TypeOK, DataOK, Custody, AgeInv, RotationEffective, PlaceOf, Places
<1> QED
  BY <1>1, Invariance, StoresInOrder, PTL

\* After a deploy that ended well every container may read all that its image
\* declares and finds it, but for what was deleted under it, or halved by an
\* interrupted write; later deploys, ended or not, do not take that away.
THEOREM EveryContainerIsServed == Spec => []ServedAfterDeploy
PROOF
<1>1. Inv /\ Custody => ServedAfterDeploy
  <2> SUFFICES ASSUME Inv, Custody, settled,
                      NEW c \in deployed, NEW k \in Keys, <<c, k>> \notin lost,
                      NEW p, p = PlaceOf(c, running[c][k]),
                      running[c][k] # "none", store[p][k].part # "pem"
               PROVE  p \in allowed[c] /\ store[p][k].part = "all"
    BY DEF ServedAfterDeploy, Halved, Served
  <2> USE DEF Inv, TypeOK, DataOK, Custody
  <2>1. c \in Containers /\ p \in Places
    BY DEF PlaceOf, Places
  <2>2. p \in allowed[c]
    BY <2>1 DEF AllowedInv, Switched, PlacesOf
  <2>3. store[p][k].part # "none"
    BY <2>1 DEF RunInv, ValueInv
  <2> QED
    BY <2>1, <2>2, <2>3 DEF Values
<1> QED
  BY <1>1, Invariance, StoresInOrder, PTL

\* A container that turns from the project's store to its own finds there the
\* value that was in use, so sessions survive the migration: its store has the
\* key by the time its image is switched, and what it has was inherited, not
\* generated (_ensure_container_secret_inheritance, _create_store_secrets).
THEOREM MigrationIsSafe == Spec => MigrationKeepsValue
PROOF
<1>1. Inv /\ Custody /\ [Next]_vars =>
        [\A c \in Containers, k \in Keys :
           /\ legacy \/ running[c][k] = "shared"
           /\ running[c][k] # "own" /\ running'[c][k] = "own"
           /\ k \notin parted /\ Present(Project, k)
           => store'[c][k].gen = store[Project][k].gen]_vars
  <2> SUFFICES ASSUME Inv, Custody, Next,
                      NEW c \in Containers, NEW k \in Keys,
                      running[c][k] # "own", running'[c][k] = "own",
                      k \notin parted, Present(Project, k)
               PROVE  store'[c][k].gen = store[Project][k].gen
    OBVIOUS
  <2> USE DEF Inv, TypeOK, DataOK, Custody, vars, lambdas, writing, loop,
              history
  <2>1. CASE UNCHANGED running
    BY <2>1
  <2>2. ASSUME pc = "clean", UNCHANGED store,
               running' = [running EXCEPT ![target] = decl[target]]
        PROVE  store'[c][k].gen = store[Project][k].gen
    <3>1. decl[c][k] = "own"
      BY <2>2
    <3> QED
      BY <2>2, <3>1 DEF CopyInv
  <2> QED
    BY <2>1, <2>2
    DEF Next, Step, Edit, Deploy, Delete, Ensure, Skip, Update, Inherit, Write,
        Put, Generate, WipeDone, InheritDone, GenerateDone, CreateStack,
        UpdateCode, UpdateRole, DeployDone, RemoveLegacyStack, Interrupt,
        Clean, Wipe, RemoveResidue
<1> QED
  BY <1>1, Invariance, StoresInOrder, PTL DEF Spec, MigrationKeepsValue

=============================================================================
