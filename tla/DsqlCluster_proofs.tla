-------------------------- MODULE DsqlCluster_proofs --------------------------
(* Proofs about DsqlCluster, for any number of clusters and cuts: types; for *)
(* one command at a time that the endpoint consumers read exists, and that   *)
(* the commands keep the promise of StageDatabase.                           *)
EXTENDS DsqlCluster, TLAPS

OneCommand == \A p, q \in Commands : p = q

\* The name is nowhere but at c.
NameOnlyAt(c) == \A d \in Clusters : name[d] = "current" => d = c

\* The tag Name tells the database.
NameInv == \A c, d \in Clusters : name[c] = "current" /\ name[d] = "current" => c = d

\* A cluster that is being restored is not there yet.
JobInv == \A c \in Clusters : job[c] = "running" => state[c] = "none"

TargetInv ==
  \A p \in Commands :
    pc[p] \in {"active", "announce", "wait", "rename", "name", "deleted"} => target[p] \in Clusters

BackupInv == \A p \in Commands : pc[p] = "backup" => seen[p] \in Clusters

\* A deploy: what it made or found is the database until it has published it.
DeployInv ==
  \A p \in Commands :
    /\ pc[p] \in {"create", "unpublish"} => \A c \in Clusters : name[c] # "current"
    /\ pc[p] = "active" => name[target[p]] = "current" /\ state[target[p]] \in {"creating",
         "active"}
    /\ pc[p] = "announce" => name[target[p]] = "current" /\ state[target[p]] = "active"
    /\ pc[p] \in {"announce", "endpoint"} => seen[p] = Unread
    /\ pc[p] \in {"functions", "hook"} =>
         seen[p] \in Clusters /\ name[seen[p]] = "current" /\ state[seen[p]] = "active"

\* What a switch takes for the old cluster has the name, unless it is gone.
OldKnown(p) ==
  /\ NameOnlyAt(seen[p])
  /\ seen[p] \in Clusters => name[seen[p]] = "current" \/ state[seen[p]] = "gone"

SwitchInv ==
  \A p \in Commands :
    /\ pc[p] \in {"backup", "restore", "wait"} => seen[p] = Unread \/ OldKnown(p)
    /\ pc[p] = "rename" => OldKnown(p)
    /\ pc[p] \in {"name", "deleted"} => NameOnlyAt(target[p])

\* Who deletes the database is still there to take its endpoint back.
EndpointInv ==
  ~orphaned =>
    /\ \A c \in Clusters :
         state[c] = "deleting" => \E p \in Commands : pc[p] = "deleted" /\ target[p] = c
    /\ published # None /\ state[published] = "gone" =>
         \E p \in Commands : pc[p] \in {"deleted", "unpublish"}

Inv == NameInv /\ JobInv /\ TargetInv /\ DeployInv /\ SwitchInv /\ EndpointInv

\* The ways to take a step.
LEMMA Actions ==
  ASSUME Next
  PROVE  \/ \E p \in Commands : Deploy(p)
         \/ \E p \in Commands : Restore(p)
         \/ \E p \in Commands : Destroy(p)
         \/ \E p \in Commands : CleanupPoints(p)
         \/ \E p \in Commands : FindCluster(p)
         \/ \E p \in Commands : AwaitActive(p)
         \/ \E p \in Commands : PublishEndpoint(p)
         \/ \E p \in Commands : UpdateFunctions(p)
         \/ \E p \in Commands : CleanupLegacyPlans(p)
         \/ \E p \in Commands : EnsurePlan(p)
         \/ \E p \in Commands : EnsureSelection(p)
         \/ \E p \in Commands : BackupFirst(p)
         \/ \E p \in Commands : WaitRestore(p)
         \/ \E p \in Commands : RenameOld(p)
         \/ \E p \in Commands : NameNew(p)
         \/ \E p \in Commands : AwaitDeleted(p)
         \/ \E p \in Commands : UnpublishEndpoint(p)
         \/ \E p \in Commands : Refused(p)
         \/ \E p \in Commands : CutOff(p)
         \/ \E p \in Commands, c \in Clusters : CreateCluster(p, c)
         \/ \E p \in Commands, c \in Clusters : StartRestore(p, c)
         \/ \E p \in Commands, c \in Clusters : RestoreStatus(p, c)
         \/ \E c \in Clusters : Activate(c)
         \/ \E c \in Clusters : FinishDelete(c)
         \/ \E c \in Clusters : DeleteByHand(c)
         \/ \E c \in Clusters : ScheduledBackup(c)
         \/ \E c \in Clusters, how \in {"completed", "failed"} : RestoreEnds(c, how)
BY DEF Next, Advance

-----------------------------------------------------------------------------
(* Types. *)
LEMMA TypeStep == TypeOK /\ BackupInv /\ [Next]_vars => TypeOK' /\ BackupInv'
<1> SUFFICES ASSUME TypeOK, BackupInv, [Next]_vars PROVE TypeOK' /\ BackupInv'
  OBVIOUS
<1> USE BoundAssumption DEF TypeOK, Steps, BackupInv
<1>1. ASSUME NEW p \in Commands, Deploy(p) PROVE TypeOK' /\ BackupInv'
  BY <1>1 DEF Deploy, Goto, Forget, cloud, Remember
<1>2. ASSUME NEW p \in Commands, Restore(p) PROVE TypeOK' /\ BackupInv'
  BY <1>2 DEF Restore, Goto, Remember, cloud, Found, Named
<1>3. ASSUME NEW p \in Commands, Destroy(p) PROVE TypeOK' /\ BackupInv'
  BY <1>3 DEF Destroy, Goto, Named
<1>4. ASSUME NEW p \in Commands, CleanupPoints(p) PROVE TypeOK' /\ BackupInv'
  BY <1>4 DEF CleanupPoints, Named
<1>5. ASSUME NEW p \in Commands, FindCluster(p) PROVE TypeOK' /\ BackupInv'
  BY <1>5 DEF FindCluster, Goto, Remember, cloud, Found, Named
<1>6. ASSUME NEW p \in Commands, AwaitActive(p) PROVE TypeOK' /\ BackupInv'
  BY <1>6 DEF AwaitActive, Goto, Forget, cloud, Remember
<1>7. ASSUME NEW p \in Commands, PublishEndpoint(p) PROVE TypeOK' /\ BackupInv'
  BY <1>7 DEF PublishEndpoint, Goto, Remember, Seen, Found, Named
<1>8. ASSUME NEW p \in Commands, UpdateFunctions(p) PROVE TypeOK' /\ BackupInv'
  BY <1>8 DEF UpdateFunctions, Goto, Found, Named
<1>9. ASSUME NEW p \in Commands, CleanupLegacyPlans(p) PROVE TypeOK' /\ BackupInv'
  BY <1>9 DEF CleanupLegacyPlans, Goto, Found, Named
<1>10. ASSUME NEW p \in Commands, EnsurePlan(p) PROVE TypeOK' /\ BackupInv'
  BY <1>10 DEF EnsurePlan, Goto
<1>11. ASSUME NEW p \in Commands, EnsureSelection(p) PROVE TypeOK' /\ BackupInv'
  BY <1>11 DEF EnsureSelection, Goto
<1>12. ASSUME NEW p \in Commands, BackupFirst(p) PROVE TypeOK' /\ BackupInv'
  BY <1>12 DEF BackupFirst, Goto
<1>13. ASSUME NEW p \in Commands, WaitRestore(p) PROVE TypeOK' /\ BackupInv'
  BY <1>13 DEF WaitRestore, Goto, Remember, cloud, Seen, Found, Named
<1>14. ASSUME NEW p \in Commands, RenameOld(p) PROVE TypeOK' /\ BackupInv'
  BY <1>14 DEF RenameOld, Goto, Old, Exists
<1>15. ASSUME NEW p \in Commands, NameNew(p) PROVE TypeOK' /\ BackupInv'
  BY <1>15 DEF NameNew, Goto, Forget, Remember, Exists
<1>16. ASSUME NEW p \in Commands, AwaitDeleted(p) PROVE TypeOK' /\ BackupInv'
  BY <1>16 DEF AwaitDeleted, Goto, cloud
<1>17. ASSUME NEW p \in Commands, UnpublishEndpoint(p) PROVE TypeOK' /\ BackupInv'
  BY <1>17 DEF UnpublishEndpoint, Goto
<1>18. ASSUME NEW p \in Commands, Refused(p) PROVE TypeOK' /\ BackupInv'
  BY <1>18 DEF Refused, Goto, cloud, Fresh
<1>19. ASSUME NEW p \in Commands, CutOff(p) PROVE TypeOK' /\ BackupInv'
  BY <1>19 DEF CutOff, Goto, cloud
<1>20. ASSUME NEW p \in Commands, NEW c \in Clusters, CreateCluster(p, c) PROVE TypeOK' /\
     BackupInv'
  BY <1>20 DEF CreateCluster, Goto, Fresh
<1>21. ASSUME NEW p \in Commands, NEW c \in Clusters, StartRestore(p, c) PROVE TypeOK' /\ BackupInv'
  BY <1>21 DEF StartRestore, Goto, Fresh
<1>22. ASSUME NEW p \in Commands, NEW c \in Clusters, RestoreStatus(p, c) PROVE TypeOK' /\
     BackupInv'
  BY <1>22 DEF RestoreStatus, Goto, Forget, cloud, Remember
<1>23. ASSUME NEW c \in Clusters, Activate(c) PROVE TypeOK' /\ BackupInv'
  BY <1>23 DEF Activate
<1>24. ASSUME NEW c \in Clusters, FinishDelete(c) PROVE TypeOK' /\ BackupInv'
  BY <1>24 DEF FinishDelete, Vanish
<1>25. ASSUME NEW c \in Clusters, DeleteByHand(c) PROVE TypeOK' /\ BackupInv'
  BY <1>25 DEF DeleteByHand, Vanish
<1>26. ASSUME NEW c \in Clusters, ScheduledBackup(c) PROVE TypeOK' /\ BackupInv'
  BY <1>26 DEF ScheduledBackup
<1>27. ASSUME NEW c \in Clusters, NEW how \in {"completed", "failed"}, RestoreEnds(c, how)
      PROVE TypeOK' /\ BackupInv'
  BY <1>27 DEF RestoreEnds
<1>28. CASE UNCHANGED vars
  BY <1>28 DEF vars, cloud
<1> QED
  BY Actions, <1>1, <1>2, <1>3, <1>4, <1>5, <1>6, <1>7, <1>8, <1>9, <1>10, <1>11, <1>12, <1>13,
       <1>14, <1>15, <1>16, <1>17, <1>18, <1>19, <1>20, <1>21, <1>22, <1>23, <1>24, <1>25, <1>26,
       <1>27, <1>28

\* No call puts a state, a tag or a step where the code has none.
THEOREM Typing == Spec => []TypeOK
<1>1. Init => TypeOK /\ BackupInv
  <2> SUFFICES ASSUME Init PROVE TypeOK /\ BackupInv
    OBVIOUS
  <2>1. cuts \in 0..MaxCuts
    BY BoundAssumption DEF Init
  <2>2. pc \in [Commands -> Steps] /\ BackupInv
    BY DEF Init, Steps, BackupInv
  <2> QED
    BY <2>1, <2>2 DEF Init, TypeOK
<1> QED
  BY <1>1, TypeStep, PTL DEF Spec

-----------------------------------------------------------------------------
(* One command at a time. *)
LEMMA InvStep ==
  ASSUME OneCommand, TypeOK, TypeOK', BackupInv, Inv, [Next]_vars
  PROVE  Inv'
<1> USE ClustersAssumption DEF TypeOK, OldKnown, NameOnlyAt
<1>1. ASSUME NEW p \in Commands, Deploy(p) PROVE Inv'
  <2>0. \A q \in Commands : q = p
    BY DEF OneCommand
  <2>1. NameInv'
    BY <1>1, <2>0 DEF Deploy, Goto, Forget, cloud, Remember, Inv, NameInv
  <2>2. JobInv'
    BY <1>1, <2>0 DEF Deploy, Goto, Forget, cloud, Remember, Inv, JobInv
  <2>3. TargetInv'
    BY <1>1, <2>0 DEF Deploy, Goto, Forget, cloud, Remember, Inv, TargetInv
  <2>4. DeployInv'
    BY <1>1, <2>0 DEF Deploy, Goto, Forget, cloud, Remember, Inv, DeployInv
  <2>5. SwitchInv'
    BY <1>1, <2>0 DEF Deploy, Goto, Forget, cloud, Remember, Inv, SwitchInv
  <2>6. EndpointInv'
    BY <1>1, <2>0 DEF Deploy, Goto, Forget, cloud, Remember, Inv, EndpointInv
  <2> QED
    BY <2>1, <2>2, <2>3, <2>4, <2>5, <2>6 DEF Inv
<1>2. ASSUME NEW p \in Commands, Restore(p) PROVE Inv'
  <2>0. \A q \in Commands : q = p
    BY DEF OneCommand
  <2>1. NameInv'
    BY <1>2, <2>0 DEF Restore, Goto, Remember, cloud, Found, Named, Inv, NameInv
  <2>2. JobInv'
    BY <1>2, <2>0 DEF Restore, Goto, Remember, cloud, Found, Named, Inv, JobInv
  <2>3. TargetInv'
    BY <1>2, <2>0 DEF Restore, Goto, Remember, cloud, Found, Named, Inv, TargetInv
  <2>4. DeployInv'
    BY <1>2, <2>0 DEF Restore, Goto, Remember, cloud, Found, Named, Inv, DeployInv
  <2>5. SwitchInv'
    BY <1>2, <2>0 DEF Restore, Goto, Remember, cloud, Found, Named, Inv, SwitchInv, NameInv
  <2>6. EndpointInv'
    BY <1>2, <2>0 DEF Restore, Goto, Remember, cloud, Found, Named, Inv, EndpointInv
  <2> QED
    BY <2>1, <2>2, <2>3, <2>4, <2>5, <2>6 DEF Inv
<1>3. ASSUME NEW p \in Commands, Destroy(p) PROVE Inv'
  <2>0. \A q \in Commands : q = p
    BY DEF OneCommand
  <2>1. NameInv'
    BY <1>3, <2>0 DEF Destroy, Goto, Named, Inv, NameInv
  <2>2. JobInv'
    BY <1>3, <2>0 DEF Destroy, Goto, Named, Inv, JobInv
  <2>3. TargetInv'
    BY <1>3, <2>0 DEF Destroy, Goto, Named, Inv, TargetInv
  <2>4. DeployInv'
    BY <1>3, <2>0 DEF Destroy, Goto, Named, Inv, DeployInv
  <2>5. SwitchInv'
    BY <1>3, <2>0 DEF Destroy, Goto, Named, Inv, SwitchInv, NameInv
  <2>6. EndpointInv'
    BY <1>3, <2>0 DEF Destroy, Goto, Named, Inv, EndpointInv
  <2> QED
    BY <2>1, <2>2, <2>3, <2>4, <2>5, <2>6 DEF Inv
<1>4. ASSUME NEW p \in Commands, CleanupPoints(p) PROVE Inv'
  <2>0. \A q \in Commands : q = p
    BY DEF OneCommand
  <2>1. NameInv'
    BY <1>4, <2>0 DEF CleanupPoints, Named, Inv, NameInv
  <2>2. JobInv'
    BY <1>4, <2>0 DEF CleanupPoints, Named, Inv, JobInv
  <2>3. TargetInv'
    BY <1>4, <2>0 DEF CleanupPoints, Named, Inv, TargetInv
  <2>4. DeployInv'
    BY <1>4, <2>0 DEF CleanupPoints, Named, Inv, DeployInv
  <2>5. SwitchInv'
    BY <1>4, <2>0 DEF CleanupPoints, Named, Inv, SwitchInv
  <2>6. EndpointInv'
    BY <1>4, <2>0 DEF CleanupPoints, Named, Inv, EndpointInv
  <2> QED
    BY <2>1, <2>2, <2>3, <2>4, <2>5, <2>6 DEF Inv
<1>5. ASSUME NEW p \in Commands, FindCluster(p) PROVE Inv'
  <2>0. \A q \in Commands : q = p
    BY DEF OneCommand
  <2>1. NameInv'
    BY <1>5, <2>0 DEF FindCluster, Goto, Remember, cloud, Found, Named, Inv, NameInv
  <2>2. JobInv'
    BY <1>5, <2>0 DEF FindCluster, Goto, Remember, cloud, Found, Named, Inv, JobInv
  <2>3. TargetInv'
    BY <1>5, <2>0 DEF FindCluster, Goto, Remember, cloud, Found, Named, Inv, TargetInv
  <2>4. DeployInv'
    BY <1>5, <2>0 DEF FindCluster, Goto, Remember, cloud, Found, Named, Inv, DeployInv
  <2>5. SwitchInv'
    BY <1>5, <2>0 DEF FindCluster, Goto, Remember, cloud, Found, Named, Inv, SwitchInv
  <2>6. EndpointInv'
    BY <1>5, <2>0 DEF FindCluster, Goto, Remember, cloud, Found, Named, Inv, EndpointInv
  <2> QED
    BY <2>1, <2>2, <2>3, <2>4, <2>5, <2>6 DEF Inv
<1>6. ASSUME NEW p \in Commands, AwaitActive(p) PROVE Inv'
  <2>0. \A q \in Commands : q = p
    BY DEF OneCommand
  <2>1. NameInv'
    BY <1>6, <2>0 DEF AwaitActive, Goto, Forget, cloud, Remember, Inv, NameInv
  <2>2. JobInv'
    BY <1>6, <2>0 DEF AwaitActive, Goto, Forget, cloud, Remember, Inv, JobInv
  <2>3. TargetInv'
    BY <1>6, <2>0 DEF AwaitActive, Goto, Forget, cloud, Remember, Inv, TargetInv
  <2>4. DeployInv'
    BY <1>6, <2>0 DEF AwaitActive, Goto, Forget, cloud, Remember, Inv, DeployInv
  <2>5. SwitchInv'
    BY <1>6, <2>0 DEF AwaitActive, Goto, Forget, cloud, Remember, Inv, SwitchInv
  <2>6. EndpointInv'
    BY <1>6, <2>0 DEF AwaitActive, Goto, Forget, cloud, Remember, Inv, EndpointInv
  <2> QED
    BY <2>1, <2>2, <2>3, <2>4, <2>5, <2>6 DEF Inv
<1>7. ASSUME NEW p \in Commands, PublishEndpoint(p) PROVE Inv'
  <2>0. \A q \in Commands : q = p
    BY DEF OneCommand
  <2>1. NameInv'
    BY <1>7, <2>0 DEF PublishEndpoint, Goto, Remember, Seen, Found, Named, Inv, NameInv
  <2>2. JobInv'
    BY <1>7, <2>0 DEF PublishEndpoint, Goto, Remember, Seen, Found, Named, Inv, JobInv
  <2>3. TargetInv'
    BY <1>7, <2>0 DEF PublishEndpoint, Goto, Remember, Seen, Found, Named, Inv, TargetInv
  <2>4. DeployInv'
    BY <1>7, <2>0 DEF PublishEndpoint, Goto, Remember, Seen, Found, Named, Inv, DeployInv,
         NameInv, TargetInv
  <2>5. SwitchInv'
    BY <1>7, <2>0 DEF PublishEndpoint, Goto, Remember, Seen, Found, Named, Inv, SwitchInv
  <2>6. EndpointInv'
    BY <1>7, <2>0 DEF PublishEndpoint, Goto, Remember, Seen, Found, Named, Inv, EndpointInv,
         DeployInv
  <2> QED
    BY <2>1, <2>2, <2>3, <2>4, <2>5, <2>6 DEF Inv
<1>8. ASSUME NEW p \in Commands, UpdateFunctions(p) PROVE Inv'
  <2>0. \A q \in Commands : q = p
    BY DEF OneCommand
  <2>1. NameInv'
    BY <1>8, <2>0 DEF UpdateFunctions, Goto, Found, Named, Inv, NameInv
  <2>2. JobInv'
    BY <1>8, <2>0 DEF UpdateFunctions, Goto, Found, Named, Inv, JobInv
  <2>3. TargetInv'
    BY <1>8, <2>0 DEF UpdateFunctions, Goto, Found, Named, Inv, TargetInv
  <2>4. DeployInv'
    BY <1>8, <2>0 DEF UpdateFunctions, Goto, Found, Named, Inv, DeployInv
  <2>5. SwitchInv'
    BY <1>8, <2>0 DEF UpdateFunctions, Goto, Found, Named, Inv, SwitchInv
  <2>6. EndpointInv'
    BY <1>8, <2>0 DEF UpdateFunctions, Goto, Found, Named, Inv, EndpointInv
  <2> QED
    BY <2>1, <2>2, <2>3, <2>4, <2>5, <2>6 DEF Inv
<1>9. ASSUME NEW p \in Commands, CleanupLegacyPlans(p) PROVE Inv'
  <2>0. \A q \in Commands : q = p
    BY DEF OneCommand
  <2>1. NameInv'
    BY <1>9, <2>0 DEF CleanupLegacyPlans, Goto, Found, Named, Inv, NameInv
  <2>2. JobInv'
    BY <1>9, <2>0 DEF CleanupLegacyPlans, Goto, Found, Named, Inv, JobInv
  <2>3. TargetInv'
    BY <1>9, <2>0 DEF CleanupLegacyPlans, Goto, Found, Named, Inv, TargetInv
  <2>4. DeployInv'
    BY <1>9, <2>0 DEF CleanupLegacyPlans, Goto, Found, Named, Inv, DeployInv
  <2>5. SwitchInv'
    BY <1>9, <2>0 DEF CleanupLegacyPlans, Goto, Found, Named, Inv, SwitchInv
  <2>6. EndpointInv'
    BY <1>9, <2>0 DEF CleanupLegacyPlans, Goto, Found, Named, Inv, EndpointInv
  <2> QED
    BY <2>1, <2>2, <2>3, <2>4, <2>5, <2>6 DEF Inv
<1>10. ASSUME NEW p \in Commands, EnsurePlan(p) PROVE Inv'
  <2>0. \A q \in Commands : q = p
    BY DEF OneCommand
  <2>1. NameInv'
    BY <1>10, <2>0 DEF EnsurePlan, Goto, Inv, NameInv
  <2>2. JobInv'
    BY <1>10, <2>0 DEF EnsurePlan, Goto, Inv, JobInv
  <2>3. TargetInv'
    BY <1>10, <2>0 DEF EnsurePlan, Goto, Inv, TargetInv
  <2>4. DeployInv'
    BY <1>10, <2>0 DEF EnsurePlan, Goto, Inv, DeployInv
  <2>5. SwitchInv'
    BY <1>10, <2>0 DEF EnsurePlan, Goto, Inv, SwitchInv
  <2>6. EndpointInv'
    BY <1>10, <2>0 DEF EnsurePlan, Goto, Inv, EndpointInv
  <2> QED
    BY <2>1, <2>2, <2>3, <2>4, <2>5, <2>6 DEF Inv
<1>11. ASSUME NEW p \in Commands, EnsureSelection(p) PROVE Inv'
  <2>0. \A q \in Commands : q = p
    BY DEF OneCommand
  <2>1. NameInv'
    BY <1>11, <2>0 DEF EnsureSelection, Goto, Inv, NameInv
  <2>2. JobInv'
    BY <1>11, <2>0 DEF EnsureSelection, Goto, Inv, JobInv
  <2>3. TargetInv'
    BY <1>11, <2>0 DEF EnsureSelection, Goto, Inv, TargetInv
  <2>4. DeployInv'
    BY <1>11, <2>0 DEF EnsureSelection, Goto, Inv, DeployInv
  <2>5. SwitchInv'
    BY <1>11, <2>0 DEF EnsureSelection, Goto, Inv, SwitchInv
  <2>6. EndpointInv'
    BY <1>11, <2>0 DEF EnsureSelection, Goto, Inv, EndpointInv
  <2> QED
    BY <2>1, <2>2, <2>3, <2>4, <2>5, <2>6 DEF Inv
<1>12. ASSUME NEW p \in Commands, BackupFirst(p) PROVE Inv'
  <2>0. \A q \in Commands : q = p
    BY DEF OneCommand
  <2>1. NameInv'
    BY <1>12, <2>0 DEF BackupFirst, Goto, Inv, NameInv, BackupInv
  <2>2. JobInv'
    BY <1>12, <2>0 DEF BackupFirst, Goto, Inv, JobInv, BackupInv
  <2>3. TargetInv'
    BY <1>12, <2>0 DEF BackupFirst, Goto, Inv, TargetInv, BackupInv
  <2>4. DeployInv'
    BY <1>12, <2>0 DEF BackupFirst, Goto, Inv, DeployInv, BackupInv
  <2>5. SwitchInv'
    BY <1>12, <2>0 DEF BackupFirst, Goto, Inv, SwitchInv, BackupInv
  <2>6. EndpointInv'
    BY <1>12, <2>0 DEF BackupFirst, Goto, Inv, EndpointInv, BackupInv
  <2> QED
    BY <2>1, <2>2, <2>3, <2>4, <2>5, <2>6 DEF Inv
<1>13. ASSUME NEW p \in Commands, WaitRestore(p) PROVE Inv'
  <2>0. \A q \in Commands : q = p
    BY DEF OneCommand
  <2>1. NameInv'
    BY <1>13, <2>0 DEF WaitRestore, Goto, Remember, cloud, Seen, Found, Named, Inv, NameInv
  <2>2. JobInv'
    BY <1>13, <2>0 DEF WaitRestore, Goto, Remember, cloud, Seen, Found, Named, Inv, JobInv
  <2>3. TargetInv'
    BY <1>13, <2>0 DEF WaitRestore, Goto, Remember, cloud, Seen, Found, Named, Inv, TargetInv
  <2>4. DeployInv'
    BY <1>13, <2>0 DEF WaitRestore, Goto, Remember, cloud, Seen, Found, Named, Inv, DeployInv
  <2>5. SwitchInv'
    BY <1>13, <2>0 DEF WaitRestore, Goto, Remember, cloud, Seen, Found, Named, Inv, SwitchInv,
         NameInv
  <2>6. EndpointInv'
    BY <1>13, <2>0 DEF WaitRestore, Goto, Remember, cloud, Seen, Found, Named, Inv, EndpointInv
  <2> QED
    BY <2>1, <2>2, <2>3, <2>4, <2>5, <2>6 DEF Inv
<1>14. ASSUME NEW p \in Commands, RenameOld(p) PROVE Inv'
  <2>0. \A q \in Commands : q = p
    BY DEF OneCommand
  <2>1. NameInv'
    BY <1>14, <2>0 DEF RenameOld, Goto, Old, Exists, Inv, NameInv
  <2>2. JobInv'
    BY <1>14, <2>0 DEF RenameOld, Goto, Old, Exists, Inv, JobInv
  <2>3. TargetInv'
    BY <1>14, <2>0 DEF RenameOld, Goto, Old, Exists, Inv, TargetInv
  <2>4. DeployInv'
    BY <1>14, <2>0 DEF RenameOld, Goto, Old, Exists, Inv, DeployInv
  <2>5. SwitchInv'
    BY <1>14, <2>0 DEF RenameOld, Goto, Old, Exists, Inv, SwitchInv
  <2>6. EndpointInv'
    BY <1>14, <2>0 DEF RenameOld, Goto, Old, Exists, Inv, EndpointInv
  <2> QED
    BY <2>1, <2>2, <2>3, <2>4, <2>5, <2>6 DEF Inv
<1>15. ASSUME NEW p \in Commands, NameNew(p) PROVE Inv'
  <2>0. \A q \in Commands : q = p
    BY DEF OneCommand
  <2>1. NameInv'
    BY <1>15, <2>0 DEF NameNew, Goto, Forget, Remember, Exists, Inv, NameInv, SwitchInv
  <2>2. JobInv'
    BY <1>15, <2>0 DEF NameNew, Goto, Forget, Remember, Exists, Inv, JobInv
  <2>3. TargetInv'
    BY <1>15, <2>0 DEF NameNew, Goto, Forget, Remember, Exists, Inv, TargetInv
  <2>4. DeployInv'
    BY <1>15, <2>0 DEF NameNew, Goto, Forget, Remember, Exists, Inv, DeployInv
  <2>5. SwitchInv'
    BY <1>15, <2>0 DEF NameNew, Goto, Forget, Remember, Exists, Inv, SwitchInv
  <2>6. EndpointInv'
    BY <1>15, <2>0 DEF NameNew, Goto, Forget, Remember, Exists, Inv, EndpointInv
  <2> QED
    BY <2>1, <2>2, <2>3, <2>4, <2>5, <2>6 DEF Inv
<1>16. ASSUME NEW p \in Commands, AwaitDeleted(p) PROVE Inv'
  <2>0. \A q \in Commands : q = p
    BY DEF OneCommand
  <2>1. NameInv'
    BY <1>16, <2>0 DEF AwaitDeleted, Goto, cloud, Inv, NameInv
  <2>2. JobInv'
    BY <1>16, <2>0 DEF AwaitDeleted, Goto, cloud, Inv, JobInv
  <2>3. TargetInv'
    BY <1>16, <2>0 DEF AwaitDeleted, Goto, cloud, Inv, TargetInv
  <2>4. DeployInv'
    BY <1>16, <2>0 DEF AwaitDeleted, Goto, cloud, Inv, DeployInv, SwitchInv
  <2>5. SwitchInv'
    BY <1>16, <2>0 DEF AwaitDeleted, Goto, cloud, Inv, SwitchInv
  <2>6. EndpointInv'
    BY <1>16, <2>0 DEF AwaitDeleted, Goto, cloud, Inv, EndpointInv
  <2> QED
    BY <2>1, <2>2, <2>3, <2>4, <2>5, <2>6 DEF Inv
<1>17. ASSUME NEW p \in Commands, UnpublishEndpoint(p) PROVE Inv'
  <2>0. \A q \in Commands : q = p
    BY DEF OneCommand
  <2>1. NameInv'
    BY <1>17, <2>0 DEF UnpublishEndpoint, Goto, Inv, NameInv
  <2>2. JobInv'
    BY <1>17, <2>0 DEF UnpublishEndpoint, Goto, Inv, JobInv
  <2>3. TargetInv'
    BY <1>17, <2>0 DEF UnpublishEndpoint, Goto, Inv, TargetInv
  <2>4. DeployInv'
    BY <1>17, <2>0 DEF UnpublishEndpoint, Goto, Inv, DeployInv
  <2>5. SwitchInv'
    BY <1>17, <2>0 DEF UnpublishEndpoint, Goto, Inv, SwitchInv
  <2>6. EndpointInv'
    BY <1>17, <2>0 DEF UnpublishEndpoint, Goto, Inv, EndpointInv
  <2> QED
    BY <2>1, <2>2, <2>3, <2>4, <2>5, <2>6 DEF Inv
<1>18. ASSUME NEW p \in Commands, Refused(p) PROVE Inv'
  <2>0. \A q \in Commands : q = p
    BY DEF OneCommand
  <2>1. NameInv'
    BY <1>18, <2>0 DEF Refused, Goto, cloud, Fresh, Inv, NameInv
  <2>2. JobInv'
    BY <1>18, <2>0 DEF Refused, Goto, cloud, Fresh, Inv, JobInv
  <2>3. TargetInv'
    BY <1>18, <2>0 DEF Refused, Goto, cloud, Fresh, Inv, TargetInv
  <2>4. DeployInv'
    BY <1>18, <2>0 DEF Refused, Goto, cloud, Fresh, Inv, DeployInv
  <2>5. SwitchInv'
    BY <1>18, <2>0 DEF Refused, Goto, cloud, Fresh, Inv, SwitchInv
  <2>6. EndpointInv'
    BY <1>18, <2>0 DEF Refused, Goto, cloud, Fresh, Inv, EndpointInv
  <2> QED
    BY <2>1, <2>2, <2>3, <2>4, <2>5, <2>6 DEF Inv
<1>19. ASSUME NEW p \in Commands, CutOff(p) PROVE Inv'
  <2>0. \A q \in Commands : q = p
    BY DEF OneCommand
  <2>1. NameInv'
    BY <1>19, <2>0 DEF CutOff, Goto, cloud, Inv, NameInv
  <2>2. JobInv'
    BY <1>19, <2>0 DEF CutOff, Goto, cloud, Inv, JobInv
  <2>3. TargetInv'
    BY <1>19, <2>0 DEF CutOff, Goto, cloud, Inv, TargetInv
  <2>4. DeployInv'
    BY <1>19, <2>0 DEF CutOff, Goto, cloud, Inv, DeployInv
  <2>5. SwitchInv'
    BY <1>19, <2>0 DEF CutOff, Goto, cloud, Inv, SwitchInv
  <2>6. EndpointInv'
    <3>1. SUFFICES ASSUME ~orphaned' PROVE EndpointInv'
      BY DEF EndpointInv
    <3>2. ~orphaned /\ pc[p] \notin {"deleted", "unpublish"}
      BY <1>19, <3>1 DEF CutOff
    <3>3. \A q \in Commands : pc[q] \notin {"deleted", "unpublish"}
      BY <2>0, <3>2
    <3> QED
      BY <1>19, <3>2, <3>3 DEF CutOff, cloud, Inv, EndpointInv
  <2> QED
    BY <2>1, <2>2, <2>3, <2>4, <2>5, <2>6 DEF Inv
<1>20. ASSUME NEW p \in Commands, NEW c \in Clusters, CreateCluster(p, c) PROVE Inv'
  <2>0. \A q \in Commands : q = p
    BY DEF OneCommand
  <2>1. NameInv'
    BY <1>20, <2>0 DEF CreateCluster, Goto, Fresh, Inv, NameInv, DeployInv
  <2>2. JobInv'
    BY <1>20, <2>0 DEF CreateCluster, Goto, Fresh, Inv, JobInv
  <2>3. TargetInv'
    BY <1>20, <2>0 DEF CreateCluster, Goto, Fresh, Inv, TargetInv
  <2>4. DeployInv'
    BY <1>20, <2>0 DEF CreateCluster, Goto, Fresh, Inv, DeployInv
  <2>5. SwitchInv'
    BY <1>20, <2>0 DEF CreateCluster, Goto, Fresh, Inv, SwitchInv
  <2>6. EndpointInv'
    BY <1>20, <2>0 DEF CreateCluster, Goto, Fresh, Inv, EndpointInv
  <2> QED
    BY <2>1, <2>2, <2>3, <2>4, <2>5, <2>6 DEF Inv
<1>21. ASSUME NEW p \in Commands, NEW c \in Clusters, StartRestore(p, c) PROVE Inv'
  <2>0. \A q \in Commands : q = p
    BY DEF OneCommand
  <2>1. NameInv'
    BY <1>21, <2>0 DEF StartRestore, Goto, Fresh, Inv, NameInv, BackupInv
  <2>2. JobInv'
    BY <1>21, <2>0 DEF StartRestore, Goto, Fresh, Inv, JobInv, BackupInv
  <2>3. TargetInv'
    BY <1>21, <2>0 DEF StartRestore, Goto, Fresh, Inv, TargetInv, BackupInv
  <2>4. DeployInv'
    BY <1>21, <2>0 DEF StartRestore, Goto, Fresh, Inv, DeployInv, BackupInv
  <2>5. SwitchInv'
    BY <1>21, <2>0 DEF StartRestore, Goto, Fresh, Inv, SwitchInv, BackupInv
  <2>6. EndpointInv'
    BY <1>21, <2>0 DEF StartRestore, Goto, Fresh, Inv, EndpointInv, BackupInv
  <2> QED
    BY <2>1, <2>2, <2>3, <2>4, <2>5, <2>6 DEF Inv
<1>22. ASSUME NEW p \in Commands, NEW c \in Clusters, RestoreStatus(p, c) PROVE Inv'
  <2>0. \A q \in Commands : q = p
    BY DEF OneCommand
  <2>1. NameInv'
    BY <1>22, <2>0 DEF RestoreStatus, Goto, Forget, cloud, Remember, Inv, NameInv
  <2>2. JobInv'
    BY <1>22, <2>0 DEF RestoreStatus, Goto, Forget, cloud, Remember, Inv, JobInv
  <2>3. TargetInv'
    BY <1>22, <2>0 DEF RestoreStatus, Goto, Forget, cloud, Remember, Inv, TargetInv
  <2>4. DeployInv'
    BY <1>22, <2>0 DEF RestoreStatus, Goto, Forget, cloud, Remember, Inv, DeployInv
  <2>5. SwitchInv'
    BY <1>22, <2>0 DEF RestoreStatus, Goto, Forget, cloud, Remember, Inv, SwitchInv
  <2>6. EndpointInv'
    BY <1>22, <2>0 DEF RestoreStatus, Goto, Forget, cloud, Remember, Inv, EndpointInv
  <2> QED
    BY <2>1, <2>2, <2>3, <2>4, <2>5, <2>6 DEF Inv
<1>23. ASSUME NEW c \in Clusters, Activate(c) PROVE Inv'
  <2>1. NameInv'
    BY <1>23 DEF Activate, Inv, NameInv
  <2>2. JobInv'
    BY <1>23 DEF Activate, Inv, JobInv
  <2>3. TargetInv'
    BY <1>23 DEF Activate, Inv, TargetInv
  <2>4. DeployInv'
    BY <1>23 DEF Activate, Inv, DeployInv
  <2>5. SwitchInv'
    BY <1>23 DEF Activate, Inv, SwitchInv
  <2>6. EndpointInv'
    BY <1>23 DEF Activate, Inv, EndpointInv
  <2> QED
    BY <2>1, <2>2, <2>3, <2>4, <2>5, <2>6 DEF Inv
<1>24. ASSUME NEW c \in Clusters, FinishDelete(c) PROVE Inv'
  <2>1. NameInv'
    BY <1>24 DEF FinishDelete, Vanish, Inv, NameInv
  <2>2. JobInv'
    BY <1>24 DEF FinishDelete, Vanish, Inv, JobInv
  <2>3. TargetInv'
    BY <1>24 DEF FinishDelete, Vanish, Inv, TargetInv
  <2>4. DeployInv'
    BY <1>24 DEF FinishDelete, Vanish, Inv, DeployInv
  <2>5. SwitchInv'
    BY <1>24 DEF FinishDelete, Vanish, Inv, SwitchInv
  <2>6. EndpointInv'
    BY <1>24 DEF FinishDelete, Vanish, Inv, EndpointInv
  <2> QED
    BY <2>1, <2>2, <2>3, <2>4, <2>5, <2>6 DEF Inv
<1>25. ASSUME NEW c \in Clusters, DeleteByHand(c) PROVE Inv'
  <2>1. NameInv'
    BY <1>25 DEF DeleteByHand, Vanish, Inv, NameInv
  <2>2. JobInv'
    BY <1>25 DEF DeleteByHand, Vanish, Inv, JobInv
  <2>3. TargetInv'
    BY <1>25 DEF DeleteByHand, Vanish, Inv, TargetInv
  <2>4. DeployInv'
    BY <1>25 DEF DeleteByHand, Vanish, Inv, DeployInv
  <2>5. SwitchInv'
    BY <1>25 DEF DeleteByHand, Vanish, Inv, SwitchInv
  <2>6. EndpointInv'
    BY <1>25 DEF DeleteByHand, Vanish, Inv, EndpointInv
  <2> QED
    BY <2>1, <2>2, <2>3, <2>4, <2>5, <2>6 DEF Inv
<1>26. ASSUME NEW c \in Clusters, ScheduledBackup(c) PROVE Inv'
  <2>1. NameInv'
    BY <1>26 DEF ScheduledBackup, Inv, NameInv
  <2>2. JobInv'
    BY <1>26 DEF ScheduledBackup, Inv, JobInv
  <2>3. TargetInv'
    BY <1>26 DEF ScheduledBackup, Inv, TargetInv
  <2>4. DeployInv'
    BY <1>26 DEF ScheduledBackup, Inv, DeployInv
  <2>5. SwitchInv'
    BY <1>26 DEF ScheduledBackup, Inv, SwitchInv
  <2>6. EndpointInv'
    BY <1>26 DEF ScheduledBackup, Inv, EndpointInv
  <2> QED
    BY <2>1, <2>2, <2>3, <2>4, <2>5, <2>6 DEF Inv
<1>27. ASSUME NEW c \in Clusters, NEW how \in {"completed", "failed"},
                 RestoreEnds(c, how) PROVE Inv'
  <2>1. NameInv'
    BY <1>27 DEF RestoreEnds, Inv, NameInv
  <2>2. JobInv'
    BY <1>27 DEF RestoreEnds, Inv, JobInv
  <2>3. TargetInv'
    BY <1>27 DEF RestoreEnds, Inv, TargetInv
  <2>4. DeployInv'
    BY <1>27 DEF RestoreEnds, Inv, DeployInv
  <2>5. SwitchInv'
    BY <1>27 DEF RestoreEnds, Inv, SwitchInv, JobInv
  <2>6. EndpointInv'
    BY <1>27 DEF RestoreEnds, Inv, EndpointInv
  <2> QED
    BY <2>1, <2>2, <2>3, <2>4, <2>5, <2>6 DEF Inv
<1>28. CASE UNCHANGED vars
  BY <1>28 DEF vars, cloud, Inv, NameInv, JobInv, TargetInv, DeployInv, SwitchInv, EndpointInv
<1> QED
  BY Actions, <1>1, <1>2, <1>3, <1>4, <1>5, <1>6, <1>7, <1>8, <1>9, <1>10, <1>11, <1>12, <1>13,
       <1>14, <1>15, <1>16, <1>17, <1>18, <1>19, <1>20, <1>21, <1>22, <1>23, <1>24, <1>25, <1>26,
       <1>27, <1>28

\* A new stage satisfies the invariant.
LEMMA Initially ==
  ASSUME Init
  PROVE  TypeOK /\ BackupInv /\ Inv
<1>1. cuts \in 0..MaxCuts
  BY BoundAssumption DEF Init
<1>2. pc \in [Commands -> Steps] /\ \A p \in Commands : pc[p] = "idle"
  BY DEF Init, Steps
<1>3. TypeOK /\ BackupInv
  BY <1>1, <1>2 DEF Init, TypeOK, BackupInv
<1>4. NameInv /\ JobInv /\ EndpointInv
  BY DEF Init, NameInv, JobInv, EndpointInv
<1>5. TargetInv /\ DeployInv /\ SwitchInv
  BY <1>2 DEF TargetInv, DeployInv, SwitchInv
<1> QED
  BY <1>3, <1>4, <1>5 DEF Inv

\* With one command at a time the name tells the database, and each command
\* knows of it what its step needs.
THEOREM Invariance ==
  ASSUME OneCommand
  PROVE  Spec => [](TypeOK /\ BackupInv /\ Inv)
<1>1. Init => TypeOK /\ BackupInv /\ Inv
  BY Initially
<1>2. TypeOK /\ BackupInv /\ Inv /\ [Next]_vars => (TypeOK /\ BackupInv /\ Inv)'
  BY TypeStep, InvStep, OneCommand
<1> QED
  BY <1>1, <1>2, PTL DEF Spec

\* Consumers outside the stage are not left with the endpoint of a deleted
\* cluster: who deletes it is still about to withdraw it, or was cut off.
THEOREM EndpointIsThere ==
  ASSUME OneCommand
  PROVE  Spec => []EndpointExists
<1>1. TypeOK /\ BackupInv /\ Inv => EndpointExists
  BY DEF Inv, EndpointInv, EndpointExists
<1> QED
  BY <1>1, Invariance, PTL

-----------------------------------------------------------------------------
(* The commands keep the promise of StageDatabase.                          *)
PromiseStep == [Promise!Next]_(Promise!vars)

\* The steps that mean nothing for the promise: neither the tags nor the
\* endpoint change, and no cluster goes away.
LEMMA Stutter ==
  ASSUME UNCHANGED <<name, published>>,
         \A c \in Clusters : state'[c] = "gone" <=> state[c] = "gone"
  PROVE  PromiseStep
BY DEF PromiseStep, Promise!vars, Named

\* Every step keeps the promise or does not concern it.
LEMMA PromiseKept ==
  ASSUME OneCommand, TypeOK, TypeOK', BackupInv, Inv, [Next]_vars
  PROVE  PromiseStep
<1> USE ClustersAssumption DEF TypeOK
<1>1. ASSUME NEW p \in Commands, NEW c \in Clusters, CreateCluster(p, c) PROVE PromiseStep
  <2>1. Named = {} /\ state[c] # "gone"
    BY <1>1 DEF CreateCluster, Fresh, Named, Inv, DeployInv
  <2>2. Named' = {c} /\ published' = published
    BY <1>1, <2>1 DEF CreateCluster, Named
  <2>3. \A d \in Clusters : /\ state'[d] = "gone" <=> state[d] = "gone"
                            /\ name'[d] = "replaced" <=> d # c /\ name[d] = "replaced"
    BY <1>1 DEF CreateCluster, Fresh
  <2>4. Promise!Provide(c)
    BY <2>1, <2>2, <2>3 DEF Promise!Provide
  <2> QED
    BY <2>4 DEF PromiseStep, Promise!Next
<1>2. ASSUME NEW p \in Commands, NameNew(p) PROVE PromiseStep
  <2>1. CASE ~Exists(target[p])
    BY <1>2, <2>1, Stutter DEF NameNew
  <2>2. CASE Exists(target[p])
    <3>. PICK c \in Clusters : c = target[p]
      BY <1>2 DEF NameNew, Inv, TargetInv
    <3>1. state[c] # "gone" /\ Named \subseteq {c}
      BY <1>2, <2>2 DEF NameNew, Exists, Named, NameOnlyAt, Inv, SwitchInv
    <3>2. Named' = {c} /\ state' = state /\ published' = published
      BY <1>2, <2>2, <3>1 DEF NameNew, Named
    <3>3. \A d \in Clusters : name'[d] = "replaced" <=> d # c /\ name[d] = "replaced"
      BY <1>2, <2>2, <3>1 DEF NameNew
    <3>4. CASE Named = {}
      <4>1. Promise!Provide(c)
        BY <3>1, <3>2, <3>3, <3>4 DEF Promise!Provide
      <4> QED
        BY <4>1 DEF PromiseStep, Promise!Next
    <3>5. CASE Named = {c}
      <4>1. name[c] = "current"
        BY <3>5 DEF Named
      <4>2. {d \in Clusters : name[d] = "replaced"}' = {d \in Clusters : name[d] = "replaced"}
        BY <3>3, <4>1
      <4> QED
        BY <3>2, <3>5, <4>2 DEF PromiseStep, Promise!vars
    <3> QED
      BY <3>1, <3>4, <3>5
  <2> QED
    BY <2>1, <2>2
<1>3. ASSUME NEW p \in Commands, RenameOld(p) PROVE PromiseStep
  <2>1. CASE name' = name
    BY <1>3, <2>1, Stutter DEF RenameOld
  <2>2. CASE name' # name
    <3> DEFINE c == seen[p]
    <3>1. c \in Clusters /\ name' = [d \in Clusters |-> IF d = c THEN "replaced" ELSE name[d]]
          /\ state[c] # "gone"
      BY <1>3, <2>2 DEF RenameOld, Old, Exists
    <3>2. Named = {c}
      BY <1>3, <3>1 DEF RenameOld, Named, Inv, SwitchInv, OldKnown, NameOnlyAt
    <3>3. Named' = {} /\ UNCHANGED <<state, published>>
      BY <1>3, <3>1, <3>2 DEF RenameOld, Named
    <3>4. {d \in Clusters : name[d] = "replaced"}' = {d \in Clusters : name[d] = "replaced"} \cup
         Named
      BY <3>1, <3>2
    <3>5. Promise!SetAside
      BY <3>2, <3>3, <3>4 DEF Promise!SetAside
    <3> QED
      BY <3>5 DEF PromiseStep, Promise!Next
  <2> QED
    BY <2>1, <2>2
<1>4. ASSUME NEW c \in Clusters, FinishDelete(c) \/ DeleteByHand(c) PROVE PromiseStep
  <2>1. /\ state[c] # "gone" /\ published' = published
        /\ state' = [state EXCEPT ![c] = "gone"] /\ name' = [name EXCEPT ![c] = "none"]
    BY <1>4 DEF FinishDelete, DeleteByHand, Vanish
  <2>2. Named' = Named \ {c}
    BY <2>1 DEF Named
  <2>3. Promise!Delete(c)
    BY <2>1, <2>2 DEF Promise!Delete
  <2> QED
    BY <2>3 DEF PromiseStep, Promise!Next
<1>5. ASSUME NEW p \in Commands, PublishEndpoint(p) PROVE PromiseStep
  <2>1. UNCHANGED <<state, name>>
    BY <1>5 DEF PublishEndpoint
  <2>2. published' = published \/ published' \in Named
    BY <1>5 DEF PublishEndpoint, Seen, Found, Named, Inv, DeployInv
  <2>3. CASE published' = published
    BY <2>1, <2>3, Stutter
  <2>4. CASE published' \in Named
    <3>1. Promise!Publish
      BY <2>1, <2>4 DEF Promise!Publish, Named
    <3> QED
      BY <3>1 DEF PromiseStep, Promise!Next
  <2> QED
    BY <2>2, <2>3, <2>4
<1>6. ASSUME NEW p \in Commands, UnpublishEndpoint(p) PROVE PromiseStep
  <2>1. Named = {}
    BY <1>6 DEF UnpublishEndpoint, Named, Inv, DeployInv
  <2>2. Promise!Withdraw
    BY <1>6, <2>1 DEF UnpublishEndpoint, Promise!Withdraw, Named
  <2> QED
    BY <2>2 DEF PromiseStep, Promise!Next
<1>7. ASSUME NEW p \in Commands,
             \/ Deploy(p) \/ Restore(p) \/ CleanupPoints(p) \/ FindCluster(p) \/ AwaitActive(p)
             \/ UpdateFunctions(p) \/ CleanupLegacyPlans(p) \/ EnsurePlan(p)
             \/ EnsureSelection(p) \/ BackupFirst(p) \/ WaitRestore(p) \/ AwaitDeleted(p)
             \/ Refused(p) \/ CutOff(p)
             \/ \E c \in Clusters : StartRestore(p, c) \/ RestoreStatus(p, c)
      PROVE PromiseStep
  <2>1. UNCHANGED <<state, name, published>>
    BY <1>7 DEF Deploy, Restore, CleanupPoints, FindCluster, AwaitActive, UpdateFunctions,
         CleanupLegacyPlans, EnsurePlan, EnsureSelection, BackupFirst, WaitRestore, AwaitDeleted,
         Refused, CutOff, StartRestore, RestoreStatus, cloud
  <2> QED
    BY <2>1, Stutter
<1>8. ASSUME NEW p \in Commands, Destroy(p) PROVE PromiseStep
  BY <1>8, Stutter DEF Destroy, Named
<1>9. ASSUME NEW c \in Clusters, Activate(c) \/ ScheduledBackup(c) PROVE PromiseStep
  BY <1>9, Stutter DEF Activate, ScheduledBackup
<1>10. ASSUME NEW c \in Clusters, NEW how \in {"completed", "failed"}, RestoreEnds(c, how)
       PROVE PromiseStep
  BY <1>10, Stutter DEF RestoreEnds, Inv, JobInv
<1>11. CASE UNCHANGED vars
  BY <1>11, Stutter DEF vars, cloud
<1> QED
  BY Actions, <1>1, <1>2, <1>3, <1>4, <1>5, <1>6, <1>7, <1>8, <1>9, <1>10, <1>11

\* With one command at a time, whatever is restored, destroyed or cut off, a
\* stage has at most one database, loses it only to be set aside or deleted,
\* and publishes only its endpoint.
THEOREM Refinement ==
  ASSUME OneCommand
  PROVE  Spec => ImplementsPromise
<1>1. Init => Promise!Init
  <2> SUFFICES ASSUME Init PROVE Promise!Init
    OBVIOUS
  <2> QED
    BY DEF Init, Promise!Init, Named
<1>2. (TypeOK /\ BackupInv /\ Inv) /\ (TypeOK /\ BackupInv /\ Inv)' /\ [Next]_vars => PromiseStep
  BY PromiseKept, OneCommand
<1> QED
  BY <1>1, <1>2, Invariance, PTL DEF Spec, ImplementsPromise, Promise!Spec, PromiseStep
=============================================================================
