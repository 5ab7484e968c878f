--------------------------- MODULE RdsCluster_proofs ---------------------------
(***************************************************************************)
(* Proofs about RdsCluster, for every set of capacities: types, the        *)
(* inductive invariant Inv, and from it UsableAfterDeploy, CustodyKept and *)
(* DestroyComplete.  Nothing is assumed of the capacities.                 *)
(***************************************************************************)
EXTENDS RdsCluster, TLAPS

NoCurrent == \A s \in Stores : stored[s] # "current"
NoStale == \A s \in Stores : stored[s] # "stale"

\* Where create() is once it has asked for a cluster.
Building == {"instance", "waitCluster", "waitInstance", "setPassword",
             "passwordWait"}
DeploySteps == CreateSteps \cup UpdateSteps \cup {"render"}

\* A command is running exactly when it has a next step.
RunningInv == outcome = "running" <=> pc # "idle"

\* A copy is current only of a password that exists and that pocket chose.
CurrentInv ==
  /\ cluster = "none" => ~managed
  /\ managed \/ cluster = "none" => NoCurrent

\* No cluster goes away under a deploy, or after one that ended well.
ClusterInv ==
  /\ pc \in {"subnetGroup", "securityGroup", "cluster"} => cluster = "none"
  /\ pc \in DeploySteps \ {"subnetGroup", "securityGroup", "cluster"}
       => cluster \notin {"none", "deleting"}
  /\ outcome = "deployed" => cluster \notin {"none", "deleting"}

\* create(): no store can have the password before "store", the process has it.
CreateInv ==
  /\ pc \in Building =>
       /\ created /\ NoCurrent
       /\ pc = "passwordWait" \/ cfg.snapshot = "none" =>
            IF Static THEN ~managed /\ password = "current" ELSE managed
       /\ pc = "setPassword" \/ pc = "passwordWait" => cfg.snapshot # "none"
  /\ pc \in {"store", "staticWait"} =>
       Static /\ ~managed /\ password = "current"

\* update(): why the migration that was chosen is the right one.
UpdateInv ==
  /\ pc \in {"modifyWait", "migrate"} => ~PasswordStateMatches
  /\ pc \in {"modify", "modifyWait", "migrate"} => (clean => NoStale)
  /\ pc \in {"managedWait", "dropSm", "dropSsm"} => ~Static /\ managed
  /\ pc = "moveWrite" =>
       /\ Static /\ ~managed
       /\ stored[cfg.store] = "none"
       /\ stored[Other(cfg.store)] = password
       /\ clean => password = "current"
  /\ pc = "moveDelete" =>
       /\ Static /\ ~managed
       /\ stored[cfg.store] = stored[Other(cfg.store)]
       /\ clean => stored[cfg.store] = "current"

\* What the container is about to be pointed at.
RenderInv ==
  pc = "render" =>
    IF Static THEN ~managed /\ (clean => stored[cfg.store] = "current") ELSE managed

\* delete() only goes on once what it deleted is gone.
DeleteInv ==
  /\ pc \in {"deleteCluster", "clusterGone"} => instance = "none"
  /\ pc \in {"deleteSecurityGroup", "deleteSubnetGroup", "deleteCredentials"}
       => cluster = "none" /\ instance = "none"
  /\ pc \in {"deleteSubnetGroup", "deleteCredentials"} => ~sg
  /\ pc = "deleteCredentials" => ~subnetGroup

Inv == /\ RunningInv /\ CurrentInv /\ ClusterInv /\ CreateInv /\ UpdateInv
       /\ RenderInv /\ DeleteInv /\ UsableAfterDeploy

(* Types. *)
THEOREM Typing == Spec => []TypeOK
<1>1. Init => TypeOK
  BY DEF Init, TypeOK, FlagsOK, ValuesOK, Configs, Stores, Copies, Steps
<1>2. TypeOK /\ [Next]_vars => TypeOK'
  <2> SUFFICES ASSUME TypeOK, [Next]_vars PROVE TypeOK'
    OBVIOUS
  <2> USE DEF Configs, Stores, Copies, Steps, CreateSteps, UpdateSteps, DeleteSteps
  <2>1. CASE DeployStart
    <3>1. FlagsOK'
      BY <2>1 DEF TypeOK, FlagsOK, DeployStart, Status, NewLocals, PasswordStateMatches, Static, resources, locals
    <3>2. ValuesOK'
      BY <2>1 DEF TypeOK, ValuesOK, DeployStart, Status, NewLocals, PasswordStateMatches, Static, resources, locals
    <3> QED
      BY <3>1, <3>2 DEF TypeOK
  <2>2. CASE DestroyContainer
    <3>1. FlagsOK'
      BY <2>2 DEF TypeOK, FlagsOK, DestroyContainer, NewLocals, resources, locals
    <3>2. ValuesOK'
      BY <2>2 DEF TypeOK, ValuesOK, DestroyContainer, NewLocals, resources, locals
    <3> QED
      BY <3>1, <3>2 DEF TypeOK
  <2>3. CASE EnsureSubnetGroup
    <3>1. FlagsOK'
      BY <2>3 DEF TypeOK, FlagsOK, EnsureSubnetGroup, Goto, resources, locals
    <3>2. ValuesOK'
      BY <2>3 DEF TypeOK, ValuesOK, EnsureSubnetGroup, Goto, resources, locals
    <3> QED
      BY <3>1, <3>2 DEF TypeOK
  <2>4. CASE EnsureSecurityGroup
    <3>1. FlagsOK'
      BY <2>4 DEF TypeOK, FlagsOK, EnsureSecurityGroup, Goto, resources, locals
    <3>2. ValuesOK'
      BY <2>4 DEF TypeOK, ValuesOK, EnsureSecurityGroup, Goto, resources, locals
    <3> QED
      BY <3>1, <3>2 DEF TypeOK
  <2>5. CASE CreateOrRestoreCluster
    <3>1. FlagsOK'
      BY <2>5 DEF TypeOK, FlagsOK, CreateOrRestoreCluster, Goto, Static, NewLocals, resources, locals
    <3>2. ValuesOK'
      BY <2>5 DEF TypeOK, ValuesOK, CreateOrRestoreCluster, Goto, Static, NewLocals, resources, locals
    <3> QED
      BY <3>1, <3>2 DEF TypeOK
  <2>6. CASE EnsureInstance
    <3>1. FlagsOK'
      BY <2>6 DEF TypeOK, FlagsOK, EnsureInstance, Goto, resources, locals
    <3>2. ValuesOK'
      BY <2>6 DEF TypeOK, ValuesOK, EnsureInstance, Goto, resources, locals
    <3> QED
      BY <3>1, <3>2 DEF TypeOK
  <2>7. CASE WaitCluster
    <3>1. FlagsOK'
      BY <2>7 DEF TypeOK, FlagsOK, WaitCluster, Goto, resources, locals
    <3>2. ValuesOK'
      BY <2>7 DEF TypeOK, ValuesOK, WaitCluster, Goto, resources, locals
    <3> QED
      BY <3>1, <3>2 DEF TypeOK
  <2>8. CASE WaitInstance
    <3>1. FlagsOK'
      BY <2>8 DEF TypeOK, FlagsOK, WaitInstance, Goto, StoreOrRender, Static, resources, locals
    <3>2. ValuesOK'
      BY <2>8 DEF TypeOK, ValuesOK, WaitInstance, Goto, StoreOrRender, Static, resources, locals
    <3> QED
      BY <3>1, <3>2 DEF TypeOK
  <2>9. CASE SetRestoredPassword
    <3>1. FlagsOK'
      BY <2>9 DEF TypeOK, FlagsOK, SetRestoredPassword, Goto, Modifying, Aged, Static, resources, locals
    <3>2. ValuesOK'
      BY <2>9 DEF TypeOK, ValuesOK, SetRestoredPassword, Goto, Modifying, Aged, Static, resources, locals
    <3> QED
      BY <3>1, <3>2 DEF TypeOK
  <2>10. CASE PasswordWait
    <3>1. FlagsOK'
      BY <2>10 DEF TypeOK, FlagsOK, PasswordWait, Goto, StoreOrRender, Static, resources, locals
    <3>2. ValuesOK'
      BY <2>10 DEF TypeOK, ValuesOK, PasswordWait, Goto, StoreOrRender, Static, resources, locals
    <3> QED
      BY <3>1, <3>2 DEF TypeOK
  <2>11. CASE StoreCredential
    <3>1. FlagsOK'
      BY <2>11 DEF TypeOK, FlagsOK, StoreCredential, Goto, resources, locals
    <3>2. ValuesOK'
      BY <2>11 DEF TypeOK, ValuesOK, StoreCredential, Goto, resources, locals
    <3> QED
      BY <3>1, <3>2 DEF TypeOK
  <2>12. CASE ModifyConfiguration
    <3>1. FlagsOK'
      BY <2>12 DEF TypeOK, FlagsOK, ModifyConfiguration, Goto, Modifying, PasswordStateMatches, Static, resources, locals
    <3>2. ValuesOK'
      BY <2>12 DEF TypeOK, ValuesOK, ModifyConfiguration, Goto, Modifying, PasswordStateMatches, Static, resources, locals
    <3> QED
      BY <3>1, <3>2 DEF TypeOK
  <2>13. CASE ConfigurationMatches
    <3>1. FlagsOK'
      BY <2>13 DEF TypeOK, FlagsOK, ConfigurationMatches, Goto, PasswordStateMatches, Static, resources, locals
    <3>2. ValuesOK'
      BY <2>13 DEF TypeOK, ValuesOK, ConfigurationMatches, Goto, PasswordStateMatches, Static, resources, locals
    <3> QED
      BY <3>1, <3>2 DEF TypeOK
  <2>14. CASE ModifyWait
    <3>1. FlagsOK'
      BY <2>14 DEF TypeOK, FlagsOK, ModifyWait, Goto, resources, locals
    <3>2. ValuesOK'
      BY <2>14 DEF TypeOK, ValuesOK, ModifyWait, Goto, resources, locals
    <3> QED
      BY <3>1, <3>2 DEF TypeOK
  <2>15. CASE MigrateToManaged
    <3>1. FlagsOK'
      BY <2>15 DEF TypeOK, FlagsOK, MigrateToManaged, Goto, Modifying, Aged, Static, resources, locals
    <3>2. ValuesOK'
      BY <2>15 DEF TypeOK, ValuesOK, MigrateToManaged, Goto, Modifying, Aged, Static, resources, locals
    <3> QED
      BY <3>1, <3>2 DEF TypeOK
  <2>16. CASE ManagedWait
    <3>1. FlagsOK'
      BY <2>16 DEF TypeOK, FlagsOK, ManagedWait, Goto, resources, locals
    <3>2. ValuesOK'
      BY <2>16 DEF TypeOK, ValuesOK, ManagedWait, Goto, resources, locals
    <3> QED
      BY <3>1, <3>2 DEF TypeOK
  <2>17. CASE DropCredential
    <3>1. FlagsOK'
      BY <2>17 DEF TypeOK, FlagsOK, DropCredential, Goto, resources, locals
    <3>2. ValuesOK'
      BY <2>17 DEF TypeOK, ValuesOK, DropCredential, Goto, resources, locals
    <3> QED
      BY <3>1, <3>2 DEF TypeOK
  <2>18. CASE MigrateToStatic
    <3>1. FlagsOK'
      BY <2>18 DEF TypeOK, FlagsOK, MigrateToStatic, Goto, Modifying, Aged, Static, resources, locals
    <3>2. ValuesOK'
      BY <2>18 DEF TypeOK, ValuesOK, MigrateToStatic, Goto, Modifying, Aged, Static, resources, locals
    <3> QED
      BY <3>1, <3>2 DEF TypeOK
  <2>19. CASE ReadOtherStore
    <3>1. FlagsOK'
      BY <2>19 DEF TypeOK, FlagsOK, ReadOtherStore, Goto, Static, Other, resources, locals
    <3>2. ValuesOK'
      BY <2>19 DEF TypeOK, ValuesOK, ReadOtherStore, Goto, Static, Other, resources, locals
    <3> QED
      BY <3>1, <3>2 DEF TypeOK
  <2>20. CASE MoveWrite
    <3>1. FlagsOK'
      BY <2>20 DEF TypeOK, FlagsOK, MoveWrite, Goto, resources, locals
    <3>2. ValuesOK'
      BY <2>20 DEF TypeOK, ValuesOK, MoveWrite, Goto, resources, locals
    <3> QED
      BY <3>1, <3>2 DEF TypeOK
  <2>21. CASE MoveDelete
    <3>1. FlagsOK'
      BY <2>21 DEF TypeOK, FlagsOK, MoveDelete, Goto, Other, resources, locals
    <3>2. ValuesOK'
      BY <2>21 DEF TypeOK, ValuesOK, MoveDelete, Goto, Other, resources, locals
    <3> QED
      BY <3>1, <3>2 DEF TypeOK
  <2>22. CASE ResetPassword
    <3>1. FlagsOK'
      BY <2>22 DEF TypeOK, FlagsOK, ResetPassword, Goto, Modifying, Aged, Static, Other, resources, locals
    <3>2. ValuesOK'
      BY <2>22 DEF TypeOK, ValuesOK, ResetPassword, Goto, Modifying, Aged, Static, Other, resources, locals
    <3> QED
      BY <3>1, <3>2 DEF TypeOK
  <2>23. CASE StaticWait
    <3>1. FlagsOK'
      BY <2>23 DEF TypeOK, FlagsOK, StaticWait, Goto, resources, locals
    <3>2. ValuesOK'
      BY <2>23 DEF TypeOK, ValuesOK, StaticWait, Goto, resources, locals
    <3> QED
      BY <3>1, <3>2 DEF TypeOK
  <2>24. CASE DestroyRds
    <3>1. FlagsOK'
      BY <2>24 DEF TypeOK, FlagsOK, DestroyRds, Status, PasswordStateMatches, Static, resources, locals
    <3>2. ValuesOK'
      BY <2>24 DEF TypeOK, ValuesOK, DestroyRds, Status, PasswordStateMatches, Static, resources, locals
    <3> QED
      BY <3>1, <3>2 DEF TypeOK
  <2>25. CASE DeleteInstance
    <3>1. FlagsOK'
      BY <2>25 DEF TypeOK, FlagsOK, DeleteInstance, Goto, resources, locals
    <3>2. ValuesOK'
      BY <2>25 DEF TypeOK, ValuesOK, DeleteInstance, Goto, resources, locals
    <3> QED
      BY <3>1, <3>2 DEF TypeOK
  <2>26. CASE WaitInstanceDeleted
    <3>1. FlagsOK'
      BY <2>26 DEF TypeOK, FlagsOK, WaitInstanceDeleted, Goto, resources, locals
    <3>2. ValuesOK'
      BY <2>26 DEF TypeOK, ValuesOK, WaitInstanceDeleted, Goto, resources, locals
    <3> QED
      BY <3>1, <3>2 DEF TypeOK
  <2>27. CASE DeleteCluster
    <3>1. FlagsOK'
      BY <2>27 DEF TypeOK, FlagsOK, DeleteCluster, Goto, resources, locals
    <3>2. ValuesOK'
      BY <2>27 DEF TypeOK, ValuesOK, DeleteCluster, Goto, resources, locals
    <3> QED
      BY <3>1, <3>2 DEF TypeOK
  <2>28. CASE WaitClusterDeleted
    <3>1. FlagsOK'
      BY <2>28 DEF TypeOK, FlagsOK, WaitClusterDeleted, Goto, resources, locals
    <3>2. ValuesOK'
      BY <2>28 DEF TypeOK, ValuesOK, WaitClusterDeleted, Goto, resources, locals
    <3> QED
      BY <3>1, <3>2 DEF TypeOK
  <2>29. CASE DeleteSecurityGroup
    <3>1. FlagsOK'
      BY <2>29 DEF TypeOK, FlagsOK, DeleteSecurityGroup, Goto, resources, locals
    <3>2. ValuesOK'
      BY <2>29 DEF TypeOK, ValuesOK, DeleteSecurityGroup, Goto, resources, locals
    <3> QED
      BY <3>1, <3>2 DEF TypeOK
  <2>30. CASE DeleteSubnetGroup
    <3>1. FlagsOK'
      BY <2>30 DEF TypeOK, FlagsOK, DeleteSubnetGroup, Goto, resources, locals
    <3>2. ValuesOK'
      BY <2>30 DEF TypeOK, ValuesOK, DeleteSubnetGroup, Goto, resources, locals
    <3> QED
      BY <3>1, <3>2 DEF TypeOK
  <2>31. CASE DeleteCredentials
    <3>1. FlagsOK'
      BY <2>31 DEF TypeOK, FlagsOK, DeleteCredentials, Static, resources, locals
    <3>2. ValuesOK'
      BY <2>31 DEF TypeOK, ValuesOK, DeleteCredentials, Static, resources, locals
    <3> QED
      BY <3>1, <3>2 DEF TypeOK
  <2>32. CASE Render
    <3>1. FlagsOK'
      BY <2>32 DEF TypeOK, FlagsOK, Render, Resolved, Static, resources, locals
    <3>2. ValuesOK'
      BY <2>32 DEF TypeOK, ValuesOK, Render, Resolved, Static, resources, locals
    <3> QED
      BY <3>1, <3>2 DEF TypeOK
  <2>33. CASE Refused
    <3>1. FlagsOK'
      BY <2>33 DEF TypeOK, FlagsOK, Refused, Fail, Static, NewLocals, Other, resources, locals
    <3>2. ValuesOK'
      BY <2>33 DEF TypeOK, ValuesOK, Refused, Fail, Static, NewLocals, Other, resources, locals
    <3> QED
      BY <3>1, <3>2 DEF TypeOK
  <2>34. CASE ClusterReady
    <3>1. FlagsOK'
      BY <2>34 DEF TypeOK, FlagsOK, ClusterReady, resources, locals
    <3>2. ValuesOK'
      BY <2>34 DEF TypeOK, ValuesOK, ClusterReady, resources, locals
    <3> QED
      BY <3>1, <3>2 DEF TypeOK
  <2>35. CASE ClusterDeleted
    <3>1. FlagsOK'
      BY <2>35 DEF TypeOK, FlagsOK, ClusterDeleted, Aged, resources, locals
    <3>2. ValuesOK'
      BY <2>35 DEF TypeOK, ValuesOK, ClusterDeleted, Aged, resources, locals
    <3> QED
      BY <3>1, <3>2 DEF TypeOK
  <2>36. CASE InstanceReady
    <3>1. FlagsOK'
      BY <2>36 DEF TypeOK, FlagsOK, InstanceReady, resources, locals
    <3>2. ValuesOK'
      BY <2>36 DEF TypeOK, ValuesOK, InstanceReady, resources, locals
    <3> QED
      BY <3>1, <3>2 DEF TypeOK
  <2>37. CASE InstanceDeleted
    <3>1. FlagsOK'
      BY <2>37 DEF TypeOK, FlagsOK, InstanceDeleted, resources, locals
    <3>2. ValuesOK'
      BY <2>37 DEF TypeOK, ValuesOK, InstanceDeleted, resources, locals
    <3> QED
      BY <3>1, <3>2 DEF TypeOK
  <2>38. CASE Maintenance
    <3>1. FlagsOK'
      BY <2>38 DEF TypeOK, FlagsOK, Maintenance, resources, locals
    <3>2. ValuesOK'
      BY <2>38 DEF TypeOK, ValuesOK, Maintenance, resources, locals
    <3> QED
      BY <3>1, <3>2 DEF TypeOK
  <2>39. CASE Settle
    <3>1. FlagsOK'
      BY <2>39 DEF TypeOK, FlagsOK, Settle, resources, locals
    <3>2. ValuesOK'
      BY <2>39 DEF TypeOK, ValuesOK, Settle, resources, locals
    <3> QED
      BY <3>1, <3>2 DEF TypeOK
  <2>40. CASE EditConfig
    <3>1. FlagsOK'
      BY <2>40 DEF TypeOK, FlagsOK, EditConfig, resources, locals
    <3>2. ValuesOK'
      BY <2>40 DEF TypeOK, ValuesOK, EditConfig, resources, locals
    <3> QED
      BY <3>1, <3>2 DEF TypeOK
  <2>41. CASE Abort
    <3>1. FlagsOK'
      BY <2>41 DEF TypeOK, FlagsOK, Abort, Fail, NewLocals, resources, locals
    <3>2. ValuesOK'
      BY <2>41 DEF TypeOK, ValuesOK, Abort, Fail, NewLocals, resources, locals
    <3> QED
      BY <3>1, <3>2 DEF TypeOK
  <2>42. CASE UNCHANGED vars
    BY <2>42 DEF TypeOK, FlagsOK, ValuesOK, vars, resources, locals
  <2> QED
    BY <2>1, <2>2, <2>3, <2>4, <2>5, <2>6, <2>7, <2>8, <2>9, <2>10, <2>11, <2>12, <2>13, <2>14, <2>15, <2>16, <2>17, <2>18, <2>19, <2>20, <2>21, <2>22, <2>23, <2>24, <2>25, <2>26, <2>27, <2>28, <2>29, <2>30, <2>31, <2>32, <2>33, <2>34, <2>35, <2>36, <2>37, <2>38, <2>39, <2>40, <2>41, <2>42
       DEF Next, Command, Create, Update, Delete, Environment, AwsCluster, AwsInstance
<1> QED
  BY <1>1, <1>2, PTL DEF Spec

(* The inductive step, one action at a time. *)
THEOREM Invariance == Spec => []Inv
<1>1. Init => Inv
  BY DEF Init, Inv, RunningInv, CurrentInv, ClusterInv, CreateInv, UpdateInv,
     RenderInv, DeleteInv, UsableAfterDeploy, NoCurrent, Building, DeploySteps,
     CreateSteps, UpdateSteps
<1>2. TypeOK /\ Inv /\ [Next]_vars => Inv'
  <2> SUFFICES ASSUME TypeOK, Inv, [Next]_vars PROVE Inv'
    OBVIOUS
  <2> USE DEF TypeOK, FlagsOK, ValuesOK, Configs, Stores, Copies, Building,
              DeploySteps, CreateSteps, UpdateSteps, Inv, RunningInv, CurrentInv,
              ClusterInv, CreateInv, UpdateInv, RenderInv, DeleteInv,
              UsableAfterDeploy, LambdaCanConnect, NoCurrent, NoStale, Static,
              PasswordStateMatches, Other
  <2>1. CASE DeployStart
    BY <2>1 DEF DeployStart, Status, NewLocals, resources, locals
  <2>2. CASE DestroyContainer
    BY <2>2 DEF DestroyContainer, NewLocals, resources, locals
  <2>3. CASE EnsureSubnetGroup
    BY <2>3 DEF EnsureSubnetGroup, Goto, resources, locals
  <2>4. CASE EnsureSecurityGroup
    BY <2>4 DEF EnsureSecurityGroup, Goto, resources, locals
  <2>5. CASE CreateOrRestoreCluster
    BY <2>5 DEF CreateOrRestoreCluster, Goto, NewLocals, resources, locals
  <2>6. CASE EnsureInstance
    BY <2>6 DEF EnsureInstance, Goto, resources, locals
  <2>7. CASE WaitCluster
    BY <2>7 DEF WaitCluster, Goto, resources, locals
  <2>8. CASE WaitInstance
    BY <2>8 DEF WaitInstance, Goto, StoreOrRender, resources, locals
  <2>9. CASE SetRestoredPassword
    BY <2>9 DEF SetRestoredPassword, Goto, Modifying, Aged, resources, locals
  <2>10. CASE PasswordWait
    BY <2>10 DEF PasswordWait, Goto, StoreOrRender, resources, locals
  <2>11. CASE StoreCredential
    BY <2>11 DEF StoreCredential, Goto, resources, locals
  <2>12. CASE ModifyConfiguration
    BY <2>12 DEF ModifyConfiguration, Goto, Modifying, resources, locals
  <2>13. CASE ConfigurationMatches
    BY <2>13 DEF ConfigurationMatches, Goto, resources, locals
  <2>14. CASE ModifyWait
    BY <2>14 DEF ModifyWait, Goto, resources, locals
  <2>15. CASE MigrateToManaged
    BY <2>15 DEF MigrateToManaged, Goto, Modifying, Aged, resources, locals
  <2>16. CASE ManagedWait
    BY <2>16 DEF ManagedWait, Goto, resources, locals
  <2>17. CASE DropCredential
    BY <2>17 DEF DropCredential, Goto, resources, locals
  <2>18. CASE MigrateToStatic
    BY <2>18 DEF MigrateToStatic, Goto, Modifying, Aged, resources, locals
  <2>19. CASE ReadOtherStore
    BY <2>19 DEF ReadOtherStore, Goto, resources, locals
  <2>20. CASE MoveWrite
    BY <2>20 DEF MoveWrite, Goto, resources, locals
  <2>21. CASE MoveDelete
    BY <2>21 DEF MoveDelete, Goto, resources, locals
  <2>22. CASE ResetPassword
    BY <2>22 DEF ResetPassword, Goto, Modifying, Aged, resources, locals
  <2>23. CASE StaticWait
    BY <2>23 DEF StaticWait, Goto, resources, locals
  <2>24. CASE DestroyRds
    BY <2>24 DEF DestroyRds, Status, resources, locals
  <2>25. CASE DeleteInstance
    BY <2>25 DEF DeleteInstance, Goto, resources, locals
  <2>26. CASE WaitInstanceDeleted
    BY <2>26 DEF WaitInstanceDeleted, Goto, resources, locals
  <2>27. CASE DeleteCluster
    BY <2>27 DEF DeleteCluster, Goto, resources, locals
  <2>28. CASE WaitClusterDeleted
    BY <2>28 DEF WaitClusterDeleted, Goto, resources, locals
  <2>29. CASE DeleteSecurityGroup
    BY <2>29 DEF DeleteSecurityGroup, Goto, resources, locals
  <2>30. CASE DeleteSubnetGroup
    BY <2>30 DEF DeleteSubnetGroup, Goto, resources, locals
  <2>31. CASE DeleteCredentials
    BY <2>31 DEF DeleteCredentials, resources, locals
  <2>32. CASE Render
    BY <2>32 DEF Render, Resolved, resources, locals
  <2>33. CASE Refused
    BY <2>33 DEF Refused, Fail, NewLocals, resources, locals
  <2>34. CASE ClusterReady
    BY <2>34 DEF ClusterReady, resources, locals
  <2>35. CASE ClusterDeleted
    BY <2>35 DEF ClusterDeleted, Aged, resources, locals
  <2>36. CASE InstanceReady
    BY <2>36 DEF InstanceReady, resources, locals
  <2>37. CASE InstanceDeleted
    BY <2>37 DEF InstanceDeleted, resources, locals
  <2>38. CASE Maintenance
    BY <2>38 DEF Maintenance, resources, locals
  <2>39. CASE Settle
    BY <2>39 DEF Settle, resources, locals
  <2>40. CASE EditConfig
    BY <2>40 DEF EditConfig, resources, locals
  <2>41. CASE Abort
    BY <2>41 DEF Abort, Fail, NewLocals, resources, locals
  <2>42. CASE UNCHANGED vars
    BY <2>42 DEF vars, resources, locals
  <2> QED
    BY <2>1, <2>2, <2>3, <2>4, <2>5, <2>6, <2>7, <2>8, <2>9, <2>10, <2>11, <2>12, <2>13, <2>14, <2>15, <2>16, <2>17, <2>18, <2>19, <2>20, <2>21, <2>22, <2>23, <2>24, <2>25, <2>26, <2>27, <2>28, <2>29, <2>30, <2>31, <2>32, <2>33, <2>34, <2>35, <2>36, <2>37, <2>38, <2>39, <2>40, <2>41, <2>42
       DEF Next, Command, Create, Update, Delete, Environment, AwsCluster, AwsInstance
<1> QED
  BY Typing, <1>1, <1>2, PTL DEF Spec

(* A deploy that starts when no store holds a stale credential and ends well *)
(* leaves the Lambda with the cluster's password (Rds, ContainerStack).      *)
THEOREM DeployLeavesUsable == Spec => []UsableAfterDeploy
<1>1. Inv => UsableAfterDeploy
  BY DEF Inv
<1> QED
  BY Invariance, <1>1, PTL

(* While a static cluster lives, pocket never loses the last copy of its      *)
(* password, whatever is moved, reset, migrated or interrupted.  Only the     *)
(* steps that write a store need an argument.                                 *)
THEOREM CustodyIsKept == Spec => CustodyKept
<1>1. TypeOK /\ Inv /\ [Next]_vars => [CustodyStep]_vars
  <2> SUFFICES ASSUME TypeOK, Inv, Next PROVE CustodyStep
    BY DEF CustodyStep, vars
  <2> USE DEF TypeOK, FlagsOK, ValuesOK, Configs, Stores, Copies, Inv, CurrentInv,
              NoCurrent, CustodyStep
  <2>1. CASE SetRestoredPassword
    BY <2>1 DEF SetRestoredPassword, CreateInv, Building
  <2>2. CASE StoreCredential
    BY <2>2 DEF StoreCredential, CreateInv
  <2>3. CASE MigrateToManaged
    BY <2>3 DEF MigrateToManaged
  <2>4. CASE DropCredential
    BY <2>4 DEF DropCredential, UpdateInv, resources
  <2>5. CASE MigrateToStatic
    BY <2>5 DEF MigrateToStatic
  <2>6. CASE MoveWrite
    BY <2>6 DEF MoveWrite, UpdateInv, Other
  <2>7. CASE MoveDelete
    BY <2>7 DEF MoveDelete, UpdateInv, Other
  <2>8. CASE ResetPassword
    \* The wanted store has no credential (or there was nothing to migrate),
    \* and neither has the other one.
    <3>1. NoCurrent
      BY <2>8 DEF ResetPassword, UpdateInv, PasswordStateMatches, Static, Other
    <3> QED
      BY <3>1
  <2>9. CASE DeleteCredentials
    BY <2>9 DEF DeleteCredentials, DeleteInv, resources
  <2>10. CASE ClusterDeleted
    BY <2>10 DEF ClusterDeleted
  <2>11. CASE UNCHANGED stored
    BY <2>11
  <2> QED
    <3>1. \/ UNCHANGED stored
          \/ SetRestoredPassword \/ StoreCredential \/ MigrateToManaged
          \/ DropCredential \/ MigrateToStatic \/ MoveWrite \/ MoveDelete
          \/ ResetPassword \/ DeleteCredentials \/ ClusterDeleted
      BY DEF Next, Command, Create, Update, Delete, Environment, AwsCluster,
             AwsInstance, DeployStart, DestroyContainer, EnsureSubnetGroup,
             EnsureSecurityGroup, CreateOrRestoreCluster, EnsureInstance,
             WaitCluster, WaitInstance, PasswordWait, ModifyConfiguration,
             ConfigurationMatches, ModifyWait, ManagedWait, ReadOtherStore,
             StaticWait, DestroyRds, DeleteInstance, WaitInstanceDeleted,
             DeleteCluster, WaitClusterDeleted, DeleteSecurityGroup,
             DeleteSubnetGroup, Render, Refused, Fail, Abort, ClusterReady,
             InstanceReady, InstanceDeleted, Maintenance, Settle, EditConfig
    <3> QED
      BY <3>1, <2>1, <2>2, <2>3, <2>4, <2>5, <2>6, <2>7, <2>8, <2>9, <2>10, <2>11
<1> QED
  BY Typing, Invariance, <1>1, PTL DEF Spec, CustodyKept

(* An uninterrupted destroy of an existing cluster leaves none of its parts.  *)
THEOREM DestroyIsComplete == Spec => DestroyComplete
<1> DEFINE Step == outcome # "destroyed" /\ outcome' = "destroyed" =>
                     /\ cluster' = "none" /\ instance' = "none"
                     /\ ~sg' /\ ~subnetGroup'
                     /\ Static => stored'[cfg.store] = "none"
<1>1. TypeOK /\ Inv /\ [Next]_vars => [Step]_vars
  <2> SUFFICES ASSUME TypeOK, Inv, Next, outcome # "destroyed",
                      outcome' = "destroyed"
               PROVE  Step
    BY DEF vars
  <2>1. DeleteCredentials
    BY DEF Next, Command, Create, Update, Delete, Environment, AwsCluster,
           AwsInstance, DeployStart, DestroyContainer, EnsureSubnetGroup,
           EnsureSecurityGroup, CreateOrRestoreCluster, EnsureInstance,
           WaitCluster, WaitInstance, SetRestoredPassword, PasswordWait,
           StoreCredential, ModifyConfiguration, ConfigurationMatches,
           ModifyWait, MigrateToManaged, ManagedWait, DropCredential,
           MigrateToStatic, ReadOtherStore, MoveWrite, MoveDelete,
           ResetPassword, StaticWait, DestroyRds, DeleteInstance,
           WaitInstanceDeleted, DeleteCluster, WaitClusterDeleted,
           DeleteSecurityGroup, DeleteSubnetGroup, Render, Refused, Fail,
           Abort, ClusterReady, ClusterDeleted, InstanceReady,
           InstanceDeleted, Maintenance, Settle, EditConfig, Goto
  <2> QED
    BY <2>1 DEF DeleteCredentials, Inv, DeleteInv, TypeOK, ValuesOK, Configs,
                Stores, resources, Static
<1> QED
  BY Typing, Invariance, <1>1, PTL DEF Spec, DestroyComplete
===============================================================================
