----------------------- MODULE DeployPipeline_proofs -----------------------
(***************************************************************************)
(* Proofs about DeployPipeline, for any releases, any functions and any    *)
(* bounds: types; that a deploy that ends well leaves every function with  *)
(* the DEPLOY_HASH of the release, whatever fails or finishes between two  *)
(* of its steps; and that it has brought out the whole release if nothing  *)
(* was under way when it began.                                            *)
(***************************************************************************)
EXTENDS DeployPipeline, TLAPS

Unborn == {"NOT_CREATED", "CREATE_IN_PROGRESS", "ROLLBACK_IN_PROGRESS",
           "ROLLBACK_COMPLETE"}

\* The functions come with the first creation of the stack.
UnbornInv ==
  Detail("container") \in Unborn => \A h \in Handlers : fn[h].status = "NOEXIST"

\* While CloudFormation works on the stack nothing else works on the functions.
AloneInv ==
  Detail("container") \in Working =>
    \A h \in Handlers : fn[h].status \in {"NOEXIST", "COMPLETED"}

\* Which resource a step is about.
CourseInv ==
  /\ pc \in {"wait_vpc", "create_stack", "code", "stack", "sync"} =>
       cur = "container" /\ command = "deploy"
  /\ pc \in {"policy", "kvs", "hook"} => cur = "cloudfront"
  /\ pc = "wait" => cur # "vpc"
  /\ pc = "idle" => cur = "vpc" /\ ~hooking
  /\ command = "update" /\ pc # "idle" => cur = "cloudfront" /\ ~hooking
  /\ hooking => pc \in {"sync", "hook", "policy", "kvs"}
  /\ pc # "idle" => outcome = "none"
  /\ pc = "init" => command = "deploy" /\ cur = "vpc"

\* The run updates the code only of a stack at rest, and the stack only when
\* the functions are done.
RestInv ==
  /\ pc \in {"code", "stack"} \/ (pc = "update" /\ cur = "container") =>
       Detail("container") \in AtRest
  /\ pc = "stack" =>
       \A h \in Handlers : fn[h].status \notin {"PROGRESS", "FAILED"}

\* Once the run is past the container, CloudFormation is done with it.
PastInv ==
  command = "deploy" /\ (pc = "sync" \/ cur = "cloudfront" \/ outcome = "ok") =>
    Detail("container") \notin Working

Env(h) == fn[h].status # "NOEXIST" => fn[h].env = release.hash

\* What the hook of the container has seen to stays so.
SyncInv ==
  /\ hooking /\ pc = "sync" => \A h \in Handlers \ todo : Env(h)
  /\ hooking /\ cur = "cloudfront" => \A h \in Handlers : Env(h)
  /\ Ok => \A h \in Handlers : Env(h)

Inv == UnbornInv /\ AloneInv /\ CourseInv /\ RestInv /\ PastInv /\ SyncInv

-----------------------------------------------------------------------------
\* What a step does to the stacks.

LEMMA TemplatesAreTyped ==
  ASSUME RunOK, NEW s \in Stacks
  PROVE  Template(s) \in Templates
BY ReleasesAssumption DEF RunOK, Template, TemplateOf, Templates

LEMMA NoTemplateIsOne == NoTemplate \in Templates
BY DEF NoTemplate, Templates

LEMMA AskedOf ==
  ASSUME StacksOK, RunOK, NEW s \in Stacks, NEW detail \in Details,
         SetToWork(s, detail)
  PROVE  /\ StacksOK'
         /\ \A t \in Stacks : stack'[t].detail =
              IF t = s THEN detail ELSE stack[t].detail
<1>1. Template(s) \in Templates
  BY TemplatesAreTyped
<1>2. stack' = [stack EXCEPT ![s] = [@ EXCEPT !.detail = detail,
                                            !.next = Template(s)]]
  BY DEF SetToWork, StacksOK, StackType
<1>3. [stack[s] EXCEPT !.detail = detail, !.next = Template(s)] \in StackType
  BY <1>1 DEF StacksOK, StackType
<1> QED
  BY <1>2, <1>3 DEF StacksOK, StackType

LEMMA SettledAs ==
  ASSUME StacksOK, NEW s \in Stacks, NEW detail \in Details,
         NEW template \in Templates, Settle(s, detail, template)
  PROVE  /\ StacksOK'
         /\ \A t \in Stacks : stack'[t].detail =
              IF t = s THEN detail ELSE stack[t].detail
<1>1. [detail |-> detail, template |-> template, next |-> NoTemplate]
        \in StackType
  BY NoTemplateIsOne DEF StackType
<1> QED
  BY <1>1 DEF Settle, StacksOK, StackType

LEMMA StackParts ==
  ASSUME StacksOK, NEW s \in Stacks
  PROVE  /\ stack[s].template \in Templates /\ stack[s].next \in Templates
         /\ stack[s].template.hash \in Hashes \cup {None}
         /\ stack[s].next.hash \in Hashes \cup {None}
<1>1. stack[s] \in StackType
  BY DEF StacksOK
<1>2. stack[s].template \in Templates /\ stack[s].next \in Templates
  BY <1>1 DEF StackType
<1> QED
  BY <1>2 DEF Templates

\* What a status of the container tells of its stack.
LEMMA ContainerTells ==
  ASSUME StacksOK, AloneInv
  PROVE  /\ Status("container") = "REQUIRE_UPDATE" =>
              Detail("container") \in AtRest
         /\ Detail("container") \in Working =>
              Status("container") = "PROGRESS"
<1>1. Detail("container") \in Details
  BY DEF StacksOK, StackType, Detail, Stacks
<1>2. Status("container") = ContainerStatus
  BY DEF Status
<1>3. CASE Detail("container") \in Working
  <2>1. StackStatus("container") = "PROGRESS"
    BY <1>3 DEF StackStatus, CfnStatus, Working, Broken
  <2>2. \A h \in Handlers : fn[h].status # "FAILED"
    BY <1>3 DEF AloneInv
  <2> QED
    BY <1>2, <1>3, <2>1, <2>2 DEF ContainerStatus
<1>4. CASE Detail("container") \notin Working /\ Detail("container") \notin AtRest
  <2>1. StackStatus("container") \in {"NOEXIST", "FAILED"}
    BY <1>1, <1>4 DEF StackStatus, CfnStatus, Details
  <2> QED
    BY <1>2, <1>4, <2>1 DEF ContainerStatus
<1> QED
  BY <1>3, <1>4
-----------------------------------------------------------------------------

\* Types (pocket deploy and CloudFormation, as a whole).
THEOREM Typing == Spec => []TypeOK
<1> USE ReleasesAssumption, NoneAssumption, BoundsAssumption
<1>1. Init => TypeOK
  <2> SUFFICES ASSUME Init PROVE TypeOK
    OBVIOUS
  <2>1. StacksOK
    <3>1. [detail |-> "NOT_CREATED", template |-> NoTemplate,
           next |-> NoTemplate] \in StackType
      BY NoTemplateIsOne DEF StackType, Details
    <3> QED
      BY <3>1 DEF Init, StacksOK
  <2>2. FunctionsOK
    BY DEF Init, FunctionsOK, FunctionType, FunctionStatuses, NoFunction
  <2>3. FlagsOK
    BY DEF Init, FlagsOK
  <2>4. RunOK
    BY DEF Init, RunOK, Steps, Stacks, Details
  <2>5. BoundsOK
    BY DEF Init, BoundsOK
  <2> QED
    BY <2>1, <2>2, <2>3, <2>4, <2>5 DEF TypeOK
<1>2. TypeOK /\ [Next]_vars => TypeOK'
  <2> SUFFICES ASSUME TypeOK, [Next]_vars PROVE TypeOK'
    OBVIOUS
  <2> USE DEF cloud, place, order, run, bounds
  <2>0. StacksOK /\ FunctionsOK /\ FlagsOK /\ RunOK /\ BoundsOK
    BY DEF TypeOK
  <2>1. ASSUME Start PROVE TypeOK'
    <3>1. StacksOK'
      BY <2>0, <2>1 DEF Start, Begin, StacksOK
    <3>2. FunctionsOK'
      BY <2>0, <2>1 DEF Start, Begin, FunctionsOK
    <3>3. FlagsOK'
      BY <2>0, <2>1 DEF Start, Begin, FlagsOK
    <3>4. RunOK'
      BY <2>0, <2>1 DEF Start, Begin, RunOK, Steps, Questions, Stacks,
         Details, Working
    <3>5. BoundsOK'
      BY <2>0, <2>1 DEF Start, Begin, BoundsOK
    <3> QED
      BY <3>1, <3>2, <3>3, <3>4, <3>5 DEF TypeOK
  <2>2. ASSUME DeployInit PROVE TypeOK'
    <3>1. StacksOK' /\ BoundsOK'
      BY <2>0, <2>2 DEF DeployInit, StacksOK, BoundsOK
    <3>2. FunctionsOK'
      BY <2>0, <2>2 DEF DeployInit, Go, FunctionsOK, FunctionType,
         FunctionStatuses, StacksOK, StackType, Templates, RunOK
    <3>3. FlagsOK'
      BY <2>0, <2>2 DEF DeployInit, Go, FlagsOK
    <3>4. RunOK'
      BY <2>0, <2>2 DEF DeployInit, Go, RunOK, Steps, Questions, Stacks,
         Details, Working
    <3> QED
      BY <3>1, <3>2, <3>3, <3>4 DEF TypeOK
  <2>3. ASSUME Ask PROVE TypeOK'
    <3>1. StacksOK' /\ FunctionsOK' /\ BoundsOK'
      BY <2>0, <2>3 DEF Ask, StacksOK, FunctionsOK, BoundsOK
    <3>2. FlagsOK'
      BY <2>0, <2>3 DEF Ask, Go, End, Raise, Proceed, Questions, NextQuestion,
         Following, FlagsOK
    <3>3. RunOK'
      BY <2>0, <2>3 DEF Ask, Go, End, Raise, Proceed, Questions, NextQuestion,
         Following, RunOK, Steps, Stacks, Details, Working
    <3> QED
      BY <3>1, <3>2, <3>3 DEF TypeOK
  <2>4. ASSUME AskBeforeUpdate PROVE TypeOK'
    <3>1. StacksOK' /\ FunctionsOK' /\ BoundsOK'
      BY <2>0, <2>4 DEF AskBeforeUpdate, StacksOK, FunctionsOK, BoundsOK
    <3>2. FlagsOK'
      BY <2>0, <2>4 DEF AskBeforeUpdate, Go, End, Questions, FlagsOK
    <3>3. RunOK'
      BY <2>0, <2>4 DEF AskBeforeUpdate, Go, End, Questions, RunOK, Steps,
         Stacks, Details, Working
    <3> QED
      BY <3>1, <3>2, <3>3 DEF TypeOK
  <2>5. ASSUME CreateVpc PROVE TypeOK'
    <3>1. FunctionsOK' /\ BoundsOK'
      BY <2>0, <2>5 DEF CreateVpc, FunctionsOK, BoundsOK
    <3>2. StacksOK'
      BY <2>0, <2>5, AskedOf DEF CreateVpc, Stacks, Details, Working, StacksOK
    <3>3. FlagsOK'
      BY <2>0, <2>5 DEF CreateVpc, SetToWork, Proceed, End, Following, FlagsOK
    <3>4. RunOK'
      BY <2>0, <2>5 DEF CreateVpc, SetToWork, Proceed, End, Following, RunOK,
         Steps, Questions, Stacks, Details, Working
    <3> QED
      BY <3>1, <3>2, <3>3, <3>4 DEF TypeOK
  <2>6. ASSUME UpdateVpc PROVE TypeOK'
    <3>1. FunctionsOK' /\ BoundsOK'
      BY <2>0, <2>6 DEF UpdateVpc, FunctionsOK, BoundsOK
    <3>2. StacksOK'
      BY <2>0, <2>6, AskedOf DEF UpdateVpc, Stacks, Details, Working, StacksOK
    <3>3. FlagsOK'
      BY <2>0, <2>6 DEF UpdateVpc, SetToWork, Proceed, End, Following, FlagsOK
    <3>4. RunOK'
      BY <2>0, <2>6 DEF UpdateVpc, SetToWork, Proceed, End, Following, RunOK,
         Steps, Questions, Stacks, Details, Working
    <3> QED
      BY <3>1, <3>2, <3>3, <3>4 DEF TypeOK
  <2>7. ASSUME WaitForVpc PROVE TypeOK'
    <3>1. StacksOK' /\ FunctionsOK' /\ FlagsOK' /\ BoundsOK'
      BY <2>0, <2>7 DEF WaitForVpc, StacksOK, FunctionsOK, FlagsOK, BoundsOK
    <3>2. RunOK'
      BY <2>0, <2>7 DEF WaitForVpc, RunOK, Steps, Questions, Stacks, Details,
         Working, Broken, AtRest, Detail, StacksOK, StackType, Following,
         NextQuestion
    <3> QED
      BY <3>1, <3>2 DEF TypeOK
  <2>8. ASSUME Poll PROVE TypeOK'
    <3>1. StacksOK' /\ FunctionsOK' /\ BoundsOK'
      BY <2>0, <2>8 DEF Poll, StacksOK, FunctionsOK, BoundsOK
    <3>2. FlagsOK'
      BY <2>0, <2>8 DEF Poll, Go, End, Raise, Proceed, AfterWait, Waited,
         RolledBack, Following, CfnStatus, FlagsOK
    <3>3. RunOK'
      <4>1. CASE Raise
        BY <2>0, <2>8, <4>1 DEF Poll, Raise, End, RunOK, Steps, Stacks,
           Details
      <4>2. CASE AfterWait
        <5>1. CASE pc = "wait_vpc"
          BY <2>0, <2>8, <4>2, <5>1
          DEF Poll, AfterWait, Go, RunOK, Steps
        <5>2. CASE pc = "wait" /\ cur # "container"
          BY <2>0, <2>8, <4>2, <5>2
          DEF Poll, AfterWait, Go, RunOK, Steps
        <5>3. CASE pc = "wait" /\ cur = "container" /\ baseline =
           "CREATE_IN_PROGRESS"
          BY <2>0, <2>8, <4>2, <5>3
          DEF Poll, AfterWait, Proceed, End, Following, RunOK, Steps,
             Questions,
              Stacks, Details
        <5>4. CASE pc = "wait" /\ cur = "container" /\ baseline #
           "CREATE_IN_PROGRESS"
          BY <2>0, <2>8, <4>2, <5>4
          DEF Poll, AfterWait, RunOK, Steps, Details
        <5> QED
          BY <2>8, <5>1, <5>2, <5>3, <5>4 DEF Poll
      <4> QED
        BY <2>8, <4>1, <4>2 DEF Poll
    <3> QED
      BY <3>1, <3>2, <3>3 DEF TypeOK
  <2>9. ASSUME CreateContainer PROVE TypeOK'
    <3>1. FunctionsOK' /\ BoundsOK'
      BY <2>0, <2>9 DEF CreateContainer, FunctionsOK, BoundsOK
    <3>2. StacksOK'
      BY <2>0, <2>9, AskedOf DEF CreateContainer, Stacks, Details, Working,
         StacksOK
    <3>3. FlagsOK'
      BY <2>0, <2>9 DEF CreateContainer, SetToWork, AwaitOperation, CanCreate,
         FlagsOK
    <3>4. RunOK'
      BY <2>0, <2>9 DEF CreateContainer, SetToWork, AwaitOperation, CanCreate,
         RunOK, Steps, Questions, Stacks, Details, Working
    <3> QED
      BY <3>1, <3>2, <3>3, <3>4 DEF TypeOK
  <2>10. ASSUME UpdateContainer PROVE TypeOK'
    <3>1. StacksOK' /\ FunctionsOK' /\ FlagsOK' /\ RunOK' /\ BoundsOK'
      BY <2>0, <2>10 DEF UpdateContainer, StacksOK, FunctionsOK, FlagsOK,
         RunOK, Steps, Questions, Stacks, Details, Working, BoundsOK
    <3> QED
      BY <3>1 DEF TypeOK
  <2>11. ASSUME WaitUpdates PROVE TypeOK'
    <3>1. StacksOK' /\ FunctionsOK' /\ BoundsOK'
      BY <2>0, <2>11 DEF WaitUpdates, StacksOK, FunctionsOK, BoundsOK
    <3>2. FlagsOK'
      BY <2>0, <2>11 DEF WaitUpdates, Go, Raise, End, FlagsOK
    <3>3. RunOK'
      BY <2>0, <2>11 DEF WaitUpdates, Go, Raise, End, RunOK, Steps, Questions,
         Stacks, Details, Working
    <3> QED
      BY <3>1, <3>2, <3>3 DEF TypeOK
  <2>12. ASSUME UpdateContainerStack PROVE TypeOK'
    <3>1. FunctionsOK' /\ BoundsOK'
      BY <2>0, <2>12 DEF UpdateContainerStack, FunctionsOK, BoundsOK
    <3>2. StacksOK'
      BY <2>0, <2>12, AskedOf DEF UpdateContainerStack, Stacks, Details,
         Working, StacksOK
    <3>3. FlagsOK'
      BY <2>0, <2>12 DEF UpdateContainerStack, SetToWork, AwaitOperation,
         CanUpdate, FlagsOK
    <3>4. RunOK'
      BY <2>0, <2>12 DEF UpdateContainerStack, SetToWork, AwaitOperation,
         CanUpdate, RunOK, Steps, Questions, Stacks, Details, Working
    <3> QED
      BY <3>1, <3>2, <3>3, <3>4 DEF TypeOK
  <2>13. ASSUME Synced PROVE TypeOK'
    <3>1. StacksOK' /\ FunctionsOK' /\ BoundsOK'
      BY <2>0, <2>13 DEF Synced, StacksOK, FunctionsOK, BoundsOK
    <3>2. FlagsOK'
      BY <2>0, <2>13 DEF Synced, Go, End, Raise, Proceed, Following, FlagsOK
    <3>3. RunOK'
      BY <2>0, <2>13 DEF Synced, Go, End, Raise, Proceed, Following, RunOK,
         Steps, Questions, Stacks, Details, Working
    <3> QED
      BY <3>1, <3>2, <3>3 DEF TypeOK
  <2>14. ASSUME UpdateCloudFront PROVE TypeOK'
    <3>1. FunctionsOK' /\ BoundsOK'
      BY <2>0, <2>14 DEF UpdateCloudFront, FunctionsOK, BoundsOK
    <3>2. StacksOK'
      BY <2>0, <2>14, AskedOf DEF UpdateCloudFront, Stacks, Details, Working,
         StacksOK
    <3>3. FlagsOK'
      BY <2>0, <2>14 DEF UpdateCloudFront, SetToWork, AwaitOperation, Raise,
         End, CanUpdate, FlagsOK
    <3>4. RunOK'
      BY <2>0, <2>14 DEF UpdateCloudFront, SetToWork, AwaitOperation, Raise,
         End, CanUpdate, RunOK, Steps, Questions, Stacks, Details, Working,
         Broken, AtRest, Detail, StacksOK, StackType, Following, NextQuestion
    <3> QED
      BY <3>1, <3>2, <3>3, <3>4 DEF TypeOK
  <2>15. ASSUME Hook PROVE TypeOK'
    <3>1. StacksOK' /\ FunctionsOK' /\ BoundsOK'
      BY <2>0, <2>15 DEF Hook, StacksOK, FunctionsOK, BoundsOK
    <3>2. FlagsOK'
      BY <2>0, <2>15 DEF Hook, Go, End, Raise, Proceed, Following, FlagsOK
    <3>3. RunOK'
      BY <2>0, <2>15 DEF Hook, Go, End, Raise, Proceed, Following, RunOK,
         Steps, Questions, Stacks, Details, Working
    <3> QED
      BY <3>1, <3>2, <3>3 DEF TypeOK
  <2>16. ASSUME EnsureBucketPolicy PROVE TypeOK'
    <3>1. StacksOK' /\ FunctionsOK' /\ BoundsOK'
      BY <2>0, <2>16 DEF EnsureBucketPolicy, StacksOK, FunctionsOK, BoundsOK
    <3>2. FlagsOK'
      BY <2>0, <2>16 DEF EnsureBucketPolicy, Go, FlagsOK
    <3>3. RunOK'
      BY <2>0, <2>16 DEF EnsureBucketPolicy, Go, RunOK, Steps, Questions,
         Stacks, Details, Working
    <3> QED
      BY <3>1, <3>2, <3>3 DEF TypeOK
  <2>17. ASSUME WriteTokenToKvs PROVE TypeOK'
    <3>1. StacksOK' /\ FunctionsOK' /\ BoundsOK'
      BY <2>0, <2>17 DEF WriteTokenToKvs, StacksOK, FunctionsOK, BoundsOK
    <3>2. FlagsOK'
      BY <2>0, <2>17 DEF WriteTokenToKvs, Go, End, Raise, Proceed, Following,
         FlagsOK
    <3>3. RunOK'
      BY <2>0, <2>17 DEF WriteTokenToKvs, Go, End, Raise, Proceed, Following,
         RunOK, Steps, Questions, Stacks, Details, Working
    <3> QED
      BY <3>1, <3>2, <3>3 DEF TypeOK
  <2>18. ASSUME NEW h \in Handlers, UpdateCode(h) PROVE TypeOK'
    <3>1. StacksOK' /\ BoundsOK'
      BY <2>0, <2>18 DEF UpdateCode, StacksOK, BoundsOK
    <3>2. FunctionsOK'
      <4>1. [fn[h] EXCEPT !.status = "PROGRESS", !.next = image] \in
         FunctionType
        BY <2>0 DEF FunctionsOK, FunctionType, FunctionStatuses
      <4>2. [fn EXCEPT ![h].status = "PROGRESS", ![h].next = image]
              \in [Handlers -> FunctionType]
        BY <2>0, <4>1 DEF FunctionsOK, FunctionType
      <4> QED
        BY <2>0, <2>18, <4>2 DEF UpdateCode, FunctionsOK
    <3>3. FlagsOK'
      BY <2>0, <2>18 DEF UpdateCode, Raise, End, FlagsOK
    <3>4. RunOK'
      BY <2>0, <2>18 DEF UpdateCode, Raise, End, RunOK, Steps, Questions,
         Stacks, Details, Working
    <3> QED
      BY <3>1, <3>2, <3>3, <3>4 DEF TypeOK
  <2>19. ASSUME NEW h \in Handlers, SyncEnv(h) PROVE TypeOK'
    <3>1. StacksOK' /\ BoundsOK'
      BY <2>0, <2>19 DEF SyncEnv, StacksOK, BoundsOK
    <3>2. FunctionsOK'
      <4>1. release.hash \in Hashes
        BY <2>0 DEF RunOK
      <4>2. [fn[h] EXCEPT !.env = release.hash, !.status = "COMPLETED"]
              \in FunctionType
        BY <2>0, <4>1 DEF FunctionsOK, FunctionType, FunctionStatuses
      <4>3. [fn EXCEPT ![h].env = release.hash, ![h].status = "COMPLETED"]
              \in [Handlers -> FunctionType]
        BY <2>0, <4>2 DEF FunctionsOK, FunctionType
      <4> QED
        BY <2>0, <2>19, <4>3 DEF SyncEnv, FunctionsOK
    <3>3. FlagsOK'
      BY <2>0, <2>19 DEF SyncEnv, Raise, End, FlagsOK
    <3>4. RunOK'
      BY <2>0, <2>19 DEF SyncEnv, Raise, End, RunOK, Steps, Questions, Stacks,
         Details, Working
    <3> QED
      BY <3>1, <3>2, <3>3, <3>4 DEF TypeOK
  <2>20. ASSUME StartUpdate PROVE TypeOK'
    <3>1. StacksOK'
      BY <2>0, <2>20 DEF StartUpdate, Begin, StacksOK
    <3>2. FunctionsOK'
      BY <2>0, <2>20 DEF StartUpdate, Begin, FunctionsOK
    <3>3. FlagsOK'
      BY <2>0, <2>20 DEF StartUpdate, Begin, FlagsOK
    <3>4. RunOK'
      BY <2>0, <2>20 DEF StartUpdate, Begin, RunOK, Steps, Questions, Stacks,
         Details, Working
    <3>5. BoundsOK'
      BY <2>0, <2>20 DEF StartUpdate, Begin, BoundsOK
    <3> QED
      BY <3>1, <3>2, <3>3, <3>4, <3>5 DEF TypeOK
  <2>21. ASSUME Interrupt PROVE TypeOK'
    <3>1. StacksOK' /\ FunctionsOK' /\ BoundsOK'
      BY <2>0, <2>21 DEF Interrupt, StacksOK, FunctionsOK, BoundsOK
    <3>2. FlagsOK'
      BY <2>0, <2>21 DEF Interrupt, Raise, End, FlagsOK
    <3>3. RunOK'
      BY <2>0, <2>21 DEF Interrupt, Raise, End, RunOK, Steps, Questions,
         Stacks, Details, Working
    <3> QED
      BY <3>1, <3>2, <3>3 DEF TypeOK
  <2>22. ASSUME NEW r \in Releases, Change(r) PROVE TypeOK'
    <3>1. StacksOK' /\ FunctionsOK' /\ FlagsOK' /\ RunOK' /\ BoundsOK'
      BY <2>0, <2>22 DEF Change, StacksOK, FunctionsOK, FlagsOK, RunOK, Steps,
         Questions, Stacks, Details, Working, BoundsOK
    <3> QED
      BY <3>1 DEF TypeOK
  <2>23. ASSUME NEW s \in Stacks, Complete(s) PROVE TypeOK'
    <3>1. FlagsOK' /\ RunOK' /\ BoundsOK'
      BY <2>0, <2>23 DEF Complete, FlagsOK, RunOK, Steps, Questions, Stacks,
         Details, Working, BoundsOK
    <3>2. StacksOK'
      BY <2>0, <2>23, SettledAs, StackParts, NoTemplateIsOne
      DEF Complete, Details, Working, Broken, AtRest
    <3>3. FunctionsOK'
      <4>1. ASSUME NEW g \in Handlers
            PROVE  /\ [status |-> "COMPLETED", code |-> image,
                       env |-> stack[s].next.hash, next |-> None] \in
                          FunctionType
                   /\ [fn[g] EXCEPT !.env = stack[s].next.hash] \in
                      FunctionType
        BY <2>0, StackParts DEF FunctionsOK, FunctionType, FunctionStatuses
      <4>2. fn' \in [Handlers -> FunctionType]
        BY <2>0, <2>23, <4>1 DEF Complete, FunctionsOK
      <4> QED
        BY <2>0, <2>23, <4>2 DEF Complete, FunctionsOK
    <3> QED
      BY <3>1, <3>2, <3>3 DEF TypeOK
  <2>24. ASSUME NEW s \in Stacks, FinishRollback(s) PROVE TypeOK'
    <3>1. FlagsOK' /\ RunOK' /\ BoundsOK'
      BY <2>0, <2>24 DEF FinishRollback, FlagsOK, RunOK, Steps, Questions,
         Stacks, Details, Working, BoundsOK
    <3>2. StacksOK'
      BY <2>0, <2>24, SettledAs, StackParts, NoTemplateIsOne
      DEF FinishRollback, Details, Working, Broken, AtRest
    <3>3. FunctionsOK'
      <4>1. ASSUME NEW g \in Handlers
            PROVE  [fn[g] EXCEPT !.env = stack[s].template.hash] \in
               FunctionType
        BY <2>0, StackParts DEF FunctionsOK, FunctionType
      <4>2. fn' \in [Handlers -> FunctionType]
        BY <2>0, <2>24, <4>1 DEF FinishRollback, Restored, FunctionsOK
      <4> QED
        BY <2>0, <2>24, <4>2 DEF FinishRollback, FunctionsOK
    <3> QED
      BY <3>1, <3>2, <3>3 DEF TypeOK
  <2>25. ASSUME NEW s \in Stacks, Rollback(s) PROVE TypeOK'
    <3>1. FunctionsOK' /\ FlagsOK' /\ RunOK' /\ BoundsOK'
      BY <2>0, <2>25 DEF Rollback, FunctionsOK, FlagsOK, RunOK, Steps,
         Questions, Stacks, Details, Working, BoundsOK
    <3>2. StacksOK'
      BY <2>0, <2>25, SettledAs, StackParts, NoTemplateIsOne
      DEF Rollback, Details, Working, Broken, AtRest
    <3> QED
      BY <3>1, <3>2 DEF TypeOK
  <2>26. ASSUME NEW s \in Stacks, RollbackFails(s) PROVE TypeOK'
    <3>1. FunctionsOK' /\ FlagsOK' /\ RunOK' /\ BoundsOK'
      BY <2>0, <2>26 DEF RollbackFails, FunctionsOK, FlagsOK, RunOK, Steps,
         Questions, Stacks, Details, Working, BoundsOK
    <3>2. StacksOK'
      BY <2>0, <2>26, SettledAs, StackParts, NoTemplateIsOne
      DEF RollbackFails, Details, Working, Broken, AtRest
    <3> QED
      BY <3>1, <3>2 DEF TypeOK
  <2>27. ASSUME NEW s \in Stacks, RepairStack(s) PROVE TypeOK'
    <3>1. FlagsOK' /\ RunOK' /\ BoundsOK'
      BY <2>0, <2>27 DEF RepairStack, FlagsOK, RunOK, Steps, Questions,
         Stacks, Details, Working, BoundsOK
    <3>2. StacksOK'
      BY <2>0, <2>27, SettledAs, StackParts, NoTemplateIsOne
      DEF RepairStack, Details, Working, Broken, AtRest
    <3>3. FunctionsOK'
      <4>1. ASSUME NEW g \in Handlers
            PROVE  [fn[g] EXCEPT !.env = stack[s].template.hash] \in
               FunctionType
        BY <2>0, StackParts DEF FunctionsOK, FunctionType
      <4>2. fn' \in [Handlers -> FunctionType]
        BY <2>0, <2>27, <4>1 DEF RepairStack, Restored, FunctionsOK
      <4> QED
        BY <2>0, <2>27, <4>2 DEF RepairStack, FunctionsOK
    <3> QED
      BY <3>1, <3>2, <3>3 DEF TypeOK
  <2>28. ASSUME NEW h \in Handlers, FunctionUpdated(h) PROVE TypeOK'
    <3>1. StacksOK' /\ FlagsOK' /\ RunOK' /\ BoundsOK'
      BY <2>0, <2>28 DEF FunctionUpdated, StacksOK, FlagsOK, RunOK, Steps,
         Questions, Stacks, Details, Working, BoundsOK
    <3>2. FunctionsOK'
      <4>1. [fn[h] EXCEPT !.status = "COMPLETED", !.code = fn[h].next,
                          !.next = None] \in FunctionType
        BY <2>0 DEF FunctionsOK, FunctionType, FunctionStatuses
      <4>2. fn' \in [Handlers -> FunctionType]
        BY <2>0, <2>28, <4>1 DEF FunctionUpdated, FunctionsOK, FunctionType
      <4> QED
        BY <2>0, <2>28, <4>2 DEF FunctionUpdated, FunctionsOK
    <3> QED
      BY <3>1, <3>2 DEF TypeOK
  <2>29. ASSUME NEW h \in Handlers, FunctionUpdateFails(h) PROVE TypeOK'
    <3>1. StacksOK' /\ FlagsOK' /\ RunOK' /\ BoundsOK'
      BY <2>0, <2>29 DEF FunctionUpdateFails, StacksOK, FlagsOK, RunOK, Steps,
         Questions, Stacks, Details, Working, BoundsOK
    <3>2. FunctionsOK'
      <4>1. [fn[h] EXCEPT !.status = "FAILED", !.next = None] \in FunctionType
        BY <2>0 DEF FunctionsOK, FunctionType, FunctionStatuses
      <4>2. fn' \in [Handlers -> FunctionType]
        BY <2>0, <2>29, <4>1 DEF FunctionUpdateFails, FunctionsOK, FunctionType
      <4> QED
        BY <2>0, <2>29, <4>2 DEF FunctionUpdateFails, FunctionsOK
    <3> QED
      BY <3>1, <3>2 DEF TypeOK
  <2>30. ASSUME NEW h \in Handlers, RepairFunction(h) PROVE TypeOK'
    <3>1. StacksOK' /\ FlagsOK' /\ RunOK' /\ BoundsOK'
      BY <2>0, <2>30 DEF RepairFunction, StacksOK, FlagsOK, RunOK, Steps,
         Questions, Stacks, Details, Working, BoundsOK
    <3>2. FunctionsOK'
      BY <2>0, <2>30 DEF RepairFunction, FunctionsOK, FunctionType,
         FunctionStatuses, StacksOK, StackType, Templates, RunOK
    <3> QED
      BY <3>1, <3>2 DEF TypeOK
  <2>31. CASE UNCHANGED vars
    <3>1. StacksOK' /\ FunctionsOK' /\ FlagsOK' /\ RunOK' /\ BoundsOK'
      BY <2>0, <2>31 DEF vars, StacksOK, FunctionsOK, FlagsOK, RunOK, Steps,
         Questions, Stacks, Details, Working, BoundsOK
    <3> QED
      BY <3>1 DEF TypeOK
  <2> QED
    BY <2>1, <2>2, <2>3, <2>4, <2>5, <2>6, <2>7, <2>8, <2>9, <2>10, <2>11,
       <2>12, <2>13, <2>14, <2>15, <2>16, <2>17, <2>18, <2>19, <2>20, <2>21,
       <2>22, <2>23, <2>24, <2>25, <2>26, <2>27, <2>28, <2>29, <2>30, <2>31
       DEF Next, Command, Finishes
<1> QED
  BY <1>1, <1>2, PTL DEF Spec

\* The inductive invariant: where the run is, what CloudFormation may do
\* meanwhile, and which functions have their DEPLOY_HASH.
THEOREM Invariance == Spec => []Inv
<1> USE NoneAssumption, BoundsAssumption
<1>1. Init => Inv
  BY DEF Init, Inv, UnbornInv, AloneInv, CourseInv, RestInv, PastInv, SyncInv,
         Ok, Env, NoFunction, Detail, Working, Stacks, Questions
<1>2. TypeOK /\ Inv /\ [Next]_vars => Inv'
  <2> SUFFICES ASSUME TypeOK, Inv, [Next]_vars PROVE Inv'
    OBVIOUS
  <2> USE DEF cloud, place, order, run, bounds
  <2>0. /\ StacksOK /\ FunctionsOK /\ RunOK
        /\ UnbornInv /\ AloneInv /\ CourseInv /\ RestInv /\ PastInv /\ SyncInv
    BY DEF TypeOK, Inv
  <2>1. ASSUME Start PROVE Inv'
    <3>1. RestInv'
      BY <2>0, <2>1 DEF Start, RestInv, Detail
    <3>2. UnbornInv'
      BY <2>0, <2>1 DEF Start, Begin, UnbornInv, Detail
    <3>3. AloneInv'
      BY <2>0, <2>1 DEF Start, Begin, AloneInv, Detail
    <3>4. CourseInv'
      BY <2>0, <2>1 DEF Start, Begin, CourseInv, RunOK, Steps, Questions
    <3>5. PastInv'
      BY <2>0, <2>1 DEF Start, Begin, PastInv, RestInv, AloneInv, CourseInv,
         RunOK, Detail, Working, Broken, AtRest, Unborn, Status,
         ContainerStatus, StackStatus, CfnStatus, StacksOK, StackType,
         FunctionsOK, FunctionType
    <3>6. SyncInv'
      BY <2>0, <2>1 DEF Start, Begin, SyncInv, Ok, Env, CourseInv
    <3> QED
      BY <3>1, <3>2, <3>3, <3>4, <3>5, <3>6 DEF Inv
  <2>2. ASSUME DeployInit PROVE Inv'
    <3>1. UnbornInv' /\ AloneInv'
      BY <2>0, <2>2 DEF DeployInit, UnbornInv, Detail, AloneInv
    <3>2. CourseInv'
      BY <2>0, <2>2 DEF DeployInit, Go, CourseInv, RunOK, Steps, Questions
    <3>3. RestInv'
      BY <2>0, <2>2 DEF DeployInit, Go, RestInv, Detail
    <3>4. PastInv'
      BY <2>0, <2>2 DEF DeployInit, Go, PastInv, Detail
    <3>5. SyncInv'
      BY <2>0, <2>2 DEF DeployInit, Go, SyncInv, Ok, Env, CourseInv
    <3> QED
      BY <3>1, <3>2, <3>3, <3>4, <3>5 DEF Inv
  <2>3. ASSUME Ask PROVE Inv'
    <3>1. UnbornInv' /\ AloneInv'
      BY <2>0, <2>3 DEF Ask, UnbornInv, Detail, AloneInv
    <3>0. /\ Status("container") = "REQUIRE_UPDATE" =>
               Detail("container") \in AtRest
          /\ Detail("container") \in Working =>
               Status("container") = "PROGRESS"
      BY <2>0, ContainerTells
    <3>2. CourseInv'
      BY <2>0, <2>3 DEF Ask, Go, End, Raise, Proceed, Questions, NextQuestion,
         Following, CourseInv, RunOK, Steps
    <3>3. RestInv'
      BY <2>0, <2>3, <3>0 DEF Ask, Go, End, Raise, Proceed, Questions,
         NextQuestion, Following, RestInv, CourseInv, RunOK, Detail, Working,
         Broken, AtRest, Unborn, FunctionsOK, FunctionType
    <3>4. PastInv'
      <4>1. ~hooking /\ command = "deploy" /\ outcome = "none" /\ stack' =
         stack
        BY <2>0, <2>3 DEF Ask, Questions, CourseInv
      <4>2. CASE Raise
        BY <2>0, <4>1, <4>2 DEF Raise, End, PastInv, Detail
      <4>3. CASE \/ Go("create") \/ Go("update")
                 \/ pc # "PROGRESS" /\ Go(NextQuestion[pc])
        BY <2>0, <2>3, <4>1, <4>3
        DEF Ask, Go, PastInv, Detail, NextQuestion, Questions
      <4>4. CASE pc = "PROGRESS" /\ Status(cur) # pc /\ Proceed
        <5>1. CASE cur = "vpc"
          BY <2>0, <2>3, <4>1, <4>4, <5>1 DEF Ask, Proceed, Following,
             PastInv, Detail
        <5>2. CASE cur = "container"
          BY <3>0, <4>1, <4>4, <5>2 DEF PastInv, Detail
        <5>3. CASE cur = "cloudfront"
          BY <2>0, <4>1, <4>4, <5>3 DEF PastInv, Detail
        <5> QED
          BY <2>0, <5>1, <5>2, <5>3 DEF RunOK, Stacks
      <4> QED
        BY <2>3, <4>2, <4>3, <4>4 DEF Ask
    <3>5. SyncInv'
      BY <2>0, <2>3 DEF Ask, Go, End, Raise, Proceed, Questions, NextQuestion,
         Following, SyncInv, Ok, Env, CourseInv
    <3> QED
      BY <3>1, <3>2, <3>3, <3>4, <3>5 DEF Inv
  <2>4. ASSUME AskBeforeUpdate PROVE Inv'
    <3>1. UnbornInv' /\ AloneInv' /\ PastInv'
      BY <2>0, <2>4 DEF AskBeforeUpdate, UnbornInv, Detail, AloneInv, PastInv
    <3>2. CourseInv'
      BY <2>0, <2>4 DEF AskBeforeUpdate, Go, End, Questions, CourseInv, RunOK,
         Steps
    <3>3. RestInv'
      BY <2>0, <2>4 DEF AskBeforeUpdate, Go, End, Questions, RestInv,
         CourseInv, RunOK, Detail, Working, Broken, AtRest, Unborn, Status,
         ContainerStatus, StackStatus, CfnStatus, StacksOK, StackType,
         FunctionsOK, FunctionType
    <3>4. SyncInv'
      BY <2>0, <2>4 DEF AskBeforeUpdate, Go, End, Questions, SyncInv, Ok, Env,
         CourseInv
    <3> QED
      BY <3>1, <3>2, <3>3, <3>4 DEF Inv
  <2>5. ASSUME CreateVpc PROVE Inv'
    <3>0. StacksOK' /\ stack'["container"].detail = stack["container"].detail
      BY <2>0, <2>5, AskedOf DEF CreateVpc, Stacks, Details, Working, Broken,
         AtRest
    <3>1. UnbornInv'
      BY <2>0, <2>5, <3>0 DEF CreateVpc, Proceed, End, Following, UnbornInv,
         Detail, Working, Broken, AtRest, Unborn, FunctionsOK, FunctionType,
         CfnStatus, RestInv
    <3>2. AloneInv'
      BY <2>0, <2>5, <3>0 DEF CreateVpc, Proceed, End, Following, AloneInv,
         UnbornInv, RestInv, CourseInv, Detail, Working, Broken, AtRest,
         Unborn, FunctionsOK, FunctionType, FunctionStatuses
    <3>3. CourseInv'
      BY <2>0, <2>5 DEF CreateVpc, SetToWork, Proceed, End, Following,
         CourseInv, RunOK, Steps, Questions
    <3>4. RestInv'
      BY <2>0, <2>5 DEF CreateVpc, SetToWork, Proceed, End, Following,
         RestInv, Detail
    <3>5. PastInv'
      BY <2>0, <2>5, <3>0 DEF CreateVpc, Proceed, End, Following, PastInv,
         RestInv, AloneInv, CourseInv, RunOK, Detail, Working, Broken, AtRest,
         Unborn, Status, ContainerStatus, StackStatus, CfnStatus, FunctionsOK,
         FunctionType
    <3>6. SyncInv'
      BY <2>0, <2>5 DEF CreateVpc, SetToWork, Proceed, End, Following,
         SyncInv, Ok, Env, CourseInv
    <3> QED
      BY <3>1, <3>2, <3>3, <3>4, <3>5, <3>6 DEF Inv
  <2>6. ASSUME UpdateVpc PROVE Inv'
    <3>0. StacksOK' /\ stack'["container"].detail = stack["container"].detail
      BY <2>0, <2>6, AskedOf DEF UpdateVpc, Stacks, Details, Working, Broken,
         AtRest
    <3>1. UnbornInv'
      BY <2>0, <2>6, <3>0 DEF UpdateVpc, Proceed, End, Following, UnbornInv,
         Detail, Working, Broken, AtRest, Unborn, FunctionsOK, FunctionType,
         CfnStatus, RestInv
    <3>2. AloneInv'
      BY <2>0, <2>6, <3>0 DEF UpdateVpc, Proceed, End, Following, AloneInv,
         UnbornInv, RestInv, CourseInv, Detail, Working, Broken, AtRest,
         Unborn, FunctionsOK, FunctionType, FunctionStatuses
    <3>3. CourseInv'
      BY <2>0, <2>6 DEF UpdateVpc, SetToWork, Proceed, End, Following,
         CourseInv, RunOK, Steps, Questions
    <3>4. RestInv'
      BY <2>0, <2>6 DEF UpdateVpc, SetToWork, Proceed, End, Following,
         RestInv, Detail
    <3>5. PastInv'
      BY <2>0, <2>6, <3>0 DEF UpdateVpc, Proceed, End, Following, PastInv,
         RestInv, AloneInv, CourseInv, RunOK, Detail, Working, Broken, AtRest,
         Unborn, Status, ContainerStatus, StackStatus, CfnStatus, FunctionsOK,
         FunctionType
    <3>6. SyncInv'
      BY <2>0, <2>6 DEF UpdateVpc, SetToWork, Proceed, End, Following,
         SyncInv, Ok, Env, CourseInv
    <3> QED
      BY <3>1, <3>2, <3>3, <3>4, <3>5, <3>6 DEF Inv
  <2>7. ASSUME WaitForVpc PROVE Inv'
    <3>1. UnbornInv' /\ AloneInv' /\ CourseInv' /\ RestInv' /\ PastInv' /\ SyncInv'
      BY <2>0, <2>7 DEF WaitForVpc, UnbornInv, Detail, AloneInv, CourseInv,
         RunOK, Steps, Questions, RestInv, PastInv, SyncInv, Ok, Env
    <3> QED
      BY <3>1 DEF Inv
  <2>8. ASSUME Poll PROVE Inv'
    <3>1. UnbornInv' /\ AloneInv'
      BY <2>0, <2>8 DEF Poll, UnbornInv, Detail, AloneInv
    <3>2. CourseInv'
      BY <2>0, <2>8 DEF Poll, Go, End, Raise, Proceed, AfterWait, Waited,
         RolledBack, CfnStatus, CourseInv, RunOK, Steps, Stacks, Following
    <3>3. RestInv'
      BY <2>0, <2>8 DEF Poll, Go, End, Raise, Proceed, AfterWait, Waited,
         RolledBack, Following, CfnStatus, RestInv, Detail
    <3>4. PastInv'
      BY <2>0, <2>8 DEF Poll, Go, End, Raise, Proceed, AfterWait, Waited,
         RolledBack, Following, CfnStatus, PastInv, Detail
    <3>5. SyncInv'
      BY <2>0, <2>8 DEF Poll, Go, End, Raise, Proceed, AfterWait, Waited,
         RolledBack, Following, CfnStatus, SyncInv, Ok, Env, CourseInv
    <3> QED
      BY <3>1, <3>2, <3>3, <3>4, <3>5 DEF Inv
  <2>9. ASSUME CreateContainer PROVE Inv'
    <3>0. StacksOK' /\ stack'["container"].detail = "CREATE_IN_PROGRESS"
      BY <2>0, <2>9, AskedOf DEF CreateContainer, Stacks, Details, Working,
         Broken, AtRest
    <3>1. UnbornInv'
      BY <2>0, <2>9, <3>0 DEF CreateContainer, AwaitOperation, CanCreate,
         UnbornInv, Detail, Working, Broken, AtRest, Unborn, FunctionsOK,
         FunctionType, CfnStatus, RestInv
    <3>2. AloneInv'
      BY <2>0, <2>9, <3>0 DEF CreateContainer, AwaitOperation, CanCreate,
         AloneInv, UnbornInv, RestInv, CourseInv, Detail, Working, Broken,
         AtRest, Unborn, FunctionsOK, FunctionType, FunctionStatuses
    <3>3. CourseInv'
      BY <2>0, <2>9 DEF CreateContainer, SetToWork, AwaitOperation, CanCreate,
         CourseInv, RunOK, Steps, Questions
    <3>4. RestInv'
      BY <2>0, <2>9 DEF CreateContainer, SetToWork, AwaitOperation, CanCreate,
         RestInv, Detail
    <3>5. PastInv'
      BY <2>0, <2>9, <3>0 DEF CreateContainer, AwaitOperation, CanCreate,
         PastInv, RestInv, AloneInv, CourseInv, RunOK, Detail, Working,
         Broken, AtRest, Unborn, Status, ContainerStatus, StackStatus,
         CfnStatus, FunctionsOK, FunctionType
    <3>6. SyncInv'
      BY <2>0, <2>9 DEF CreateContainer, SetToWork, AwaitOperation, CanCreate,
         SyncInv, Ok, Env, CourseInv
    <3> QED
      BY <3>1, <3>2, <3>3, <3>4, <3>5, <3>6 DEF Inv
  <2>10. ASSUME UpdateContainer PROVE Inv'
    <3>1. UnbornInv' /\ AloneInv' /\ CourseInv' /\ RestInv' /\ PastInv' /\ SyncInv'
      BY <2>0, <2>10 DEF UpdateContainer, UnbornInv, Detail, AloneInv,
         CourseInv, RunOK, Steps, Questions, RestInv, PastInv, SyncInv, Ok,
         Env
    <3> QED
      BY <3>1 DEF Inv
  <2>11. ASSUME WaitUpdates PROVE Inv'
    <3>1. UnbornInv' /\ AloneInv'
      BY <2>0, <2>11 DEF WaitUpdates, UnbornInv, Detail, AloneInv
    <3>2. CourseInv'
      BY <2>0, <2>11 DEF WaitUpdates, Go, Raise, End, CourseInv, RunOK, Steps,
         Questions
    <3>3. RestInv'
      BY <2>0, <2>11 DEF WaitUpdates, Go, Raise, End, RestInv, Detail
    <3>4. PastInv'
      BY <2>0, <2>11 DEF WaitUpdates, Go, Raise, End, PastInv, Detail
    <3>5. SyncInv'
      BY <2>0, <2>11 DEF WaitUpdates, Go, Raise, End, SyncInv, Ok, Env,
         CourseInv
    <3> QED
      BY <3>1, <3>2, <3>3, <3>4, <3>5 DEF Inv
  <2>12. ASSUME UpdateContainerStack PROVE Inv'
    <3>0. /\ StacksOK'
          /\ \/ stack'["container"].detail = stack["container"].detail
             \/ /\ pc' = "wait"
                /\ stack'["container"].detail = "UPDATE_IN_PROGRESS"
      BY <2>0, <2>12, AskedOf DEF UpdateContainerStack, AwaitOperation,
         Stacks,
         Details, Working, StacksOK
    <3>1. UnbornInv'
      BY <2>0, <2>12, <3>0 DEF UpdateContainerStack, AwaitOperation,
         CanUpdate, UnbornInv, Detail, Working, Broken, AtRest, Unborn,
         FunctionsOK, FunctionType, CfnStatus, RestInv
    <3>2. AloneInv'
      BY <2>0, <2>12, <3>0 DEF UpdateContainerStack, AwaitOperation,
         CanUpdate, AloneInv, UnbornInv, RestInv, CourseInv, Detail, Working,
         Broken, AtRest, Unborn, FunctionsOK, FunctionType, FunctionStatuses
    <3>3. CourseInv'
      BY <2>0, <2>12 DEF UpdateContainerStack, SetToWork, AwaitOperation,
         CanUpdate, CourseInv, RunOK, Steps, Questions
    <3>4. RestInv'
      BY <2>0, <2>12 DEF UpdateContainerStack, SetToWork, AwaitOperation,
         CanUpdate, RestInv, Detail
    <3>5. PastInv'
      BY <2>0, <2>12, <3>0 DEF UpdateContainerStack, AwaitOperation,
         CanUpdate, PastInv, RestInv, AloneInv, CourseInv, RunOK, Detail,
         Working, Broken, AtRest, Unborn, Status, ContainerStatus,
         StackStatus, CfnStatus, FunctionsOK, FunctionType
    <3>6. SyncInv'
      BY <2>0, <2>12 DEF UpdateContainerStack, SetToWork, AwaitOperation,
         CanUpdate, SyncInv, Ok, Env, CourseInv
    <3> QED
      BY <3>1, <3>2, <3>3, <3>4, <3>5, <3>6 DEF Inv
  <2>13. ASSUME Synced PROVE Inv'
    <3>1. UnbornInv' /\ AloneInv' /\ PastInv'
      BY <2>0, <2>13 DEF Synced, UnbornInv, Detail, AloneInv, PastInv
    <3>2. CourseInv'
      BY <2>0, <2>13 DEF Synced, Go, End, Raise, Proceed, Following,
         CourseInv, RunOK, Steps, Questions
    <3>3. RestInv'
      BY <2>0, <2>13 DEF Synced, Go, End, Raise, Proceed, Following, RestInv,
         Detail
    <3>4. SyncInv'
      BY <2>0, <2>13 DEF Synced, Go, End, Raise, Proceed, Following, SyncInv,
         Ok, Env, CourseInv
    <3> QED
      BY <3>1, <3>2, <3>3, <3>4 DEF Inv
  <2>14. ASSUME UpdateCloudFront PROVE Inv'
    <3>0. /\ StacksOK'
          /\ stack'["container"].detail = stack["container"].detail
      BY <2>0, <2>14, AskedOf DEF UpdateCloudFront, Stacks, Details, Working,
         StacksOK
    <3>1. UnbornInv'
      BY <2>0, <2>14, <3>0 DEF UpdateCloudFront, AwaitOperation, Raise, End,
         CanUpdate, UnbornInv, Detail, Working, Broken, AtRest, Unborn,
         FunctionsOK, FunctionType, CfnStatus, RestInv
    <3>2. AloneInv'
      BY <2>0, <2>14, <3>0 DEF UpdateCloudFront, AwaitOperation, Raise, End,
         CanUpdate, AloneInv, UnbornInv, RestInv, CourseInv, Detail, Working,
         Broken, AtRest, Unborn, FunctionsOK, FunctionType, FunctionStatuses
    <3>3. CourseInv'
      BY <2>0, <2>14 DEF UpdateCloudFront, SetToWork, AwaitOperation, Raise,
         End, CanUpdate, CourseInv, RunOK, Steps, Questions
    <3>4. RestInv'
      BY <2>0, <2>14 DEF UpdateCloudFront, SetToWork, AwaitOperation, Raise,
         End, CanUpdate, RestInv, Detail
    <3>5. PastInv'
      BY <2>0, <2>14, <3>0 DEF UpdateCloudFront, AwaitOperation, Raise, End,
         CanUpdate, PastInv, RestInv, AloneInv, CourseInv, RunOK, Detail,
         Working, Broken, AtRest, Unborn, Status, ContainerStatus,
         StackStatus, CfnStatus, FunctionsOK, FunctionType
    <3>6. SyncInv'
      BY <2>0, <2>14 DEF UpdateCloudFront, SetToWork, AwaitOperation, Raise,
         End, CanUpdate, SyncInv, Ok, Env, CourseInv
    <3> QED
      BY <3>1, <3>2, <3>3, <3>4, <3>5, <3>6 DEF Inv
  <2>15. ASSUME Hook PROVE Inv'
    <3>1. UnbornInv' /\ AloneInv'
      BY <2>0, <2>15 DEF Hook, UnbornInv, Detail, AloneInv
    <3>2. CourseInv'
      BY <2>0, <2>15 DEF Hook, Go, End, Raise, Proceed, Following, CourseInv,
         RunOK, Steps, Questions
    <3>3. RestInv'
      BY <2>0, <2>15 DEF Hook, Go, End, Raise, Proceed, Following, RestInv,
         Detail
    <3>4. PastInv'
      BY <2>0, <2>15 DEF Hook, Go, End, Raise, Proceed, Following, PastInv,
         RestInv, AloneInv, CourseInv, RunOK, Detail, Working, Broken, AtRest,
         Unborn, Status, ContainerStatus, StackStatus, CfnStatus, StacksOK,
         StackType, FunctionsOK, FunctionType
    <3>5. SyncInv'
      BY <2>0, <2>15 DEF Hook, Go, End, Raise, Proceed, Following, SyncInv,
         Ok, Env, CourseInv
    <3> QED
      BY <3>1, <3>2, <3>3, <3>4, <3>5 DEF Inv
  <2>16. ASSUME EnsureBucketPolicy PROVE Inv'
    <3>1. UnbornInv' /\ AloneInv'
      BY <2>0, <2>16 DEF EnsureBucketPolicy, UnbornInv, Detail, AloneInv
    <3>2. CourseInv'
      BY <2>0, <2>16 DEF EnsureBucketPolicy, Go, CourseInv, RunOK, Steps,
         Questions
    <3>3. RestInv'
      BY <2>0, <2>16 DEF EnsureBucketPolicy, Go, RestInv, Detail
    <3>4. PastInv'
      BY <2>0, <2>16 DEF EnsureBucketPolicy, Go, PastInv, Detail
    <3>5. SyncInv'
      BY <2>0, <2>16 DEF EnsureBucketPolicy, Go, SyncInv, Ok, Env, CourseInv
    <3> QED
      BY <3>1, <3>2, <3>3, <3>4, <3>5 DEF Inv
  <2>17. ASSUME WriteTokenToKvs PROVE Inv'
    <3>1. UnbornInv' /\ AloneInv'
      BY <2>0, <2>17 DEF WriteTokenToKvs, UnbornInv, Detail, AloneInv
    <3>2. CourseInv'
      BY <2>0, <2>17 DEF WriteTokenToKvs, Go, End, Raise, Proceed, Following,
         CourseInv, RunOK, Steps, Questions
    <3>3. RestInv'
      BY <2>0, <2>17 DEF WriteTokenToKvs, Go, End, Raise, Proceed, Following,
         RestInv, Detail
    <3>4. PastInv'
      BY <2>0, <2>17 DEF WriteTokenToKvs, Go, End, Raise, Proceed, Following,
         PastInv, RestInv, AloneInv, CourseInv, RunOK, Detail, Working,
         Broken, AtRest, Unborn, Status, ContainerStatus, StackStatus,
         CfnStatus, StacksOK, StackType, FunctionsOK, FunctionType
    <3>5. SyncInv'
      BY <2>0, <2>17 DEF WriteTokenToKvs, Go, End, Raise, Proceed, Following,
         SyncInv, Ok, Env, CourseInv
    <3> QED
      BY <3>1, <3>2, <3>3, <3>4, <3>5 DEF Inv
  <2>18. ASSUME NEW h \in Handlers, UpdateCode(h) PROVE Inv'
    <3>1. UnbornInv'
      BY <2>0, <2>18 DEF UpdateCode, UnbornInv, Detail
    <3>2. AloneInv'
      BY <2>0, <2>18 DEF UpdateCode, Raise, End, AloneInv, UnbornInv, RestInv,
         CourseInv, Detail, Working, Broken, AtRest, Unborn, StacksOK,
         StackType, FunctionsOK, FunctionType, FunctionStatuses
    <3>3. CourseInv'
      BY <2>0, <2>18 DEF UpdateCode, Raise, End, CourseInv, RunOK, Steps,
         Questions
    <3>4. RestInv'
      BY <2>0, <2>18 DEF UpdateCode, Raise, End, RestInv, Detail
    <3>5. PastInv'
      BY <2>0, <2>18 DEF UpdateCode, Raise, End, PastInv, Detail
    <3>6. SyncInv'
      BY <2>0, <2>18 DEF UpdateCode, Raise, End, SyncInv, Ok, Env, CourseInv
    <3> QED
      BY <3>1, <3>2, <3>3, <3>4, <3>5, <3>6 DEF Inv
  <2>19. ASSUME NEW h \in Handlers, SyncEnv(h) PROVE Inv'
    <3>1. UnbornInv' /\ PastInv'
      BY <2>0, <2>19 DEF SyncEnv, UnbornInv, Detail, PastInv
    <3>2. AloneInv'
      BY <2>0, <2>19 DEF SyncEnv, Raise, End, AloneInv, UnbornInv, RestInv,
         CourseInv, Detail, Working, Broken, AtRest, Unborn, StacksOK,
         StackType, FunctionsOK, FunctionType, FunctionStatuses
    <3>3. CourseInv'
      BY <2>0, <2>19 DEF SyncEnv, Raise, End, CourseInv, RunOK, Steps,
         Questions
    <3>4. RestInv'
      BY <2>0, <2>19 DEF SyncEnv, Raise, End, RestInv, Detail
    <3>5. SyncInv'
      BY <2>0, <2>19 DEF SyncEnv, Raise, End, SyncInv, PastInv, CourseInv, Ok,
         Env, RunOK, Detail, Working, Broken, AtRest, Unborn, StacksOK,
         StackType, FunctionsOK, FunctionType, FunctionStatuses
    <3> QED
      BY <3>1, <3>2, <3>3, <3>4, <3>5 DEF Inv
  <2>20. ASSUME StartUpdate PROVE Inv'
    <3>1. RestInv'
      BY <2>0, <2>20 DEF StartUpdate, RestInv, Detail
    <3>2. UnbornInv'
      BY <2>0, <2>20 DEF StartUpdate, Begin, UnbornInv, Detail
    <3>3. AloneInv'
      BY <2>0, <2>20 DEF StartUpdate, Begin, AloneInv, Detail
    <3>4. CourseInv'
      BY <2>0, <2>20 DEF StartUpdate, Begin, CourseInv, RunOK, Steps,
         Questions
    <3>5. PastInv'
      BY <2>0, <2>20 DEF StartUpdate, Begin, PastInv, Detail
    <3>6. SyncInv'
      BY <2>0, <2>20 DEF StartUpdate, Begin, SyncInv, Ok, Env, CourseInv
    <3> QED
      BY <3>1, <3>2, <3>3, <3>4, <3>5, <3>6 DEF Inv
  <2>21. ASSUME Interrupt PROVE Inv'
    <3>1. UnbornInv' /\ AloneInv'
      BY <2>0, <2>21 DEF Interrupt, UnbornInv, Detail, AloneInv
    <3>2. CourseInv'
      BY <2>0, <2>21 DEF Interrupt, Raise, End, CourseInv, RunOK, Steps,
         Questions
    <3>3. RestInv'
      BY <2>0, <2>21 DEF Interrupt, Raise, End, RestInv, Detail
    <3>4. PastInv'
      BY <2>0, <2>21 DEF Interrupt, Raise, End, PastInv, Detail
    <3>5. SyncInv'
      BY <2>0, <2>21 DEF Interrupt, Raise, End, SyncInv, Ok, Env, CourseInv
    <3> QED
      BY <3>1, <3>2, <3>3, <3>4, <3>5 DEF Inv
  <2>22. ASSUME NEW r \in Releases, Change(r) PROVE Inv'
    <3>1. UnbornInv' /\ AloneInv' /\ CourseInv' /\ RestInv' /\ PastInv' /\ SyncInv'
      BY <2>0, <2>22 DEF Change, UnbornInv, Detail, AloneInv, CourseInv,
         RunOK, Steps, Questions, RestInv, PastInv, SyncInv, Ok, Env
    <3> QED
      BY <3>1 DEF Inv
  <2>23. ASSUME NEW s \in Stacks, Complete(s) PROVE Inv'
    <3>1. CourseInv'
      BY <2>0, <2>23 DEF Complete, CourseInv, RunOK, Steps, Questions
    <3>0. /\ StacksOK'
          /\ s # "container" =>
               stack'["container"].detail = stack["container"].detail
          /\ s = "container" =>
             \/ /\ stack["container"].detail = "CREATE_IN_PROGRESS"
                /\ stack'["container"].detail = "CREATE_COMPLETE"
             \/ /\ stack["container"].detail = "UPDATE_IN_PROGRESS"
                /\ stack'["container"].detail = "UPDATE_COMPLETE"
      BY <2>0, <2>23, SettledAs, StackParts, NoTemplateIsOne
      DEF Complete, Detail, Stacks, Details, Working, Broken, AtRest
    <3>2. UnbornInv'
      BY <2>0, <2>23, <3>0 DEF Complete, UnbornInv, Detail, Working, Broken,
         AtRest, Unborn, FunctionsOK, FunctionType, CfnStatus, RestInv
    <3>3. AloneInv'
      BY <2>0, <2>23, <3>0 DEF Complete, AloneInv, UnbornInv, RestInv,
         CourseInv, Detail, Working, Broken, AtRest, Unborn, FunctionsOK,
         FunctionType, FunctionStatuses
    <3>4. RestInv'
      BY <2>0, <2>23, <3>0 DEF Complete, RestInv, CourseInv, RunOK, Detail,
         Working, Broken, AtRest, Unborn, Status, ContainerStatus,
         StackStatus, CfnStatus, FunctionsOK, FunctionType
    <3>5. PastInv'
      BY <2>0, <2>23, <3>0 DEF Complete, PastInv, RestInv, AloneInv,
         CourseInv, RunOK, Detail, Working, Broken, AtRest, Unborn, Status,
         ContainerStatus, StackStatus, CfnStatus, FunctionsOK, FunctionType
    <3>6. SyncInv'
      BY <2>0, <2>23, <3>0 DEF Complete, SyncInv, PastInv, CourseInv, Ok, Env,
         RunOK, Detail, Working, Broken, AtRest, Unborn, FunctionsOK,
         FunctionType, FunctionStatuses
    <3> QED
      BY <3>1, <3>2, <3>3, <3>4, <3>5, <3>6 DEF Inv
  <2>24. ASSUME NEW s \in Stacks, FinishRollback(s) PROVE Inv'
    <3>1. CourseInv'
      BY <2>0, <2>24 DEF FinishRollback, CourseInv, RunOK, Steps, Questions
    <3>0. /\ StacksOK'
          /\ s # "container" =>
               stack'["container"].detail = stack["container"].detail
          /\ s = "container" =>
             \/ /\ stack["container"].detail = "ROLLBACK_IN_PROGRESS"
                /\ stack'["container"].detail = "ROLLBACK_COMPLETE"
             \/ /\ stack["container"].detail = "UPDATE_ROLLBACK_IN_PROGRESS"
                /\ stack'["container"].detail = "UPDATE_ROLLBACK_COMPLETE"
      BY <2>0, <2>24, SettledAs, StackParts, NoTemplateIsOne
      DEF FinishRollback, Detail, Stacks, Details, Working, Broken, AtRest
    <3>2. UnbornInv'
      BY <2>0, <2>24, <3>0 DEF FinishRollback, Restored, UnbornInv, Detail,
         Working, Broken, AtRest, Unborn, FunctionsOK, FunctionType,
         CfnStatus, RestInv
    <3>3. AloneInv'
      BY <2>0, <2>24, <3>0 DEF FinishRollback, Restored, AloneInv, UnbornInv,
         RestInv, CourseInv, Detail, Working, Broken, AtRest, Unborn,
         FunctionsOK, FunctionType, FunctionStatuses
    <3>4. RestInv'
      BY <2>0, <2>24, <3>0 DEF FinishRollback, Restored, RestInv, CourseInv,
         RunOK, Detail, Working, Broken, AtRest, Unborn, Status,
         ContainerStatus, StackStatus, CfnStatus, FunctionsOK, FunctionType
    <3>5. PastInv'
      BY <2>0, <2>24, <3>0 DEF FinishRollback, Restored, PastInv, RestInv,
         AloneInv, CourseInv, RunOK, Detail, Working, Broken, AtRest, Unborn,
         Status, ContainerStatus, StackStatus, CfnStatus, FunctionsOK,
         FunctionType
    <3>6. SyncInv'
      BY <2>0, <2>24, <3>0 DEF FinishRollback, Restored, SyncInv, PastInv,
         CourseInv, Ok, Env, RunOK, Detail, Working, Broken, AtRest, Unborn,
         FunctionsOK, FunctionType, FunctionStatuses
    <3> QED
      BY <3>1, <3>2, <3>3, <3>4, <3>5, <3>6 DEF Inv
  <2>25. ASSUME NEW s \in Stacks, Rollback(s) PROVE Inv'
    <3>1. CourseInv' /\ SyncInv'
      BY <2>0, <2>25 DEF Rollback, CourseInv, RunOK, Steps, Questions,
         SyncInv, Ok, Env
    <3>0. /\ StacksOK'
          /\ s # "container" =>
               stack'["container"].detail = stack["container"].detail
          /\ s = "container" =>
             \/ /\ stack["container"].detail = "CREATE_IN_PROGRESS"
                /\ stack'["container"].detail = "ROLLBACK_IN_PROGRESS"
             \/ /\ stack["container"].detail = "UPDATE_IN_PROGRESS"
                /\ stack'["container"].detail = "UPDATE_ROLLBACK_IN_PROGRESS"
      BY <2>0, <2>25, SettledAs, StackParts, NoTemplateIsOne
      DEF Rollback, Detail, Stacks, Details, Working, Broken, AtRest
    <3>2. UnbornInv'
      BY <2>0, <2>25, <3>0 DEF Rollback, UnbornInv, Detail, Working, Broken,
         AtRest, Unborn, FunctionsOK, FunctionType, CfnStatus, RestInv
    <3>3. AloneInv'
      BY <2>0, <2>25, <3>0 DEF Rollback, AloneInv, UnbornInv, RestInv,
         CourseInv, Detail, Working, Broken, AtRest, Unborn, FunctionsOK,
         FunctionType, FunctionStatuses
    <3>4. RestInv'
      BY <2>0, <2>25, <3>0 DEF Rollback, RestInv, CourseInv, RunOK, Detail,
         Working, Broken, AtRest, Unborn, Status, ContainerStatus,
         StackStatus, CfnStatus, FunctionsOK, FunctionType
    <3>5. PastInv'
      BY <2>0, <2>25, <3>0 DEF Rollback, PastInv, RestInv, AloneInv,
         CourseInv, RunOK, Detail, Working, Broken, AtRest, Unborn, Status,
         ContainerStatus, StackStatus, CfnStatus, FunctionsOK, FunctionType
    <3> QED
      BY <3>1, <3>2, <3>3, <3>4, <3>5 DEF Inv
  <2>26. ASSUME NEW s \in Stacks, RollbackFails(s) PROVE Inv'
    <3>1. CourseInv' /\ SyncInv'
      BY <2>0, <2>26 DEF RollbackFails, CourseInv, RunOK, Steps, Questions,
         SyncInv, Ok, Env
    <3>0. /\ StacksOK'
          /\ s # "container" =>
               stack'["container"].detail = stack["container"].detail
          /\ s = "container" =>
             \/ /\ stack["container"].detail = "UPDATE_ROLLBACK_IN_PROGRESS"
                /\ stack'["container"].detail = "UPDATE_ROLLBACK_FAILED"
      BY <2>0, <2>26, SettledAs, StackParts, NoTemplateIsOne
      DEF RollbackFails, Detail, Stacks, Details, Working, Broken, AtRest
    <3>2. UnbornInv'
      BY <2>0, <2>26, <3>0 DEF RollbackFails, UnbornInv, Detail, Working,
         Broken, AtRest, Unborn, FunctionsOK, FunctionType, CfnStatus, RestInv
    <3>3. AloneInv'
      BY <2>0, <2>26, <3>0 DEF RollbackFails, AloneInv, UnbornInv, RestInv,
         CourseInv, Detail, Working, Broken, AtRest, Unborn, FunctionsOK,
         FunctionType, FunctionStatuses
    <3>4. RestInv'
      BY <2>0, <2>26, <3>0 DEF RollbackFails, RestInv, CourseInv, RunOK,
         Detail, Working, Broken, AtRest, Unborn, Status, ContainerStatus,
         StackStatus, CfnStatus, FunctionsOK, FunctionType
    <3>5. PastInv'
      BY <2>0, <2>26, <3>0 DEF RollbackFails, PastInv, RestInv, AloneInv,
         CourseInv, RunOK, Detail, Working, Broken, AtRest, Unborn, Status,
         ContainerStatus, StackStatus, CfnStatus, FunctionsOK, FunctionType
    <3> QED
      BY <3>1, <3>2, <3>3, <3>4, <3>5 DEF Inv
  <2>27. ASSUME NEW s \in Stacks, RepairStack(s) PROVE Inv'
    <3>1. CourseInv' /\ RestInv' /\ SyncInv'
      BY <2>0, <2>27 DEF RepairStack, CourseInv, RunOK, Steps, Questions,
         RestInv, Detail, SyncInv, Ok, Env
    <3>0. /\ StacksOK'
          /\ s # "container" =>
               stack'["container"].detail = stack["container"].detail
          /\ s = "container" =>
             \/ /\ stack["container"].detail = "ROLLBACK_COMPLETE"
                /\ stack'["container"].detail = "NOT_CREATED"
             \/ /\ stack["container"].detail = "UPDATE_ROLLBACK_FAILED"
                /\ stack'["container"].detail = "UPDATE_ROLLBACK_COMPLETE"
      BY <2>0, <2>27, SettledAs, StackParts, NoTemplateIsOne
      DEF RepairStack, Detail, Stacks, Details, Working, Broken, AtRest
    <3>2. UnbornInv'
      BY <2>0, <2>27, <3>0 DEF RepairStack, Restored, UnbornInv, Detail,
         Working, Broken, AtRest, Unborn, FunctionsOK, FunctionType,
         CfnStatus, RestInv
    <3>3. AloneInv'
      BY <2>0, <2>27, <3>0 DEF RepairStack, Restored, AloneInv, UnbornInv,
         RestInv, CourseInv, Detail, Working, Broken, AtRest, Unborn,
         FunctionsOK, FunctionType, FunctionStatuses
    <3>4. PastInv'
      BY <2>0, <2>27, <3>0 DEF RepairStack, Restored, PastInv, RestInv,
         AloneInv, CourseInv, RunOK, Detail, Working, Broken, AtRest, Unborn,
         Status, ContainerStatus, StackStatus, CfnStatus, FunctionsOK,
         FunctionType
    <3> QED
      BY <3>1, <3>2, <3>3, <3>4 DEF Inv
  <2>28. ASSUME NEW h \in Handlers, FunctionUpdated(h) PROVE Inv'
    <3>1. UnbornInv' /\ AloneInv' /\ CourseInv' /\ RestInv' /\ PastInv'
      BY <2>0, <2>28 DEF FunctionUpdated, UnbornInv, Detail, AloneInv,
         CourseInv, RunOK, Steps, Questions, RestInv, PastInv
    <3>2. SyncInv'
      BY <2>0, <2>28 DEF FunctionUpdated, SyncInv, PastInv, CourseInv, Ok,
         Env, RunOK, Detail, Working, Broken, AtRest, Unborn, StacksOK,
         StackType, FunctionsOK, FunctionType, FunctionStatuses
    <3> QED
      BY <3>1, <3>2 DEF Inv
  <2>29. ASSUME NEW h \in Handlers, FunctionUpdateFails(h) PROVE Inv'
    <3>1. UnbornInv' /\ AloneInv' /\ CourseInv' /\ RestInv' /\ PastInv'
      BY <2>0, <2>29 DEF FunctionUpdateFails, UnbornInv, Detail, AloneInv,
         CourseInv, RunOK, Steps, Questions, RestInv, PastInv
    <3>2. SyncInv'
      BY <2>0, <2>29 DEF FunctionUpdateFails, SyncInv, PastInv, CourseInv, Ok,
         Env, RunOK, Detail, Working, Broken, AtRest, Unborn, StacksOK,
         StackType, FunctionsOK, FunctionType, FunctionStatuses
    <3> QED
      BY <3>1, <3>2 DEF Inv
  <2>30. ASSUME NEW h \in Handlers, RepairFunction(h) PROVE Inv'
    <3>1. UnbornInv' /\ AloneInv' /\ CourseInv' /\ RestInv' /\ PastInv' /\ SyncInv'
      BY <2>0, <2>30 DEF RepairFunction, UnbornInv, Detail, AloneInv,
         CourseInv, RunOK, Steps, Questions, RestInv, PastInv, SyncInv, Ok,
         Env
    <3> QED
      BY <3>1 DEF Inv
  <2>31. CASE UNCHANGED vars
    <3>1. UnbornInv' /\ AloneInv' /\ CourseInv' /\ RestInv' /\ PastInv' /\ SyncInv'
      BY <2>0, <2>31 DEF vars, UnbornInv, Detail, AloneInv, CourseInv, RunOK,
         Steps, Questions, RestInv, PastInv, SyncInv, Ok, Env
    <3> QED
      BY <3>1 DEF Inv
  <2> QED
    BY <2>1, <2>2, <2>3, <2>4, <2>5, <2>6, <2>7, <2>8, <2>9, <2>10, <2>11,
       <2>12, <2>13, <2>14, <2>15, <2>16, <2>17, <2>18, <2>19, <2>20, <2>21,
       <2>22, <2>23, <2>24, <2>25, <2>26, <2>27, <2>28, <2>29, <2>30, <2>31
       DEF Next, Command, Finishes
<1> QED
  BY <1>1, <1>2, Typing, PTL DEF Spec

\* After a deploy that ends well every function that there is has the
\* DEPLOY_HASH of the release (Container.ensure_post_deploy_state).
THEOREM EnvIsSynced == Spec => []EnvSynced
<1>1. Inv => EnvSynced
  BY DEF Inv, SyncInv, EnvSynced, Env
<1> QED
  BY <1>1, Invariance, PTL

-----------------------------------------------------------------------------
\* The run at hand is a deploy that began with nothing under way.
Mine == quiet /\ command = "deploy" /\ pc # "idle"

Built == {"container", "cloudfront"}
Waits(s) == pc = "wait" /\ cur = s
Coded == \A h \in Handlers : fn[h].status = "COMPLETED" /\ fn[h].code = image

\* The image is that of the release, and the functions come with the stack.
ImageInv ==
  command = "deploy" /\ pc \notin {"idle", "init"} => image = release.code
BornInv ==
  Detail("container") \notin Unborn =>
    \A h \in Handlers : fn[h].status # "NOEXIST"

\* Nothing is under way but what the run itself waits for.
StillInv ==
  Mine =>
    /\ \A s \in Built : Detail(s) \in Working => Waits(s)
    /\ \A h \in Handlers :
         fn[h].status = "PROGRESS" => pc = "code" /\ h \notin todo

\* So an answer to one of its questions stays true.
AskedInv ==
  Mine /\ cur # "vpc" =>
    /\ pc \in {"create", "wait_vpc", "create_stack"} =>
         Detail(cur) = "NOT_CREATED"
    /\ pc = "update" => Detail(cur) \in AtRest
    /\ pc = "update" /\ cur = "container" =>
         \A h \in Handlers : fn[h].status = "COMPLETED"
    /\ pc \in {"REQUIRE_UPDATE", "FAILED", "PROGRESS"} =>
         Status(cur) # "NOEXIST"
    /\ pc \in {"FAILED", "PROGRESS"} => Status(cur) # "REQUIRE_UPDATE"
    /\ pc = "PROGRESS" => Status(cur) # "FAILED"

\* How far Container.update has come with the code of the functions.
CodeInv ==
  Mine =>
    /\ pc = "code" => \A h \in Handlers :
         /\ fn[h].status # "NOEXIST"
         /\ h \in todo => fn[h].status = "COMPLETED"
         /\ h \notin todo /\ fn[h].status = "PROGRESS" => fn[h].next = image
         /\ h \notin todo /\ fn[h].status = "COMPLETED" => fn[h].code = image
    /\ pc = "stack" => Coded

\* What the run waits for ends as the release, or as a rollback it sees.
WaitInv ==
  Mine /\ pc = "wait" =>
    /\ \/ /\ Detail(cur) \in {"CREATE_IN_PROGRESS", "UPDATE_IN_PROGRESS"}
          /\ stack[cur].next = TemplateOf(cur, release, TRUE)
          /\ baseline = Detail(cur)
       \/ /\ Detail(cur) \in RollbackDetails
          /\ baseline \in {"CREATE_IN_PROGRESS", "UPDATE_IN_PROGRESS"}
       \/ Released(cur)
    /\ cur = "container" => Detail(cur) \in Unborn \/ Coded

\* Past the container, and past CloudFront, the release is there.
DoneInv ==
  Mine /\ (pc = "sync" \/ cur = "cloudfront") =>
    Released("container") /\ Coded
FrontInv ==
  /\ Mine /\ (hooking \/ pc \in {"hook", "policy", "kvs"}) =>
       Released("cloudfront")
  /\ Mine /\ pc = "kvs" => policy

\* And it is when the run is over.
EndInv ==
  Ok /\ quiet =>
    /\ Released("container") /\ Released("cloudfront")
    /\ \A h \in Handlers :
         fn[h].status = "COMPLETED" /\ fn[h].code = release.code
    /\ policy /\ kvs = release.token

Delivering ==
  /\ ImageInv /\ BornInv /\ StillInv /\ AskedInv /\ CodeInv /\ WaitInv
  /\ DoneInv /\ FrontInv /\ EndInv

-----------------------------------------------------------------------------
\* A deploy that began with nothing under way (SuccessDelivers).

LEMMA AskedParts ==
  ASSUME StacksOK, NEW s \in Stacks, NEW detail \in Details,
         SetToWork(s, detail)
  PROVE  /\ \A t \in Stacks : t # s => stack'[t] = stack[t]
         /\ stack'[s].detail = detail
         /\ stack'[s].template = stack[s].template
         /\ stack'[s].next = Template(s)
<1>1. stack' = [stack EXCEPT ![s] = [@ EXCEPT !.detail = detail,
                                            !.next = Template(s)]]
  BY DEF SetToWork, StacksOK, StackType
<1>2. stack'[s] = [stack[s] EXCEPT !.detail = detail, !.next = Template(s)]
  BY <1>1 DEF StacksOK
<1>3. stack[s] \in StackType
  BY DEF StacksOK
<1> QED
  BY <1>1, <1>2, <1>3 DEF StacksOK, StackType

LEMMA SettledParts ==
  ASSUME StacksOK, NEW s \in Stacks, NEW detail \in Details,
         NEW template, Settle(s, detail, template)
  PROVE  /\ \A t \in Stacks : t # s => stack'[t] = stack[t]
         /\ stack'[s].detail = detail /\ stack'[s].template = template
BY DEF Settle, StacksOK

LEMMA DeployTemplate ==
  ASSUME command = "deploy", NEW s \in Stacks
  PROVE  Template(s) = TemplateOf(s, release, TRUE)
BY DEF Template, TemplateOf

\* The next two: a status is a function of the stack and the functions.
LEMMA StatusKept ==
  ASSUME UNCHANGED <<cur, fn, image, release, command>>,
         stack'[cur] = stack[cur]
  PROVE  Status(cur)' = Status(cur)
<1>1. ContainerStatus' = ContainerStatus \/ cur # "container"
  BY DEF ContainerStatus, StackStatus, CfnStatus, Detail, YamlSynced, Template
<1>2. StackStatus(cur)' = StackStatus(cur)
  BY DEF StackStatus, CfnStatus, Detail, YamlSynced, Template
<1> QED
  BY <1>1, <1>2 DEF Status

LEMMA StatusTells ==
  ASSUME StacksOK, FunctionsOK, cur \in Built,
         command = "deploy", Detail(cur) \notin Working,
         cur = "container" => \A h \in Handlers : fn[h].status # "PROGRESS"
  PROVE  /\ Status(cur) = "NOEXIST" => Detail(cur) = "NOT_CREATED"
         /\ Status(cur) = "REQUIRE_UPDATE" => Detail(cur) \in AtRest
         /\ Status(cur) = "REQUIRE_UPDATE" /\ cur = "container" =>
              \A h \in Handlers : fn[h].status # "FAILED"
         /\ Status(cur) \notin {"NOEXIST", "REQUIRE_UPDATE", "FAILED"} =>
              /\ Released(cur)
              /\ cur = "container" => \A h \in Handlers :
                   fn[h].code = image /\ fn[h].status # "FAILED"
<1>1. Detail(cur) \in Details
  BY DEF StacksOK, StackType, Detail, Stacks, Built
<1>2. StackStatus(cur) \in {"NOEXIST", "FAILED", "COMPLETED", "REQUIRE_UPDATE"}
  BY <1>1 DEF StackStatus, CfnStatus
<1>3. /\ StackStatus(cur) = "NOEXIST" => Detail(cur) = "NOT_CREATED"
      /\ StackStatus(cur) = "REQUIRE_UPDATE" => Detail(cur) \in AtRest
      /\ StackStatus(cur) = "COMPLETED" =>
           Detail(cur) \in AtRest /\ Released(cur)
  BY <1>1, DeployTemplate
  DEF StackStatus, CfnStatus, Details, Working, Broken, AtRest, YamlSynced,
      Released, Detail, Built, Stacks
<1>4. CASE cur = "cloudfront"
  BY <1>2, <1>3, <1>4 DEF Status
<1>5. CASE cur = "container"
  <2> DEFINE failed == \/ StackStatus("container") = "FAILED"
                      \/ \E h \in Handlers : fn[h].status = "FAILED"
             other == \E h \in Handlers : fn[h].code # image
  <2>1. ~(\/ StackStatus("container") = "PROGRESS"
          \/ \E h \in Handlers : fn[h].status = "PROGRESS")
    BY <1>2, <1>5
  <2>2. failed => ContainerStatus = "FAILED"
    BY DEF ContainerStatus
  <2>3. ~failed /\ StackStatus("container") = "COMPLETED" /\ other =>
          ContainerStatus = "REQUIRE_UPDATE"
    BY <2>1 DEF ContainerStatus
  <2>4. ~failed /\ ~(StackStatus("container") = "COMPLETED" /\ other) =>
          ContainerStatus = StackStatus("container")
    BY <2>1 DEF ContainerStatus
  <2>5. Status(cur) = ContainerStatus
    BY <1>5 DEF Status
  <2>6. StackStatus(cur) = StackStatus("container")
    BY <1>5
  <2> HIDE DEF failed, other
  <2>7. CASE failed
    BY <1>5, <2>2, <2>5, <2>7
  <2>8. CASE ~failed
    <3>1. \A h \in Handlers : fn[h].status # "FAILED"
      BY <2>8 DEF failed
    <3>2. ~other => \A h \in Handlers : fn[h].code = image
      BY DEF other
    <3> QED
      BY <1>2, <1>3, <1>5, <2>3, <2>4, <2>5, <2>6, <2>8, <3>1, <3>2
  <2> QED
    BY <2>7, <2>8
<1> QED
  BY <1>4, <1>5 DEF Built

\* What happens to the VPC, or to the release that is wanted next.
LEMMA Aside ==
  ASSUME Delivering, CourseInv, \A t \in Built : stack'[t] = stack[t],
         UNCHANGED <<image, fn, policy, kvs, order, place, outcome>>,
         cur # "vpc" => cur \in Built
  PROVE  Delivering'
<1> USE DEF order, place
<1>0. /\ ImageInv /\ BornInv /\ StillInv /\ AskedInv /\ CodeInv /\ WaitInv
      /\ DoneInv /\ FrontInv /\ EndInv
  BY DEF Delivering
<1>1. ImageInv' /\ BornInv' /\ CodeInv'
  BY <1>0 DEF ImageInv, BornInv, CodeInv, Mine, Coded, Detail, Built
<1>2. StillInv'
  BY <1>0 DEF StillInv, Mine, Detail, Waits, Built
<1>3. AskedInv'
  <2>1. cur # "vpc" => Status(cur)' = Status(cur)
    BY StatusKept
  <2> QED
    BY <1>0, <2>1 DEF AskedInv, Mine, Detail
<1>4. WaitInv'
  <2>1. pc = "wait" => cur # "vpc"
    BY DEF CourseInv
  <2> QED
    BY <1>0, <2>1 DEF WaitInv, Mine, Detail, Released, Coded
<1>5. DoneInv' /\ FrontInv' /\ EndInv'
  BY <1>0
  DEF DoneInv, FrontInv, EndInv, Mine, Detail, Released, Coded, Ok, Built
<1> QED
  BY <1>1, <1>2, <1>3, <1>4, <1>5 DEF Delivering

\* CloudFormation works on the container or on CloudFront only while the run
\* waits for it.
LEMMA WorkedOn ==
  ASSUME Delivering, CourseInv, AloneInv, NEW s \in Built,
         Detail(s) \in Working,
         \A t \in Stacks : t # s => stack'[t] = stack[t],
         UNCHANGED <<image, policy, order, place, outcome>>,
         s = "cloudfront" => fn' = fn,
         \A h \in Handlers :
           fn'[h].status = fn[h].status \/ fn'[h].status = "COMPLETED",
         BornInv', Mine /\ Waits(s) => WaitInv'
  PROVE  Delivering'
<1> USE DEF order, place
<1>0. /\ ImageInv /\ BornInv /\ StillInv /\ AskedInv /\ CodeInv /\ WaitInv
      /\ DoneInv /\ FrontInv /\ EndInv
  BY DEF Delivering
<1>1. Mine => pc = "wait" /\ cur = s /\ ~hooking
  BY <1>0 DEF StillInv, Waits, CourseInv
<1>2. ~(Ok /\ quiet)
  BY <1>0 DEF EndInv, Released, Working, AtRest, Built
<1>3. ImageInv'
  BY <1>0 DEF ImageInv
<1>4. StillInv'
  BY <1>0, <1>1 DEF StillInv, Mine, Waits, Detail, Built, Stacks
<1>5. AskedInv' /\ CodeInv' /\ FrontInv'
  BY <1>1 DEF AskedInv, CodeInv, FrontInv, Mine
<1>6. WaitInv'
  BY <1>1 DEF WaitInv, Mine, Waits
<1>7. DoneInv'
  BY <1>0, <1>1
  DEF DoneInv, Mine, Released, Coded, Detail, Built, Stacks
<1>8. EndInv'
  BY <1>2 DEF EndInv, Ok
<1> QED
  BY <1>3, <1>4, <1>5, <1>6, <1>7, <1>8 DEF Delivering


\* What every step keeps of it.
LEMMA DeliveringStep ==
  ASSUME TypeOK, Inv, Delivering, [Next]_vars
  PROVE  Delivering'
<1> USE NoneAssumption
<1> USE DEF cloud, place, order, run, bounds
<1>0. /\ StacksOK /\ FunctionsOK /\ RunOK /\ FlagsOK
      /\ UnbornInv /\ AloneInv /\ CourseInv /\ RestInv /\ PastInv /\ SyncInv
      /\ ImageInv /\ BornInv /\ StillInv /\ AskedInv /\ CodeInv /\ WaitInv
      /\ DoneInv /\ FrontInv /\ EndInv
  BY DEF TypeOK, Inv, Delivering
<1>1. ASSUME Start PROVE Delivering'
  <2>1. ImageInv' /\ BornInv'
    BY <1>0, <1>1 DEF Start, Begin, Built, Stacks, ImageInv, BornInv,
       Detail, CourseInv
  <2>2. StillInv' /\ AskedInv'
    BY <1>0, <1>1 DEF Start, Begin, Built, Stacks, StillInv, Mine, Detail,
       Waits, AskedInv, CourseInv
  <2>3. CodeInv' /\ WaitInv' /\ DoneInv'
    BY <1>0, <1>1 DEF Start, Begin, Built, Stacks, CodeInv, Mine, Coded,
       WaitInv, Detail, Released, DoneInv, CourseInv
  <2>4. FrontInv' /\ EndInv'
    BY <1>0, <1>1 DEF Start, Begin, Built, Stacks, FrontInv, Mine, Detail,
       Released, FlagsOK, EndInv, Ok, CourseInv
  <2> QED
    BY <2>1, <2>2, <2>3, <2>4 DEF Delivering
<1>2. ASSUME DeployInit PROVE Delivering'
  <2>1. ImageInv' /\ BornInv'
    BY <1>0, <1>2 DEF DeployInit, Go, ImageInv, BornInv, Detail, CourseInv
  <2>2. StillInv' /\ AskedInv'
    BY <1>0, <1>2 DEF DeployInit, Go, StillInv, Mine, Detail, Waits, Built,
       AskedInv, CourseInv
  <2>3. CodeInv' /\ WaitInv' /\ DoneInv'
    BY <1>0, <1>2 DEF DeployInit, Go, CodeInv, Mine, Coded, WaitInv, Detail,
       Released, DoneInv, CourseInv
  <2>4. FrontInv' /\ EndInv'
    BY <1>0, <1>2 DEF DeployInit, Go, FrontInv, Mine, Detail, Released,
       FlagsOK, Built, Stacks, EndInv, Ok, CourseInv
  <2> QED
    BY <2>1, <2>2, <2>3, <2>4 DEF Delivering
<1>3. ASSUME Ask PROVE Delivering'
  <2>a. stack' = stack /\ fn' = fn /\ image' = image
    BY <1>3 DEF Ask
  <2>b. cur \in Built /\ Mine =>
          /\ Status(cur) = "NOEXIST" => Detail(cur) = "NOT_CREATED"
          /\ Status(cur) = "REQUIRE_UPDATE" => Detail(cur) \in AtRest
          /\ Status(cur) = "REQUIRE_UPDATE" /\ cur = "container" =>
               \A h \in Handlers : fn[h].status # "FAILED"
          /\ Status(cur) \notin {"NOEXIST", "REQUIRE_UPDATE", "FAILED"} =>
               /\ Released(cur)
               /\ cur = "container" => \A h \in Handlers :
                    fn[h].code = image /\ fn[h].status # "FAILED"
    <3>1. ASSUME cur \in Built, Mine
          PROVE  /\ Detail(cur) \notin Working
                 /\ \A h \in Handlers : fn[h].status # "PROGRESS"
      BY <1>0, <1>3, <3>1 DEF Ask, Questions, StillInv, Waits
    <3> QED
      BY <1>0, <3>1, StatusTells DEF Mine
  <2>c. cur' = cur => Status(cur)' = Status(cur)
    BY <1>3, <2>a, StatusKept DEF Ask
  <2>d. cur # "vpc" => cur \in Built
    BY <1>0 DEF RunOK, Stacks, Built
  <2>e. cur \in Built /\ Mine /\ pc = "PROGRESS" /\ Status(cur) # pc =>
          Released(cur) /\ (cur = "container" => Coded)
    <3> SUFFICES ASSUME cur \in Built, Mine, pc = "PROGRESS", Status(cur) # pc
                 PROVE  Released(cur) /\ (cur = "container" => Coded)
      OBVIOUS
    <3>1. Status(cur) \notin {"NOEXIST", "REQUIRE_UPDATE", "FAILED"}
      BY <1>0 DEF AskedInv, Built
    <3>2. Released(cur)
      BY <2>b, <3>1
    <3>3. ASSUME cur = "container", NEW h \in Handlers
          PROVE  fn[h].status = "COMPLETED" /\ fn[h].code = image
      <4>1. fn[h].code = image /\ fn[h].status # "FAILED"
        BY <2>b, <3>1, <3>3
      <4>2. fn[h].status # "PROGRESS"
        BY <1>0 DEF StillInv
      <4>3. fn[h].status # "NOEXIST"
        BY <1>0, <3>2, <3>3 DEF BornInv, Released, AtRest, Unborn, Detail
      <4> QED
        BY <1>0, <4>1, <4>2, <4>3
        DEF FunctionsOK, FunctionType, FunctionStatuses
    <3> QED
      BY <3>2, <3>3 DEF Coded
  <2>1. ImageInv' /\ BornInv'
    BY <1>0, <1>3, <2>a, <2>b, <2>c, <2>d, <2>e DEF Ask, Questions, Go,
       Proceed, End, Following, Raise, NextQuestion, ImageInv, BornInv,
       Detail, CourseInv
  <2>2. StillInv' /\ AskedInv'
    BY <1>0, <1>3, <2>a, <2>b, <2>c, <2>d, <2>e, StatusKept DEF Ask,
       Questions, Go, Proceed, End, Following, Raise, NextQuestion,
       StillInv, Mine, Detail, Waits, Built, AskedInv, BornInv, AtRest,
       Unborn, FunctionsOK, FunctionType, FunctionStatuses, CourseInv
  <2>3. WaitInv'
    BY <1>0, <1>3, <2>a, <2>b, <2>c, <2>d, <2>e DEF Ask, Questions, Go,
       Proceed, End, Following, Raise, NextQuestion, WaitInv, Mine, Detail,
       Released, Coded, CourseInv
  <2>4. CodeInv'
    BY <1>0, <1>3, <2>a, <2>b, <2>c, <2>d, <2>e DEF Ask, Questions, Go,
       Proceed, End, Following, Raise, NextQuestion, CodeInv, Mine, Coded,
       CourseInv
  <2>5. DoneInv'
    <3>1. /\ Released("container") => Released("container")'
          /\ Coded => Coded'
      BY <1>3, <2>a DEF Ask, Released, Detail, Coded
    <3>2. (Mine /\ (pc = "sync" \/ cur = "cloudfront"))' =>
            Released("container") /\ Coded
      BY <1>0, <1>3, <2>d, <2>e
      DEF Ask, Questions, Go, Proceed, End, Following, Raise, NextQuestion,
          Mine, DoneInv, CourseInv, Built
    <3> QED
      BY <3>1, <3>2 DEF DoneInv
  <2>6. EndInv'
    BY <1>0, <1>3, <2>a, <2>b, <2>c, <2>d, <2>e DEF Ask, Questions, Go,
       Proceed, End, Following, Raise, NextQuestion, EndInv, Ok, Detail,
       Released, CourseInv
  <2>7. FrontInv'
    <3>1. Released("cloudfront") => Released("cloudfront")'
      BY <1>0, <1>3, <2>a, <2>b, <2>c, <2>d, <2>e DEF Ask, Questions, Go,
         Proceed, End, Following, Raise, NextQuestion, Released, Detail,
         Built, Stacks
    <3>2. (Mine /\ (hooking \/ pc \in {"hook", "policy", "kvs"}))' =>
            Released("cloudfront")'
      BY <1>0, <1>3, <2>a, <2>b, <2>c, <2>d, <2>e, <3>1 DEF Ask, Questions,
         Go, Proceed, End, Following, Raise, NextQuestion, FrontInv, Mine,
         CourseInv, FlagsOK, Built
    <3>3. (Mine /\ pc = "kvs")' => policy'
      BY <1>0, <1>3, <2>a, <2>b, <2>c, <2>d, <2>e, <3>1 DEF Ask, Questions,
         Go, Proceed, End, Following, Raise, NextQuestion, FrontInv, Mine,
         CourseInv, FlagsOK
    <3> QED
      BY <3>2, <3>3 DEF FrontInv
  <2> QED
    BY <2>1, <2>2, <2>3, <2>4, <2>5, <2>6, <2>7 DEF Delivering
<1>4. ASSUME AskBeforeUpdate PROVE Delivering'
  <2>1. ImageInv' /\ BornInv'
    BY <1>0, <1>4 DEF AskBeforeUpdate, Questions, Go, End, ImageInv,
       BornInv, Detail, CourseInv
  <2>2. StillInv' /\ AskedInv'
    BY <1>0, <1>4 DEF AskBeforeUpdate, Questions, Go, End, StillInv, Mine,
       Detail, Waits, Built, AskedInv, CourseInv
  <2>3. CodeInv' /\ WaitInv' /\ DoneInv'
    BY <1>0, <1>4 DEF AskBeforeUpdate, Questions, Go, End, CodeInv, Mine,
       Coded, WaitInv, Detail, Released, DoneInv, CourseInv
  <2>4. FrontInv' /\ EndInv'
    BY <1>0, <1>4 DEF AskBeforeUpdate, Questions, Go, End, FrontInv, Mine,
       Detail, Released, FlagsOK, Built, Stacks, EndInv, Ok, CourseInv
  <2> QED
    BY <2>1, <2>2, <2>3, <2>4 DEF Delivering
<1>5. ASSUME CreateVpc PROVE Delivering'
  <2>a. \A t \in Built : stack'[t] = stack[t]
    BY <1>0, <1>5, AskedParts DEF CreateVpc, Built, Stacks, Details, Working
  <2>1. ImageInv' /\ BornInv'
    BY <1>0, <1>5, <2>a DEF CreateVpc, Proceed, End, Following, ImageInv,
       BornInv, Detail, Built, CourseInv
  <2>2. StillInv' /\ AskedInv'
    BY <1>0, <1>5, <2>a DEF CreateVpc, Proceed, End, Following, StillInv,
       Mine, Detail, Waits, Built, AskedInv, CourseInv
  <2>3. CodeInv' /\ WaitInv' /\ DoneInv'
    BY <1>0, <1>5, <2>a DEF CreateVpc, Proceed, End, Following, CodeInv,
       Mine, Coded, WaitInv, Detail, Released, DoneInv, CourseInv
  <2>4. EndInv'
    BY <1>0, <1>5, <2>a DEF CreateVpc, Proceed, End, Following, EndInv, Ok,
       Detail, Released, CourseInv
  <2>5. FrontInv'
    <3>1. Released("cloudfront") => Released("cloudfront")'
      BY <1>0, <1>5, <2>a DEF CreateVpc, Proceed, End, Following, Released,
         Detail, Built, Stacks
    <3>2. (Mine /\ (hooking \/ pc \in {"hook", "policy", "kvs"}))' =>
            Released("cloudfront")'
      BY <1>0, <1>5, <2>a, <3>1 DEF CreateVpc, Proceed, End, Following,
         FrontInv, Mine, CourseInv, FlagsOK
    <3>3. (Mine /\ pc = "kvs")' => policy'
      BY <1>0, <1>5, <2>a, <3>1 DEF CreateVpc, Proceed, End, Following,
         FrontInv, Mine, CourseInv, FlagsOK
    <3> QED
      BY <3>2, <3>3 DEF FrontInv
  <2> QED
    BY <2>1, <2>2, <2>3, <2>4, <2>5 DEF Delivering
<1>6. ASSUME UpdateVpc PROVE Delivering'
  <2>a. \A t \in Built : stack'[t] = stack[t]
    BY <1>0, <1>6, AskedParts DEF UpdateVpc, Built, Stacks, Details, Working
  <2>1. ImageInv' /\ BornInv'
    BY <1>0, <1>6, <2>a DEF UpdateVpc, Proceed, End, Following, ImageInv,
       BornInv, Detail, Built, CourseInv
  <2>2. StillInv' /\ AskedInv'
    BY <1>0, <1>6, <2>a DEF UpdateVpc, Proceed, End, Following, StillInv,
       Mine, Detail, Waits, Built, AskedInv, CourseInv
  <2>3. CodeInv' /\ WaitInv' /\ DoneInv'
    BY <1>0, <1>6, <2>a DEF UpdateVpc, Proceed, End, Following, CodeInv,
       Mine, Coded, WaitInv, Detail, Released, DoneInv, CourseInv
  <2>4. EndInv'
    BY <1>0, <1>6, <2>a DEF UpdateVpc, Proceed, End, Following, EndInv, Ok,
       Detail, Released, CourseInv
  <2>5. FrontInv'
    <3>1. Released("cloudfront") => Released("cloudfront")'
      BY <1>0, <1>6, <2>a DEF UpdateVpc, Proceed, End, Following, Released,
         Detail, Built, Stacks
    <3>2. (Mine /\ (hooking \/ pc \in {"hook", "policy", "kvs"}))' =>
            Released("cloudfront")'
      BY <1>0, <1>6, <2>a, <3>1 DEF UpdateVpc, Proceed, End, Following,
         FrontInv, Mine, CourseInv, FlagsOK
    <3>3. (Mine /\ pc = "kvs")' => policy'
      BY <1>0, <1>6, <2>a, <3>1 DEF UpdateVpc, Proceed, End, Following,
         FrontInv, Mine, CourseInv, FlagsOK
    <3> QED
      BY <3>2, <3>3 DEF FrontInv
  <2> QED
    BY <2>1, <2>2, <2>3, <2>4, <2>5 DEF Delivering
<1>7. ASSUME WaitForVpc PROVE Delivering'
  <2>1. ImageInv' /\ BornInv'
    BY <1>0, <1>7 DEF WaitForVpc, ImageInv, BornInv, Detail, CourseInv
  <2>2. StillInv' /\ AskedInv'
    BY <1>0, <1>7 DEF WaitForVpc, StillInv, Mine, Detail, Waits, Built,
       AskedInv, CourseInv
  <2>3. CodeInv' /\ WaitInv' /\ DoneInv'
    BY <1>0, <1>7 DEF WaitForVpc, CodeInv, Mine, Coded, WaitInv, Detail,
       Released, DoneInv, CourseInv
  <2>4. FrontInv' /\ EndInv'
    BY <1>0, <1>7 DEF WaitForVpc, FrontInv, Mine, Detail, Released, FlagsOK,
       Built, Stacks, EndInv, Ok, CourseInv
  <2> QED
    BY <2>1, <2>2, <2>3, <2>4 DEF Delivering
<1>8. ASSUME Poll PROVE Delivering'
  <2>a. \/ Raise
        \/ /\ AfterWait
           /\ Mine /\ pc = "wait" => Released(cur) /\ (cur = "container" => Coded)
    <3>1. ASSUME Mine, pc = "wait", ~RolledBack, CfnStatus(Waited) = "COMPLETED"
          PROVE  Released(cur) /\ (cur = "container" => Coded)
      <4>1. Detail(cur) \in AtRest
        BY <1>0, <3>1
        DEF CfnStatus, Waited, RunOK, StacksOK, StackType, Details, Detail
      <4>2. Detail(cur) \notin RollbackDetails \/ baseline = Detail(cur)
        BY <3>1 DEF RolledBack, Waited
      <4> QED
        BY <1>0, <3>1, <4>1, <4>2
        DEF WaitInv, AtRest, RollbackDetails, Unborn
    <3> QED
      BY <1>8, <3>1 DEF Poll
  <2>b. Mine /\ ~Raise => \A s \in Built : Detail(s) \notin Working
    BY <1>0, <1>8, <2>a
    DEF Poll, StillInv, Waits, Released, AtRest, Working
  <2>1. ImageInv' /\ BornInv'
    BY <1>0, <1>8, <2>a, <2>b DEF Poll, AfterWait, Go, Proceed, End,
       Following, Raise, ImageInv, BornInv, Detail, CourseInv
  <2>2. AskedInv'
    BY <1>0, <1>8, <2>a, <2>b DEF Poll, AfterWait, Go, Proceed, End,
       Following, Raise, AskedInv, Mine, Detail, CourseInv
  <2>3. StillInv'
    <3>1. CASE Raise
      BY <3>1 DEF Raise, End, StillInv, Mine
    <3>2. CASE ~Raise
      BY <1>0, <1>8, <2>b, <3>2 DEF Poll, StillInv, Mine, Detail
    <3> QED
      BY <3>1, <3>2
  <2>4. CodeInv' /\ WaitInv' /\ DoneInv'
    BY <1>0, <1>8, <2>a, <2>b DEF Poll, AfterWait, Go, Proceed, End,
       Following, Raise, CodeInv, Mine, Coded, WaitInv, Detail, Released,
       DoneInv, CourseInv
  <2>5. EndInv'
    BY <1>0, <1>8, <2>a, <2>b DEF Poll, AfterWait, Go, Proceed, End,
       Following, Raise, EndInv, Ok, Detail, Released, CourseInv
  <2>6. FrontInv'
    <3> SUFFICES ASSUME Mine' PROVE FrontInv'
      BY DEF FrontInv
    <3>1. Released("cloudfront") => Released("cloudfront")'
      BY <1>8 DEF Poll, Released, Detail
    <3>2. cur' # "cloudfront" => ~hooking' /\ pc' \notin {"hook", "policy", "kvs"}
      <4>1. ~hooking
        BY <1>0, <1>8 DEF Poll, CourseInv
      <4>2. CASE Raise
        BY <4>2 DEF Raise, End
      <4>3. CASE AfterWait /\ pc = "wait_vpc"
        BY <1>0, <4>1, <4>3 DEF AfterWait, Go, FlagsOK
      <4>4. CASE AfterWait /\ pc = "wait"
        BY <1>0, <4>1, <4>4
        DEF AfterWait, Go, Proceed, End, FlagsOK, RunOK, Stacks, CourseInv
      <4> QED
        BY <1>8, <4>2, <4>3, <4>4 DEF Poll
    <3> QED
      BY <1>0, <1>8, <2>a, <3>1, <3>2
      DEF Poll, AfterWait, Go, Proceed, End, Following, Raise, FrontInv, Mine,
          CourseInv, FlagsOK
  <2> QED
    BY <2>1, <2>2, <2>3, <2>4, <2>5, <2>6 DEF Delivering
<1>9. ASSUME CreateContainer PROVE Delivering'
  <2>a. /\ \A t \in Stacks : t # "container" => stack'[t] = stack[t]
        /\ stack'["container"].detail = "CREATE_IN_PROGRESS"
        /\ stack'["container"].template = stack["container"].template
        /\ stack'["container"].next = Template("container")
    BY <1>0, <1>9, AskedParts DEF CreateContainer, Stacks, Details, Working
  <2>b. Mine => Template("container") = TemplateOf("container", release, TRUE)
    BY DeployTemplate DEF Mine, Stacks
  <2>1. ImageInv' /\ BornInv'
    BY <1>0, <1>9, <2>a, <2>b DEF CreateContainer, AwaitOperation,
       CanCreate, ImageInv, BornInv, Detail, Unborn, CourseInv
  <2>2. StillInv' /\ AskedInv'
    BY <1>0, <1>9, <2>a, <2>b DEF CreateContainer, AwaitOperation,
       CanCreate, StillInv, Mine, Detail, Waits, Built, Stacks, Working,
       AskedInv, CourseInv
  <2>3. CodeInv' /\ WaitInv' /\ DoneInv'
    BY <1>0, <1>9, <2>a, <2>b DEF CreateContainer, AwaitOperation,
       CanCreate, CodeInv, Mine, Coded, WaitInv, Detail, Released, Stacks,
       Unborn, AskedInv, DoneInv, CourseInv
  <2>4. FrontInv' /\ EndInv'
    BY <1>0, <1>9, <2>a, <2>b DEF CreateContainer, AwaitOperation,
       CanCreate, FrontInv, Mine, Detail, Released, FlagsOK, Built, Stacks,
       EndInv, Ok, CourseInv
  <2> QED
    BY <2>1, <2>2, <2>3, <2>4 DEF Delivering
<1>10. ASSUME UpdateContainer PROVE Delivering'
  <2>1. ImageInv' /\ BornInv'
    BY <1>0, <1>10 DEF UpdateContainer, ImageInv, BornInv, Detail, CourseInv
  <2>2. StillInv' /\ AskedInv'
    BY <1>0, <1>10 DEF UpdateContainer, StillInv, Mine, Detail, Waits,
       Built, AskedInv, CourseInv
  <2>3. CodeInv' /\ WaitInv' /\ DoneInv'
    BY <1>0, <1>10 DEF UpdateContainer, CodeInv, Mine, Coded, AskedInv,
       WaitInv, Detail, Released, DoneInv, CourseInv
  <2>4. FrontInv' /\ EndInv'
    BY <1>0, <1>10 DEF UpdateContainer, FrontInv, Mine, Detail, Released,
       FlagsOK, Built, Stacks, EndInv, Ok, CourseInv
  <2> QED
    BY <2>1, <2>2, <2>3, <2>4 DEF Delivering
<1>11. ASSUME WaitUpdates PROVE Delivering'
  <2>1. ImageInv' /\ BornInv'
    BY <1>0, <1>11 DEF WaitUpdates, Go, Raise, End, ImageInv, BornInv,
       Detail, CourseInv
  <2>2. StillInv' /\ AskedInv'
    BY <1>0, <1>11 DEF WaitUpdates, Go, Raise, End, StillInv, Mine, Detail,
       Waits, Built, AskedInv, CourseInv
  <2>3. CodeInv' /\ WaitInv' /\ DoneInv'
    BY <1>0, <1>11 DEF WaitUpdates, Go, Raise, End, CodeInv, Mine, Coded,
       FunctionsOK, FunctionType, FunctionStatuses, WaitInv, Detail,
       Released, DoneInv, CourseInv
  <2>4. EndInv'
    BY <1>0, <1>11 DEF WaitUpdates, Go, Raise, End, EndInv, Ok, Detail,
       Released, CourseInv
  <2>5. FrontInv'
    <3>1. Released("cloudfront") => Released("cloudfront")'
      BY <1>0, <1>11 DEF WaitUpdates, Go, Raise, End, Released, Detail,
         Built, Stacks
    <3>2. (Mine /\ (hooking \/ pc \in {"hook", "policy", "kvs"}))' =>
            Released("cloudfront")'
      BY <1>0, <1>11, <3>1 DEF WaitUpdates, Go, Raise, End, FrontInv, Mine,
         CourseInv, FlagsOK
    <3>3. (Mine /\ pc = "kvs")' => policy'
      BY <1>0, <1>11, <3>1 DEF WaitUpdates, Go, Raise, End, FrontInv, Mine,
         CourseInv, FlagsOK
    <3> QED
      BY <3>2, <3>3 DEF FrontInv
  <2> QED
    BY <2>1, <2>2, <2>3, <2>4, <2>5 DEF Delivering
<1>12. ASSUME UpdateContainerStack PROVE Delivering'
  <2>a. \/ stack' = stack
        \/ /\ \A t \in Stacks : t # "container" => stack'[t] = stack[t]
           /\ stack'["container"].detail = "UPDATE_IN_PROGRESS"
           /\ stack'["container"].template = stack["container"].template
           /\ stack'["container"].next = Template("container")
    BY <1>0, <1>12, AskedParts
    DEF UpdateContainerStack, Stacks, Details, Working
  <2>b. Mine => Template("container") = TemplateOf("container", release, TRUE)
    BY DeployTemplate DEF Mine, Stacks
  <2>1. ImageInv' /\ BornInv'
    BY <1>0, <1>12, <2>a, <2>b DEF UpdateContainerStack, AwaitOperation,
       CanUpdate, YamlSynced, ImageInv, BornInv, Detail, Unborn, Stacks,
       RestInv, AtRest, CourseInv
  <2>2. StillInv' /\ AskedInv'
    BY <1>0, <1>12, <2>a, <2>b DEF UpdateContainerStack, AwaitOperation,
       CanUpdate, YamlSynced, StillInv, Mine, Detail, Waits, Built, Stacks,
       Working, RestInv, AtRest, AskedInv, CourseInv
  <2>3. CodeInv' /\ DoneInv'
    BY <1>0, <1>12, <2>a, <2>b DEF UpdateContainerStack, AwaitOperation,
       CanUpdate, YamlSynced, CodeInv, Mine, Coded, DoneInv, Detail,
       Released, Stacks, RestInv, AtRest, CourseInv
  <2>4. WaitInv'
    <3> SUFFICES ASSUME (Mine /\ pc = "wait")' PROVE WaitInv'
      BY DEF WaitInv
    <3>1. Mine /\ cur' = "container" /\ release' = release
      BY <1>0, <1>12
      DEF UpdateContainerStack, AwaitOperation, Raise, End, Mine, CourseInv
    <3>2. /\ stack'["container"].detail = "UPDATE_IN_PROGRESS"
          /\ baseline' = "UPDATE_IN_PROGRESS"
          /\ stack'["container"].next = TemplateOf("container", release, TRUE)
      BY <1>0, <1>12, <2>b, <3>1, AskedParts
      DEF UpdateContainerStack, AwaitOperation, Stacks, Details, Working
    <3>3. Coded'
      BY <1>0, <1>12, <3>1 DEF UpdateContainerStack, CodeInv, Coded
    <3> QED
      BY <3>1, <3>2, <3>3 DEF WaitInv, Detail
  <2>5. EndInv'
    BY <1>0, <1>12, <2>a, <2>b DEF UpdateContainerStack, AwaitOperation,
       CanUpdate, YamlSynced, EndInv, Ok, Detail, Released, CourseInv
  <2>6. FrontInv'
    <3>1. Released("cloudfront") => Released("cloudfront")'
      BY <1>0, <1>12, <2>a, <2>b DEF UpdateContainerStack, AwaitOperation,
         CanUpdate, YamlSynced, Released, Detail, Built, Stacks
    <3>2. (Mine /\ (hooking \/ pc \in {"hook", "policy", "kvs"}))' =>
            Released("cloudfront")'
      BY <1>0, <1>12, <2>a, <2>b, <3>1 DEF UpdateContainerStack,
         AwaitOperation, CanUpdate, YamlSynced, FrontInv, Mine, CourseInv,
         FlagsOK
    <3>3. (Mine /\ pc = "kvs")' => policy'
      BY <1>0, <1>12, <2>a, <2>b, <3>1 DEF UpdateContainerStack,
         AwaitOperation, CanUpdate, YamlSynced, FrontInv, Mine, CourseInv,
         FlagsOK
    <3> QED
      BY <3>2, <3>3 DEF FrontInv
  <2> QED
    BY <2>1, <2>2, <2>3, <2>4, <2>5, <2>6 DEF Delivering
<1>13. ASSUME Synced PROVE Delivering'
  <2>1. ImageInv' /\ BornInv'
    BY <1>0, <1>13 DEF Synced, Proceed, End, Following, ImageInv, BornInv,
       Detail, CourseInv
  <2>2. StillInv' /\ AskedInv'
    BY <1>0, <1>13 DEF Synced, Proceed, End, Following, StillInv, Mine,
       Detail, Waits, Built, AskedInv, CourseInv
  <2>3. CodeInv' /\ WaitInv' /\ DoneInv'
    BY <1>0, <1>13 DEF Synced, Proceed, End, Following, CodeInv, Mine,
       Coded, WaitInv, Detail, Released, DoneInv, CourseInv
  <2>4. EndInv'
    BY <1>0, <1>13 DEF Synced, Proceed, End, Following, EndInv, Ok, Detail,
       Released, CourseInv
  <2>5. FrontInv'
    <3>1. Released("cloudfront") => Released("cloudfront")'
      BY <1>0, <1>13 DEF Synced, Proceed, End, Following, Released, Detail,
         Built, Stacks
    <3>2. (Mine /\ (hooking \/ pc \in {"hook", "policy", "kvs"}))' =>
            Released("cloudfront")'
      BY <1>0, <1>13, <3>1 DEF Synced, Proceed, End, Following, FrontInv,
         Mine, CourseInv, FlagsOK
    <3>3. (Mine /\ pc = "kvs")' => policy'
      BY <1>0, <1>13, <3>1 DEF Synced, Proceed, End, Following, FrontInv,
         Mine, CourseInv, FlagsOK
    <3> QED
      BY <3>2, <3>3 DEF FrontInv
  <2> QED
    BY <2>1, <2>2, <2>3, <2>4, <2>5 DEF Delivering
<1>14. ASSUME UpdateCloudFront PROVE Delivering'
  <2>a. \/ stack' = stack
        \/ /\ \A t \in Stacks : t # "cloudfront" => stack'[t] = stack[t]
           /\ stack'["cloudfront"].detail = baseline'
           /\ baseline' \in {"CREATE_IN_PROGRESS", "UPDATE_IN_PROGRESS"}
           /\ stack'["cloudfront"].template = stack["cloudfront"].template
           /\ stack'["cloudfront"].next = Template("cloudfront")
    BY <1>0, <1>14, AskedParts
    DEF UpdateCloudFront, AwaitOperation, Stacks, Details, Working
  <2>b. Mine => Template("cloudfront") = TemplateOf("cloudfront", release, TRUE)
    BY DeployTemplate DEF Mine, Stacks
  <2>1. ImageInv' /\ BornInv'
    BY <1>0, <1>14, <2>a, <2>b DEF UpdateCloudFront, AwaitOperation,
       CanUpdate, YamlSynced, CfnStatus, Raise, End, ImageInv, BornInv,
       Detail, Stacks, CourseInv
  <2>2. StillInv' /\ AskedInv'
    BY <1>0, <1>14, <2>a, <2>b DEF UpdateCloudFront, AwaitOperation,
       CanUpdate, YamlSynced, CfnStatus, Raise, End, StillInv, Mine, Detail,
       Waits, Built, Stacks, Working, AskedInv, CourseInv
  <2>3. CodeInv' /\ DoneInv'
    BY <1>0, <1>14, <2>a, <2>b DEF UpdateCloudFront, AwaitOperation,
       CanUpdate, YamlSynced, CfnStatus, Raise, End, CodeInv, Mine, Coded,
       DoneInv, Detail, Released, Stacks, CourseInv
  <2>4. WaitInv'
    <3> SUFFICES ASSUME (Mine /\ pc = "wait")' PROVE WaitInv'
      BY DEF WaitInv
    <3>1. Mine /\ cur' = "cloudfront" /\ release' = release
      BY <1>0, <1>14
      DEF UpdateCloudFront, AwaitOperation, Raise, End, Mine, CourseInv
    <3>2. CASE YamlSynced("cloudfront") /\ CfnStatus("cloudfront") # "NOEXIST"
      <4>1. Detail("cloudfront") # "NOT_CREATED"
        BY <3>2 DEF CfnStatus, Working, Broken
      <4>2. Released("cloudfront")
        BY <1>0, <1>14, <2>b, <3>1, <3>2, <4>1
        DEF UpdateCloudFront, AskedInv, Released, YamlSynced
      <4>3. stack' = stack
        BY <1>14, <3>2 DEF UpdateCloudFront
      <4> QED
        BY <3>1, <4>2, <4>3 DEF WaitInv, Released, Detail
    <3>3. CASE ~(YamlSynced("cloudfront") /\ CfnStatus("cloudfront") # "NOEXIST")
      <4>1. \E d \in {"CREATE_IN_PROGRESS", "UPDATE_IN_PROGRESS"} :
              SetToWork("cloudfront", d) /\ baseline' = d
        BY <1>14, <3>1, <3>3
        DEF UpdateCloudFront, AwaitOperation, Raise, End, Mine
      <4>2. /\ stack'["cloudfront"].detail = baseline'
            /\ baseline' \in {"CREATE_IN_PROGRESS", "UPDATE_IN_PROGRESS"}
            /\ stack'["cloudfront"].next = TemplateOf("cloudfront", release, TRUE)
        BY <1>0, <2>b, <3>1, <4>1, AskedParts DEF Stacks, Details, Working
      <4> QED
        BY <3>1, <4>2 DEF WaitInv, Detail
    <3> QED
      BY <3>2, <3>3
  <2>5. EndInv'
    BY <1>0, <1>14, <2>a, <2>b DEF UpdateCloudFront, AwaitOperation,
       CanUpdate, YamlSynced, CfnStatus, Raise, End, EndInv, Ok, Detail,
       Released, CourseInv
  <2>6. FrontInv'
    <3>2. (Mine /\ (hooking \/ pc \in {"hook", "policy", "kvs"}))' =>
            Released("cloudfront")'
      BY <1>0, <1>14, <2>a, <2>b DEF UpdateCloudFront, AwaitOperation,
         CanUpdate, YamlSynced, CfnStatus, Raise, End, FrontInv, Mine,
         CourseInv, FlagsOK
    <3>3. (Mine /\ pc = "kvs")' => policy'
      BY <1>0, <1>14, <2>a, <2>b DEF UpdateCloudFront, AwaitOperation,
         CanUpdate, YamlSynced, CfnStatus, Raise, End, FrontInv, Mine,
         CourseInv, FlagsOK
    <3> QED
      BY <3>2, <3>3 DEF FrontInv
  <2> QED
    BY <2>1, <2>2, <2>3, <2>4, <2>5, <2>6 DEF Delivering
<1>15. ASSUME Hook PROVE Delivering'
  <2>a. Mine => StackStatus("cloudfront") = "COMPLETED" /\ Released("cloudfront")
    <3> SUFFICES ASSUME Mine
                 PROVE  /\ StackStatus("cloudfront") = "COMPLETED"
                        /\ Released("cloudfront")
      OBVIOUS
    <3>1. Released("cloudfront")
      BY <1>0, <1>15 DEF Hook, FrontInv
    <3>2. YamlSynced("cloudfront")
      BY <3>1, DeployTemplate DEF YamlSynced, Released, Mine, Stacks
    <3> QED
      BY <3>1, <3>2
      DEF Released, AtRest, StackStatus, CfnStatus, Detail, Working, Broken
  <2>1. ImageInv' /\ BornInv'
    BY <1>0, <1>15, <2>a DEF Hook, Go, Proceed, End, Following, ImageInv,
       BornInv, Detail, CourseInv
  <2>2. StillInv' /\ AskedInv'
    BY <1>0, <1>15, <2>a DEF Hook, Go, Proceed, End, Following, StillInv,
       Mine, Detail, Waits, Built, AskedInv, CourseInv
  <2>3. CodeInv' /\ WaitInv' /\ DoneInv'
    BY <1>0, <1>15, <2>a DEF Hook, Go, Proceed, End, Following, CodeInv,
       Mine, Coded, WaitInv, Detail, Released, DoneInv, CourseInv
  <2>4. FrontInv' /\ EndInv'
    BY <1>0, <1>15, <2>a DEF Hook, Go, Proceed, End, Following, FrontInv,
       Mine, Detail, Released, FlagsOK, Built, Stacks, EndInv, Ok, CourseInv
  <2> QED
    BY <2>1, <2>2, <2>3, <2>4 DEF Delivering
<1>16. ASSUME EnsureBucketPolicy PROVE Delivering'
  <2>1. ImageInv' /\ BornInv'
    BY <1>0, <1>16 DEF EnsureBucketPolicy, Go, ImageInv, BornInv, Detail,
       CourseInv
  <2>2. StillInv' /\ AskedInv'
    BY <1>0, <1>16 DEF EnsureBucketPolicy, Go, StillInv, Mine, Detail,
       Waits, Built, AskedInv, CourseInv
  <2>3. CodeInv' /\ WaitInv' /\ DoneInv'
    BY <1>0, <1>16 DEF EnsureBucketPolicy, Go, CodeInv, Mine, Coded,
       WaitInv, Detail, Released, DoneInv, CourseInv
  <2>4. FrontInv' /\ EndInv'
    BY <1>0, <1>16 DEF EnsureBucketPolicy, Go, FrontInv, Mine, Detail,
       Released, FlagsOK, Built, Stacks, EndInv, Ok, CourseInv
  <2> QED
    BY <2>1, <2>2, <2>3, <2>4 DEF Delivering
<1>17. ASSUME WriteTokenToKvs PROVE Delivering'
  <2>1. ImageInv' /\ BornInv'
    BY <1>0, <1>17 DEF WriteTokenToKvs, Proceed, End, Following, ImageInv,
       BornInv, Detail, CourseInv
  <2>2. StillInv' /\ AskedInv'
    BY <1>0, <1>17 DEF WriteTokenToKvs, Proceed, End, Following, StillInv,
       Mine, Detail, Waits, Built, AskedInv, CourseInv
  <2>3. CodeInv' /\ WaitInv' /\ DoneInv'
    BY <1>0, <1>17 DEF WriteTokenToKvs, Proceed, End, Following, CodeInv,
       Mine, Coded, WaitInv, Detail, Released, DoneInv, CourseInv
  <2>4. FrontInv' /\ EndInv'
    BY <1>0, <1>17 DEF WriteTokenToKvs, Proceed, End, Following, FrontInv,
       Mine, Detail, Released, FlagsOK, Built, Stacks, EndInv, Ok, DoneInv,
       ImageInv, Coded, CourseInv
  <2> QED
    BY <2>1, <2>2, <2>3, <2>4 DEF Delivering
<1>18. ASSUME NEW h \in Handlers, UpdateCode(h) PROVE Delivering'
  <2>1. ImageInv' /\ BornInv'
    BY <1>0, <1>18 DEF UpdateCode, FunctionsOK, FunctionType, Raise, End,
       ImageInv, BornInv, Detail, CourseInv
  <2>2. StillInv' /\ AskedInv'
    BY <1>0, <1>18 DEF UpdateCode, FunctionsOK, FunctionType, Raise, End,
       StillInv, Mine, Detail, Waits, Built, AskedInv, CourseInv
  <2>3. WaitInv' /\ DoneInv'
    BY <1>0, <1>18 DEF UpdateCode, FunctionsOK, FunctionType, Raise, End,
       WaitInv, Mine, Detail, Released, Coded, DoneInv, CourseInv
  <2>4. CodeInv'
    BY <1>0, <1>18 DEF UpdateCode, FunctionsOK, FunctionType, Raise, End,
       CodeInv, Mine, Coded, CourseInv
  <2>5. EndInv'
    BY <1>0, <1>18 DEF UpdateCode, FunctionsOK, FunctionType, Raise, End,
       EndInv, Ok, Detail, Released, CourseInv
  <2>6. FrontInv'
    <3>1. Released("cloudfront") => Released("cloudfront")'
      BY <1>0, <1>18 DEF UpdateCode, FunctionsOK, FunctionType, Raise, End,
         Released, Detail, Built, Stacks
    <3>2. (Mine /\ (hooking \/ pc \in {"hook", "policy", "kvs"}))' =>
            Released("cloudfront")'
      BY <1>0, <1>18, <3>1 DEF UpdateCode, FunctionsOK, FunctionType, Raise,
         End, FrontInv, Mine, CourseInv, FlagsOK
    <3>3. (Mine /\ pc = "kvs")' => policy'
      BY <1>0, <1>18, <3>1 DEF UpdateCode, FunctionsOK, FunctionType, Raise,
         End, FrontInv, Mine, CourseInv, FlagsOK
    <3> QED
      BY <3>2, <3>3 DEF FrontInv
  <2> QED
    BY <2>1, <2>2, <2>3, <2>4, <2>5, <2>6 DEF Delivering
<1>19. ASSUME NEW h \in Handlers, SyncEnv(h) PROVE Delivering'
  <2>1. ImageInv' /\ BornInv'
    BY <1>0, <1>19 DEF SyncEnv, FunctionsOK, FunctionType, Raise, End,
       ImageInv, BornInv, Detail, CourseInv
  <2>2. StillInv' /\ AskedInv'
    BY <1>0, <1>19 DEF SyncEnv, FunctionsOK, FunctionType, Raise, End,
       StillInv, Mine, Detail, Waits, Built, AskedInv, CourseInv
  <2>3. CodeInv' /\ WaitInv'
    BY <1>0, <1>19 DEF SyncEnv, FunctionsOK, FunctionType, Raise, End,
       CodeInv, Mine, Coded, WaitInv, Detail, Released, CourseInv
  <2>4. DoneInv'
    <3> SUFFICES ASSUME (Mine /\ (pc = "sync" \/ cur = "cloudfront"))'
                 PROVE  Released("container")' /\ Coded'
      BY DEF DoneInv
    <3>1. Released("container") /\ Coded
      BY <1>0, <1>19 DEF SyncEnv, Raise, End, Mine, DoneInv
    <3>2. Released("container")'
      BY <1>19, <3>1 DEF SyncEnv, Released, Detail
    <3>3. Coded'
      BY <1>0, <1>19, <3>1 DEF SyncEnv, Coded, FunctionsOK, FunctionType
    <3> QED
      BY <3>2, <3>3
  <2>5. EndInv'
    BY <1>0, <1>19 DEF SyncEnv, FunctionsOK, FunctionType, Raise, End,
       EndInv, Ok, Detail, Released, CourseInv
  <2>6. FrontInv'
    <3>1. Released("cloudfront") => Released("cloudfront")'
      BY <1>0, <1>19 DEF SyncEnv, FunctionsOK, FunctionType, Raise, End,
         Released, Detail, Built, Stacks
    <3>2. (Mine /\ (hooking \/ pc \in {"hook", "policy", "kvs"}))' =>
            Released("cloudfront")'
      BY <1>0, <1>19, <3>1 DEF SyncEnv, FunctionsOK, FunctionType, Raise,
         End, FrontInv, Mine, CourseInv, FlagsOK
    <3>3. (Mine /\ pc = "kvs")' => policy'
      BY <1>0, <1>19, <3>1 DEF SyncEnv, FunctionsOK, FunctionType, Raise,
         End, FrontInv, Mine, CourseInv, FlagsOK
    <3> QED
      BY <3>2, <3>3 DEF FrontInv
  <2> QED
    BY <2>1, <2>2, <2>3, <2>4, <2>5, <2>6 DEF Delivering
<1>20. ASSUME StartUpdate PROVE Delivering'
  <2>1. ImageInv' /\ BornInv'
    BY <1>0, <1>20 DEF StartUpdate, Begin, ImageInv, BornInv, Detail,
       CourseInv
  <2>2. StillInv' /\ AskedInv'
    BY <1>0, <1>20 DEF StartUpdate, Begin, StillInv, Mine, Detail, Waits,
       Built, AskedInv, CourseInv
  <2>3. CodeInv' /\ WaitInv' /\ DoneInv'
    BY <1>0, <1>20 DEF StartUpdate, Begin, CodeInv, Mine, Coded, WaitInv,
       Detail, Released, DoneInv, CourseInv
  <2>4. FrontInv' /\ EndInv'
    BY <1>0, <1>20 DEF StartUpdate, Begin, FrontInv, Mine, Detail, Released,
       FlagsOK, Built, Stacks, EndInv, Ok, CourseInv
  <2> QED
    BY <2>1, <2>2, <2>3, <2>4 DEF Delivering
<1>21. ASSUME Interrupt PROVE Delivering'
  <2>1. ImageInv' /\ BornInv'
    BY <1>0, <1>21 DEF Interrupt, Raise, End, ImageInv, BornInv, Detail,
       CourseInv
  <2>2. StillInv' /\ AskedInv'
    BY <1>0, <1>21 DEF Interrupt, Raise, End, StillInv, Mine, Detail, Waits,
       Built, AskedInv, CourseInv
  <2>3. CodeInv' /\ WaitInv' /\ DoneInv'
    BY <1>0, <1>21 DEF Interrupt, Raise, End, CodeInv, Mine, Coded, WaitInv,
       Detail, Released, DoneInv, CourseInv
  <2>4. FrontInv' /\ EndInv'
    BY <1>0, <1>21 DEF Interrupt, Raise, End, FrontInv, Mine, Detail,
       Released, FlagsOK, Built, Stacks, EndInv, Ok, CourseInv
  <2> QED
    BY <2>1, <2>2, <2>3, <2>4 DEF Delivering
<1>22. ASSUME NEW r \in Releases, Change(r) PROVE Delivering'
  <2>1. cur # "vpc" => cur \in Built
    BY <1>0 DEF RunOK, Stacks, Built
  <2> QED
    BY <1>0, <1>22, <2>1, Aside DEF Change
<1>23. ASSUME NEW s \in Stacks, Complete(s) PROVE Delivering'
  <2>0. UNCHANGED <<image, policy, order, place, outcome>>
    BY <1>23 DEF Complete
  <2>1. \A t \in Stacks : t # s => stack'[t] = stack[t]
    BY <1>0, <1>23, SettledParts
    DEF Complete, Details, Working, Broken, AtRest
  <2>2.
        \/ /\ stack[s].detail = "CREATE_IN_PROGRESS"
           /\ stack'[s].detail = "CREATE_COMPLETE"
           /\ stack'[s].template = stack[s].next
        \/ /\ stack[s].detail = "UPDATE_IN_PROGRESS"
           /\ stack'[s].detail = "UPDATE_COMPLETE"
           /\ stack'[s].template = stack[s].next
    BY <1>0, <1>23, SettledParts
    DEF Complete, Detail, Details, Working, Broken, AtRest
  <2>3. Detail(s) \in Working
    BY <1>23 DEF Complete, Working
  <2>4. BornInv'
    <3>1. CASE s # "container"
      BY <1>0, <1>23, <2>1, <3>1 DEF Complete, BornInv, Detail, Stacks
    <3>2. CASE s = "container"
      BY <1>0, <1>23, <2>2, <3>2
      DEF Complete, BornInv, Detail, Unborn, FunctionsOK, FunctionType
    <3> QED
      BY <3>1, <3>2
  <2>5. Mine /\ Waits(s) => WaitInv'
    <3> SUFFICES ASSUME Mine, Waits(s) PROVE WaitInv'
      OBVIOUS
    <3>1. /\ cur = s /\ cur' = s /\ pc = "wait"
          /\ baseline' = baseline /\ release' = release
      BY <2>0 DEF Waits, order, place
    <3>2. /\ Detail(s) \in Working =>
              \/ /\ Detail(s) \in {"CREATE_IN_PROGRESS", "UPDATE_IN_PROGRESS"}
                 /\ stack[s].next = TemplateOf(s, release, TRUE)
                 /\ baseline = Detail(s)
              \/ /\ Detail(s) \in RollbackDetails
                 /\ baseline \in {"CREATE_IN_PROGRESS", "UPDATE_IN_PROGRESS"}
          /\ s = "container" => Detail(s) \in Unborn \/ Coded
      BY <1>0, <3>1 DEF WaitInv, Released, Working, AtRest
    <3>3. \/ /\ Detail(s)' \in RollbackDetails
             /\ baseline' \in {"CREATE_IN_PROGRESS", "UPDATE_IN_PROGRESS"}
          \/ Released(s)'
      BY <2>2, <2>3, <3>1, <3>2
      DEF Detail, RollbackDetails, Released, AtRest
    <3>4. s = "container" => Detail(s)' \in Unborn \/ Coded'
      BY <1>0, <1>23, <2>0, <2>2, <2>3, <3>1, <3>2
      DEF Complete, Detail, Unborn, Coded, FunctionsOK, FunctionType,
          AloneInv, order
    <3> QED
      BY <3>1, <3>3, <3>4 DEF WaitInv, Detail, Released
  <2>8. CASE s = "vpc"
    <3>1. \A t \in Built : stack'[t] = stack[t]
      BY <2>1, <2>8 DEF Built, Stacks
    <3>2. cur # "vpc" => cur \in Built
      BY <1>0 DEF RunOK, Stacks, Built
    <3>3. UNCHANGED <<fn, kvs>>
      BY <1>23, <2>8 DEF Complete
    <3> QED
      BY <1>0, <2>0, <3>1, <3>2, <3>3, Aside
  <2>9. CASE s \in Built
    <3>1. s = "cloudfront" => fn' = fn
      BY <1>23 DEF Complete
    <3>2. \A h \in Handlers :
            fn'[h].status = fn[h].status \/ fn'[h].status = "COMPLETED"
      BY <1>0, <1>23 DEF Complete, FunctionsOK, FunctionType
    <3> QED
      BY <1>0, <2>0, <2>1, <2>3, <2>4, <2>5, <2>9, <3>1, <3>2, WorkedOn
  <2> QED
    BY <2>8, <2>9 DEF Built, Stacks
<1>24. ASSUME NEW s \in Stacks, FinishRollback(s) PROVE Delivering'
  <2>0. UNCHANGED <<image, policy, order, place, outcome>>
    BY <1>24 DEF FinishRollback
  <2>1. \A t \in Stacks : t # s => stack'[t] = stack[t]
    BY <1>0, <1>24, SettledParts
    DEF FinishRollback, Details, Working, Broken, AtRest
  <2>2.
        \/ /\ stack[s].detail = "ROLLBACK_IN_PROGRESS"
           /\ stack'[s].detail = "ROLLBACK_COMPLETE"
           /\ stack'[s].template = stack[s].template
        \/ /\ stack[s].detail = "UPDATE_ROLLBACK_IN_PROGRESS"
           /\ stack'[s].detail = "UPDATE_ROLLBACK_COMPLETE"
           /\ stack'[s].template = stack[s].template
    BY <1>0, <1>24, SettledParts
    DEF FinishRollback, Detail, Details, Working, Broken, AtRest
  <2>3. Detail(s) \in Working
    BY <1>24 DEF FinishRollback, Working
  <2>4. BornInv'
    <3>1. CASE s # "container"
      BY <1>0, <1>24, <2>1, <3>1
      DEF FinishRollback, Restored, BornInv, Detail, Stacks
    <3>2. CASE s = "container"
      BY <1>0, <1>24, <2>2, <3>2
      DEF FinishRollback, Restored, BornInv, Detail, Unborn, FunctionsOK,
          FunctionType
    <3> QED
      BY <3>1, <3>2
  <2>5. Mine /\ Waits(s) => WaitInv'
    <3> SUFFICES ASSUME Mine, Waits(s) PROVE WaitInv'
      OBVIOUS
    <3>1. /\ cur = s /\ cur' = s /\ pc = "wait"
          /\ baseline' = baseline /\ release' = release
      BY <2>0 DEF Waits, order, place
    <3>2. /\ Detail(s) \in Working =>
              \/ /\ Detail(s) \in {"CREATE_IN_PROGRESS", "UPDATE_IN_PROGRESS"}
                 /\ stack[s].next = TemplateOf(s, release, TRUE)
                 /\ baseline = Detail(s)
              \/ /\ Detail(s) \in RollbackDetails
                 /\ baseline \in {"CREATE_IN_PROGRESS", "UPDATE_IN_PROGRESS"}
          /\ s = "container" => Detail(s) \in Unborn \/ Coded
      BY <1>0, <3>1 DEF WaitInv, Released, Working, AtRest
    <3>3. \/ /\ Detail(s)' \in RollbackDetails
             /\ baseline' \in {"CREATE_IN_PROGRESS", "UPDATE_IN_PROGRESS"}
          \/ Released(s)'
      BY <2>2, <2>3, <3>1, <3>2
      DEF Detail, RollbackDetails, Released, AtRest
    <3>4. s = "container" => Detail(s)' \in Unborn \/ Coded'
      BY <1>0, <1>24, <2>0, <2>2, <2>3, <3>1, <3>2
      DEF FinishRollback, Restored, Detail, Unborn, Coded, FunctionsOK,
          FunctionType, AloneInv, order
    <3> QED
      BY <3>1, <3>3, <3>4 DEF WaitInv, Detail, Released
  <2>8. CASE s = "vpc"
    <3>1. \A t \in Built : stack'[t] = stack[t]
      BY <2>1, <2>8 DEF Built, Stacks
    <3>2. cur # "vpc" => cur \in Built
      BY <1>0 DEF RunOK, Stacks, Built
    <3>3. UNCHANGED <<fn, kvs>>
      BY <1>24, <2>8 DEF FinishRollback, Restored
    <3> QED
      BY <1>0, <2>0, <3>1, <3>2, <3>3, Aside
  <2>9. CASE s \in Built
    <3>1. s = "cloudfront" => fn' = fn
      BY <1>24 DEF FinishRollback, Restored
    <3>2. \A h \in Handlers :
            fn'[h].status = fn[h].status \/ fn'[h].status = "COMPLETED"
      BY <1>0, <1>24 DEF FinishRollback, Restored, FunctionsOK, FunctionType
    <3> QED
      BY <1>0, <2>0, <2>1, <2>3, <2>4, <2>5, <2>9, <3>1, <3>2, WorkedOn
  <2> QED
    BY <2>8, <2>9 DEF Built, Stacks
<1>25. ASSUME NEW s \in Stacks, Rollback(s) PROVE Delivering'
  <2>0. UNCHANGED <<image, policy, order, place, outcome>>
    BY <1>25 DEF Rollback
  <2>1. \A t \in Stacks : t # s => stack'[t] = stack[t]
    BY <1>0, <1>25, SettledParts
    DEF Rollback, Details, Working, Broken, AtRest
  <2>2.
        \/ /\ stack[s].detail = "CREATE_IN_PROGRESS"
           /\ stack'[s].detail = "ROLLBACK_IN_PROGRESS"
           /\ stack'[s].template = stack[s].template
        \/ /\ stack[s].detail = "UPDATE_IN_PROGRESS"
           /\ stack'[s].detail = "UPDATE_ROLLBACK_IN_PROGRESS"
           /\ stack'[s].template = stack[s].template
    BY <1>0, <1>25, SettledParts
    DEF Rollback, Detail, Details, Working, Broken, AtRest
  <2>3. Detail(s) \in Working
    BY <1>25 DEF Rollback, Working
  <2>4. BornInv'
    <3>1. CASE s # "container"
      BY <1>0, <1>25, <2>1, <3>1 DEF Rollback, BornInv, Detail, Stacks
    <3>2. CASE s = "container"
      BY <1>0, <1>25, <2>2, <3>2
      DEF Rollback, BornInv, Detail, Unborn, FunctionsOK, FunctionType
    <3> QED
      BY <3>1, <3>2
  <2>5. Mine /\ Waits(s) => WaitInv'
    <3> SUFFICES ASSUME Mine, Waits(s) PROVE WaitInv'
      OBVIOUS
    <3>1. /\ cur = s /\ cur' = s /\ pc = "wait"
          /\ baseline' = baseline /\ release' = release
      BY <2>0 DEF Waits, order, place
    <3>2. /\ Detail(s) \in Working =>
              \/ /\ Detail(s) \in {"CREATE_IN_PROGRESS", "UPDATE_IN_PROGRESS"}
                 /\ stack[s].next = TemplateOf(s, release, TRUE)
                 /\ baseline = Detail(s)
              \/ /\ Detail(s) \in RollbackDetails
                 /\ baseline \in {"CREATE_IN_PROGRESS", "UPDATE_IN_PROGRESS"}
          /\ s = "container" => Detail(s) \in Unborn \/ Coded
      BY <1>0, <3>1 DEF WaitInv, Released, Working, AtRest
    <3>3. \/ /\ Detail(s)' \in RollbackDetails
             /\ baseline' \in {"CREATE_IN_PROGRESS", "UPDATE_IN_PROGRESS"}
          \/ Released(s)'
      BY <2>2, <2>3, <3>1, <3>2
      DEF Detail, RollbackDetails, Released, AtRest
    <3>4. s = "container" => Detail(s)' \in Unborn \/ Coded'
      BY <1>0, <1>25, <2>0, <2>2, <2>3, <3>1, <3>2
      DEF Rollback, Detail, Unborn, Coded, FunctionsOK, FunctionType,
          AloneInv, order
    <3> QED
      BY <3>1, <3>3, <3>4 DEF WaitInv, Detail, Released
  <2>8. CASE s = "vpc"
    <3>1. \A t \in Built : stack'[t] = stack[t]
      BY <2>1, <2>8 DEF Built, Stacks
    <3>2. cur # "vpc" => cur \in Built
      BY <1>0 DEF RunOK, Stacks, Built
    <3>3. UNCHANGED <<fn, kvs>>
      BY <1>25, <2>8 DEF Rollback
    <3> QED
      BY <1>0, <2>0, <3>1, <3>2, <3>3, Aside
  <2>9. CASE s \in Built
    <3>1. s = "cloudfront" => fn' = fn
      BY <1>25 DEF Rollback
    <3>2. \A h \in Handlers :
            fn'[h].status = fn[h].status \/ fn'[h].status = "COMPLETED"
      BY <1>0, <1>25 DEF Rollback, FunctionsOK, FunctionType
    <3> QED
      BY <1>0, <2>0, <2>1, <2>3, <2>4, <2>5, <2>9, <3>1, <3>2, WorkedOn
  <2> QED
    BY <2>8, <2>9 DEF Built, Stacks
<1>26. ASSUME NEW s \in Stacks, RollbackFails(s) PROVE Delivering'
  <2>0. UNCHANGED <<image, policy, order, place, outcome>>
    BY <1>26 DEF RollbackFails
  <2>1. \A t \in Stacks : t # s => stack'[t] = stack[t]
    BY <1>0, <1>26, SettledParts
    DEF RollbackFails, Details, Working, Broken, AtRest
  <2>2.
        \/ /\ stack[s].detail = "UPDATE_ROLLBACK_IN_PROGRESS"
           /\ stack'[s].detail = "UPDATE_ROLLBACK_FAILED"
           /\ stack'[s].template = stack[s].template
    BY <1>0, <1>26, SettledParts
    DEF RollbackFails, Detail, Details, Working, Broken, AtRest
  <2>3. Detail(s) \in Working
    BY <1>26 DEF RollbackFails, Working
  <2>4. BornInv'
    <3>1. CASE s # "container"
      BY <1>0, <1>26, <2>1, <3>1 DEF RollbackFails, BornInv, Detail, Stacks
    <3>2. CASE s = "container"
      BY <1>0, <1>26, <2>2, <3>2
      DEF RollbackFails, BornInv, Detail, Unborn, FunctionsOK, FunctionType
    <3> QED
      BY <3>1, <3>2
  <2>5. Mine /\ Waits(s) => WaitInv'
    <3> SUFFICES ASSUME Mine, Waits(s) PROVE WaitInv'
      OBVIOUS
    <3>1. /\ cur = s /\ cur' = s /\ pc = "wait"
          /\ baseline' = baseline /\ release' = release
      BY <2>0 DEF Waits, order, place
    <3>2. /\ Detail(s) \in Working =>
              \/ /\ Detail(s) \in {"CREATE_IN_PROGRESS", "UPDATE_IN_PROGRESS"}
                 /\ stack[s].next = TemplateOf(s, release, TRUE)
                 /\ baseline = Detail(s)
              \/ /\ Detail(s) \in RollbackDetails
                 /\ baseline \in {"CREATE_IN_PROGRESS", "UPDATE_IN_PROGRESS"}
          /\ s = "container" => Detail(s) \in Unborn \/ Coded
      BY <1>0, <3>1 DEF WaitInv, Released, Working, AtRest
    <3>3. \/ /\ Detail(s)' \in RollbackDetails
             /\ baseline' \in {"CREATE_IN_PROGRESS", "UPDATE_IN_PROGRESS"}
          \/ Released(s)'
      BY <2>2, <2>3, <3>1, <3>2
      DEF Detail, RollbackDetails, Released, AtRest
    <3>4. s = "container" => Detail(s)' \in Unborn \/ Coded'
      BY <1>0, <1>26, <2>0, <2>2, <2>3, <3>1, <3>2
      DEF RollbackFails, Detail, Unborn, Coded, FunctionsOK, FunctionType,
          AloneInv, order
    <3> QED
      BY <3>1, <3>3, <3>4 DEF WaitInv, Detail, Released
  <2>8. CASE s = "vpc"
    <3>1. \A t \in Built : stack'[t] = stack[t]
      BY <2>1, <2>8 DEF Built, Stacks
    <3>2. cur # "vpc" => cur \in Built
      BY <1>0 DEF RunOK, Stacks, Built
    <3>3. UNCHANGED <<fn, kvs>>
      BY <1>26, <2>8 DEF RollbackFails
    <3> QED
      BY <1>0, <2>0, <3>1, <3>2, <3>3, Aside
  <2>9. CASE s \in Built
    <3>1. s = "cloudfront" => fn' = fn
      BY <1>26 DEF RollbackFails
    <3>2. \A h \in Handlers :
            fn'[h].status = fn[h].status \/ fn'[h].status = "COMPLETED"
      BY <1>0, <1>26 DEF RollbackFails, FunctionsOK, FunctionType
    <3> QED
      BY <1>0, <2>0, <2>1, <2>3, <2>4, <2>5, <2>9, <3>1, <3>2, WorkedOn
  <2> QED
    BY <2>8, <2>9 DEF Built, Stacks
<1>27. ASSUME NEW s \in Stacks, RepairStack(s) PROVE Delivering'
  <2>a. \A t \in Stacks : t # s => stack'[t] = stack[t]
    BY <1>0, <1>27, SettledParts
    DEF RepairStack, Details, Working, Broken, AtRest
  <2>b.
        \/ /\ stack[s].detail = "ROLLBACK_COMPLETE"
           /\ stack'[s].detail = "NOT_CREATED"
           /\ stack'[s].template = NoTemplate
        \/ /\ stack[s].detail = "UPDATE_ROLLBACK_FAILED"
           /\ stack'[s].detail = "UPDATE_ROLLBACK_COMPLETE"
           /\ stack'[s].template = stack[s].template
    BY <1>0, <1>27, SettledParts
    DEF RepairStack, Detail, Details, Working, Broken, AtRest
  <2>1. ImageInv' /\ BornInv'
    BY <1>0, <1>27, <2>a, <2>b DEF RepairStack, Restored, ImageInv, BornInv,
       Detail, Unborn, FunctionsOK, FunctionType, Stacks, CourseInv
  <2>2. StillInv' /\ AskedInv'
    BY <1>0, <1>27, <2>a, <2>b DEF RepairStack, Restored, StillInv, Mine,
       Detail, Waits, Built, AskedInv, CourseInv
  <2>3. CodeInv' /\ WaitInv' /\ DoneInv'
    BY <1>0, <1>27, <2>a, <2>b DEF RepairStack, Restored, CodeInv, Mine,
       Coded, WaitInv, Detail, Released, DoneInv, CourseInv
  <2>4. FrontInv' /\ EndInv'
    BY <1>0, <1>27, <2>a, <2>b DEF RepairStack, Restored, FrontInv, Mine,
       Detail, Released, FlagsOK, Built, Stacks, EndInv, Ok, CourseInv
  <2> QED
    BY <2>1, <2>2, <2>3, <2>4 DEF Delivering
<1>28. ASSUME NEW h \in Handlers, FunctionUpdated(h) PROVE Delivering'
  <2>1. ImageInv' /\ BornInv'
    BY <1>0, <1>28 DEF FunctionUpdated, FunctionsOK, FunctionType, ImageInv,
       BornInv, Detail, CourseInv
  <2>2. StillInv' /\ AskedInv'
    BY <1>0, <1>28 DEF FunctionUpdated, FunctionsOK, FunctionType, StillInv,
       Mine, Detail, Waits, Built, AskedInv, CourseInv
  <2>3. WaitInv' /\ DoneInv'
    BY <1>0, <1>28 DEF FunctionUpdated, FunctionsOK, FunctionType, WaitInv,
       Mine, Detail, Released, Coded, DoneInv, CourseInv
  <2>4. CodeInv'
    BY <1>0, <1>28 DEF FunctionUpdated, FunctionsOK, FunctionType, CodeInv,
       Mine, Coded, CourseInv
  <2>5. FrontInv' /\ EndInv'
    BY <1>0, <1>28 DEF FunctionUpdated, FunctionsOK, FunctionType, FrontInv,
       Mine, Detail, Released, FlagsOK, Built, Stacks, EndInv, Ok, CourseInv
  <2> QED
    BY <2>1, <2>2, <2>3, <2>4, <2>5 DEF Delivering
<1>29. ASSUME NEW h \in Handlers, FunctionUpdateFails(h) PROVE Delivering'
  <2>1. ImageInv' /\ BornInv'
    BY <1>0, <1>29 DEF FunctionUpdateFails, FunctionsOK, FunctionType,
       ImageInv, BornInv, Detail, CourseInv
  <2>2. StillInv' /\ AskedInv'
    BY <1>0, <1>29 DEF FunctionUpdateFails, FunctionsOK, FunctionType,
       StillInv, Mine, Detail, Waits, Built, AskedInv, CourseInv
  <2>3. CodeInv' /\ WaitInv' /\ DoneInv'
    BY <1>0, <1>29 DEF FunctionUpdateFails, FunctionsOK, FunctionType,
       CodeInv, Mine, Coded, WaitInv, Detail, Released, DoneInv, CourseInv
  <2>4. FrontInv' /\ EndInv'
    BY <1>0, <1>29 DEF FunctionUpdateFails, FunctionsOK, FunctionType,
       FrontInv, Mine, Detail, Released, FlagsOK, Built, Stacks, EndInv, Ok,
       CourseInv
  <2> QED
    BY <2>1, <2>2, <2>3, <2>4 DEF Delivering
<1>30. ASSUME NEW h \in Handlers, RepairFunction(h) PROVE Delivering'
  <2>1. ImageInv' /\ BornInv'
    BY <1>0, <1>30 DEF RepairFunction, FunctionsOK, FunctionType, ImageInv,
       BornInv, Detail, CourseInv
  <2>2. StillInv' /\ AskedInv'
    BY <1>0, <1>30 DEF RepairFunction, FunctionsOK, FunctionType, StillInv,
       Mine, Detail, Waits, Built, AskedInv, CourseInv
  <2>3. CodeInv' /\ WaitInv' /\ DoneInv'
    BY <1>0, <1>30 DEF RepairFunction, FunctionsOK, FunctionType, CodeInv,
       Mine, Coded, WaitInv, Detail, Released, DoneInv, CourseInv
  <2>4. FrontInv' /\ EndInv'
    BY <1>0, <1>30 DEF RepairFunction, FunctionsOK, FunctionType, FrontInv,
       Mine, Detail, Released, FlagsOK, Built, Stacks, EndInv, Ok, CourseInv
  <2> QED
    BY <2>1, <2>2, <2>3, <2>4 DEF Delivering
<1>31. CASE UNCHANGED vars
  <2>1. cur # "vpc" => cur \in Built
    BY <1>0 DEF RunOK, Stacks, Built
  <2> QED
    BY <1>0, <1>31, <2>1, Aside DEF vars
<1> QED
  BY <1>1, <1>2, <1>3, <1>4, <1>5, <1>6, <1>7, <1>8, <1>9, <1>10, <1>11,
     <1>12, <1>13, <1>14, <1>15, <1>16, <1>17, <1>18, <1>19, <1>20, <1>21,
     <1>22, <1>23, <1>24, <1>25, <1>26, <1>27, <1>28, <1>29, <1>30, <1>31
     DEF Next, Command, Finishes

\* The deploy that began with nothing under way and ends well has brought out
\* its release (deploy_resources and the hooks).
THEOREM SuccessIsDelivery == Spec => []SuccessDelivers
<1>1. Init => Delivering
  BY DEF Init, Delivering, ImageInv, BornInv, StillInv, AskedInv, CodeInv,
     WaitInv, DoneInv, FrontInv, EndInv, Mine, Ok, Detail, Unborn, Stacks
<1>2. TypeOK /\ Inv /\ Delivering /\ [Next]_vars => Delivering'
  BY DeliveringStep
<1>3. Inv /\ Delivering => SuccessDelivers
  BY DEF Inv, SyncInv, Env, Delivering, EndInv, SuccessDelivers, Ok
<1> QED
  BY <1>1, <1>2, <1>3, Typing, Invariance, PTL DEF Spec
=============================================================================
