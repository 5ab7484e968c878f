---------------------------- MODULE JobQueue_proofs ----------------------------
(***************************************************************************)
(* Proofs about JobQueue, for any messages, any number of invocations, any *)
(* batch size and any limits: types, that no job is lost, that none runs   *)
(* again without need, and that its status is settled when it is over.     *)
(***************************************************************************)
EXTENDS JobQueue, TLAPS

\* What an invocation that is at some step has done.
PhaseInv ==
  \A w \in Workers :
    /\ pc[w] \in {"build", "run", "finish", "crash"} => kind = "command"
    /\ pc[w] = "delete" => kind \in DeletesItself
    /\ pc[w] \in {"finish", "delete"} => current[w] \in done
    /\ good[w] \subseteq done
    /\ kind = "management" => failed[w] = {}

LostInv == ended \subseteq done /\ NoJobLost

\* Within an invocation a record is in one place.
ApartInv ==
  \A w \in Workers :
    /\ todo[w] \cap good[w] = {} /\ todo[w] \cap failed[w] = {}
    /\ good[w] \cap failed[w] = {}
    /\ current[w] \notin todo[w] \cup good[w] \cup failed[w]

\* A message that is not delivered twice is with one invocation ...
SoloInv ==
  \A m \in Messages \ doubled : \A w, v \in Workers :
    m \in Batch(w) /\ m \in Batch(v) => w = v

\* ... and stays invisible to the others until it is dealt with.
FlyingInv ==
  \A w \in Workers : \A m \in Messages \ doubled :
    /\ m \in todo[w] \/ m = current[w] => queue[m] = "flying"
    /\ m \in good[w] \/ m \in failed[w] => queue[m] \in {"flying", "deleted"}

\* The management handlers have deleted what they are done with.
GoodInv ==
  kind \in DeletesItself =>
    \A w \in Workers : \A m \in good[w] \ doubled : queue[m] = "deleted"

\* A job that ended is deleted, or will be as soon as its invocation answers.
EndedInv ==
  \A m \in ended \ (excused \cup doubled) :
    \/ queue[m] = "deleted"
    \/ queue[m] = "flying" /\ \E w \in Workers : m \in good[w]

\* What the sink says of a job.
SinkInv ==
  kind = "command" =>
    \A m \in Messages \ doubled :
      /\ \A w \in Workers : m \in good[w] => sink[m] = "finished"
      /\ queue[m] = "deleted" /\ reporting => sink[m] = "finished"
      /\ sink[m] = "running" =>
           m \in silent \/ \E w \in Workers : m = current[w]

Inv == /\ PhaseInv /\ LostInv /\ ApartInv /\ SoloInv /\ FlyingInv /\ GoodInv
       /\ EndedInv /\ SinkInv

(* Types. *)
THEOREM Typing == Spec => []TypeOK
<1> USE NoneAssumption, BoundsAssumption
<1>1. Init => TypeOK
  BY DEF Init, TypeOK, ConfigOK, QueueOK, RecordsOK, StepOK, HistoryOK, Kinds
<1>2. TypeOK /\ [Next]_vars => TypeOK'
  <2> SUFFICES ASSUME TypeOK, [Next]_vars PROVE TypeOK'
    OBVIOUS
  <2> USE DEF config, invocation, history
  <2>0. ConfigOK /\ QueueOK /\ RecordsOK /\ StepOK /\ HistoryOK
    BY DEF TypeOK
  <2>1. ASSUME NEW m \in Messages, Send(m) PROVE TypeOK'
    <3>1. ConfigOK'
      BY <2>0, <2>1 DEF Send, ConfigOK
    <3>2. QueueOK'
      BY <2>0, <2>1 DEF Send, QueueOK, RecordsOK, StepOK
    <3>3. RecordsOK'
      BY <2>0, <2>1 DEF Send, RecordsOK, StepOK
    <3>4. StepOK'
      BY <2>0, <2>1 DEF Send, StepOK, RecordsOK
    <3>5. HistoryOK'
      BY <2>0, <2>1 DEF Send, HistoryOK, RecordsOK, StepOK
    <3> QED
      BY <3>1, <3>2, <3>3, <3>4, <3>5 DEF TypeOK
  <2>2. ASSUME NEW m \in Messages, DeadLetter(m) PROVE TypeOK'
    <3>1. ConfigOK'
      BY <2>0, <2>2 DEF DeadLetter, ConfigOK
    <3>2. QueueOK'
      BY <2>0, <2>2 DEF DeadLetter, QueueOK, RecordsOK, StepOK
    <3>3. RecordsOK'
      BY <2>0, <2>2 DEF DeadLetter, RecordsOK, StepOK
    <3>4. StepOK'
      BY <2>0, <2>2 DEF DeadLetter, StepOK, RecordsOK
    <3>5. HistoryOK'
      BY <2>0, <2>2 DEF DeadLetter, HistoryOK, RecordsOK, StepOK
    <3> QED
      BY <3>1, <3>2, <3>3, <3>4, <3>5 DEF TypeOK
  <2>3. ASSUME NEW m \in Messages, VisibilityTimeout(m) PROVE TypeOK'
    <3>1. ConfigOK'
      BY <2>0, <2>3 DEF VisibilityTimeout, ConfigOK
    <3>2. QueueOK'
      BY <2>0, <2>3 DEF VisibilityTimeout, QueueOK, RecordsOK, StepOK
    <3>3. RecordsOK'
      BY <2>0, <2>3 DEF VisibilityTimeout, RecordsOK, StepOK
    <3>4. StepOK'
      BY <2>0, <2>3 DEF VisibilityTimeout, StepOK, RecordsOK
    <3>5. HistoryOK'
      BY <2>0, <2>3 DEF VisibilityTimeout, HistoryOK, RecordsOK, StepOK
    <3> QED
      BY <3>1, <3>2, <3>3, <3>4, <3>5 DEF TypeOK
  <2>4. ASSUME NEW m \in Messages, Duplicate(m) PROVE TypeOK'
    <3>1. ConfigOK'
      BY <2>0, <2>4 DEF Duplicate, ConfigOK
    <3>2. QueueOK'
      BY <2>0, <2>4 DEF Duplicate, QueueOK, RecordsOK, StepOK
    <3>3. RecordsOK'
      BY <2>0, <2>4 DEF Duplicate, RecordsOK, StepOK
    <3>4. StepOK'
      BY <2>0, <2>4 DEF Duplicate, StepOK, RecordsOK
    <3>5. HistoryOK'
      BY <2>0, <2>4 DEF Duplicate, HistoryOK, RecordsOK, StepOK
    <3> QED
      BY <3>1, <3>2, <3>3, <3>4, <3>5 DEF TypeOK
  <2>5. ASSUME NEW w \in Workers, Receive(w) PROVE TypeOK'
    <3>1. ConfigOK'
      BY <2>0, <2>5 DEF Receive, ConfigOK
    <3>2. QueueOK'
      BY <2>0, <2>5 DEF Receive, QueueOK, RecordsOK, StepOK
    <3>3. RecordsOK'
      BY <2>0, <2>5 DEF Receive, RecordsOK, StepOK
    <3>4. StepOK'
      BY <2>0, <2>5 DEF Receive, StepOK, RecordsOK
    <3>5. HistoryOK'
      BY <2>0, <2>5 DEF Receive, HistoryOK, RecordsOK, StepOK
    <3> QED
      BY <3>1, <3>2, <3>3, <3>4, <3>5 DEF TypeOK
  <2>6. ASSUME NEW w \in Workers, NEW m \in Messages, Take(w, m) PROVE TypeOK'
    <3>1. ConfigOK'
      BY <2>0, <2>6 DEF Take, ConfigOK
    <3>2. QueueOK'
      BY <2>0, <2>6 DEF Take, QueueOK, RecordsOK, StepOK
    <3>3. RecordsOK'
      BY <2>0, <2>6 DEF Take, RecordsOK, StepOK
    <3>4. StepOK'
      BY <2>0, <2>6 DEF Take, StepOK, RecordsOK
    <3>5. HistoryOK'
      BY <2>0, <2>6 DEF Take, HistoryOK, RecordsOK, StepOK
    <3> QED
      BY <3>1, <3>2, <3>3, <3>4, <3>5 DEF TypeOK
  <2>7. ASSUME NEW w \in Workers, Start(w) PROVE TypeOK'
    <3>1. ConfigOK'
      BY <2>0, <2>7 DEF Start, GoTo, ConfigOK
    <3>2. QueueOK'
      BY <2>0, <2>7 DEF Start, GoTo, QueueOK, RecordsOK, StepOK
    <3>3. RecordsOK'
      BY <2>0, <2>7 DEF Start, GoTo, RecordsOK, StepOK
    <3>4. StepOK'
      BY <2>0, <2>7 DEF Start, GoTo, StepOK, RecordsOK
    <3>5. HistoryOK'
      BY <2>0, <2>7 DEF Start, GoTo, HistoryOK, RecordsOK, StepOK
    <3> QED
      BY <3>1, <3>2, <3>3, <3>4, <3>5 DEF TypeOK
  <2>8. ASSUME NEW w \in Workers, StartFails(w) PROVE TypeOK'
    <3>1. ConfigOK'
      BY <2>0, <2>8 DEF StartFails, Report, ConfigOK
    <3>2. QueueOK'
      BY <2>0, <2>8 DEF StartFails, Report, QueueOK, RecordsOK, StepOK
    <3>3. RecordsOK'
      BY <2>0, <2>8 DEF StartFails, Report, RecordsOK, StepOK
    <3>4. StepOK'
      BY <2>0, <2>8 DEF StartFails, Report, StepOK, RecordsOK
    <3>5. HistoryOK'
      BY <2>0, <2>8 DEF StartFails, Report, HistoryOK, RecordsOK, StepOK
    <3> QED
      BY <3>1, <3>2, <3>3, <3>4, <3>5 DEF TypeOK
  <2>9. ASSUME NEW w \in Workers, Spawn(w) PROVE TypeOK'
    <3>1. ConfigOK'
      BY <2>0, <2>9 DEF Spawn, GoTo, ConfigOK
    <3>2. QueueOK'
      BY <2>0, <2>9 DEF Spawn, GoTo, QueueOK, RecordsOK, StepOK
    <3>3. RecordsOK'
      BY <2>0, <2>9 DEF Spawn, GoTo, RecordsOK, StepOK
    <3>4. StepOK'
      BY <2>0, <2>9 DEF Spawn, GoTo, StepOK, RecordsOK
    <3>5. HistoryOK'
      BY <2>0, <2>9 DEF Spawn, GoTo, HistoryOK, RecordsOK, StepOK
    <3> QED
      BY <3>1, <3>2, <3>3, <3>4, <3>5 DEF TypeOK
  <2>10. ASSUME NEW w \in Workers, SpawnFails(w) PROVE TypeOK'
    <3>1. ConfigOK'
      BY <2>0, <2>10 DEF SpawnFails, GoTo, ConfigOK
    <3>2. QueueOK'
      BY <2>0, <2>10 DEF SpawnFails, GoTo, QueueOK, RecordsOK, StepOK
    <3>3. RecordsOK'
      BY <2>0, <2>10 DEF SpawnFails, GoTo, RecordsOK, StepOK
    <3>4. StepOK'
      BY <2>0, <2>10 DEF SpawnFails, GoTo, StepOK, RecordsOK
    <3>5. HistoryOK'
      BY <2>0, <2>10 DEF SpawnFails, GoTo, HistoryOK, RecordsOK, StepOK
    <3> QED
      BY <3>1, <3>2, <3>3, <3>4, <3>5 DEF TypeOK
  <2>11. ASSUME NEW w \in Workers, Exit(w) PROVE TypeOK'
    <3>1. ConfigOK'
      BY <2>0, <2>11 DEF Exit, GoTo, ConfigOK
    <3>2. QueueOK'
      BY <2>0, <2>11 DEF Exit, GoTo, QueueOK, RecordsOK, StepOK
    <3>3. RecordsOK'
      BY <2>0, <2>11 DEF Exit, GoTo, RecordsOK, StepOK
    <3>4. StepOK'
      BY <2>0, <2>11 DEF Exit, GoTo, StepOK, RecordsOK
    <3>5. HistoryOK'
      BY <2>0, <2>11 DEF Exit, GoTo, HistoryOK, RecordsOK, StepOK
    <3> QED
      BY <3>1, <3>2, <3>3, <3>4, <3>5 DEF TypeOK
  <2>12. ASSUME NEW w \in Workers, OutputFails(w) PROVE TypeOK'
    <3>1. ConfigOK'
      BY <2>0, <2>12 DEF OutputFails, GoTo, ConfigOK
    <3>2. QueueOK'
      BY <2>0, <2>12 DEF OutputFails, GoTo, QueueOK, RecordsOK, StepOK
    <3>3. RecordsOK'
      BY <2>0, <2>12 DEF OutputFails, GoTo, RecordsOK, StepOK
    <3>4. StepOK'
      BY <2>0, <2>12 DEF OutputFails, GoTo, StepOK, RecordsOK
    <3>5. HistoryOK'
      BY <2>0, <2>12 DEF OutputFails, GoTo, HistoryOK, RecordsOK, StepOK
    <3> QED
      BY <3>1, <3>2, <3>3, <3>4, <3>5 DEF TypeOK
  <2>13. ASSUME NEW w \in Workers, Finish(w) PROVE TypeOK'
    <3>1. ConfigOK'
      BY <2>0, <2>13 DEF Finish, Succeed, ConfigOK
    <3>2. QueueOK'
      BY <2>0, <2>13 DEF Finish, Succeed, QueueOK, RecordsOK, StepOK
    <3>3. RecordsOK'
      BY <2>0, <2>13 DEF Finish, Succeed, RecordsOK, StepOK
    <3>4. StepOK'
      BY <2>0, <2>13 DEF Finish, Succeed, StepOK, RecordsOK
    <3>5. HistoryOK'
      BY <2>0, <2>13 DEF Finish, Succeed, HistoryOK, RecordsOK, StepOK
    <3> QED
      BY <3>1, <3>2, <3>3, <3>4, <3>5 DEF TypeOK
  <2>14. ASSUME NEW w \in Workers, FinishFails(w) PROVE TypeOK'
    <3>1. ConfigOK'
      BY <2>0, <2>14 DEF FinishFails, GoTo, ConfigOK
    <3>2. QueueOK'
      BY <2>0, <2>14 DEF FinishFails, GoTo, QueueOK, RecordsOK, StepOK
    <3>3. RecordsOK'
      BY <2>0, <2>14 DEF FinishFails, GoTo, RecordsOK, StepOK
    <3>4. StepOK'
      BY <2>0, <2>14 DEF FinishFails, GoTo, StepOK, RecordsOK
    <3>5. HistoryOK'
      BY <2>0, <2>14 DEF FinishFails, GoTo, HistoryOK, RecordsOK, StepOK
    <3> QED
      BY <3>1, <3>2, <3>3, <3>4, <3>5 DEF TypeOK
  <2>15. ASSUME NEW w \in Workers, Crash(w) PROVE TypeOK'
    <3>1. ConfigOK'
      BY <2>0, <2>15 DEF Crash, Report, ConfigOK
    <3>2. QueueOK'
      BY <2>0, <2>15 DEF Crash, Report, QueueOK, RecordsOK, StepOK
    <3>3. RecordsOK'
      BY <2>0, <2>15 DEF Crash, Report, RecordsOK, StepOK
    <3>4. StepOK'
      BY <2>0, <2>15 DEF Crash, Report, StepOK, RecordsOK
    <3>5. HistoryOK'
      BY <2>0, <2>15 DEF Crash, Report, HistoryOK, RecordsOK, StepOK
    <3> QED
      BY <3>1, <3>2, <3>3, <3>4, <3>5 DEF TypeOK
  <2>16. ASSUME NEW w \in Workers, Call(w) PROVE TypeOK'
    <3>1. ConfigOK'
      BY <2>0, <2>16 DEF Call, GoTo, ConfigOK
    <3>2. QueueOK'
      BY <2>0, <2>16 DEF Call, GoTo, QueueOK, RecordsOK, StepOK
    <3>3. RecordsOK'
      BY <2>0, <2>16 DEF Call, GoTo, RecordsOK, StepOK
    <3>4. StepOK'
      BY <2>0, <2>16 DEF Call, GoTo, StepOK, RecordsOK
    <3>5. HistoryOK'
      BY <2>0, <2>16 DEF Call, GoTo, HistoryOK, RecordsOK, StepOK
    <3> QED
      BY <3>1, <3>2, <3>3, <3>4, <3>5 DEF TypeOK
  <2>17. ASSUME NEW w \in Workers, Delete(w) PROVE TypeOK'
    <3>1. ConfigOK'
      BY <2>0, <2>17 DEF Delete, Succeed, Deleted, ConfigOK
    <3>2. QueueOK'
      BY <2>0, <2>17 DEF Delete, Succeed, Deleted, QueueOK, RecordsOK, StepOK
    <3>3. RecordsOK'
      BY <2>0, <2>17 DEF Delete, Succeed, Deleted, RecordsOK, StepOK
    <3>4. StepOK'
      BY <2>0, <2>17 DEF Delete, Succeed, Deleted, StepOK, RecordsOK
    <3>5. HistoryOK'
      BY <2>0, <2>17 DEF Delete, Succeed, Deleted, HistoryOK, RecordsOK, StepOK
    <3> QED
      BY <3>1, <3>2, <3>3, <3>4, <3>5 DEF TypeOK
  <2>18. ASSUME NEW w \in Workers, CallFails(w) PROVE TypeOK'
    <3>1. ConfigOK'
      BY <2>0, <2>18 DEF CallFails, Report, EndInvocation, Deleted, ConfigOK
    <3>2. QueueOK'
      BY <2>0, <2>18 DEF CallFails, Report, EndInvocation, Deleted, QueueOK, RecordsOK, StepOK
    <3>3. RecordsOK'
      BY <2>0, <2>18 DEF CallFails, Report, EndInvocation, Deleted, RecordsOK, StepOK
    <3>4. StepOK'
      BY <2>0, <2>18 DEF CallFails, Report, EndInvocation, Deleted, StepOK, RecordsOK
    <3>5. HistoryOK'
      BY <2>0, <2>18 DEF CallFails, Report, EndInvocation, Deleted, HistoryOK, RecordsOK, StepOK
    <3> QED
      BY <3>1, <3>2, <3>3, <3>4, <3>5 DEF TypeOK
  <2>19. ASSUME NEW w \in Workers, Handle(w) PROVE TypeOK'
    <3>1. ConfigOK'
      BY <2>0, <2>19 DEF Handle, Succeed, ConfigOK
    <3>2. QueueOK'
      BY <2>0, <2>19 DEF Handle, Succeed, QueueOK, RecordsOK, StepOK
    <3>3. RecordsOK'
      BY <2>0, <2>19 DEF Handle, Succeed, RecordsOK, StepOK
    <3>4. StepOK'
      BY <2>0, <2>19 DEF Handle, Succeed, StepOK, RecordsOK
    <3>5. HistoryOK'
      BY <2>0, <2>19 DEF Handle, Succeed, HistoryOK, RecordsOK, StepOK
    <3> QED
      BY <3>1, <3>2, <3>3, <3>4, <3>5 DEF TypeOK
  <2>20. ASSUME NEW w \in Workers, HandleFails(w) PROVE TypeOK'
    <3>1. ConfigOK'
      BY <2>0, <2>20 DEF HandleFails, Report, ConfigOK
    <3>2. QueueOK'
      BY <2>0, <2>20 DEF HandleFails, Report, QueueOK, RecordsOK, StepOK
    <3>3. RecordsOK'
      BY <2>0, <2>20 DEF HandleFails, Report, RecordsOK, StepOK
    <3>4. StepOK'
      BY <2>0, <2>20 DEF HandleFails, Report, StepOK, RecordsOK
    <3>5. HistoryOK'
      BY <2>0, <2>20 DEF HandleFails, Report, HistoryOK, RecordsOK, StepOK
    <3> QED
      BY <3>1, <3>2, <3>3, <3>4, <3>5 DEF TypeOK
  <2>21. ASSUME NEW w \in Workers, Answer(w) PROVE TypeOK'
    <3>1. ConfigOK'
      BY <2>0, <2>21 DEF Answer, EndInvocation, Deleted, ConfigOK
    <3>2. QueueOK'
      BY <2>0, <2>21 DEF Answer, EndInvocation, Deleted, QueueOK, RecordsOK, StepOK
    <3>3. RecordsOK'
      BY <2>0, <2>21 DEF Answer, EndInvocation, Deleted, RecordsOK, StepOK
    <3>4. StepOK'
      BY <2>0, <2>21 DEF Answer, EndInvocation, Deleted, StepOK, RecordsOK
    <3>5. HistoryOK'
      BY <2>0, <2>21 DEF Answer, EndInvocation, Deleted, HistoryOK, RecordsOK, StepOK
    <3> QED
      BY <3>1, <3>2, <3>3, <3>4, <3>5 DEF TypeOK
  <2>22. ASSUME NEW w \in Workers, Die(w) PROVE TypeOK'
    <3>1. ConfigOK'
      BY <2>0, <2>22 DEF Die, EndInvocation, ConfigOK
    <3>2. QueueOK'
      BY <2>0, <2>22 DEF Die, EndInvocation, QueueOK, RecordsOK, StepOK
    <3>3. RecordsOK'
      BY <2>0, <2>22 DEF Die, EndInvocation, RecordsOK, StepOK
    <3>4. StepOK'
      BY <2>0, <2>22 DEF Die, EndInvocation, StepOK, RecordsOK
    <3>5. HistoryOK'
      BY <2>0, <2>22 DEF Die, EndInvocation, HistoryOK, RecordsOK, StepOK
    <3> QED
      BY <3>1, <3>2, <3>3, <3>4, <3>5 DEF TypeOK
  <2>23. CASE UNCHANGED vars
    <3>1. ConfigOK'
      BY <2>0, <2>23 DEF vars, ConfigOK
    <3>2. QueueOK'
      BY <2>0, <2>23 DEF vars, QueueOK, RecordsOK, StepOK
    <3>3. RecordsOK'
      BY <2>0, <2>23 DEF vars, RecordsOK, StepOK
    <3>4. StepOK'
      BY <2>0, <2>23 DEF vars, StepOK, RecordsOK
    <3>5. HistoryOK'
      BY <2>0, <2>23 DEF vars, HistoryOK, RecordsOK, StepOK
    <3> QED
      BY <3>1, <3>2, <3>3, <3>4, <3>5 DEF TypeOK
  <2> QED
    BY <2>1, <2>2, <2>3, <2>4, <2>5, <2>6, <2>7, <2>8, <2>9, <2>10, <2>11, <2>12, <2>13, <2>14, <2>15, <2>16, <2>17, <2>18, <2>19, <2>20, <2>21, <2>22, <2>23 DEF Next, Deliver, Work
<1> QED
  BY <1>1, <1>2, PTL DEF Spec

(* The inductive invariant. *)
THEOREM Invariance == Spec => []Inv
<1> USE NoneAssumption, BoundsAssumption
<1>1. Init => Inv
  BY DEF Init, Inv, PhaseInv, LostInv, NoJobLost, ApartInv, SoloInv, Batch,
         FlyingInv, GoodInv, EndedInv, SinkInv
<1>2. TypeOK /\ Inv /\ [Next]_vars => Inv'
  <2> SUFFICES ASSUME TypeOK, Inv, [Next]_vars PROVE Inv'
    OBVIOUS
  <2> USE DEF config, invocation, history
  <2>0. /\ ConfigOK /\ QueueOK /\ RecordsOK /\ StepOK /\ HistoryOK
        /\ PhaseInv /\ LostInv /\ ApartInv /\ SoloInv /\ FlyingInv /\ GoodInv
        /\ EndedInv /\ SinkInv
    BY DEF TypeOK, Inv
  <2>1. ASSUME NEW m \in Messages, Send(m) PROVE Inv'
    <3>1. PhaseInv'
      BY <2>0, <2>1 DEF Send, RecordsOK, StepOK, PhaseInv, HistoryOK, DeletesItself
    <3>2. LostInv'
      BY <2>0, <2>1 DEF Send, RecordsOK, StepOK, LostInv, NoJobLost, Honest, PhaseInv, QueueOK, HistoryOK
    <3>3. ApartInv'
      BY <2>0, <2>1 DEF Send, RecordsOK, StepOK, ApartInv
    <3>4. SoloInv'
      BY <2>0, <2>1 DEF Send, RecordsOK, StepOK, SoloInv, FlyingInv, Batch
    <3>5. FlyingInv'
      BY <2>0, <2>1 DEF Send, RecordsOK, StepOK, FlyingInv, SoloInv, ApartInv, Batch, Held, QueueOK, PhaseInv
    <3>6. GoodInv'
      BY <2>0, <2>1 DEF Send, RecordsOK, StepOK, GoodInv, FlyingInv, PhaseInv, QueueOK, DeletesItself
    <3>7. EndedInv'
      BY <2>0, <2>1 DEF Send, RecordsOK, StepOK, EndedInv, FlyingInv, SoloInv, ApartInv, GoodInv, Batch, Held, HistoryOK, QueueOK, PhaseInv, DeletesItself
    <3>8. SinkInv'
      BY <2>0, <2>1 DEF Send, RecordsOK, StepOK, SinkInv, FlyingInv, SoloInv, ApartInv, Batch, Held, QueueOK, PhaseInv, DeletesItself
    <3> QED
      BY <3>1, <3>2, <3>3, <3>4, <3>5, <3>6, <3>7, <3>8 DEF Inv
  <2>2. ASSUME NEW m \in Messages, DeadLetter(m) PROVE Inv'
    <3>1. PhaseInv'
      BY <2>0, <2>2 DEF DeadLetter, RecordsOK, StepOK, PhaseInv, HistoryOK, DeletesItself
    <3>2. LostInv'
      BY <2>0, <2>2 DEF DeadLetter, RecordsOK, StepOK, LostInv, NoJobLost, Honest, PhaseInv, QueueOK, HistoryOK
    <3>3. ApartInv'
      BY <2>0, <2>2 DEF DeadLetter, RecordsOK, StepOK, ApartInv
    <3>4. SoloInv'
      BY <2>0, <2>2 DEF DeadLetter, RecordsOK, StepOK, SoloInv, FlyingInv, Batch
    <3>5. FlyingInv'
      BY <2>0, <2>2 DEF DeadLetter, RecordsOK, StepOK, FlyingInv, SoloInv, ApartInv, Batch, Held, QueueOK, PhaseInv
    <3>6. GoodInv'
      BY <2>0, <2>2 DEF DeadLetter, RecordsOK, StepOK, GoodInv, FlyingInv, PhaseInv, QueueOK, DeletesItself
    <3>7. EndedInv'
      BY <2>0, <2>2 DEF DeadLetter, RecordsOK, StepOK, EndedInv, FlyingInv, SoloInv, ApartInv, GoodInv, Batch, Held, HistoryOK, QueueOK, PhaseInv, DeletesItself
    <3>8. SinkInv'
      BY <2>0, <2>2 DEF DeadLetter, RecordsOK, StepOK, SinkInv, FlyingInv, SoloInv, ApartInv, Batch, Held, QueueOK, PhaseInv, DeletesItself
    <3> QED
      BY <3>1, <3>2, <3>3, <3>4, <3>5, <3>6, <3>7, <3>8 DEF Inv
  <2>3. ASSUME NEW m \in Messages, VisibilityTimeout(m) PROVE Inv'
    <3>1. PhaseInv'
      BY <2>0, <2>3 DEF VisibilityTimeout, RecordsOK, StepOK, PhaseInv, HistoryOK, DeletesItself
    <3>2. LostInv'
      BY <2>0, <2>3 DEF VisibilityTimeout, RecordsOK, StepOK, LostInv, NoJobLost, Honest, PhaseInv, QueueOK, HistoryOK
    <3>3. ApartInv'
      BY <2>0, <2>3 DEF VisibilityTimeout, RecordsOK, StepOK, ApartInv
    <3>4. SoloInv'
      BY <2>0, <2>3 DEF VisibilityTimeout, RecordsOK, StepOK, SoloInv, FlyingInv, Batch
    <3>5. FlyingInv'
      BY <2>0, <2>3 DEF VisibilityTimeout, RecordsOK, StepOK, FlyingInv, SoloInv, ApartInv, Batch, Held, QueueOK, PhaseInv
    <3>6. GoodInv'
      BY <2>0, <2>3 DEF VisibilityTimeout, RecordsOK, StepOK, GoodInv, FlyingInv, PhaseInv, QueueOK, DeletesItself
    <3>7. EndedInv'
      BY <2>0, <2>3 DEF VisibilityTimeout, RecordsOK, StepOK, EndedInv, FlyingInv, SoloInv, ApartInv, GoodInv, Batch, Held, HistoryOK, QueueOK, PhaseInv, DeletesItself
    <3>8. SinkInv'
      BY <2>0, <2>3 DEF VisibilityTimeout, RecordsOK, StepOK, SinkInv, FlyingInv, SoloInv, ApartInv, Batch, Held, QueueOK, PhaseInv, DeletesItself
    <3> QED
      BY <3>1, <3>2, <3>3, <3>4, <3>5, <3>6, <3>7, <3>8 DEF Inv
  <2>4. ASSUME NEW m \in Messages, Duplicate(m) PROVE Inv'
    <3>1. PhaseInv'
      BY <2>0, <2>4 DEF Duplicate, RecordsOK, StepOK, PhaseInv, HistoryOK, DeletesItself
    <3>2. LostInv'
      BY <2>0, <2>4 DEF Duplicate, RecordsOK, StepOK, LostInv, NoJobLost, Honest, PhaseInv, QueueOK, HistoryOK
    <3>3. ApartInv'
      BY <2>0, <2>4 DEF Duplicate, RecordsOK, StepOK, ApartInv
    <3>4. SoloInv'
      BY <2>0, <2>4 DEF Duplicate, RecordsOK, StepOK, SoloInv, FlyingInv, Batch
    <3>5. FlyingInv'
      BY <2>0, <2>4 DEF Duplicate, RecordsOK, StepOK, FlyingInv, SoloInv, ApartInv, Batch, Held, QueueOK, PhaseInv
    <3>6. GoodInv'
      BY <2>0, <2>4 DEF Duplicate, RecordsOK, StepOK, GoodInv, FlyingInv, PhaseInv, QueueOK, DeletesItself
    <3>7. EndedInv'
      BY <2>0, <2>4 DEF Duplicate, RecordsOK, StepOK, EndedInv, FlyingInv, SoloInv, ApartInv, GoodInv, Batch, Held, HistoryOK, QueueOK, PhaseInv, DeletesItself
    <3>8. SinkInv'
      BY <2>0, <2>4 DEF Duplicate, RecordsOK, StepOK, SinkInv, FlyingInv, SoloInv, ApartInv, Batch, Held, QueueOK, PhaseInv, DeletesItself
    <3> QED
      BY <3>1, <3>2, <3>3, <3>4, <3>5, <3>6, <3>7, <3>8 DEF Inv
  <2>5. ASSUME NEW w \in Workers, Receive(w) PROVE Inv'
    <3>1. PhaseInv'
      BY <2>0, <2>5 DEF Receive, RecordsOK, StepOK, PhaseInv, HistoryOK, DeletesItself
    <3>2. LostInv'
      BY <2>0, <2>5 DEF Receive, RecordsOK, StepOK, LostInv, NoJobLost, Honest, PhaseInv, QueueOK, HistoryOK
    <3>3. ApartInv'
      BY <2>0, <2>5 DEF Receive, RecordsOK, StepOK, ApartInv
    <3>4. SoloInv'
      BY <2>0, <2>5 DEF Receive, RecordsOK, StepOK, SoloInv, FlyingInv, Batch
    <3>5. FlyingInv'
      BY <2>0, <2>5 DEF Receive, RecordsOK, StepOK, FlyingInv, SoloInv, ApartInv, Batch, Held, QueueOK, PhaseInv
    <3>6. GoodInv'
      BY <2>0, <2>5 DEF Receive, RecordsOK, StepOK, GoodInv, FlyingInv, PhaseInv, QueueOK, DeletesItself
    <3>7. EndedInv'
      BY <2>0, <2>5 DEF Receive, RecordsOK, StepOK, EndedInv, FlyingInv, SoloInv, ApartInv, GoodInv, Batch, Held, HistoryOK, QueueOK, PhaseInv, DeletesItself
    <3>8. SinkInv'
      BY <2>0, <2>5 DEF Receive, RecordsOK, StepOK, SinkInv, FlyingInv, SoloInv, ApartInv, Batch, Held, QueueOK, PhaseInv, DeletesItself
    <3> QED
      BY <3>1, <3>2, <3>3, <3>4, <3>5, <3>6, <3>7, <3>8 DEF Inv
  <2>6. ASSUME NEW w \in Workers, NEW m \in Messages, Take(w, m) PROVE Inv'
    <3>1. PhaseInv'
      BY <2>0, <2>6 DEF Take, RecordsOK, StepOK, PhaseInv, HistoryOK, DeletesItself
    <3>2. LostInv'
      BY <2>0, <2>6 DEF Take, RecordsOK, StepOK, LostInv, NoJobLost, Honest, PhaseInv, QueueOK, HistoryOK
    <3>3. ApartInv'
      BY <2>0, <2>6 DEF Take, RecordsOK, StepOK, ApartInv
    <3>4. SoloInv'
      BY <2>0, <2>6 DEF Take, RecordsOK, StepOK, SoloInv, FlyingInv, Batch
    <3>5. FlyingInv'
      BY <2>0, <2>6 DEF Take, RecordsOK, StepOK, FlyingInv, SoloInv, ApartInv, Batch, Held, QueueOK, PhaseInv
    <3>6. GoodInv'
      BY <2>0, <2>6 DEF Take, RecordsOK, StepOK, GoodInv, FlyingInv, PhaseInv, QueueOK, DeletesItself
    <3>7. EndedInv'
      BY <2>0, <2>6 DEF Take, RecordsOK, StepOK, EndedInv, FlyingInv, SoloInv, ApartInv, GoodInv, Batch, Held, HistoryOK, QueueOK, PhaseInv, DeletesItself
    <3>8. SinkInv'
      BY <2>0, <2>6 DEF Take, RecordsOK, StepOK, SinkInv, FlyingInv, SoloInv, ApartInv, Batch, Held, QueueOK, PhaseInv, DeletesItself
    <3> QED
      BY <3>1, <3>2, <3>3, <3>4, <3>5, <3>6, <3>7, <3>8 DEF Inv
  <2>7. ASSUME NEW w \in Workers, Start(w) PROVE Inv'
    <3>1. PhaseInv'
      BY <2>0, <2>7 DEF Start, GoTo, RecordsOK, StepOK, PhaseInv, HistoryOK, DeletesItself
    <3>2. LostInv'
      BY <2>0, <2>7 DEF Start, GoTo, RecordsOK, StepOK, LostInv, NoJobLost, Honest, PhaseInv, QueueOK, HistoryOK
    <3>3. ApartInv'
      BY <2>0, <2>7 DEF Start, GoTo, RecordsOK, StepOK, ApartInv
    <3>4. SoloInv'
      BY <2>0, <2>7 DEF Start, GoTo, RecordsOK, StepOK, SoloInv, FlyingInv, Batch
    <3>5. FlyingInv'
      BY <2>0, <2>7 DEF Start, GoTo, RecordsOK, StepOK, FlyingInv, SoloInv, ApartInv, Batch, Held, QueueOK, PhaseInv
    <3>6. GoodInv'
      BY <2>0, <2>7 DEF Start, GoTo, RecordsOK, StepOK, GoodInv, FlyingInv, PhaseInv, QueueOK, DeletesItself
    <3>7. EndedInv'
      BY <2>0, <2>7 DEF Start, GoTo, RecordsOK, StepOK, EndedInv, FlyingInv, SoloInv, ApartInv, GoodInv, Batch, Held, HistoryOK, QueueOK, PhaseInv, DeletesItself
    <3>8. SinkInv'
      BY <2>0, <2>7 DEF Start, GoTo, RecordsOK, StepOK, SinkInv, FlyingInv, SoloInv, ApartInv, Batch, Held, QueueOK, PhaseInv, DeletesItself
    <3> QED
      BY <3>1, <3>2, <3>3, <3>4, <3>5, <3>6, <3>7, <3>8 DEF Inv
  <2>8. ASSUME NEW w \in Workers, StartFails(w) PROVE Inv'
    <3>1. PhaseInv'
      BY <2>0, <2>8 DEF StartFails, Report, RecordsOK, StepOK, PhaseInv, HistoryOK, DeletesItself
    <3>2. LostInv'
      BY <2>0, <2>8 DEF StartFails, Report, RecordsOK, StepOK, LostInv, NoJobLost, Honest, PhaseInv, QueueOK, HistoryOK
    <3>3. ApartInv'
      BY <2>0, <2>8 DEF StartFails, Report, RecordsOK, StepOK, ApartInv
    <3>4. SoloInv'
      BY <2>0, <2>8 DEF StartFails, Report, RecordsOK, StepOK, SoloInv, FlyingInv, Batch
    <3>5. FlyingInv'
      BY <2>0, <2>8 DEF StartFails, Report, RecordsOK, StepOK, FlyingInv, SoloInv, ApartInv, Batch, Held, QueueOK, PhaseInv
    <3>6. GoodInv'
      BY <2>0, <2>8 DEF StartFails, Report, RecordsOK, StepOK, GoodInv, FlyingInv, PhaseInv, QueueOK, DeletesItself
    <3>7. EndedInv'
      BY <2>0, <2>8 DEF StartFails, Report, RecordsOK, StepOK, EndedInv, FlyingInv, SoloInv, ApartInv, GoodInv, Batch, Held, HistoryOK, QueueOK, PhaseInv, DeletesItself
    <3>8. SinkInv'
      BY <2>0, <2>8 DEF StartFails, Report, RecordsOK, StepOK, SinkInv, FlyingInv, SoloInv, ApartInv, Batch, Held, QueueOK, PhaseInv, DeletesItself
    <3> QED
      BY <3>1, <3>2, <3>3, <3>4, <3>5, <3>6, <3>7, <3>8 DEF Inv
  <2>9. ASSUME NEW w \in Workers, Spawn(w) PROVE Inv'
    <3>1. PhaseInv'
      BY <2>0, <2>9 DEF Spawn, GoTo, RecordsOK, StepOK, PhaseInv, HistoryOK, DeletesItself
    <3>2. LostInv'
      BY <2>0, <2>9 DEF Spawn, GoTo, RecordsOK, StepOK, LostInv, NoJobLost, Honest, PhaseInv, QueueOK, HistoryOK
    <3>3. ApartInv'
      BY <2>0, <2>9 DEF Spawn, GoTo, RecordsOK, StepOK, ApartInv
    <3>4. SoloInv'
      BY <2>0, <2>9 DEF Spawn, GoTo, RecordsOK, StepOK, SoloInv, FlyingInv, Batch
    <3>5. FlyingInv'
      BY <2>0, <2>9 DEF Spawn, GoTo, RecordsOK, StepOK, FlyingInv, SoloInv, ApartInv, Batch, Held, QueueOK, PhaseInv
    <3>6. GoodInv'
      BY <2>0, <2>9 DEF Spawn, GoTo, RecordsOK, StepOK, GoodInv, FlyingInv, PhaseInv, QueueOK, DeletesItself
    <3>7. EndedInv'
      BY <2>0, <2>9 DEF Spawn, GoTo, RecordsOK, StepOK, EndedInv, FlyingInv, SoloInv, ApartInv, GoodInv, Batch, Held, HistoryOK, QueueOK, PhaseInv, DeletesItself
    <3>8. SinkInv'
      BY <2>0, <2>9 DEF Spawn, GoTo, RecordsOK, StepOK, SinkInv, FlyingInv, SoloInv, ApartInv, Batch, Held, QueueOK, PhaseInv, DeletesItself
    <3> QED
      BY <3>1, <3>2, <3>3, <3>4, <3>5, <3>6, <3>7, <3>8 DEF Inv
  <2>10. ASSUME NEW w \in Workers, SpawnFails(w) PROVE Inv'
    <3>1. PhaseInv'
      BY <2>0, <2>10 DEF SpawnFails, GoTo, RecordsOK, StepOK, PhaseInv, HistoryOK, DeletesItself
    <3>2. LostInv'
      BY <2>0, <2>10 DEF SpawnFails, GoTo, RecordsOK, StepOK, LostInv, NoJobLost, Honest, PhaseInv, QueueOK, HistoryOK
    <3>3. ApartInv'
      BY <2>0, <2>10 DEF SpawnFails, GoTo, RecordsOK, StepOK, ApartInv
    <3>4. SoloInv'
      BY <2>0, <2>10 DEF SpawnFails, GoTo, RecordsOK, StepOK, SoloInv, FlyingInv, Batch
    <3>5. FlyingInv'
      BY <2>0, <2>10 DEF SpawnFails, GoTo, RecordsOK, StepOK, FlyingInv, SoloInv, ApartInv, Batch, Held, QueueOK, PhaseInv
    <3>6. GoodInv'
      BY <2>0, <2>10 DEF SpawnFails, GoTo, RecordsOK, StepOK, GoodInv, FlyingInv, PhaseInv, QueueOK, DeletesItself
    <3>7. EndedInv'
      BY <2>0, <2>10 DEF SpawnFails, GoTo, RecordsOK, StepOK, EndedInv, FlyingInv, SoloInv, ApartInv, GoodInv, Batch, Held, HistoryOK, QueueOK, PhaseInv, DeletesItself
    <3>8. SinkInv'
      BY <2>0, <2>10 DEF SpawnFails, GoTo, RecordsOK, StepOK, SinkInv, FlyingInv, SoloInv, ApartInv, Batch, Held, QueueOK, PhaseInv, DeletesItself
    <3> QED
      BY <3>1, <3>2, <3>3, <3>4, <3>5, <3>6, <3>7, <3>8 DEF Inv
  <2>11. ASSUME NEW w \in Workers, Exit(w) PROVE Inv'
    <3>1. PhaseInv'
      BY <2>0, <2>11 DEF Exit, GoTo, RecordsOK, StepOK, PhaseInv, HistoryOK, DeletesItself
    <3>2. LostInv'
      BY <2>0, <2>11 DEF Exit, GoTo, RecordsOK, StepOK, LostInv, NoJobLost, Honest, PhaseInv, QueueOK, HistoryOK
    <3>3. ApartInv'
      BY <2>0, <2>11 DEF Exit, GoTo, RecordsOK, StepOK, ApartInv
    <3>4. SoloInv'
      BY <2>0, <2>11 DEF Exit, GoTo, RecordsOK, StepOK, SoloInv, FlyingInv, Batch
    <3>5. FlyingInv'
      BY <2>0, <2>11 DEF Exit, GoTo, RecordsOK, StepOK, FlyingInv, SoloInv, ApartInv, Batch, Held, QueueOK, PhaseInv
    <3>6. GoodInv'
      BY <2>0, <2>11 DEF Exit, GoTo, RecordsOK, StepOK, GoodInv, FlyingInv, PhaseInv, QueueOK, DeletesItself
    <3>7. EndedInv'
      BY <2>0, <2>11 DEF Exit, GoTo, RecordsOK, StepOK, EndedInv, FlyingInv, SoloInv, ApartInv, GoodInv, Batch, Held, HistoryOK, QueueOK, PhaseInv, DeletesItself
    <3>8. SinkInv'
      BY <2>0, <2>11 DEF Exit, GoTo, RecordsOK, StepOK, SinkInv, FlyingInv, SoloInv, ApartInv, Batch, Held, QueueOK, PhaseInv, DeletesItself
    <3> QED
      BY <3>1, <3>2, <3>3, <3>4, <3>5, <3>6, <3>7, <3>8 DEF Inv
  <2>12. ASSUME NEW w \in Workers, OutputFails(w) PROVE Inv'
    <3>1. PhaseInv'
      BY <2>0, <2>12 DEF OutputFails, GoTo, RecordsOK, StepOK, PhaseInv, HistoryOK, DeletesItself
    <3>2. LostInv'
      BY <2>0, <2>12 DEF OutputFails, GoTo, RecordsOK, StepOK, LostInv, NoJobLost, Honest, PhaseInv, QueueOK, HistoryOK
    <3>3. ApartInv'
      BY <2>0, <2>12 DEF OutputFails, GoTo, RecordsOK, StepOK, ApartInv
    <3>4. SoloInv'
      BY <2>0, <2>12 DEF OutputFails, GoTo, RecordsOK, StepOK, SoloInv, FlyingInv, Batch
    <3>5. FlyingInv'
      BY <2>0, <2>12 DEF OutputFails, GoTo, RecordsOK, StepOK, FlyingInv, SoloInv, ApartInv, Batch, Held, QueueOK, PhaseInv
    <3>6. GoodInv'
      BY <2>0, <2>12 DEF OutputFails, GoTo, RecordsOK, StepOK, GoodInv, FlyingInv, PhaseInv, QueueOK, DeletesItself
    <3>7. EndedInv'
      BY <2>0, <2>12 DEF OutputFails, GoTo, RecordsOK, StepOK, EndedInv, FlyingInv, SoloInv, ApartInv, GoodInv, Batch, Held, HistoryOK, QueueOK, PhaseInv, DeletesItself
    <3>8. SinkInv'
      BY <2>0, <2>12 DEF OutputFails, GoTo, RecordsOK, StepOK, SinkInv, FlyingInv, SoloInv, ApartInv, Batch, Held, QueueOK, PhaseInv, DeletesItself
    <3> QED
      BY <3>1, <3>2, <3>3, <3>4, <3>5, <3>6, <3>7, <3>8 DEF Inv
  <2>13. ASSUME NEW w \in Workers, Finish(w) PROVE Inv'
    <3>1. PhaseInv'
      BY <2>0, <2>13 DEF Finish, Succeed, RecordsOK, StepOK, PhaseInv, HistoryOK, DeletesItself
    <3>2. LostInv'
      BY <2>0, <2>13 DEF Finish, Succeed, RecordsOK, StepOK, LostInv, NoJobLost, Honest, PhaseInv, QueueOK, HistoryOK
    <3>3. ApartInv'
      BY <2>0, <2>13 DEF Finish, Succeed, RecordsOK, StepOK, ApartInv
    <3>4. SoloInv'
      BY <2>0, <2>13 DEF Finish, Succeed, RecordsOK, StepOK, SoloInv, FlyingInv, Batch
    <3>5. FlyingInv'
      BY <2>0, <2>13 DEF Finish, Succeed, RecordsOK, StepOK, FlyingInv, SoloInv, ApartInv, Batch, Held, QueueOK, PhaseInv
    <3>6. GoodInv'
      BY <2>0, <2>13 DEF Finish, Succeed, RecordsOK, StepOK, GoodInv, FlyingInv, PhaseInv, QueueOK, DeletesItself
    <3>7. EndedInv'
      BY <2>0, <2>13 DEF Finish, Succeed, RecordsOK, StepOK, EndedInv, FlyingInv, SoloInv, ApartInv, GoodInv, Batch, Held, HistoryOK, QueueOK, PhaseInv, DeletesItself
    <3>8. SinkInv'
      BY <2>0, <2>13 DEF Finish, Succeed, RecordsOK, StepOK, SinkInv, FlyingInv, SoloInv, ApartInv, Batch, Held, QueueOK, PhaseInv, DeletesItself
    <3> QED
      BY <3>1, <3>2, <3>3, <3>4, <3>5, <3>6, <3>7, <3>8 DEF Inv
  <2>14. ASSUME NEW w \in Workers, FinishFails(w) PROVE Inv'
    <3>1. PhaseInv'
      BY <2>0, <2>14 DEF FinishFails, GoTo, RecordsOK, StepOK, PhaseInv, HistoryOK, DeletesItself
    <3>2. LostInv'
      BY <2>0, <2>14 DEF FinishFails, GoTo, RecordsOK, StepOK, LostInv, NoJobLost, Honest, PhaseInv, QueueOK, HistoryOK
    <3>3. ApartInv'
      BY <2>0, <2>14 DEF FinishFails, GoTo, RecordsOK, StepOK, ApartInv
    <3>4. SoloInv'
      BY <2>0, <2>14 DEF FinishFails, GoTo, RecordsOK, StepOK, SoloInv, FlyingInv, Batch
    <3>5. FlyingInv'
      BY <2>0, <2>14 DEF FinishFails, GoTo, RecordsOK, StepOK, FlyingInv, SoloInv, ApartInv, Batch, Held, QueueOK, PhaseInv
    <3>6. GoodInv'
      BY <2>0, <2>14 DEF FinishFails, GoTo, RecordsOK, StepOK, GoodInv, FlyingInv, PhaseInv, QueueOK, DeletesItself
    <3>7. EndedInv'
      BY <2>0, <2>14 DEF FinishFails, GoTo, RecordsOK, StepOK, EndedInv, FlyingInv, SoloInv, ApartInv, GoodInv, Batch, Held, HistoryOK, QueueOK, PhaseInv, DeletesItself
    <3>8. SinkInv'
      BY <2>0, <2>14 DEF FinishFails, GoTo, RecordsOK, StepOK, SinkInv, FlyingInv, SoloInv, ApartInv, Batch, Held, QueueOK, PhaseInv, DeletesItself
    <3> QED
      BY <3>1, <3>2, <3>3, <3>4, <3>5, <3>6, <3>7, <3>8 DEF Inv
  <2>15. ASSUME NEW w \in Workers, Crash(w) PROVE Inv'
    <3>1. PhaseInv'
      BY <2>0, <2>15 DEF Crash, Report, RecordsOK, StepOK, PhaseInv, HistoryOK, DeletesItself
    <3>2. LostInv'
      BY <2>0, <2>15 DEF Crash, Report, RecordsOK, StepOK, LostInv, NoJobLost, Honest, PhaseInv, QueueOK, HistoryOK
    <3>3. ApartInv'
      BY <2>0, <2>15 DEF Crash, Report, RecordsOK, StepOK, ApartInv
    <3>4. SoloInv'
      BY <2>0, <2>15 DEF Crash, Report, RecordsOK, StepOK, SoloInv, FlyingInv, Batch
    <3>5. FlyingInv'
      BY <2>0, <2>15 DEF Crash, Report, RecordsOK, StepOK, FlyingInv, SoloInv, ApartInv, Batch, Held, QueueOK, PhaseInv
    <3>6. GoodInv'
      BY <2>0, <2>15 DEF Crash, Report, RecordsOK, StepOK, GoodInv, FlyingInv, PhaseInv, QueueOK, DeletesItself
    <3>7. EndedInv'
      BY <2>0, <2>15 DEF Crash, Report, RecordsOK, StepOK, EndedInv, FlyingInv, SoloInv, ApartInv, GoodInv, Batch, Held, HistoryOK, QueueOK, PhaseInv, DeletesItself
    <3>8. SinkInv'
      BY <2>0, <2>15 DEF Crash, Report, RecordsOK, StepOK, SinkInv, FlyingInv, SoloInv, ApartInv, Batch, Held, QueueOK, PhaseInv, DeletesItself
    <3> QED
      BY <3>1, <3>2, <3>3, <3>4, <3>5, <3>6, <3>7, <3>8 DEF Inv
  <2>16. ASSUME NEW w \in Workers, Call(w) PROVE Inv'
    <3>1. PhaseInv'
      BY <2>0, <2>16 DEF Call, GoTo, RecordsOK, StepOK, PhaseInv, HistoryOK, DeletesItself
    <3>2. LostInv'
      BY <2>0, <2>16 DEF Call, GoTo, RecordsOK, StepOK, LostInv, NoJobLost, Honest, PhaseInv, QueueOK, HistoryOK
    <3>3. ApartInv'
      BY <2>0, <2>16 DEF Call, GoTo, RecordsOK, StepOK, ApartInv
    <3>4. SoloInv'
      BY <2>0, <2>16 DEF Call, GoTo, RecordsOK, StepOK, SoloInv, FlyingInv, Batch
    <3>5. FlyingInv'
      BY <2>0, <2>16 DEF Call, GoTo, RecordsOK, StepOK, FlyingInv, SoloInv, ApartInv, Batch, Held, QueueOK, PhaseInv
    <3>6. GoodInv'
      BY <2>0, <2>16 DEF Call, GoTo, RecordsOK, StepOK, GoodInv, FlyingInv, PhaseInv, QueueOK, DeletesItself
    <3>7. EndedInv'
      BY <2>0, <2>16 DEF Call, GoTo, RecordsOK, StepOK, EndedInv, FlyingInv, SoloInv, ApartInv, GoodInv, Batch, Held, HistoryOK, QueueOK, PhaseInv, DeletesItself
    <3>8. SinkInv'
      BY <2>0, <2>16 DEF Call, GoTo, RecordsOK, StepOK, SinkInv, FlyingInv, SoloInv, ApartInv, Batch, Held, QueueOK, PhaseInv, DeletesItself
    <3> QED
      BY <3>1, <3>2, <3>3, <3>4, <3>5, <3>6, <3>7, <3>8 DEF Inv
  <2>17. ASSUME NEW w \in Workers, Delete(w) PROVE Inv'
    <3>1. PhaseInv'
      BY <2>0, <2>17 DEF Delete, Succeed, Deleted, RecordsOK, StepOK, PhaseInv, HistoryOK, DeletesItself
    <3>2. LostInv'
      BY <2>0, <2>17 DEF Delete, Succeed, Deleted, RecordsOK, StepOK, LostInv, NoJobLost, Honest, PhaseInv, QueueOK, HistoryOK
    <3>3. ApartInv'
      BY <2>0, <2>17 DEF Delete, Succeed, Deleted, RecordsOK, StepOK, ApartInv
    <3>4. SoloInv'
      BY <2>0, <2>17 DEF Delete, Succeed, Deleted, RecordsOK, StepOK, SoloInv, FlyingInv, Batch
    <3>5. FlyingInv'
      BY <2>0, <2>17 DEF Delete, Succeed, Deleted, RecordsOK, StepOK, FlyingInv, SoloInv, ApartInv, Batch, Held, QueueOK, PhaseInv
    <3>6. GoodInv'
      BY <2>0, <2>17 DEF Delete, Succeed, Deleted, RecordsOK, StepOK, GoodInv, FlyingInv, PhaseInv, QueueOK, DeletesItself
    <3>7. EndedInv'
      BY <2>0, <2>17 DEF Delete, Succeed, Deleted, RecordsOK, StepOK, EndedInv, FlyingInv, SoloInv, ApartInv, GoodInv, Batch, Held, HistoryOK, QueueOK, PhaseInv, DeletesItself
    <3>8. SinkInv'
      BY <2>0, <2>17 DEF Delete, Succeed, Deleted, RecordsOK, StepOK, SinkInv, FlyingInv, SoloInv, ApartInv, Batch, Held, QueueOK, PhaseInv, DeletesItself
    <3> QED
      BY <3>1, <3>2, <3>3, <3>4, <3>5, <3>6, <3>7, <3>8 DEF Inv
  <2>18. ASSUME NEW w \in Workers, CallFails(w) PROVE Inv'
    <3>1. PhaseInv'
      BY <2>0, <2>18 DEF CallFails, Report, EndInvocation, Deleted, RecordsOK, StepOK, PhaseInv, HistoryOK, DeletesItself
    <3>2. LostInv'
      BY <2>0, <2>18 DEF CallFails, Report, EndInvocation, Deleted, RecordsOK, StepOK, LostInv, NoJobLost, Honest, PhaseInv, QueueOK, HistoryOK
    <3>3. ApartInv'
      BY <2>0, <2>18 DEF CallFails, Report, EndInvocation, Deleted, RecordsOK, StepOK, ApartInv
    <3>4. SoloInv'
      BY <2>0, <2>18 DEF CallFails, Report, EndInvocation, Deleted, RecordsOK, StepOK, SoloInv, FlyingInv, Batch
    <3>5. FlyingInv'
      BY <2>0, <2>18 DEF CallFails, Report, EndInvocation, Deleted, RecordsOK, StepOK, FlyingInv, SoloInv, ApartInv, Batch, Held, QueueOK, PhaseInv
    <3>6. GoodInv'
      BY <2>0, <2>18 DEF CallFails, Report, EndInvocation, Deleted, RecordsOK, StepOK, GoodInv, FlyingInv, PhaseInv, QueueOK, DeletesItself
    <3>7. EndedInv'
      BY <2>0, <2>18 DEF CallFails, Report, EndInvocation, Deleted, RecordsOK, StepOK, EndedInv, FlyingInv, SoloInv, ApartInv, GoodInv, Batch, Held, HistoryOK, QueueOK, PhaseInv, DeletesItself
    <3>8. SinkInv'
      BY <2>0, <2>18 DEF CallFails, Report, EndInvocation, Deleted, RecordsOK, StepOK, SinkInv, FlyingInv, SoloInv, ApartInv, Batch, Held, QueueOK, PhaseInv, DeletesItself
    <3> QED
      BY <3>1, <3>2, <3>3, <3>4, <3>5, <3>6, <3>7, <3>8 DEF Inv
  <2>19. ASSUME NEW w \in Workers, Handle(w) PROVE Inv'
    <3>1. PhaseInv'
      BY <2>0, <2>19 DEF Handle, Succeed, RecordsOK, StepOK, PhaseInv, HistoryOK, DeletesItself
    <3>2. LostInv'
      BY <2>0, <2>19 DEF Handle, Succeed, RecordsOK, StepOK, LostInv, NoJobLost, Honest, PhaseInv, QueueOK, HistoryOK
    <3>3. ApartInv'
      BY <2>0, <2>19 DEF Handle, Succeed, RecordsOK, StepOK, ApartInv
    <3>4. SoloInv'
      BY <2>0, <2>19 DEF Handle, Succeed, RecordsOK, StepOK, SoloInv, FlyingInv, Batch
    <3>5. FlyingInv'
      BY <2>0, <2>19 DEF Handle, Succeed, RecordsOK, StepOK, FlyingInv, SoloInv, ApartInv, Batch, Held, QueueOK, PhaseInv
    <3>6. GoodInv'
      BY <2>0, <2>19 DEF Handle, Succeed, RecordsOK, StepOK, GoodInv, FlyingInv, PhaseInv, QueueOK, DeletesItself
    <3>7. EndedInv'
      BY <2>0, <2>19 DEF Handle, Succeed, RecordsOK, StepOK, EndedInv, FlyingInv, SoloInv, ApartInv, GoodInv, Batch, Held, HistoryOK, QueueOK, PhaseInv, DeletesItself
    <3>8. SinkInv'
      BY <2>0, <2>19 DEF Handle, Succeed, RecordsOK, StepOK, SinkInv, FlyingInv, SoloInv, ApartInv, Batch, Held, QueueOK, PhaseInv, DeletesItself
    <3> QED
      BY <3>1, <3>2, <3>3, <3>4, <3>5, <3>6, <3>7, <3>8 DEF Inv
  <2>20. ASSUME NEW w \in Workers, HandleFails(w) PROVE Inv'
    <3>1. PhaseInv'
      BY <2>0, <2>20 DEF HandleFails, Report, RecordsOK, StepOK, PhaseInv, HistoryOK, DeletesItself
    <3>2. LostInv'
      BY <2>0, <2>20 DEF HandleFails, Report, RecordsOK, StepOK, LostInv, NoJobLost, Honest, PhaseInv, QueueOK, HistoryOK
    <3>3. ApartInv'
      BY <2>0, <2>20 DEF HandleFails, Report, RecordsOK, StepOK, ApartInv
    <3>4. SoloInv'
      BY <2>0, <2>20 DEF HandleFails, Report, RecordsOK, StepOK, SoloInv, FlyingInv, Batch
    <3>5. FlyingInv'
      BY <2>0, <2>20 DEF HandleFails, Report, RecordsOK, StepOK, FlyingInv, SoloInv, ApartInv, Batch, Held, QueueOK, PhaseInv
    <3>6. GoodInv'
      BY <2>0, <2>20 DEF HandleFails, Report, RecordsOK, StepOK, GoodInv, FlyingInv, PhaseInv, QueueOK, DeletesItself
    <3>7. EndedInv'
      BY <2>0, <2>20 DEF HandleFails, Report, RecordsOK, StepOK, EndedInv, FlyingInv, SoloInv, ApartInv, GoodInv, Batch, Held, HistoryOK, QueueOK, PhaseInv, DeletesItself
    <3>8. SinkInv'
      BY <2>0, <2>20 DEF HandleFails, Report, RecordsOK, StepOK, SinkInv, FlyingInv, SoloInv, ApartInv, Batch, Held, QueueOK, PhaseInv, DeletesItself
    <3> QED
      BY <3>1, <3>2, <3>3, <3>4, <3>5, <3>6, <3>7, <3>8 DEF Inv
  <2>21. ASSUME NEW w \in Workers, Answer(w) PROVE Inv'
    <3>1. PhaseInv'
      BY <2>0, <2>21 DEF Answer, EndInvocation, Deleted, RecordsOK, StepOK, PhaseInv, HistoryOK, DeletesItself
    <3>2. LostInv'
      BY <2>0, <2>21 DEF Answer, EndInvocation, Deleted, RecordsOK, StepOK, LostInv, NoJobLost, Honest, PhaseInv, QueueOK, HistoryOK
    <3>3. ApartInv'
      BY <2>0, <2>21 DEF Answer, EndInvocation, Deleted, RecordsOK, StepOK, ApartInv
    <3>4. SoloInv'
      BY <2>0, <2>21 DEF Answer, EndInvocation, Deleted, RecordsOK, StepOK, SoloInv, FlyingInv, Batch
    <3>5. FlyingInv'
      BY <2>0, <2>21 DEF Answer, EndInvocation, Deleted, RecordsOK, StepOK, FlyingInv, SoloInv, ApartInv, Batch, Held, QueueOK, PhaseInv
    <3>6. GoodInv'
      BY <2>0, <2>21 DEF Answer, EndInvocation, Deleted, RecordsOK, StepOK, GoodInv, FlyingInv, PhaseInv, QueueOK, DeletesItself
    <3>7. EndedInv'
      BY <2>0, <2>21 DEF Answer, EndInvocation, Deleted, RecordsOK, StepOK, EndedInv, FlyingInv, SoloInv, ApartInv, GoodInv, Batch, Held, HistoryOK, QueueOK, PhaseInv, DeletesItself
    <3>8. SinkInv'
      BY <2>0, <2>21 DEF Answer, EndInvocation, Deleted, RecordsOK, StepOK, SinkInv, FlyingInv, SoloInv, ApartInv, Batch, Held, QueueOK, PhaseInv, DeletesItself
    <3> QED
      BY <3>1, <3>2, <3>3, <3>4, <3>5, <3>6, <3>7, <3>8 DEF Inv
  <2>22. ASSUME NEW w \in Workers, Die(w) PROVE Inv'
    <3>1. PhaseInv'
      BY <2>0, <2>22 DEF Die, EndInvocation, RecordsOK, StepOK, PhaseInv, HistoryOK, DeletesItself
    <3>2. LostInv'
      BY <2>0, <2>22 DEF Die, EndInvocation, RecordsOK, StepOK, LostInv, NoJobLost, Honest, PhaseInv, QueueOK, HistoryOK
    <3>3. ApartInv'
      BY <2>0, <2>22 DEF Die, EndInvocation, RecordsOK, StepOK, ApartInv
    <3>4. SoloInv'
      BY <2>0, <2>22 DEF Die, EndInvocation, RecordsOK, StepOK, SoloInv, FlyingInv, Batch
    <3>5. FlyingInv'
      BY <2>0, <2>22 DEF Die, EndInvocation, RecordsOK, StepOK, FlyingInv, SoloInv, ApartInv, Batch, Held, QueueOK, PhaseInv
    <3>6. GoodInv'
      BY <2>0, <2>22 DEF Die, EndInvocation, RecordsOK, StepOK, GoodInv, FlyingInv, PhaseInv, QueueOK, DeletesItself
    <3>7. EndedInv'
      BY <2>0, <2>22 DEF Die, EndInvocation, RecordsOK, StepOK, EndedInv, FlyingInv, SoloInv, ApartInv, GoodInv, Batch, Held, HistoryOK, QueueOK, PhaseInv, DeletesItself
    <3>8. SinkInv'
      BY <2>0, <2>22 DEF Die, EndInvocation, RecordsOK, StepOK, SinkInv, FlyingInv, SoloInv, ApartInv, Batch, Held, QueueOK, PhaseInv, DeletesItself
    <3> QED
      BY <3>1, <3>2, <3>3, <3>4, <3>5, <3>6, <3>7, <3>8 DEF Inv
  <2>23. CASE UNCHANGED vars
    <3>1. PhaseInv'
      BY <2>0, <2>23 DEF vars, RecordsOK, StepOK, PhaseInv, HistoryOK, DeletesItself
    <3>2. LostInv'
      BY <2>0, <2>23 DEF vars, RecordsOK, StepOK, LostInv, NoJobLost, Honest, PhaseInv, QueueOK, HistoryOK
    <3>3. ApartInv'
      BY <2>0, <2>23 DEF vars, RecordsOK, StepOK, ApartInv
    <3>4. SoloInv'
      BY <2>0, <2>23 DEF vars, RecordsOK, StepOK, SoloInv, FlyingInv, Batch
    <3>5. FlyingInv'
      BY <2>0, <2>23 DEF vars, RecordsOK, StepOK, FlyingInv, SoloInv, ApartInv, Batch, Held, QueueOK, PhaseInv
    <3>6. GoodInv'
      BY <2>0, <2>23 DEF vars, RecordsOK, StepOK, GoodInv, FlyingInv, PhaseInv, QueueOK, DeletesItself
    <3>7. EndedInv'
      BY <2>0, <2>23 DEF vars, RecordsOK, StepOK, EndedInv, FlyingInv, SoloInv, ApartInv, GoodInv, Batch, Held, HistoryOK, QueueOK, PhaseInv, DeletesItself
    <3>8. SinkInv'
      BY <2>0, <2>23 DEF vars, RecordsOK, StepOK, SinkInv, FlyingInv, SoloInv, ApartInv, Batch, Held, QueueOK, PhaseInv, DeletesItself
    <3> QED
      BY <3>1, <3>2, <3>3, <3>4, <3>5, <3>6, <3>7, <3>8 DEF Inv
  <2> QED
    BY <2>1, <2>2, <2>3, <2>4, <2>5, <2>6, <2>7, <2>8, <2>9, <2>10, <2>11, <2>12, <2>13, <2>14, <2>15, <2>16, <2>17, <2>18, <2>19, <2>20, <2>21, <2>22, <2>23 DEF Next, Deliver, Work
<1> QED
  BY <1>1, <1>2, Typing, PTL DEF Spec

\* A message leaves the queue only when its job has run to its end
\* (BaseCommandHandler.__call__, process_sqs_records).
THEOREM JobsAreNotLost == Spec => []NoJobLost
BY Invariance, PTL DEF Inv, LostInv

\* Once nothing will run a job again, its status says how it ended
\* (BaseCommandHandler._run).
THEOREM StatusIsSettled == Spec => []StatusSettled
<1>1. TypeOK /\ Inv => StatusSettled
  <2> SUFFICES ASSUME TypeOK, Inv, kind = "command",
                      NEW m \in Messages, m \notin doubled, ~Held(m)
               PROVE  /\ queue[m] = "deleted" /\ reporting => sink[m] = "finished"
                      /\ sink[m] # "running" \/ m \in silent
    BY DEF StatusSettled
  <2> QED
    BY DEF Inv, SinkInv, Held, Batch
<1> QED
  BY <1>1, Typing, Invariance, PTL

\* A job whose end was taken down is not run again because another record of
\* its batch failed (BaseCommandHandler.__call__).
THEOREM JobsAreNotRerun == Spec => NoNeedlessRerun
<1> USE NoneAssumption
<1>1. TypeOK /\ Inv /\ [Next]_vars =>
        [\A w \in Workers, m \in Messages :
           Take(w, m) /\ m \in ended => m \in excused \cup doubled]_vars
  <2> SUFFICES ASSUME TypeOK, Inv, NEW w \in Workers, NEW m \in Messages,
                      Take(w, m), m \in ended, m \notin doubled
               PROVE  m \in excused
    OBVIOUS
  <2>1. m \in todo[w] /\ m \in Batch(w) /\ queue[m] = "flying" /\ m \notin good[w]
    BY DEF Take, Inv, FlyingInv, ApartInv, Batch
  <2>2. ASSUME NEW v \in Workers, m \in good[v] PROVE FALSE
    BY <2>1, <2>2 DEF Inv, SoloInv, Batch
  <2> QED
    BY <2>1, <2>2 DEF Inv, EndedInv
<1> QED
  BY <1>1, Typing, Invariance, PTL DEF Spec, NoNeedlessRerun
=============================================================================
