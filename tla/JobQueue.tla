------------------------------ MODULE JobQueue ------------------------------
(***************************************************************************)
(* Background jobs: messages of an SQS queue, run by the invocations of a  *)
(* Lambda function (pocket/command_handler.py, django/lambda_handlers.py,  *)
(* crates/pocket-rs/src/sqs.rs, and the queue in container.yaml).          *)
(*                                                                         *)
(* There are four handlers.                                                *)
(*   command     BaseCommandHandler: runs a program, tells a status store  *)
(*               (the sink) about it, catches every exception              *)
(*   management  sqs_management_command_handler: deletes each message as   *)
(*               its command ends, lets exceptions escape                  *)
(*   report      sqs_management_command_report_failures_handler: the same, *)
(*               but catches them                                          *)
(*   rust        process_sqs_records: collects the errors                  *)
(* With ReportBatchItemFailures (`reporting`) the queue reads the answer   *)
(* of an invocation and keeps what the answer names; without it an answer  *)
(* of any kind deletes the whole batch.  No answer deletes nothing.        *)
(***************************************************************************)
EXTENDS Naturals, FiniteSets

CONSTANTS
  Messages,
  Workers,        \* invocations at a time (maximum_concurrency)
  None,           \* not a message
  BatchSize,      \* records in one invocation (batch_size)
  MaxReceive,     \* dead_letter_max_receive_count
  MaxDuplicates   \* bound on messages that SQS delivers twice at a time

ASSUME NoneAssumption == None \notin Messages
ASSUME BoundsAssumption ==
  BatchSize \in Nat /\ MaxReceive \in Nat /\ MaxDuplicates \in Nat

Kinds == {"command", "management", "report", "rust"}
DeletesItself == {"management", "report"}

VARIABLES
  kind,       \* which handler the function has
  reporting,  \* report_batch_item_failures
  queue,      \* where each message is
  receives,   \* how often it was received
  sink,       \* the status of its job that a user reads
  pc,         \* what each invocation does
  todo,       \* records of its batch it has not taken up
  current,    \* the record it works on
  good,       \* records it has dealt with
  failed,     \* records it will report (batchItemFailures)
  done,       \* history: messages whose job has run to its end
  ended,      \* history: ... and the end of whose last run was taken down
  excused,    \* history: ... by an invocation that then gave no answer
  silent,     \* history: messages whose last run could not tell its end
  doubled     \* history: messages delivered again while being worked on

config == <<kind, reporting>>
invocation == <<pc, todo, current, good, failed>>
history == <<done, ended, excused, silent, doubled>>
vars == <<config, queue, receives, sink, invocation, history>>

Batch(w) == todo[w] \cup {current[w]} \cup good[w] \cup failed[w]
Held(m) == \E w \in Workers : m \in Batch(w)

Init ==
  /\ kind \in Kinds /\ reporting \in BOOLEAN
  /\ queue = [m \in Messages |-> "unsent"]
  /\ receives = [m \in Messages |-> 0]
  /\ sink = [m \in Messages |-> "none"]
  /\ pc = [w \in Workers |-> "idle"]
  /\ todo = [w \in Workers |-> {}]
  /\ current = [w \in Workers |-> None]
  /\ good = [w \in Workers |-> {}]
  /\ failed = [w \in Workers |-> {}]
  /\ done = {} /\ ended = {} /\ excused = {} /\ silent = {} /\ doubled = {}

-----------------------------------------------------------------------------
(* The queue.                                                               *)

Send(m) ==
  /\ queue[m] = "unsent"
  /\ queue' = [queue EXCEPT ![m] = "waiting"]
  /\ UNCHANGED <<config, receives, sink, invocation, history>>

Receive(w) ==
  /\ pc[w] = "idle"
  /\ \E batch \in SUBSET {m \in Messages : queue[m] = "waiting"
                                        /\ receives[m] < MaxReceive} :
       /\ batch # {} /\ Cardinality(batch) <= BatchSize
       /\ queue' = [m \in Messages |-> IF m \in batch THEN "flying" ELSE queue[m]]
       /\ receives' = [m \in Messages |->
                         IF m \in batch THEN receives[m] + 1 ELSE receives[m]]
       /\ todo' = [todo EXCEPT ![w] = batch]
  /\ pc' = [pc EXCEPT ![w] = "next"]
  /\ UNCHANGED <<config, sink, current, good, failed, history>>

DeadLetterMutant(m) ==
  /\ queue[m] = "waiting" /\ receives[m] > MaxReceive
  /\ queue' = [queue EXCEPT ![m] = "dead"]
  /\ UNCHANGED <<config, receives, sink, invocation, history>>

DeadLetter(m) ==
  /\ queue[m] = "waiting" /\ receives[m] = MaxReceive
  /\ queue' = [queue EXCEPT ![m] = "dead"]
  /\ UNCHANGED <<config, receives, sink, invocation, history>>

\* The visibility timeout is six times that of the function, so it runs out
\* only after the invocation that received the message is over.
VisibilityTimeout(m) ==
  /\ queue[m] = "flying" /\ ~Held(m)
  /\ queue' = [queue EXCEPT ![m] = "waiting"]
  /\ UNCHANGED <<config, receives, sink, invocation, history>>

\* A standard queue delivers at least once: now and then, twice.
Duplicate(m) ==
  /\ queue[m] = "flying" /\ Held(m)
  /\ m \notin doubled /\ Cardinality(doubled) < MaxDuplicates
  /\ queue' = [queue EXCEPT ![m] = "waiting"]
  /\ doubled' = doubled \cup {m}
  /\ UNCHANGED <<config, receives, sink, invocation, done, ended, excused,
                 silent>>

-----------------------------------------------------------------------------
(* An invocation, record by record.                                         *)

Take(w, m) ==
  /\ pc[w] = "next" /\ m \in todo[w]
  /\ pc' = [pc EXCEPT ![w] = "taken"]
  /\ todo' = [todo EXCEPT ![w] = @ \ {m}]
  /\ current' = [current EXCEPT ![w] = m]
  /\ ended' = ended \ {m} /\ excused' = excused \ {m}
  /\ UNCHANGED <<config, queue, receives, sink, good, failed, done, silent,
                 doubled>>

\* The record is over, with success or to be reported.
Succeed(w) ==
  /\ good' = [good EXCEPT ![w] = @ \cup {current[w]}]
  /\ ended' = ended \cup {current[w]}
  /\ pc' = [pc EXCEPT ![w] = "next"]
  /\ current' = [current EXCEPT ![w] = None]
  /\ UNCHANGED <<todo, failed>>

Report(w) ==
  /\ failed' = [failed EXCEPT ![w] = @ \cup {current[w]}]
  /\ pc' = [pc EXCEPT ![w] = "next"]
  /\ current' = [current EXCEPT ![w] = None]
  /\ UNCHANGED <<todo, good, ended>>

\* The invocation is over.
EndInvocation(w) ==
  /\ pc' = [pc EXCEPT ![w] = "idle"]
  /\ todo' = [todo EXCEPT ![w] = {}]
  /\ current' = [current EXCEPT ![w] = None]
  /\ good' = [good EXCEPT ![w] = {}]
  /\ failed' = [failed EXCEPT ![w] = {}]

GoTo(w, step) ==
  /\ pc' = [pc EXCEPT ![w] = step]
  /\ UNCHANGED <<todo, current, good, failed>>

(* command: on_start, the program, on_output, on_finish, and on_crash when  *)
(* the latter three or the program fail.  A hook that raises may or may not *)
(* have written.                                                            *)

Start(w) ==
  /\ pc[w] = "taken" /\ kind = "command"
  /\ sink' = [sink EXCEPT ![current[w]] = "running"]
  /\ silent' = silent \ {current[w]}
  /\ GoTo(w, "build")
  /\ UNCHANGED <<config, queue, receives, done, ended, excused, doubled>>

\* The body is not JSON, or on_start raises: it runs outside the try.
StartFails(w) ==
  /\ pc[w] = "taken" /\ kind = "command"
  /\ sink' \in {sink, [sink EXCEPT ![current[w]] = "running"]}
  /\ silent' = silent \cup {current[w]}
  /\ Report(w)
  /\ UNCHANGED <<config, queue, receives, done, excused, doubled>>

Spawn(w) ==
  /\ pc[w] = "build"
  /\ GoTo(w, "run")
  /\ UNCHANGED <<config, queue, receives, sink, history>>

SpawnFailsMutant(w) ==
  /\ pc[w] = "build"
  /\ Report(w)
  /\ UNCHANGED <<config, queue, receives, sink, done, excused, silent, doubled>>

\* build_argv refuses the spec, or the program cannot be started.
SpawnFails(w) ==
  /\ pc[w] = "build"
  /\ GoTo(w, "crash")
  /\ UNCHANGED <<config, queue, receives, sink, history>>

\* The program has ended, with any exit code, and all its output was taken.
Exit(w) ==
  /\ pc[w] = "run"
  /\ done' = done \cup {current[w]}
  /\ GoTo(w, "finish")
  /\ UNCHANGED <<config, queue, receives, sink, ended, excused, silent, doubled>>

\* on_output raises while the program, which nobody waits for, runs on.
OutputFails(w) ==
  /\ pc[w] = "run"
  /\ GoTo(w, "crash")
  /\ UNCHANGED <<config, queue, receives, sink, history>>

Finish(w) ==
  /\ pc[w] = "finish"
  /\ sink' = [sink EXCEPT ![current[w]] = "finished"]
  /\ Succeed(w)
  /\ UNCHANGED <<config, queue, receives, done, excused, silent, doubled>>

FinishFails(w) ==
  /\ pc[w] = "finish"
  /\ sink' \in {sink, [sink EXCEPT ![current[w]] = "finished"]}
  /\ GoTo(w, "crash")
  /\ UNCHANGED <<config, queue, receives, history>>

EscapingMutant(w) ==
  /\ pc[w] = "crash"
  /\ sink' = [sink EXCEPT ![current[w]] = "failed"] /\ UNCHANGED silent
  /\ EndInvocation(w)
  /\ UNCHANGED <<config, queue, receives, done, ended, excused, doubled>>

SwallowingMutant(w) ==
  /\ pc[w] = "crash"
  /\ sink' = [sink EXCEPT ![current[w]] = "failed"] /\ UNCHANGED silent
  /\ Succeed(w)
  /\ UNCHANGED <<config, queue, receives, done, excused, doubled>>

Crash(w) ==
  /\ pc[w] = "crash"
  /\ \/ sink' = [sink EXCEPT ![current[w]] = "failed"] /\ UNCHANGED silent
     \/ sink' = sink /\ silent' = silent \cup {current[w]}
  /\ Report(w)
  /\ UNCHANGED <<config, queue, receives, done, excused, doubled>>

(* management and report: the command, then the deletion of its message.   *)

Call(w) ==
  /\ pc[w] = "taken" /\ kind \in DeletesItself
  /\ done' = done \cup {current[w]}
  /\ GoTo(w, "delete")
  /\ UNCHANGED <<config, queue, receives, sink, ended, excused, silent, doubled>>

Deleted(ms) ==
  [m \in Messages |-> IF m \in ms /\ queue[m] # "dead" THEN "deleted" ELSE queue[m]]

Delete(w) ==
  /\ pc[w] = "delete"
  /\ queue' = Deleted({current[w]})
  /\ Succeed(w)
  /\ UNCHANGED <<config, receives, sink, done, excused, silent, doubled>>

\* An exception in either: one is reported, the other ends the invocation.  A
\* deletion that raises may have been made.
CallFails(w) ==
  /\ pc[w] \in {"taken", "delete"} /\ kind \in DeletesItself
  /\ queue' \in {queue} \cup {Deleted({current[v]}) : v \in {w} \cap
                                          {u \in Workers : pc[u] = "delete"}}
  /\ IF kind = "report" THEN Report(w) ELSE EndInvocation(w) /\ UNCHANGED ended
  /\ UNCHANGED <<config, receives, sink, done, excused, silent, doubled>>

(* rust: the function of the application, with Ok or Err.                   *)

Handle(w) ==
  /\ pc[w] = "taken" /\ kind = "rust"
  /\ done' = done \cup {current[w]}
  /\ Succeed(w)
  /\ UNCHANGED <<config, queue, receives, sink, excused, silent, doubled>>

HandleFails(w) ==
  /\ pc[w] = "taken" /\ kind = "rust"
  /\ Report(w)
  /\ UNCHANGED <<config, queue, receives, sink, done, excused, silent, doubled>>

\* The answer, and what the queue does with it.
Answer(w) ==
  /\ pc[w] = "next" /\ todo[w] = {}
  /\ queue' = Deleted(IF reporting THEN good[w] ELSE good[w] \cup failed[w])
  /\ EndInvocation(w)
  /\ UNCHANGED <<config, receives, sink, history>>

\* The function times out, runs out of memory, panics or calls sys.exit; or
\* its answer does not arrive.
Die(w) ==
  /\ pc[w] # "idle"
  /\ EndInvocation(w)
  /\ excused' = excused \cup good[w]
  /\ silent' = IF current[w] = None THEN silent ELSE silent \cup {current[w]}
  /\ UNCHANGED <<config, queue, receives, sink, done, ended, doubled>>

Work(w) ==
  \/ \E m \in Messages : Take(w, m)
  \/ Start(w) \/ StartFails(w) \/ Spawn(w) \/ SpawnFails(w) \/ Exit(w)
  \/ OutputFails(w) \/ Finish(w) \/ FinishFails(w) \/ Crash(w)
  \/ Call(w) \/ Delete(w) \/ CallFails(w) \/ Handle(w) \/ HandleFails(w)
  \/ Answer(w) \/ Die(w)

Deliver ==
  \/ \E m \in Messages : DeadLetter(m) \/ VisibilityTimeout(m)
  \/ \E w \in Workers : Receive(w)

Next ==
  \/ \E m \in Messages : Send(m) \/ Duplicate(m)
  \/ Deliver
  \/ \E w \in Workers : Work(w)

Spec == Init /\ [][Next]_vars

\* While Lambda, the event source mapping or the queue can do something, one of
\* them does: an invocation ends by itself or is ended when it times out, the
\* queue is polled, and a visibility timeout runs out.
FairSpec == Spec /\ WF_vars(Deliver \/ \E w \in Workers : Work(w))

-----------------------------------------------------------------------------
(* Properties.                                                              *)

ConfigOK == kind \in Kinds /\ reporting \in BOOLEAN

QueueOK ==
  /\ queue \in [Messages -> {"unsent", "waiting", "flying", "deleted", "dead"}]
  /\ receives \in [Messages -> 0 .. MaxReceive]
  /\ sink \in [Messages -> {"none", "running", "finished", "failed"}]

RecordsOK ==
  /\ pc \in [Workers -> {"idle", "next", "taken", "build", "run", "finish",
                         "crash", "delete"}]
  /\ todo \in [Workers -> SUBSET Messages]
  /\ current \in [Workers -> Messages \cup {None}]
  /\ good \in [Workers -> SUBSET Messages]
  /\ failed \in [Workers -> SUBSET Messages]

StepOK ==
  \A w \in Workers :
    /\ pc[w] \in {"idle", "next"} <=> current[w] = None
    /\ pc[w] = "idle" => todo[w] = {} /\ good[w] = {} /\ failed[w] = {}

HistoryOK ==
  /\ done \subseteq Messages /\ ended \subseteq Messages
  /\ excused \subseteq Messages /\ silent \subseteq Messages
  /\ doubled \subseteq Messages

\* Types; an invocation works on a record between taking it up and leaving it,
\* and holds nothing when it is over.
TypeOK == ConfigOK /\ QueueOK /\ RecordsOK /\ StepOK /\ HistoryOK

\* The answer that the handler gives is one the queue was told to read.
Honest == reporting \/ kind = "management"

\* A message leaves the queue for good only when its job has run to its end:
\* no failure of a job, a hook, a deletion or a whole invocation loses it, and
\* neither does the success of another record of its batch (BaseCommandHandler
\* .__call__, process_sqs_records).
NoJobLost ==
  Honest => \A m \in Messages : queue[m] = "deleted" => m \in done

\* A job whose end was taken down runs again only if the invocation that ran
\* it gave no answer after all, or SQS delivered it twice: not because another
\* record of the batch failed.
NoNeedlessRerun ==
  [][\A w \in Workers, m \in Messages :
       Take(w, m) /\ m \in ended => m \in excused \cup doubled]_vars

\* Once nothing will run a job again, its status says how it ended: a deleted
\* one has finished, and none is still running unless its last run was killed
\* or could not tell (a dead one may never have run: its batches were killed
\* over other records).
StatusSettled ==
  \A m \in Messages : kind = "command" /\ m \notin doubled /\ ~Held(m) =>
    /\ queue[m] = "deleted" /\ reporting => sink[m] = "finished"
    /\ queue[m] \in {"deleted", "dead"} => sink[m] # "running" \/ m \in silent

\* Every message that is sent is in the end deleted or dead, with nobody working
\* on it, whatever fails, dies or is delivered twice.
Settles ==
  <>[](\A m \in Messages :
         queue[m] \in {"unsent", "deleted", "dead"} /\ ~Held(m))

=============================================================================
