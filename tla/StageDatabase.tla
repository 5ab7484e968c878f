---------------------------- MODULE StageDatabase ----------------------------
(* What a stage is promised about its DSQL database, whatever commands do   *)
(* and wherever they are cut off: one cluster at most is the database; a    *)
(* cluster stops being it by being set aside, and is then kept, or by being *)
(* deleted; the published endpoint is always written for the cluster that   *)
(* is the database, and withdrawn when there is none.                       *)
CONSTANTS Clusters, None

VARIABLES
  current,    \* the cluster that is the database, as a set of one or none
  kept,       \* the ones that were
  gone,       \* the deleted ones
  endpoint    \* what consumers outside the stage read

vars == <<current, kept, gone, endpoint>>

Init == current = {} /\ kept = {} /\ gone = {} /\ endpoint = None

Provide(c) ==
  /\ current = {} /\ c \notin gone
  /\ current' = {c} /\ kept' = kept \ {c}
  /\ UNCHANGED <<gone, endpoint>>

SetAside ==
  /\ current # {}
  /\ current' = {} /\ kept' = kept \cup current
  /\ UNCHANGED <<gone, endpoint>>

Delete(c) ==
  /\ c \notin gone
  /\ gone' = gone \cup {c}
  /\ current' = current \ {c} /\ kept' = kept \ {c}
  /\ UNCHANGED endpoint

Publish ==
  /\ \E c \in current : endpoint' = c
  /\ UNCHANGED <<current, kept, gone>>

Withdraw ==
  /\ current = {} /\ endpoint' = None
  /\ UNCHANGED <<current, kept, gone>>

Next == SetAside \/ Publish \/ Withdraw \/ \E c \in Clusters : Provide(c) \/ Delete(c)

Spec == Init /\ [][Next]_vars
=============================================================================
