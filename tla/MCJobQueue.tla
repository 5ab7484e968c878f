----------------------------- MODULE MCJobQueue -----------------------------
(* JobQueue with small sets of messages and invocations.                    *)
EXTENDS JobQueue, TLC

Permuted == Permutations(Messages) \cup Permutations(Workers)
=============================================================================
