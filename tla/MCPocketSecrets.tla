--------------------------- MODULE MCPocketSecrets ---------------------------
(* Instances of PocketSecrets for TLC. *)
EXTENDS PocketSecrets, TLC

\* The operator may change any declaration to any other.
AllMoves == Modes \X Modes

\* Containers and keys are visited in an order of their names, any order here.
Permuted == Permutations(Containers) \cup Permutations(Keys)
=============================================================================
