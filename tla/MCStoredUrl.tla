----------------------------- MODULE MCStoredUrl -----------------------------
(* Two operators, of whom one repeats what failed, and two stages: dev, which *)
(* may be on the project's default branch, and feature, which branches off it. *)
EXTENDS StoredUrl

CONSTANTS dev, feature, none, ann, bob

MCParent == [s \in Stages |-> IF s = feature THEN dev ELSE none]
=============================================================================
