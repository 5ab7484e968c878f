----------------------------- MODULE MCTeardown -----------------------------
(* Teardown of two projects: one with two stages, a frontend here and a     *)
(* database there, and a guest in their VPC; one with a single stage that   *)
(* declares everything; and one whose repository has a name of its own.     *)
EXTENDS Teardown, TLC

Together ==
  "dev" :> {"vpc", "keys", "container", "cloudfront"}
    @@ "prod" :> {"vpc", "rds", "container"}
    @@ "other" :> {"container"}

Alone == "dev" :> (Parts \cup Common) \ {"sg"} @@ "prod" :> {} @@ "other" :> {}

Named == "dev" :> {} @@ "prod" :> {"image", "container", "external"} @@ "other" :> {}

TheProjects == {Together, Alone, Named}
=============================================================================
