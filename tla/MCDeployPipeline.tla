-------------------------- MODULE MCDeployPipeline --------------------------
(* DeployPipeline with small sets of releases.                              *)
EXTENDS DeployPipeline, TLC

FirstRelease == [code |-> "code1", hash |-> "hash1", net |-> "net1", token |-> "token1"]
NextRelease  == [code |-> "code2", hash |-> "hash2", net |-> "net2", token |-> "token2"]
TwoReleases == {FirstRelease, NextRelease}

Permuted == Permutations(Handlers)
=============================================================================
