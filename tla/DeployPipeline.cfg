SPECIFICATION FairSpec
CONSTANTS
  Codes = {"code1", "code2"}
  Hashes = {"hash1", "hash2"}
  Nets = {"net1", "net2"}
  Tokens = {"token1", "token2"}
  Releases <- TwoReleases
  Handlers = {h1, h2}
  None = none
  MaxChanges = 2
  MaxFailures = 2
INVARIANTS SuccessDelivers EnvSynced
PROPERTIES Converges
