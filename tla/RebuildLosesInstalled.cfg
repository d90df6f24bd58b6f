SPECIFICATION InstallSpec
CONSTANTS
  DataPaths = {"x", "y"}
  Hashes = {"h", "g"}
  Roots = {"root"}
  Programs <- OnePrograms
  Tokens <- MCTokens
  Granter <- MCGranter
  Parent <- MCParent
  MayGet <- MCMayGet
  MayPut <- MCMayPut
  MayCall <- MCMayCall
  ResultPath <- MCResultPath
  Overrides = {"aside"}
  Authors = {"alice", None}
  MaxChain = 2
  Servers = {t1}
  Dynamic = Dynamic
  None = None
  MaxInstalls = 1
  MaxWrites = 1
CHECK_DEADLOCK FALSE
INVARIANTS
  RebuildFindsInstalled
