SPECIFICATION MCComputeSpec
CONSTANTS
  Inputs = {"x"}
  Subgraphs = {"b", "c"}
  Expressions <- MCExpressions
  Reads <- MCReads
  Compute <- MCCompute
  Primitives <- MCPrimitives
  Wrapped <- MCWrapped
  Sheets <- BothSheets
  Edits <- MCEdits
  Data = {"0", "1", "2"}
  Errors <- MCErrors
  Unset = Unset
  Grants = {g1, g2}
  Threads = {t1}
  Engine = Engine
  SharedReentry = FALSE
  CascadeLimit = 2
  MaxRequests = 4
  Reaudited = {"next", "pick", "drive"}
  MaxRestarts = 1
  DataPaths = {"x", "y"}
  Hashes = {"h", "g"}
  Roots = {"root"}
  Programs <- MCPrograms
  Tokens <- MCTokens
  Granter <- MCGranter
  Parent <- MCParent
  MayGet <- MCMayGet
  MayPut <- MCMayPut
  MayCall <- MCMayCall
  ResultPath <- MCResultPath
  Overrides = {"aside"}
  Authors = {"alice", None}
  MaxChain = 2
  Servers = {t1}
  Dynamic = Dynamic
  None = None
  MaxInstalls = 2
  MaxWrites = 1
  DefaultBudget = 4
  Asks = {None, 0, 2}
  Ceilings <- MCCeilings
  Computed = "g"
  Lapsing = {"leaf"}
  MaxNesting = 2
  MaxEvaluations = 1
CHECK_DEADLOCK FALSE
INVARIANTS
  InstalledIsAuthorized
  NothingBeyondItsToken
  CeilingsHold
  StackBounded
  FreezesAreJustified
  FreshUnlessCut
  IndexMatchesTree
PROPERTIES
  EveryRequestIsAnswered
