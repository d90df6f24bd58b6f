SPECIFICATION PeerSpec
CONSTANTS
  Inputs = {"x"}
  Subgraphs = {"b", "c"}
  Expressions <- MCExpressions
  Reads <- MCReads
  Compute <- MCCompute
  Primitives <- MCPrimitives
  Wrapped <- MCWrapped
  Sheets <- CycleAlone
  Edits = {}
  Data = {"0", "1", "2"}
  Errors <- MCErrors
  Unset = Unset
  Grants = {g1}
  Threads = {t1, t2}
  Engine = Engine
  SharedReentry = TRUE
  CascadeLimit = 2
  MaxRequests = 4
  Reaudited = {}
  MaxRestarts = 0
INVARIANTS
  CascadeFreezeJustified
