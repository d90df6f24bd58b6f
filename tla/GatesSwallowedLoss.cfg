SPECIFICATION MCGatesSpec
CONSTANTS
  a1 = a1
  a2 = a2
  a3 = a3
  a4 = a4
  a5 = a5
  k1 = k1
  k2 = k2
  k3 = k3
  Assertions <- MCAssertions
  Ref <- MCRef
  Names = {1, 2, 3, 4, 5, 6, 7, 8}
  Builds <- MCBuilds
  Bodies <- MCBodies
  Bare <- MCBare
  Noisy = {a4}
  Stems = {"category", "core"}
  InStem <- MCInStem
  Rounds <- MCRounds
  Explained = TRUE
  MaxRuns = 2
  MaxUpsets = 1
  Straddles = {}
  NoBaseline = NoBaseline
  Contract <- MCContract
  MinRequirements = 2
  CategoryOf <- MCCategoryOf
  Category = "history"
  Tables <- MCTables
INVARIANTS
  RenamedChecksAreGone
CHECK_DEADLOCK FALSE
