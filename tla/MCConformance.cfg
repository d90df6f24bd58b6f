SPECIFICATION MCConformanceSpec
CONSTANTS
  A = A
  B = B
  C = C
  h1 = h1
  h2 = h2
  snap = snap
  Missing = Missing
  Extensions <- MCExtensions
  Books <- MCBooks
  Systems <- MCSystems
  Redesigns <- MCRedesigns
  Targets <- MCTargets
  Cells <- MCCells
  Manifests = {snap}
  a1 = a1
  a2 = a2
  a3 = a3
  a4 = a4
  a5 = a5
  k1 = k1
  k2 = k2
  k3 = k3
  Assertions <- MCAssertions
  Ref <- MCRef
  Names = {1, 2, 3, 4, 5, 6, 7, 8}
  Builds <- MCBuilds
  Bodies <- MCBodies
  Bare <- MCBare
  Noisy = {a4}
  Stems = {"category", "core"}
  InStem <- MCInStem
  Rounds <- MCRounds
  Explained = TRUE
  MaxRuns = 2
  MaxUpsets = 1
  Straddles = {}
  NoBaseline = NoBaseline
  Contract <- MCContract
  MinRequirements = 2
  CategoryOf <- MCCategoryOf
  Category = "history"
  Tables <- MCTables
  Order <- MCOrder
  Compositions = {"content-history", "compute"}
  Faces = {"handler", "sdk"}
  Corpora <- MCCorpora
  Manners <- MCManners
  Ordinary <- MCOrdinary
  NoReport = NoReport
  MinChecks = 2
  MaxMakes = 2
  MaxEdits = 1
  MaxMishaps = 1
INVARIANTS
  PlanIsTheClosure
  PlanIsSound
  LossIsNeverGreen
  RenamesAndLossesToldApart
  GreenCoversTheSpec
  GreenIsEarned
PROPERTIES
  ResolutionEnds
  MeasurementEnds
CHECK_DEADLOCK FALSE
