SPECIFICATION CheckSpec
CONSTANTS
  Order <- MCOrder
  Compositions = {"content-history", "compute"}
  Faces = {"handler", "sdk"}
  Corpora <- MCCorpora
  Manners <- MCManners
  Ordinary <- MCOrdinary
  NoReport = NoReport
  MinChecks = 2
  MaxMakes = 2
  MaxEdits = 1
  MaxMishaps = 1
INVARIANTS
  DeadArmsAreRefused
CHECK_DEADLOCK FALSE
