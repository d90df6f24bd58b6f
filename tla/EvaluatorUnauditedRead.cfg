SPECIFICATION MCEvaluatorSpec
CONSTANTS
  Roots <- MCRoots
  Limits <- MCLimits
  Ample <- MCAmple
  Tree <- MCTree
  Readable <- MCReadable
  Writable <- MCWritable
  Authorized <- MCAuthorized
  Combine <- MCCombine
  CodeTypes <- MCCodeTypes
  Built <- MCBuilt
  Bare <- MCBare
  None = None
INVARIANTS
  ReadsAreRegistered
