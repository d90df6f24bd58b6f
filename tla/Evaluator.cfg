SPECIFICATION MCEvaluationSpec
CONSTANTS
  Roots <- MCRoots
  Limits <- MCLimits
  Ample <- MCAmple
  Tree <- MCTree
  Readable <- MCReadable
  Writable <- MCWritable
  Authorized <- MCAuthorized
  Combine <- MCCombine
  CodeTypes <- MCCodeTypes
  Built <- MCBuilt
  Bare <- MCBare
  None = None
  H = 4
  Literals <- MCLiterals
  Floats <- MCFloats
INVARIANTS
  DepthBalanced
  ExhaustionDecides
  BudgetIsExact
  WritesArePrefix
  AliasIsInline
  ReadsAreAudited
PROPERTIES
  EvaluationEnds
  ImplementsRegister
