SPECIFICATION Spec
CONSTANTS
  a = a
  c1 = c1
  t1 = t1
  t2 = t2
  v1 = v1
  v2 = v2
  alice = alice
  Malformed = Malformed
  Absent = Absent
  LocalPeer = LocalPeer
  Autonomous = Autonomous
  Values = {v1, v2}
  Paths <- MCPaths
  ConfigPaths <- MCConfigPaths
  Rules <- MCRules
  Threads <- MCThreads
  Callers <- MCCallers
  MayRollback <- MCMayRollback
  MaxCommits <- MCMaxCommits
SYMMETRY Symmetry
INVARIANTS
  ReportedIsReachable
