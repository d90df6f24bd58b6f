SPECIFICATION MCHistorySpec
CONSTANTS
  a = a
  c1 = c1
  c2 = c2
  t1 = t1
  t2 = t2
  v1 = v1
  v2 = v2
  alice = alice
  Malformed = Malformed
  Absent = Absent
  LocalPeer = LocalPeer
  Autonomous = Autonomous
  Values = {v1, v2}
  Paths <- MCPaths
  ConfigPaths <- MCConfigPaths
  Rules <- MCRules
  Threads <- MCThreads
  Callers <- MCCallers
  MayRollback <- MCMayRollback
  MaxCommits <- MCMaxCommits
INVARIANTS
  TypeOK
  ChainSound
  RestoresOnlyPast
PROPERTIES
  ImplementsAuditLog
  EveryRequestIsAnswered
