SPECIFICATION ContentHistorySpec
CONSTANTS
  h1 = h1
  h2 = h2
  h3 = h3
  Hashes = {h1, h2, h3}
  NotBytes = NotBytes
  Size <- MCSize
  KeySize = 1
  Entry = 1
  Reserve = 2
  Budget = 11
  Lists <- MCLists
  Blob = Blob
  c0 = c0
  c1 = c1
  c2 = c2
  Chunks = {c0, c1, c2}
  Length <- MCLength
  Manifests <- MCManifests
  Stores <- AnyStore
  Envelopes <- MCEnvelopes
  Servers = {t1, t2}
  MaxCalls = 3
  Bytes = {"x", "y"}
  Gear <- MCGear
  Width = 6
  Targets = {4, 8}
  Leads <- MCLeads
  Rests <- MCRests
  Events = {"created", "updated"}
  Timestamps = {1, 2, 3}
  Limits = {0, 1, 2}
  Filters = {{"updated"}}
  Sinces = {0, 2}
  Recordings <- MCRecordings
  MaxWalk = 3
  MaxChain = 4
  None = None
  Lost = Lost
  Letters <- MCLetters
  Local = 1
  PathSet <- MCPathSet
  RawPatterns <- MCRawPatterns
  Names = {"audit", "other"}
  Malformed = Malformed
  Unbound = Unbound
  TypesOf <- MCTypesOf
  Plans <- MCPlans
  MaxProcesses = 2
  Nobody = Nobody
INVARIANTS
  PacksInOrder
  CertifiedStaysComplete
  OwnBlobsAreWhole
  ChunksAreSized
  RejoinsAfterEdit
  AnswerIsExact
  SelectsMostSpecific
  AuditStartsEmpty
  ReachableIsWhole
PROPERTIES
  RetriesEnd
  ReadsWholeChain
