----------------------------- MODULE MCContentHistory --------------------------
(***************************************************************************)
(* The content-history composition: what its two extensions do that does   *)
(* not meet in shared state, side by side in one run.  Each behaviour      *)
(* exercises one side and leaves the others at rest.                       *)
(*   get       a page of content and the requester's retries               *)
(*   blob      ingest, closure check, reassembly                           *)
(*   chunking  a file before and after an edit                             *)
(*   query     the history query and a client that reads page by page      *)
(*   lookup    the configuration that governs a path                       *)
(*   install   the hosts that put the extensions into a peer               *)
(***************************************************************************)
EXTENDS ContentGet, ContentBlob, Chunking, HistoryPaging, HistoryPatterns, Installation

VARIABLE side

--------------------------------------------------------------------------------
\* get: one entity fits no frame at all; the others are small enough for two of
\* them to share one, and one to fit into what is left.  Lists name them in every
\* order, repeat one, and are long enough for their own length to matter.
CONSTANTS h1, h2, h3
MCSize == [h \in Hashes |-> CASE h = h1 -> 8 [] h = h2 -> 3 [] OTHER -> 1]
MCLists ==
    UNION {[1 .. n -> Hashes] : n \in 0 .. 3}
    \cup {<<NotBytes>>, <<h2, NotBytes, h3>>, <<h1, h2, NotBytes>>}

\* blob: two chunks and an empty one; manifests that are right, repeat a chunk,
\* lie about their size or list nothing, and something that is no blob; envelopes that carry the blob whole, in
\* part, or with an invalid entity in the middle.
CONSTANTS c0, c1, c2
MCLength == [c \in Chunks |-> CASE c = c0 -> 0 [] c = c1 -> 1 [] OTHER -> 2]
NoBlob == [isBlob |-> FALSE, chunks |-> <<>>, total |-> 0]
Of(cs, n) == [isBlob |-> TRUE, chunks |-> cs, total |-> n]
MCManifests ==
    {Of(<<c1, c2>>, 3), Of(<<c1, c1>>, 2), Of(<<c1, c2>>, 2), Of(<<c1, c0>>, 1), Of(<<>>, 0), NoBlob}
Item(e, ok) == [entity |-> e, valid |-> ok]
MCEnvelopes ==
    {<<Item(Blob, TRUE), Item(c1, TRUE), Item(c2, TRUE)>>,
     <<Item(Blob, TRUE), Item(c2, FALSE), Item(c1, TRUE)>>,
     <<Item(c2, TRUE)>>, <<Item(Blob, FALSE)>>}
AnyStore == SUBSET Entities

\* chunking: a long run of one byte, which meets neither mask, between words
\* of two bytes.
MCGear == [b \in Bytes |-> IF b = "x" THEN 1 ELSE 32]
Words(n) == UNION {[1 .. k -> Bytes] : k \in 0 .. n}
Copies(n) == [i \in 1 .. n |-> "x"]
MCLeads == {<<>>, <<"x">>, <<"y">>, <<"x", "x", "y">>, <<"y", "x", "y", "y">>}
MCRests == {v \o Copies(n) \o w : v \in Words(3), n \in {0, 9}, w \in Words(2)}

\* query: three recordings a clock apart, and a second one at the first reading,
\* so that the clock may also stand still and be set back.
MCRecordings ==
    {[event |-> "created", timestamp |-> 1], [event |-> "updated", timestamp |-> 1],
     [event |-> "updated", timestamp |-> 2], [event |-> "created", timestamp |-> 3]}

\* lookup: segment 1 is the local peer, 2 another peer, 3 a name.  Only
\* spellings that can say something about the paths: a wildcard or a peer
\* first, a wildcard or a name after it.
Spellings == UNION {[1 .. k -> {Star, 1, 2, 3}] : k \in 1 .. 3}
\* The name of segment 2 goes on where that of segment 3 ends, with a byte below
\* the slash.
MCLetters == [n \in 0 .. 3 |-> CASE n = Star -> <<42>> [] n = 1 -> <<112>> [] n = 2 -> <<97, 45>> [] OTHER -> <<97>>]
MCPathSet == {<<1, 3>>, <<1, 3, 2>>, <<2, 3, 2>>}
MCRawPatterns ==
    {[absolute |-> TRUE, segs |-> s] : s \in {q \in Spellings :
        q[1] # 3 /\ (Len(q) > 1 => q[2] \in {Star, 3}) /\ (Len(q) > 2 => q[3] \in {Star, 2})}}
    \cup
    {[absolute |-> FALSE, segs |-> s] : s \in {q \in Spellings :
        q[1] \in {Star, 3} /\ (Len(q) > 1 => q[2] \in {Star, 2, 3}) /\ (Len(q) > 2 => q[3] \in {Star, 2})}}

\* install: the three hosts' orders, and all three extensions in one peer.
MCTypesOf ==
    [e \in {"content", "history", "compute"} |->
        CASE e = "content" -> {"blob"} [] e = "history" -> {"transition"} [] OTHER -> {"literal", "field"}]
MCPlans == {<<"content">>, <<"content", "history">>, <<"compute">>,
            <<"content", "history", "compute">>, <<"compute", "history">>}

--------------------------------------------------------------------------------
GetAtRest == stored = {} /\ GetInit
BlobAtRest == manifest = Of(<<>>, 0) /\ store = {} /\ BlobInit
ChunkingAtRest == lead = <<>> /\ rest = <<>> /\ target = 8 /\ ChunkingInit
LookupAtRest == rows = [n \in Names |-> Unbound] /\ path = <<1, 3>> /\ LookupInit
InstallationAtRest == order = <<"content">> /\ written = {} /\ seam = "none" /\ InstallationInit

ContentHistoryInit ==
    \/ side = "get" /\ GetInit
       /\ BlobAtRest /\ ChunkingAtRest /\ PagingInit /\ LookupAtRest /\ InstallationAtRest
    \/ side = "blob" /\ BlobInit
       /\ GetAtRest /\ ChunkingAtRest /\ PagingInit /\ LookupAtRest /\ InstallationAtRest
    \/ side = "chunking" /\ ChunkingInit
       /\ GetAtRest /\ BlobAtRest /\ PagingInit /\ LookupAtRest /\ InstallationAtRest
    \/ side = "query" /\ PagingInit
       /\ GetAtRest /\ BlobAtRest /\ ChunkingAtRest /\ LookupAtRest /\ InstallationAtRest
    \/ side = "lookup" /\ LookupInit
       /\ GetAtRest /\ BlobAtRest /\ ChunkingAtRest /\ PagingInit /\ InstallationAtRest
    \/ side = "install" /\ InstallationInit
       /\ GetAtRest /\ BlobAtRest /\ ChunkingAtRest /\ PagingInit /\ LookupAtRest

ContentHistoryNext ==
    \/ side = "get" /\ GetNext
       /\ UNCHANGED <<side, blobVars, chunkingVars, pagingVars, lookupVars, hostVars>>
    \/ side = "blob" /\ BlobNext
       /\ UNCHANGED <<side, getVars, chunkingVars, pagingVars, lookupVars, hostVars>>
    \/ side = "chunking" /\ ChunkingNext
       /\ UNCHANGED <<side, getVars, blobVars, pagingVars, lookupVars, hostVars>>
    \/ side = "query" /\ PagingNext
       /\ UNCHANGED <<side, getVars, blobVars, chunkingVars, lookupVars, hostVars>>
    \/ side = "lookup" /\ LookupNext
       /\ UNCHANGED <<side, getVars, blobVars, chunkingVars, pagingVars, hostVars>>
    \/ side = "install" /\ InstallationNext
       /\ UNCHANGED <<side, getVars, blobVars, chunkingVars, pagingVars, lookupVars>>

ContentHistorySpec ==
    /\ ContentHistoryInit
    /\ [][ContentHistoryNext]_<<side, getVars, blobVars, chunkingVars, pagingVars, lookupVars, hostVars>>
    /\ GetFairness /\ PagingFairness
================================================================================
