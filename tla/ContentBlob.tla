------------------------------ MODULE ContentBlob ------------------------------
(***************************************************************************)
(* A blob is a manifest entity that lists chunk entities; all live in the  *)
(* content store, without order between them.  Threads of the peer ingest  *)
(* envelopes one entity at a time (ingest), decide whether a blob is       *)
(* complete (ensure_closure) and put its bytes together                    *)
(* (reassemble_content), each reading the store one entity at a time.      *)
(* Nothing is collected meanwhile.                                         *)
(***************************************************************************)
EXTENDS Naturals, Sequences, FiniteSets, SequencesExt

CONSTANTS
    Blob,          \* the manifest entity
    Chunks,        \* chunk entities
    Length,        \* payload length of every chunk
    Manifests,     \* what the manifest may say: its chunk list and total_size,
                   \* unless it is no blob at all
    Stores,        \* what the content store may hold to begin with
    Envelopes,     \* what callers ingest: sequences of items, the root first
    Servers,       \* serving threads
    MaxCalls    \* bound: requests served

Entities == {Blob} \cup Chunks
Items == [entity : Entities, valid : BOOLEAN]

ASSUME BlobAssumption ==
    /\ Blob \notin Chunks
    /\ Length \in [Chunks -> Nat]
    /\ Manifests \subseteq [isBlob : BOOLEAN, chunks : Seq(Chunks), total : Nat]
    /\ Stores \subseteq SUBSET Entities
    /\ Envelopes \subseteq Seq(Items) \ {<<>>}

VARIABLES
    manifest,   \* what the manifest entity says; content addressed, so it never changes
    store,      \* entities in the content store
    foreign,    \* whether the manifest was there before, or came in an envelope
    call,       \* per thread: "idle", "ingest", "store", "closure" or "reassemble"
    left,       \* per thread, what its loop has still to look at
    sum,        \* per thread, entities stored or payload bytes seen so far
    answer,     \* per thread, the code of its last answer, "" while there is none
    certified,  \* a closure check has answered complete
    late,       \* per thread, whether its call began after that
    calls       \* requests accepted so far

blobVars == <<manifest, store, foreign, call, left, sum, answer, certified, late, calls>>

BlobInit ==
    /\ manifest \in Manifests
    /\ store \in Stores /\ foreign = (Blob \in store)
    /\ call = [t \in Servers |-> "idle"]
    /\ left = [t \in Servers |-> <<>>]
    /\ sum = [t \in Servers |-> 0]
    /\ answer = [t \in Servers |-> ""]
    /\ certified = FALSE
    /\ late = [t \in Servers |-> FALSE]
    /\ calls = 0

Accept(t, op, todo) ==
    /\ call[t] = "idle" /\ calls < MaxCalls
    /\ calls' = calls + 1
    /\ call' = [call EXCEPT ![t] = op]
    /\ left' = [left EXCEPT ![t] = todo]
    /\ sum' = [sum EXCEPT ![t] = 0]
    /\ answer' = [answer EXCEPT ![t] = ""]
    /\ late' = [late EXCEPT ![t] = certified]
    /\ UNCHANGED <<manifest, store, foreign, certified>>

Answer(t, code) ==
    /\ call' = [call EXCEPT ![t] = "idle"]
    /\ answer' = [answer EXCEPT ![t] = code]
    /\ UNCHANGED <<manifest, foreign, late, calls>>

Advance(t, n) ==
    /\ left' = [left EXCEPT ![t] = Tail(@)]
    /\ sum' = [sum EXCEPT ![t] = @ + n]
    /\ UNCHANGED <<manifest, call, answer, certified, late, calls>>

Working(t, op) == call[t] = op /\ left[t] # <<>>
Through(t, op) == call[t] = op /\ left[t] = <<>>

--------------------------------------------------------------------------------
\* ingest, envelope mode: the root and the included entities are stored one by
\* one; the first malformed or mismatched one ends the request.
Ingest(t, e) == Accept(t, "ingest", e)

Writing(t) == \/ Working(t, "ingest")
              \/ Working(t, "store")

Keep(t) ==
    /\ Writing(t) /\ Head(left[t]).valid
    /\ LET e == Head(left[t]).entity
       IN  /\ store' = store \cup {e}
           /\ foreign' = (foreign \/ (e = Blob /\ call[t] = "ingest"))
    /\ Advance(t, 1)

Refuse(t) ==
    /\ Working(t, "ingest") /\ ~Head(left[t]).valid
    /\ Answer(t, "refused")
    /\ UNCHANGED <<store, left, sum, certified>>

Ingested(t) ==
    /\ \/ Through(t, "ingest")
       \/ Through(t, "store")
    /\ Answer(t, "ingested")
    /\ UNCHANGED <<store, left, sum, certified>>

Valid(es) == [i \in DOMAIN es |-> [entity |-> es[i], valid |-> TRUE]]

ManifestFirst(t) == manifest.isBlob /\ Accept(t, "store", Valid(<<Blob>> \o manifest.chunks))

\* store_blob: the peer's own blobs, chunks first.
StoreBlob(t) == manifest.isBlob /\ Accept(t, "store", Valid(Append(manifest.chunks, Blob)))

\* ensure_closure and reassemble_content read the manifest, then each chunk.
Lookup(t, op) == Accept(t, op, <<Blob>> \o manifest.chunks)

Missing(t) ==
    /\ \/ Working(t, "closure") \/ Working(t, "reassemble")
    /\ Head(left[t]) \notin store
    /\ Answer(t, IF Head(left[t]) = Blob THEN "blob_not_found"
                 ELSE IF call[t] = "closure" THEN "missing_chunk" ELSE "blob_pending_sync")
    /\ UNCHANGED <<store, left, sum, certified>>

\* What the hash names is of another type, or lists no chunks.
NotABlob(t) ==
    /\ \/ Working(t, "closure") \/ Working(t, "reassemble")
    /\ Head(left[t]) = Blob /\ Blob \in store /\ ~manifest.isBlob
    /\ Answer(t, "not_a_blob")
    /\ UNCHANGED <<store, left, sum, certified>>

EmptyChunk(t) ==
    /\ Working(t, "closure")
    /\ Head(left[t]) \in store \ {Blob} /\ Length[Head(left[t])] = 0
    /\ Answer(t, "empty_chunk")
    /\ UNCHANGED <<store, left, sum, certified>>

Read(t) ==
    /\ \/ Working(t, "closure") \/ Working(t, "reassemble")
    /\ LET e == Head(left[t])
       IN  /\ e \in store
           /\ e = Blob => manifest.isBlob
           /\ call[t] = "closure" /\ e # Blob => Length[e] > 0
           /\ Advance(t, IF e = Blob THEN 0 ELSE Length[e])
    /\ UNCHANGED <<store, foreign>>

TakesDeclaredSize(t) ==
    /\ Through(t, "closure")
    /\ Answer(t, "complete")
    /\ certified' = TRUE
    /\ UNCHANGED <<store, left, sum>>

Closed(t) ==
    /\ Through(t, "closure")
    /\ Answer(t, IF sum[t] = manifest.total THEN "complete" ELSE "size_mismatch")
    /\ certified' = (certified \/ sum[t] = manifest.total)
    /\ UNCHANGED <<store, left, sum>>

Reassembled(t) ==
    /\ Through(t, "reassemble")
    /\ Answer(t, "bytes")
    /\ UNCHANGED <<store, left, sum, certified>>

Run(t) ==
    \/ Keep(t) \/ Refuse(t) \/ Ingested(t)
    \/ Missing(t) \/ NotABlob(t) \/ EmptyChunk(t) \/ Read(t) \/ Closed(t) \/ Reassembled(t)

Call(t) ==
    \/ \E e \in Envelopes : Ingest(t, e)
    \/ StoreBlob(t)
    \/ \E op \in {"closure", "reassemble"} : Lookup(t, op)

BlobRest == (\A t \in Servers : call[t] = "idle") /\ UNCHANGED blobVars

BlobNext == BlobRest \/ \E t \in Servers : Call(t) \/ Run(t)

BlobSpec == BlobInit /\ [][BlobNext]_blobVars

--------------------------------------------------------------------------------
Failures == {"blob_not_found", "not_a_blob", "missing_chunk", "blob_pending_sync",
             "empty_chunk", "size_mismatch"}

\* A verdict that a blob is complete stays good:
\* whatever is asked of the blob afterwards succeeds, and its bytes are as many
\* as its manifest declares.
CertifiedStaysComplete ==
    \A t \in Servers : late[t] =>
        /\ answer[t] \notin Failures
        /\ answer[t] = "bytes" => sum[t] = manifest.total

\* A blob only the peer itself stores is never seen without its chunks: no
\* reader takes one that is being written for one still being synchronized.
OwnBlobsAreWhole ==
    Blob \in store /\ ~foreign => ToSet(manifest.chunks) \subseteq store
================================================================================
