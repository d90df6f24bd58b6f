----------------------------- MODULE ContentProofs -----------------------------
(***************************************************************************)
(* Proofs about the content extension: blobs, chunking, and what get       *)
(* packs into a response.                                                  *)
(***************************************************************************)
EXTENDS ContentBlob, Chunking, ContentGet, NaturalLemmas

--------------------------------------------------------------------------------
(***************************************************************************)
(* Blobs.                                                                  *)
(* What a loop has still to look at is the end of what it began with.      *)
(***************************************************************************)

Ends(s, full) ==
    /\ Len(s) <= Len(full)
    /\ \A i \in 1 .. Len(s) : s[i] = full[Len(full) - Len(s) + i]

Seen(s, full) == Len(full) - Len(s)

\* The next element is the one behind those that were seen.
LEMMA NextSeen ==
    ASSUME NEW S, NEW full \in Seq(S), NEW s \in Seq(S), Ends(s, full), s # <<>>
    PROVE  /\ Seen(s, full) \in Nat
           /\ Head(s) = full[Seen(s, full) + 1]
           /\ Seen(s, full) + 1 \in 1 .. Len(full)
           /\ Tail(s) \in Seq(S) /\ Ends(Tail(s), full)
           /\ Seen(Tail(s), full) = Seen(s, full) + 1
<1>1. Len(s) \in Nat \ {0} /\ Head(s) = s[1] /\ Len(full) \in Nat
  OBVIOUS
<1>2. /\ Tail(s) \in Seq(S) /\ Len(Tail(s)) = Len(s) - 1
      /\ \A i \in 1 .. Len(Tail(s)) : Tail(s)[i] = s[i + 1]
  OBVIOUS
<1>3. Head(s) = full[Len(full) - Len(s) + 1]
  BY <1>1 DEF Ends
<1>4. \A i \in 1 .. Len(Tail(s)) : Tail(s)[i] = full[Len(full) - Len(Tail(s)) + i]
  <2> SUFFICES ASSUME NEW i \in 1 .. Len(Tail(s))
               PROVE  Tail(s)[i] = full[Len(full) - Len(Tail(s)) + i]
    OBVIOUS
  <2>1. i + 1 \in 1 .. Len(s) /\ Tail(s)[i] = s[i + 1]
    BY <1>1, <1>2
  <2>2. s[i + 1] = full[Len(full) - Len(s) + (i + 1)]
    BY <2>1 DEF Ends
  <2>3. Len(full) - Len(s) + (i + 1) = Len(full) - Len(Tail(s)) + i
    BY <1>1, <1>2
  <2> QED
    BY <2>1, <2>2, <2>3
<1>5. Len(full) - Len(s) \in Nat
  BY <1>1 DEF Ends
<1> QED
  BY <1>1, <1>2, <1>3, <1>4, <1>5 DEF Ends, Seen

\* The writes of store_blob, and the entities a reader looks up.
Written == Valid(Append(manifest.chunks, Blob))
Looked == <<Blob>> \o manifest.chunks

\* What a closure check asks of an entity that is there.
Sound(e) == IF e = Blob THEN manifest.isBlob ELSE Length[e] > 0

Weight(e) == IF e = Blob THEN 0 ELSE Length[e]

--------------------------------------------------------------------------------
(***************************************************************************)
(* The inductive invariant: how far each thread has come, and what that    *)
(* tells about the store, which only grows.                                *)
(***************************************************************************)
Readers == {"closure", "reassemble"}

BlobTypeOK ==
    /\ manifest \in [isBlob : BOOLEAN, chunks : Seq(Chunks), total : Nat]
    /\ store \subseteq Entities
    /\ foreign \in BOOLEAN /\ certified \in BOOLEAN
    /\ call \in [Servers -> {"idle", "ingest", "store"} \cup Readers]
    /\ sum \in [Servers -> Nat]
    /\ answer \in [Servers -> {"", "refused", "ingested", "complete", "bytes"} \cup Failures]
    /\ late \in [Servers -> BOOLEAN]
    /\ DOMAIN left = Servers
    /\ \A t \in Servers :
          /\ call[t] \in {"ingest", "store"} => left[t] \in Seq(Items)
          /\ call[t] \in Readers => left[t] \in Seq(Entities)

\* store_blob has stored what it has come past, and comes to the manifest last.
ChunksFirst ==
    \A t \in Servers : call[t] = "store" =>
        /\ Ends(left[t], Written)
        /\ \A i \in 1 .. Seen(left[t], Written) : Written[i].entity \in store

\* A reader has added up what it has come past; a closure check has found it all,
\* and nothing empty among it.
ReadersCount(g) ==
    \A t \in Servers : call[t] \in Readers =>
        /\ Ends(left[t], Looked)
        /\ sum[t] = g[Seen(left[t], Looked)]
        /\ call[t] = "closure" =>
              \A i \in 1 .. Seen(left[t], Looked) :
                 Looked[i] \in store /\ Sound(Looked[i])

\* What a verdict is about.
Complete(g) ==
    /\ \A i \in 1 .. Len(Looked) :
          Looked[i] \in store /\ Sound(Looked[i])
    /\ g[Len(Looked)] = manifest.total

Verdicts(g) ==
    /\ certified => Complete(g)
    /\ \A t \in Servers :
          /\ late[t] => certified
          /\ call[t] # "idle" => answer[t] = ""

\* g: the running totals of a reader.
Totals(g) ==
    /\ g \in [0 .. Len(Looked) -> Nat]
    /\ g[0] = 0
    /\ \A i \in 1 .. Len(Looked) : g[i] = g[i - 1] + Weight(Looked[i])

Inv(g) ==
    /\ BlobTypeOK
    /\ OwnBlobsAreWhole
    /\ ChunksFirst
    /\ ReadersCount(g)
    /\ Verdicts(g)
    /\ CertifiedStaysComplete

IInv == \E g : Totals(g) /\ Inv(g)

\* The two lists, spelt out.
LEMMA LookupLists ==
    ASSUME BlobTypeOK
    PROVE  /\ Written \in Seq(Items) /\ Len(Written) = Len(manifest.chunks) + 1
           /\ \A i \in 1 .. Len(manifest.chunks) : Written[i].entity = manifest.chunks[i]
           /\ Written[Len(Written)].entity = Blob
           /\ Looked \in Seq(Entities) /\ Len(Looked) = Len(manifest.chunks) + 1
           /\ Looked[1] = Blob
           /\ \A i \in 2 .. Len(Looked) : Looked[i] = manifest.chunks[i - 1] /\ Looked[i] \in Chunks
           /\ \A i \in 1 .. Len(manifest.chunks) : manifest.chunks[i] \in Chunks
           /\ ToSet(manifest.chunks) = {manifest.chunks[i] : i \in 1 .. Len(manifest.chunks)}
<1>1. manifest.chunks \in Seq(Chunks)
  BY DEF BlobTypeOK
<1> DEFINE es == Append(manifest.chunks, Blob)
<1>2. es \in Seq(Entities) /\ Len(es) = Len(manifest.chunks) + 1
  BY <1>1 DEF Entities
<1>3. /\ \A i \in 1 .. Len(manifest.chunks) : es[i] = manifest.chunks[i]
      /\ es[Len(es)] = Blob
  BY <1>1
<1>4. Written = [i \in 1 .. Len(es) |-> [entity |-> es[i], valid |-> TRUE]]
  <2>1. Written = [i \in DOMAIN es |-> [entity |-> es[i], valid |-> TRUE]]
    BY DEF Written, Valid
  <2>2. DOMAIN es = 1 .. Len(es)
    BY <1>2
  <2> QED
    BY <2>1, <2>2
<1>5. Written \in Seq(Items) /\ Len(Written) = Len(es)
  <2>1. \A i \in 1 .. Len(es) : [entity |-> es[i], valid |-> TRUE] \in Items
    BY <1>2 DEF Items
  <2> HIDE DEF es
  <2> QED
    BY <1>2, <1>4, <2>1
<1>6. \A i \in 1 .. Len(es) : Written[i].entity = es[i]
  BY <1>4
<1>7. Len(manifest.chunks) \in Nat
  BY <1>1
<1>8. /\ Looked \in Seq(Entities) /\ Len(Looked) = Len(manifest.chunks) + 1
      /\ Looked[1] = Blob
      /\ \A i \in 2 .. Len(Looked) : Looked[i] = manifest.chunks[i - 1] /\ Looked[i] \in Chunks
  BY <1>1 DEF Looked, Entities
<1>9. /\ \A i \in 1 .. Len(manifest.chunks) : manifest.chunks[i] \in Chunks
      /\ ToSet(manifest.chunks) = {manifest.chunks[i] : i \in 1 .. Len(manifest.chunks)}
  BY <1>1 DEF ToSet
<1> QED
  BY <1>2, <1>3, <1>5, <1>6, <1>7, <1>8, <1>9

--------------------------------------------------------------------------------
\* Initially nobody has come anywhere, and the running totals exist.
LEMMA InitIInv == BlobInit => IInv
<1> SUFFICES ASSUME BlobInit PROVE IInv
  OBVIOUS
<1>1. BlobTypeOK
  <2>1. foreign \in BOOLEAN
    <3>1. foreign = (Blob \in store)
      BY DEF BlobInit
    <3>2. (Blob \in store) \in BOOLEAN
      OBVIOUS
    <3> QED
      BY <3>1, <3>2
  <2>2. manifest \in [isBlob : BOOLEAN, chunks : Seq(Chunks), total : Nat] /\ store \subseteq Entities
    BY BlobAssumption DEF BlobInit
  <2> QED
    BY <2>1, <2>2 DEF BlobInit, BlobTypeOK, Readers
<1>2. Len(Looked) \in Nat /\ \A i \in 1 .. Len(Looked) : Looked[i] \in Entities
  BY <1>1, LookupLists
<1> DEFINE w == [i \in 1 .. Len(Looked) |-> Weight(Looked[i])]
<1>3. w \in [1 .. Len(Looked) -> Nat]
  BY <1>2, BlobAssumption DEF Weight, Entities
<1>4. PICK g \in [0 .. Len(Looked) -> Nat] :
          g[0] = 0 /\ \A i \in 1 .. Len(Looked) : g[i] = g[i - 1] + w[i]
  <2> HIDE DEF w
  <2> QED
    BY <1>2, <1>3, RunningTotals
<1>5. Totals(g)
  BY <1>4 DEF Totals
<1>6. Inv(g)
  BY <1>1 DEF Inv, BlobInit, OwnBlobsAreWhole, ChunksFirst, ReadersCount, Verdicts, Readers,
              CertifiedStaysComplete
<1> QED
  BY <1>5, <1>6 DEF IInv

--------------------------------------------------------------------------------
\* The manifest never changes, and with it the lists and the totals.
LEMMA ManifestStays ==
    ASSUME NEW g, Totals(g), manifest' = manifest
    PROVE  Written' = Written /\ Looked' = Looked /\ Totals(g)' /\ \A e : Sound(e)' <=> Sound(e)
BY DEF Written, Looked, Totals, Sound

\* A request is accepted with the list its loop is to go through.
LEMMA AcceptStep ==
    ASSUME NEW g, Totals(g), Inv(g),
           NEW t \in Servers, NEW op, NEW full, Accept(t, op, full),
           \/ op = "ingest" /\ full \in Seq(Items)
           \/ op = "store" /\ full = Written
           \/ op \in Readers /\ full = Looked
    PROVE  Inv(g)'
<1> USE DEF Inv
<1>1. Written' = Written /\ Looked' = Looked /\ \A e : Sound(e)' <=> Sound(e)
  BY ManifestStays DEF Accept
<1>2. /\ Written \in Seq(Items) /\ Looked \in Seq(Entities)
      /\ Len(Written) \in Nat /\ Len(Looked) \in Nat
  BY LookupLists
<1>3. /\ Ends(Written, Written) /\ Seen(Written, Written) = 0
      /\ Ends(Looked, Looked) /\ Seen(Looked, Looked) = 0
  BY <1>2 DEF Ends, Seen
<1>4. BlobTypeOK'
  BY <1>2 DEF BlobTypeOK, Accept, Readers
<1>5. ChunksFirst'
  <2> SUFFICES ASSUME NEW u \in Servers, call'[u] = "store"
               PROVE  /\ Ends(left'[u], Written)
                      /\ \A i \in 1 .. Seen(left'[u], Written) : Written[i].entity \in store
    BY <1>1 DEF ChunksFirst, Accept
  <2>1. CASE u = t
    <3>1. left'[t] = Written
      BY <2>1 DEF Accept, BlobTypeOK, Readers
    <3> QED
      BY <2>1, <3>1, <1>3
  <2>2. CASE u # t
    BY <2>2 DEF Accept, BlobTypeOK, ChunksFirst
  <2> QED
    BY <2>1, <2>2
<1>6. ReadersCount(g)'
  <2> SUFFICES ASSUME NEW u \in Servers, call'[u] \in Readers
               PROVE  /\ Ends(left'[u], Looked)
                      /\ sum'[u] = g[Seen(left'[u], Looked)]
                      /\ call'[u] = "closure" =>
                            \A i \in 1 .. Seen(left'[u], Looked) :
                               Looked[i] \in store /\ Sound(Looked[i])
    BY <1>1 DEF ReadersCount, Accept
  <2>1. CASE u = t
    <3>1. left'[t] = Looked /\ sum'[t] = 0
      BY <2>1 DEF Accept, BlobTypeOK, Readers
    <3> QED
      BY <2>1, <3>1, <1>3 DEF Totals
  <2>2. CASE u # t
    BY <2>2 DEF Accept, BlobTypeOK, ReadersCount
  <2> QED
    BY <2>1, <2>2
<1>7. Verdicts(g)'
  BY <1>1 DEF Verdicts, Complete, Accept, BlobTypeOK
<1>8. OwnBlobsAreWhole'
  BY DEF OwnBlobsAreWhole, Accept
<1>9. CertifiedStaysComplete'
  BY DEF CertifiedStaysComplete, Accept, BlobTypeOK, Failures
<1> QED
  BY <1>4, <1>5, <1>6, <1>7, <1>8, <1>9

\* A request is answered, with a code that a certified blob allows.
LEMMA AnswerStep ==
    ASSUME NEW g, Totals(g), Inv(g),
           NEW t \in Servers, call[t] # "idle",
           NEW code \in {"refused", "ingested", "complete", "bytes"} \cup Failures,
           Answer(t, code), UNCHANGED <<store, left, sum>>,
           certified' \in BOOLEAN, certified => certified', certified' => Complete(g),
           late[t] => code \notin Failures /\ (code = "bytes" => sum[t] = manifest.total)
    PROVE  Inv(g)'
<1> USE DEF Inv
<1>1. Written' = Written /\ Looked' = Looked /\ \A e : Sound(e)' <=> Sound(e)
  BY ManifestStays DEF Answer
<1>2. BlobTypeOK'
  BY DEF BlobTypeOK, Answer, Readers
<1>3. ChunksFirst'
  BY <1>1 DEF ChunksFirst, Answer, BlobTypeOK
<1>4. ReadersCount(g)'
  BY <1>1 DEF ReadersCount, Answer, BlobTypeOK, Readers
<1>5. Verdicts(g)'
  BY <1>1 DEF Verdicts, Complete, Answer, BlobTypeOK
<1>6. OwnBlobsAreWhole'
  BY DEF OwnBlobsAreWhole, Answer
<1>7. CertifiedStaysComplete'
  BY DEF CertifiedStaysComplete, Answer, BlobTypeOK
<1> QED
  BY <1>2, <1>3, <1>4, <1>5, <1>6, <1>7

\* One entity more is in the store: a chunk, or a manifest whose chunks are
\* there or that comes from elsewhere.
LEMMA KeepStep ==
    ASSUME NEW g, Totals(g), Inv(g), NEW t \in Servers, Keep(t)
    PROVE  Inv(g)'
<1> USE DEF Inv
<1> DEFINE e == Head(left[t]).entity
<1>1. /\ call[t] \in {"ingest", "store"} /\ left[t] # <<>> /\ left[t] \in Seq(Items)
      /\ store' = store \cup {e}
      /\ foreign' = (foreign \/ (e = Blob /\ call[t] = "ingest"))
      /\ left' = [left EXCEPT ![t] = Tail(@)] /\ sum' = [sum EXCEPT ![t] = @ + 1]
      /\ UNCHANGED <<manifest, call, answer, certified, late, calls>>
  BY DEF Keep, Writing, Working, Advance, BlobTypeOK
<1>2. Written' = Written /\ Looked' = Looked /\ \A q : Sound(q)' <=> Sound(q)
  BY <1>1, ManifestStays
<1>3. e \in Entities /\ Tail(left[t]) \in Seq(Items)
  <2>1. Head(left[t]) \in Items
    BY <1>1
  <2> QED
    BY <1>1, <2>1 DEF Items
<1>4. ASSUME call[t] = "store"
      PROVE  /\ Ends(Tail(left[t]), Written)
             /\ Seen(Tail(left[t]), Written) = Seen(left[t], Written) + 1
             /\ Seen(left[t], Written) \in Nat
             /\ Seen(left[t], Written) + 1 \in 1 .. Len(Written)
             /\ e = Written[Seen(left[t], Written) + 1].entity
             /\ \A i \in 1 .. Seen(left[t], Written) : Written[i].entity \in store
  BY <1>1, <1>4, LookupLists, NextSeen DEF ChunksFirst
<1>5. BlobTypeOK'
  <2>1. foreign' \in BOOLEAN
    BY <1>1
  <2>2. left'[t] \in Seq(Items) /\ \A u \in Servers \ {t} : left'[u] = left[u]
    BY <1>1, <1>3 DEF BlobTypeOK
  <2>3. DOMAIN left' = Servers /\ store' \subseteq Entities
    BY <1>1, <1>3 DEF BlobTypeOK
  <2>4. sum' \in [Servers -> Nat]
    <3>1. sum \in [Servers -> Nat]
      BY DEF BlobTypeOK
    <3>2. sum[t] \in Nat
      BY <3>1
    <3>3. sum[t] + 1 \in Nat
      BY <3>2
    <3> QED
      BY <3>1, <3>3, <1>1
  <2> QED
    BY <1>1, <2>1, <2>2, <2>3, <2>4 DEF BlobTypeOK, Readers
<1>6. ChunksFirst'
  <2> SUFFICES ASSUME NEW u \in Servers, call[u] = "store"
               PROVE  /\ Ends(left'[u], Written)
                      /\ \A i \in 1 .. Seen(left'[u], Written) : Written[i].entity \in store'
    BY <1>1, <1>2 DEF ChunksFirst
  <2>1. CASE u = t
    <3>1. left'[t] = Tail(left[t])
      BY <1>1 DEF BlobTypeOK
    <3>2. ASSUME NEW i \in 1 .. Seen(left[t], Written) + 1 PROVE Written[i].entity \in store'
      <4>1. Seen(left[t], Written) \in Nat
        BY <2>1, <1>4
      <4>2. CASE i \in 1 .. Seen(left[t], Written)
        BY <2>1, <4>2, <1>1, <1>4
      <4>3. CASE i = Seen(left[t], Written) + 1
        BY <2>1, <4>3, <1>1, <1>4
      <4> QED
        BY <4>1, <4>2, <4>3
    <3> QED
      BY <2>1, <3>1, <3>2, <1>4
  <2>2. CASE u # t
    BY <2>2, <1>1 DEF BlobTypeOK, ChunksFirst
  <2> QED
    BY <2>1, <2>2
<1>7. ReadersCount(g)'
  BY <1>1, <1>2 DEF ReadersCount, BlobTypeOK, Readers
<1>8. Verdicts(g)'
  BY <1>1, <1>2 DEF Verdicts, Complete
<1>9. OwnBlobsAreWhole'
  <2> SUFFICES ASSUME Blob \in store', ~foreign' PROVE ToSet(manifest.chunks) \subseteq store'
    BY <1>1 DEF OwnBlobsAreWhole
  <2>1. CASE e # Blob
    BY <2>1, <1>1 DEF OwnBlobsAreWhole
  <2>2. CASE e = Blob
    <3>1. call[t] = "store"
      BY <2>2, <1>1
    <3>2. Seen(left[t], Written) = Len(manifest.chunks)
      <4>0. Len(manifest.chunks) \in Nat /\ Len(Written) = Len(manifest.chunks) + 1
        <5>1. manifest.chunks \in Seq(Chunks)
          BY DEF BlobTypeOK
        <5> QED
          BY <5>1, LookupLists
      <4> SUFFICES ASSUME Seen(left[t], Written) + 1 \in 1 .. Len(manifest.chunks) PROVE FALSE
        BY <4>0, <3>1, <1>4
      <4>1. Written[Seen(left[t], Written) + 1].entity \in Chunks
        BY LookupLists
      <4> QED
        BY <4>1, <2>2, <3>1, <1>4, BlobAssumption
    <3>3. \A i \in 1 .. Len(manifest.chunks) : manifest.chunks[i] \in store
      BY <3>1, <3>2, <1>4, LookupLists
    <3> QED
      BY <3>3, <1>1, LookupLists
  <2> QED
    BY <2>1, <2>2
<1>10. CertifiedStaysComplete'
  <2>1. \A u \in Servers : answer[u] = "bytes" => sum'[u] = sum[u]
    BY <1>1 DEF BlobTypeOK, Verdicts
  <2> QED
    BY <1>1, <2>1 DEF CertifiedStaysComplete
<1> QED
  BY <1>5, <1>6, <1>7, <1>8, <1>9, <1>10

\* A reader comes past an entity that is there.
LEMMA ReadStep ==
    ASSUME NEW g, Totals(g), Inv(g), NEW t \in Servers, Read(t)
    PROVE  Inv(g)'
<1> USE DEF Inv
<1> DEFINE e == Head(left[t])
           k == Seen(left[t], Looked)
<1>1. /\ call[t] \in Readers /\ left[t] # <<>> /\ left[t] \in Seq(Entities)
      /\ e \in store
      /\ call[t] = "closure" => Sound(e)
      /\ left' = [left EXCEPT ![t] = Tail(@)] /\ sum' = [sum EXCEPT ![t] = @ + Weight(e)]
      /\ UNCHANGED <<manifest, store, foreign, call, answer, certified, late, calls>>
  BY DEF Read, Working, Advance, BlobTypeOK, Weight, Readers, Sound
<1>2. Written' = Written /\ Looked' = Looked /\ \A q : Sound(q)' <=> Sound(q)
  BY <1>1, ManifestStays
<1>3. /\ Ends(Tail(left[t]), Looked) /\ Tail(left[t]) \in Seq(Entities)
      /\ Seen(Tail(left[t]), Looked) = k + 1
      /\ k + 1 \in 1 .. Len(Looked) /\ e = Looked[k + 1]
  BY <1>1, LookupLists, NextSeen DEF ReadersCount
<1>4. k \in Nat /\ Len(Looked) \in Nat
  BY <1>1, <1>3, LookupLists DEF Seen
<1>5. e \in Entities /\ Weight(e) \in Nat
  BY <1>1, BlobAssumption DEF BlobTypeOK, Weight, Entities
<1>6. sum[t] + Weight(e) = g[k + 1]
  <2>1. g[k + 1] = g[(k + 1) - 1] + Weight(Looked[k + 1])
    BY <1>3 DEF Totals
  <2>2. (k + 1) - 1 = k
    BY <1>4
  <2> QED
    BY <2>1, <2>2, <1>1, <1>3 DEF ReadersCount
<1>7. /\ left'[t] = Tail(left[t]) /\ sum'[t] = g[k + 1]
      /\ \A u \in Servers \ {t} : left'[u] = left[u] /\ sum'[u] = sum[u]
  BY <1>1, <1>6 DEF BlobTypeOK
<1> HIDE DEF e, k
<1>8. BlobTypeOK'
  <2>1. sum' \in [Servers -> Nat]
    <3>1. sum \in [Servers -> Nat]
      BY DEF BlobTypeOK
    <3>2. sum[t] \in Nat
      BY <3>1
    <3>3. sum[t] + Weight(e) \in Nat
      BY <3>2, <1>5
    <3> QED
      BY <3>1, <3>3, <1>1
  <2> QED
    BY <1>1, <1>3, <1>7, <2>1 DEF BlobTypeOK, Readers
<1>9. ChunksFirst'
  BY <1>1, <1>2, <1>7 DEF ChunksFirst, Readers
<1>10. ReadersCount(g)'
  <2> SUFFICES ASSUME NEW u \in Servers, call[u] \in Readers
               PROVE  /\ Ends(left'[u], Looked)
                      /\ sum'[u] = g[Seen(left'[u], Looked)]
                      /\ call[u] = "closure" =>
                            \A i \in 1 .. Seen(left'[u], Looked) :
                               Looked[i] \in store /\ Sound(Looked[i])
    BY <1>1, <1>2 DEF ReadersCount
  <2>1. CASE u = t
    <3>1. ASSUME call[t] = "closure", NEW i \in 1 .. k + 1
          PROVE  Looked[i] \in store /\ Sound(Looked[i])
      <4>1. CASE i \in 1 .. k
        BY <3>1, <4>1, <1>1 DEF ReadersCount, k
      <4>2. CASE i = k + 1
        BY <3>1, <4>2, <1>1, <1>3
      <4> QED
        BY <4>1, <4>2, <1>4
    <3> QED
      BY <2>1, <3>1, <1>3, <1>7
  <2>2. CASE u # t
    BY <2>2, <1>7 DEF ReadersCount
  <2> QED
    BY <2>1, <2>2
<1>11. Verdicts(g)'
  BY <1>1, <1>2 DEF Verdicts, Complete
<1>12. OwnBlobsAreWhole'
  BY <1>1 DEF OwnBlobsAreWhole
<1>13. CertifiedStaysComplete'
  <2>1. \A u \in Servers : answer[u] = "bytes" => sum'[u] = sum[u]
    BY <1>1, <1>7 DEF Verdicts, Readers
  <2> QED
    BY <1>1, <2>1 DEF CertifiedStaysComplete
<1> QED
  BY <1>8, <1>9, <1>10, <1>11, <1>12, <1>13

--------------------------------------------------------------------------------
\* Every step keeps the invariant, with the totals the manifest has once and
\* for all.
LEMMA StepInv ==
    ASSUME NEW g, Totals(g), Inv(g), [BlobNext]_blobVars
    PROVE  Inv(g)'
<1>0. BlobTypeOK
  BY DEF Inv
<1>1. ASSUME NEW t \in Servers, NEW e \in Envelopes, Ingest(t, e) PROVE Inv(g)'
  BY <1>1, AcceptStep, BlobAssumption DEF Ingest
<1>2. ASSUME NEW t \in Servers, StoreBlob(t) PROVE Inv(g)'
  BY <1>2, AcceptStep DEF StoreBlob, Written
<1>3. ASSUME NEW t \in Servers, NEW op \in Readers, Lookup(t, op) PROVE Inv(g)'
  BY <1>3, AcceptStep DEF Lookup, Looked
<1>4. ASSUME NEW t \in Servers, Refuse(t) PROVE Inv(g)'
  <2>1. /\ Answer(t, "refused") /\ UNCHANGED <<store, left, sum, certified>> /\ call[t] # "idle"
    BY <1>4 DEF Refuse, Working
  <2>2. "refused" \notin Failures
    BY DEF Failures
  <2> QED
    BY <2>1, <2>2, <1>0, AnswerStep DEF Inv, Verdicts, BlobTypeOK
<1>5. ASSUME NEW t \in Servers, Ingested(t) PROVE Inv(g)'
  <2>1. /\ Answer(t, "ingested") /\ UNCHANGED <<store, left, sum, certified>> /\ call[t] # "idle"
    BY <1>5 DEF Ingested, Through
  <2>2. "ingested" \notin Failures
    BY DEF Failures
  <2> QED
    BY <2>1, <2>2, <1>0, AnswerStep DEF Inv, Verdicts, BlobTypeOK
<1>6. ASSUME NEW t \in Servers, NEW op \in Readers, Working(t, op), late[t]
      PROVE  /\ Head(left[t]) \in store
             /\ Sound(Head(left[t]))
  <2>1. left[t] \in Seq(Entities) /\ left[t] # <<>> /\ Ends(left[t], Looked)
    BY <1>6, <1>0 DEF Working, BlobTypeOK, Inv, ReadersCount
  <2>2. /\ Seen(left[t], Looked) + 1 \in 1 .. Len(Looked)
        /\ Head(left[t]) = Looked[Seen(left[t], Looked) + 1]
    BY <2>1, <1>0, LookupLists, NextSeen
  <2> QED
    BY <2>2, <1>6 DEF Inv, Verdicts, Complete
<1>7. ASSUME NEW t \in Servers, Missing(t) PROVE Inv(g)'
  <2>1. ~late[t]
    BY <1>6, <1>7 DEF Missing, Readers
  <2> DEFINE code == IF Head(left[t]) = Blob THEN "blob_not_found"
                     ELSE IF call[t] = "closure" THEN "missing_chunk" ELSE "blob_pending_sync"
  <2>2. Answer(t, code) /\ code \in Failures
    BY <1>7 DEF Missing, Failures
  <2>3. UNCHANGED <<store, left, sum, certified>> /\ call[t] # "idle"
    BY <1>7 DEF Missing, Working
  <2> HIDE DEF code
  <2> QED
    BY <2>1, <2>2, <2>3, <1>0, AnswerStep DEF Inv, Verdicts, BlobTypeOK
<1>8. ASSUME NEW t \in Servers, EmptyChunk(t) PROVE Inv(g)'
  <2>1. /\ Answer(t, "empty_chunk") /\ UNCHANGED <<store, left, sum, certified>>
        /\ call[t] # "idle" /\ Working(t, "closure")
        /\ Head(left[t]) # Blob /\ Length[Head(left[t])] = 0
    BY <1>8 DEF EmptyChunk, Working
  <2>2. ~late[t]
    BY <1>6, <2>1 DEF Readers, Sound
  <2>3. "empty_chunk" \in Failures
    BY DEF Failures
  <2> QED
    BY <2>1, <2>2, <2>3, <1>0, AnswerStep DEF Inv, Verdicts, BlobTypeOK
<1>13. ASSUME NEW t \in Servers, NotABlob(t) PROVE Inv(g)'
  <2>1. /\ Answer(t, "not_a_blob") /\ UNCHANGED <<store, left, sum, certified>>
        /\ Head(left[t]) = Blob /\ ~manifest.isBlob
    BY <1>13 DEF NotABlob
  <2>2. PICK op \in Readers : Working(t, op)
    BY <1>13 DEF NotABlob, Readers
  <2>3. ~late[t] /\ call[t] # "idle"
    BY <1>6, <2>1, <2>2 DEF Sound, Working, Readers
  <2>4. "not_a_blob" \in Failures
    BY DEF Failures
  <2> QED
    BY <2>1, <2>3, <2>4, <1>0, AnswerStep DEF Inv, Verdicts, BlobTypeOK
<1>9. ASSUME NEW t \in Servers, NEW op \in Readers, Through(t, op)
      PROVE  Seen(left[t], Looked) = Len(Looked) /\ sum[t] = g[Len(Looked)]
  <2>1. Len(Looked) \in Nat /\ Len(left[t]) = 0
    BY <1>9, <1>0, LookupLists DEF Through
  <2>2. Seen(left[t], Looked) = Len(Looked)
    BY <2>1 DEF Seen
  <2> QED
    BY <2>2, <1>9 DEF Inv, ReadersCount, Through
<1>10. ASSUME NEW t \in Servers, Closed(t) PROVE Inv(g)'
  <2>1. /\ Through(t, "closure") /\ call[t] = "closure"
        /\ UNCHANGED <<store, left, sum>>
        /\ certified' = (certified \/ sum[t] = manifest.total)
    BY <1>10 DEF Closed, Through
  <2>2. sum[t] = manifest.total => Complete(g)
    BY <2>1, <1>9 DEF Inv, ReadersCount, Complete, Readers
  <2>3. late[t] => sum[t] = manifest.total
    BY <2>1, <1>9 DEF Inv, Verdicts, Complete, Readers
  <2> DEFINE code == IF sum[t] = manifest.total THEN "complete" ELSE "size_mismatch"
  <2>4. Answer(t, code)
    BY <1>10 DEF Closed
  <2>5. code \in {"complete"} \cup Failures /\ (late[t] => code \notin Failures) /\ code # "bytes"
    BY <2>3 DEF Failures
  <2>6. certified' \in BOOLEAN
    BY <2>1
  <2>7. certified' => Complete(g)
    BY <2>1, <2>2 DEF Inv, Verdicts
  <2>8. certified => certified'
    BY <2>1
  <2> HIDE DEF code
  <2> QED
    BY <2>1, <2>4, <2>5, <2>6, <2>7, <2>8, AnswerStep
<1>11. ASSUME NEW t \in Servers, Reassembled(t) PROVE Inv(g)'
  <2>1. /\ Through(t, "reassemble") /\ call[t] = "reassemble"
        /\ Answer(t, "bytes") /\ UNCHANGED <<store, left, sum, certified>>
    BY <1>11 DEF Reassembled, Through
  <2>2. late[t] => sum[t] = manifest.total
    BY <2>1, <1>9 DEF Inv, Verdicts, Complete, Readers
  <2>3. "bytes" \notin Failures
    BY DEF Failures
  <2> QED
    BY <2>1, <2>2, <2>3, <1>0, AnswerStep DEF Inv, Verdicts, BlobTypeOK
<1>12. CASE UNCHANGED blobVars
  BY <1>12 DEF blobVars, Inv, BlobTypeOK, OwnBlobsAreWhole, ChunksFirst, Written, ReadersCount,
               Looked, Verdicts, Complete, CertifiedStaysComplete, Sound
<1> QED
  BY <1>1, <1>2, <1>3, <1>4, <1>5, <1>7, <1>8, <1>10, <1>11, <1>12, <1>13, KeepStep, ReadStep
     DEF BlobNext, Call, Run, BlobRest, Readers

\* The invariant holds in every reachable state.
LEMMA Invariance == BlobSpec => []IInv
<1>1. IInv /\ [BlobNext]_blobVars => IInv'
  <2> SUFFICES ASSUME IInv, [BlobNext]_blobVars PROVE IInv'
    OBVIOUS
  <2>1. PICK g : Totals(g) /\ Inv(g)
    BY DEF IInv
  <2>2. Inv(g)'
    BY <2>1, StepInv
  <2>3. manifest' = manifest
    BY DEF BlobNext, blobVars, Call, Run, BlobRest, Ingest, StoreBlob, Lookup, Accept, Keep,
           Advance, Refuse, Ingested, Answer, Missing, NotABlob, EmptyChunk, Read, Closed, Reassembled
  <2>4. Totals(g)'
    BY <2>1, <2>3, ManifestStays
  <2> QED
    BY <2>2, <2>4 DEF IInv
<1> QED
  BY <1>1, InitIInv, PTL DEF BlobSpec

\* ensure_closure's verdict is good for ever: whatever is ingested or stored
\* meanwhile, later checks and reassemblies succeed, with the declared size.
THEOREM VerdictsHold == BlobSpec => []CertifiedStaysComplete
<1>1. IInv => CertifiedStaysComplete
  BY DEF IInv, Inv
<1> QED
  BY <1>1, Invariance, PTL

\* store_blob shows no reader a manifest before its chunks, with any number of
\* threads that store and ingest at once.
THEOREM OwnBlobsAppearWhole == BlobSpec => []OwnBlobsAreWhole
<1>1. IInv => OwnBlobsAreWhole
  BY DEF IInv, Inv
<1> QED
  BY <1>1, Invariance, PTL

--------------------------------------------------------------------------------
(***************************************************************************)
(* Content-defined chunking.                                               *)
(***************************************************************************)
ChunkingTypeOK ==
    /\ lead \in Leads /\ rest \in Rests /\ target \in Targets
    /\ offset \in 0 .. Len(file)
    /\ at \in Nat
    /\ cuts \subseteq 1 .. offset
    /\ offset # 0 => offset \in cuts

\* The scan of a chunk that is not the rest begins behind the smallest size and
\* stops at the largest, or at the end of the file.
ScanIsInside ==
    Remaining > MinSize(target) =>
        at >= offset + MinSize(target) /\ at <= Limit(MaxSize(target))

\* A chunk is no longer than it may be, and only the last one is short.
Sized(p, e) ==
    e - p \in 1 .. MaxSize(target) /\ (e < Len(file) => e - p > MinSize(target))

SizedSoFar ==
    \A c \in cuts : \E p \in cuts \cup {0} :
        /\ p < c /\ Sized(p, c)
        /\ \A d \in cuts : d < c => d <= p

SizesIInv == ChunkingTypeOK /\ ScanIsInside /\ SizedSoFar

\* The sizes a target asks for.
LEMMA Sizes ==
    ASSUME NEW n \in Targets
    PROVE  /\ n \in Nat /\ MinSize(n) \in Nat /\ MaxSize(n) \in Nat
           /\ 1 <= MinSize(n) /\ MinSize(n) < MaxSize(n)
<1>1. n \in Nat /\ n >= 4
  BY ChunkingAssumption
<1>2. n \div 4 \in Nat /\ 1 <= n \div 4 /\ n \div 4 < 2 * n
  BY <1>1
<1> QED
  BY <1>1, <1>2 DEF MinSize, MaxSize

\* The file is a sequence of bytes.
LEMMA FileIsBytes == ASSUME ChunkingTypeOK PROVE file \in Seq(Bytes) /\ Len(file) \in Nat
<1>1. lead \in Seq(Bytes) /\ rest \in Seq(Bytes)
  BY ChunkingAssumption DEF ChunkingTypeOK
<1> QED
  BY <1>1 DEF file

\* The smaller of two numbers.
LEMMA MinOfTwo ==
    ASSUME NEW i \in Int, NEW j \in Int
    PROVE  Min({i, j}) = IF i <= j THEN i ELSE j
<1> DEFINE m == IF i <= j THEN i ELSE j
<1>1. m \in {i, j} /\ \A y \in {i, j} : m =< y
  OBVIOUS
<1>2. ASSUME NEW x \in {i, j}, \A y \in {i, j} : x =< y PROVE x = m
  BY <1>2
<1> HIDE DEF m
<1>3. Min({i, j}) = m
  BY <1>1, <1>2 DEF Min
<1> QED
  BY <1>3 DEF m

\* A chunk ends with the file at the latest.
LEMMA LimitIs ==
    ASSUME ChunkingTypeOK, NEW size \in Nat
    PROVE  Limit(size) = IF offset + size <= Len(file) THEN offset + size ELSE Len(file)
<1>1. offset \in Nat /\ Len(file) \in Nat
  BY FileIsBytes DEF ChunkingTypeOK
<1>2. offset + size \in Int /\ Len(file) \in Int
  BY <1>1
<1> QED
  BY <1>2, MinOfTwo DEF Limit

\* A boundary behind all others, at a proper distance, keeps the chunks sized.
LEMMA CutKeepsSizes ==
    ASSUME SizesIInv, NEW end \in Nat, offset < end, end <= Len(file), Sized(offset, end),
           CutAt(end)
    PROVE  SizesIInv'
<1>0. /\ cuts' = cuts \cup {end} /\ offset' = end /\ at' = end + MinSize(target)
      /\ lead' = lead /\ rest' = rest /\ target' = target /\ file' = file
  BY DEF CutAt, file
<1>1. Len(file) \in Nat /\ offset \in Nat
  BY FileIsBytes DEF SizesIInv, ChunkingTypeOK
<1>2. \A c \in cuts : c \in 1 .. offset
  BY DEF SizesIInv, ChunkingTypeOK
<1>3. MinSize(target) \in Nat /\ MaxSize(target) \in Nat /\ MinSize(target) < MaxSize(target)
  BY Sizes DEF SizesIInv, ChunkingTypeOK
<1>4. ChunkingTypeOK'
  <2>1. offset' \in 0 .. Len(file')
    BY <1>0, <1>1
  <2>2. at' \in Nat
    BY <1>0, <1>3
  <2>3. cuts' \subseteq 1 .. offset' /\ offset' \in cuts'
    BY <1>0, <1>1, <1>2
  <2> QED
    BY <1>0, <2>1, <2>2, <2>3 DEF SizesIInv, ChunkingTypeOK
<1>5. ScanIsInside'
  <2>1. Limit(MaxSize(target))' = IF end + MaxSize(target) <= Len(file) THEN end + MaxSize(target) ELSE Len(file)
    <3>1. end + MaxSize(target) \in Int /\ Len(file) \in Int
      BY <1>1, <1>3
    <3>2. Limit(MaxSize(target))' = Min({end + MaxSize(target), Len(file)})
      BY <1>0 DEF Limit
    <3> QED
      BY <3>1, <3>2, MinOfTwo
  <2>2. Remaining' = Len(file) - end
    BY <1>0 DEF Remaining
  <2>3. Len(file) - end > MinSize(target) =>
            end + MinSize(target) <= Limit(MaxSize(target))'
    BY <1>1, <1>3, <2>1
  <2> QED
    BY <1>0, <1>1, <1>3, <2>2, <2>3 DEF ScanIsInside
<1>6. SizedSoFar'
  <2>1. \A p, e : Sized(p, e)' <=> Sized(p, e)
    BY <1>0 DEF Sized
  <2>2. ASSUME NEW c \in cuts
        PROVE  \E p \in cuts' \cup {0} :
                  p < c /\ Sized(p, c) /\ \A d \in cuts' : d < c => d <= p
    <3>1. PICK p \in cuts \cup {0} : p < c /\ Sized(p, c) /\ \A d \in cuts : d < c => d <= p
      BY DEF SizesIInv, SizedSoFar
    <3>2. ~(end < c)
      BY <1>1, <1>2
    <3> QED
      BY <1>0, <3>1, <3>2
  <2>3. \E p \in cuts' \cup {0} :
            p < end /\ Sized(p, end) /\ \A d \in cuts' : d < end => d <= p
    <3>1. offset \in cuts' \cup {0}
      BY <1>0, <1>1 DEF SizesIInv, ChunkingTypeOK
    <3>2. \A d \in cuts' : d < end => d <= offset
      BY <1>0, <1>1, <1>2
    <3> QED
      BY <3>1, <3>2
  <2>4. \A c \in cuts' : \E p \in cuts' \cup {0} :
            p < c /\ Sized(p, c)' /\ \A d \in cuts' : d < c => d <= p
    BY <1>0, <2>1, <2>2, <2>3
  <2> QED
    BY <2>4 DEF SizedSoFar
<1> QED
  BY <1>4, <1>5, <1>6 DEF SizesIInv

\* Every step keeps the sizes.
LEMMA ChunkingStepKeepsSizes == SizesIInv /\ [ChunkingNext]_chunkingVars => SizesIInv'
<1> SUFFICES ASSUME SizesIInv, [ChunkingNext]_chunkingVars PROVE SizesIInv'
  OBVIOUS
<1>0. Len(file) \in Nat /\ offset \in Nat /\ offset <= Len(file) /\ at \in Nat /\ ChunkingTypeOK
  BY FileIsBytes DEF SizesIInv, ChunkingTypeOK
<1>1. MinSize(target) \in Nat /\ MaxSize(target) \in Nat
      /\ 1 <= MinSize(target) /\ MinSize(target) < MaxSize(target)
  BY Sizes DEF SizesIInv, ChunkingTypeOK
<1>2. Limit(MaxSize(target)) = IF offset + MaxSize(target) <= Len(file)
                               THEN offset + MaxSize(target) ELSE Len(file)
  BY <1>0, <1>1, LimitIs
<1>3. CASE TakeRest
  <2>1. Len(file) - offset > 0 /\ Len(file) - offset <= MinSize(target)
    BY <1>3 DEF TakeRest, Remaining
  <2>2. Sized(offset, Len(file)) /\ offset < Len(file)
    BY <1>0, <1>1, <2>1 DEF Sized
  <2> QED
    BY <1>0, <1>3, <2>2, CutKeepsSizes DEF TakeRest
<1>4. CASE Roll
  <2>1. /\ at' = at + 1 /\ Remaining > MinSize(target) /\ at < Limit(MaxSize(target))
        /\ UNCHANGED <<lead, rest, target, offset, cuts, file>>
    BY <1>4 DEF Roll, Scanning, file
  <2>2. Limit(MaxSize(target))' = Limit(MaxSize(target)) /\ Remaining' = Remaining
    BY <2>1 DEF Limit, Remaining
  <2>3. at >= offset + MinSize(target)
    BY <2>1 DEF SizesIInv, ScanIsInside
  <2>4. at' >= offset + MinSize(target) /\ at' <= Limit(MaxSize(target))
    BY <1>0, <1>1, <1>2, <2>1, <2>3
  <2>5. ScanIsInside'
    BY <2>1, <2>2, <2>4 DEF ScanIsInside
  <2>6. SizedSoFar'
    BY <2>1 DEF SizesIInv, SizedSoFar, Sized
  <2>7. ChunkingTypeOK'
    <3>1. at' \in Nat
      BY <1>0, <2>1
    <3> QED
      BY <2>1, <3>1 DEF SizesIInv, ChunkingTypeOK
  <2> QED
    BY <2>5, <2>6, <2>7 DEF SizesIInv
<1>5. CASE CutBehind
  <2>1. Remaining > MinSize(target) /\ at < Limit(MaxSize(target)) /\ CutAt(at + 1)
    BY <1>5 DEF CutBehind, Scanning
  <2>2. at >= offset + MinSize(target)
    BY <2>1 DEF SizesIInv, ScanIsInside
  <2>3. /\ at + 1 \in Nat /\ offset < at + 1 /\ at + 1 <= Len(file)
        /\ (at + 1) - offset \in 1 .. MaxSize(target) /\ (at + 1) - offset > MinSize(target)
    BY <1>0, <1>1, <1>2, <2>1, <2>2
  <2>4. Sized(offset, at + 1)
    BY <2>3 DEF Sized
  <2> QED
    BY <2>1, <2>3, <2>4, CutKeepsSizes
<1>6. CASE CutAtLimit
  <2>1. Remaining > MinSize(target) /\ ~(at < Limit(MaxSize(target))) /\ CutAt(at)
    BY <1>6 DEF CutAtLimit, Scanning
  <2>2. at <= Limit(MaxSize(target)) /\ Len(file) - offset > MinSize(target)
    BY <2>1 DEF SizesIInv, ScanIsInside, Remaining
  <2>3. at = Limit(MaxSize(target))
    BY <1>0, <1>1, <1>2, <2>1, <2>2
  <2>4. /\ offset < at /\ at <= Len(file) /\ at - offset \in 1 .. MaxSize(target)
        /\ at < Len(file) => at - offset > MinSize(target)
    BY <1>0, <1>1, <1>2, <2>2, <2>3
  <2>5. Sized(offset, at)
    BY <2>4 DEF Sized
  <2> QED
    BY <1>0, <2>1, <2>4, <2>5, CutKeepsSizes
<1>7. ASSUME NEW new \in Leads, Edit(new) PROVE SizesIInv'
  <2>1. /\ lead' = new /\ rest' = rest /\ target' = target
        /\ offset' = 0 /\ at' = MinSize(target) /\ cuts' = {}
    BY <1>7 DEF Edit
  <2>2. new \in Seq(Bytes) /\ rest \in Seq(Bytes)
    BY ChunkingAssumption DEF SizesIInv, ChunkingTypeOK
  <2>3. Len(file') \in Nat /\ file' = new \o rest
    BY <2>1, <2>2 DEF file
  <2>4. ChunkingTypeOK'
    BY <1>1, <2>1, <2>3 DEF SizesIInv, ChunkingTypeOK
  <2>5. Limit(MaxSize(target))' = IF MaxSize(target) <= Len(file') THEN MaxSize(target) ELSE Len(file')
    <3>1. MaxSize(target) \in Int /\ Len(file') \in Int /\ 0 + MaxSize(target) = MaxSize(target)
      BY <1>1, <2>3
    <3>2. Limit(MaxSize(target))' = Min({0 + MaxSize(target), Len(file')})
      BY <2>1 DEF Limit
    <3> QED
      BY <3>1, <3>2, MinOfTwo
  <2>6. ScanIsInside'
    <3>1. Remaining' = Len(file') /\ 0 + MinSize(target) = MinSize(target)
      BY <1>1, <2>1, <2>3 DEF Remaining
    <3> QED
      BY <1>1, <2>1, <2>3, <2>5, <3>1 DEF ScanIsInside
  <2>7. SizedSoFar'
    BY <2>1 DEF SizedSoFar
  <2> QED
    BY <2>4, <2>6, <2>7 DEF SizesIInv
<1>8. CASE Chunked \/ UNCHANGED chunkingVars
  <2>1. UNCHANGED chunkingVars
    BY <1>8 DEF Chunked
  <2> QED
    BY <2>1 DEF chunkingVars, SizesIInv, ChunkingTypeOK, ScanIsInside, SizedSoFar, Sized,
                Remaining, Limit, file
<1> QED
  BY <1>3, <1>4, <1>5, <1>6, <1>7, <1>8 DEF ChunkingNext

\* Nothing is cut yet.
LEMMA ChunkingInitSizes == ChunkingInit => SizesIInv
<1> SUFFICES ASSUME ChunkingInit PROVE SizesIInv
  OBVIOUS
<1>1. /\ lead \in Leads /\ rest \in Rests /\ target \in Targets
      /\ offset = 0 /\ at = MinSize(target) /\ cuts = {}
  BY DEF ChunkingInit
<1>2. lead \in Seq(Bytes) /\ rest \in Seq(Bytes)
  BY <1>1, ChunkingAssumption
<1>3. Len(file) \in Nat
  BY <1>2 DEF file
<1>4. MinSize(target) \in Nat /\ MaxSize(target) \in Nat /\ MinSize(target) < MaxSize(target)
  BY <1>1, Sizes
<1>5. ChunkingTypeOK
  BY <1>1, <1>3, <1>4 DEF ChunkingTypeOK
<1>6. Limit(MaxSize(target)) = IF 0 + MaxSize(target) <= Len(file) THEN 0 + MaxSize(target) ELSE Len(file)
  BY <1>1, <1>4, <1>5, LimitIs
<1>7. ScanIsInside
  <2>1. Remaining = Len(file)
    BY <1>1, <1>3 DEF Remaining
  <2> QED
    BY <1>1, <1>3, <1>4, <1>6, <2>1 DEF ScanIsInside
<1>8. SizedSoFar
  BY <1>1 DEF SizedSoFar
<1> QED
  BY <1>5, <1>7, <1>8 DEF SizesIInv

\* An element that no other exceeds is the maximum.
LEMMA GreatestIs ==
    ASSUME NEW S \in SUBSET Nat, NEW m \in S, \A x \in S : x <= m
    PROVE  Max(S) = m
<1>1. m \in S /\ \A y \in S : m >= y
  OBVIOUS
<1>2. ASSUME NEW x \in S, \A y \in S : x >= y PROVE x = m
  <2>1. x >= m /\ x <= m /\ x \in Nat /\ m \in Nat
    BY <1>2
  <2> QED
    BY <2>1
<1> QED
  BY <1>1, <1>2 DEF Max

\* The sizes are those of the property.
LEMMA SizesAreRight == SizesIInv => ChunksAreSized
<1> SUFFICES ASSUME SizesIInv PROVE ChunksAreSized
  OBVIOUS
<1>0. Len(file) \in Nat /\ offset \in Nat /\ offset <= Len(file)
  BY FileIsBytes DEF SizesIInv, ChunkingTypeOK
<1>1. /\ \A c \in cuts : c \in Nat /\ 1 <= c /\ c <= offset
      /\ offset # 0 => offset \in cuts
  <2>1. \A c \in 1 .. offset : c \in Nat /\ 1 <= c /\ c <= offset
    BY <1>0
  <2> QED
    BY <2>1 DEF SizesIInv, ChunkingTypeOK
<1>2. cuts = {} <=> offset = 0
  <2>1. CASE offset = 0
    <3>1. \A c \in cuts : FALSE
      BY <1>1, <2>1
    <3> QED
      BY <2>1, <3>1
  <2>2. CASE offset # 0
    BY <1>1, <2>2
  <2> QED
    BY <2>1, <2>2
<1>3. cuts # {} => Max(cuts) = offset
  <2>1. cuts \in SUBSET Nat
    BY <1>1
  <2> QED
    BY <1>1, <1>2, <2>1, GreatestIs
<1>4. ASSUME NEW c \in cuts
      PROVE  /\ c - Previous(c) \in 1 .. MaxSize(target)
             /\ (c < Len(file) => c - Previous(c) > MinSize(target))
  <2>1. PICK p \in cuts \cup {0} : p < c /\ Sized(p, c) /\ \A d \in cuts : d < c => d <= p
    BY DEF SizesIInv, SizedSoFar
  <2> DEFINE S == {0} \cup {d \in cuts : d < c}
  <2>2. S \in SUBSET Nat /\ p \in S
    BY <1>1, <2>1
  <2>3. \A x \in S : x <= p
    BY <1>1, <2>1
  <2>4. Previous(c) = p
    <3>1. Max(S) = p
      <4> HIDE DEF S
      <4> QED
        BY <2>2, <2>3, GreatestIs
    <3> QED
      BY <3>1 DEF Previous
  <2> QED
    BY <2>1, <2>4 DEF Sized
<1> QED
  BY <1>0, <1>2, <1>3, <1>4 DEF ChunksAreSized

\* Of any file, gear table and target size, before and after any edit of its
\* beginning: the chunks found so far partition what was scanned, none is empty
\* or longer than the largest size, and only the last of a file is short.
THEOREM ChunksAreAlwaysSized == ChunkingSpec => []ChunksAreSized
<1>1. ChunkingSpec => []SizesIInv
  BY ChunkingInitSizes, ChunkingStepKeepsSizes, PTL DEF ChunkingSpec
<1> QED
  BY <1>1, SizesAreRight, PTL

--------------------------------------------------------------------------------
(* The chunks of what two versions of a file have in common.  Boundaries    *)
(* are counted from the end of the file, where the two agree.               *)

Byte(d, k) == rest[Len(rest) - d + k]
Reach(d, size) == IF size <= d THEN size ELSE d
MaskOf(d, i) == IF i < Reach(d, target) THEN Hard(target) ELSE Easy(target)
RollOn(d, i, v) == (2 * v + Gear[Byte(d, i + 1)]) % 2^Width

\* g holds the fingerprints of a scan that passed n bytes of the chunk at d.
Scans(d, n, g) ==
    /\ g[0] = 0
    /\ \A k \in 0 .. n - 1 :
          /\ g[k + 1] = RollOn(d, MinSize(target) + k, g[k])
          /\ g[k + 1] % MaskOf(d, MinSize(target) + k) # 0

\* Such a scan ends the chunk after size bytes.
ScanEnds(d, n, g, size) ==
    \/ /\ MinSize(target) + n < Reach(d, MaxSize(target))
       /\ RollOn(d, MinSize(target) + n, g[n]) % MaskOf(d, MinSize(target) + n) = 0
       /\ size = MinSize(target) + n + 1
    \/ MinSize(target) + n = Reach(d, MaxSize(target)) /\ size = MinSize(target) + n

\* The chunk that begins at d holds size bytes.
ChunkAt(d, size) ==
    \/ d <= MinSize(target) /\ size = d
    \/ /\ d > MinSize(target)
       /\ \E n \in Nat : \E g : Scans(d, n, g) /\ ScanEnds(d, n, g, size)

\* Of the boundaries cs of a file of that length, found up to off, each in the
\* common part is followed by the end of its chunk.
Follows(cs, c, e) == e \in cs /\ c < e /\ \A x \in cs : c < x => e <= x
Chained(length, cs, off) ==
    \A c \in cs : c < off /\ length - c <= Len(rest) =>
        \E e \in cs : Follows(cs, c, e) /\ ChunkAt(length - c, e - c)

ScanIsRecorded ==
    Remaining > MinSize(target) /\ Remaining <= Len(rest) =>
        \E g : /\ Scans(Remaining, at - offset - MinSize(target), g)
               /\ g[at - offset - MinSize(target)] = fp

EarlierIsChained ==
    before # Unedited =>
        /\ before.size \in Nat /\ before.cuts \subseteq 1 .. before.size
        /\ Chained(before.size, before.cuts, before.size)

RejoinIInv ==
    SizesIInv /\ Chained(Len(file), cuts, offset) /\ ScanIsRecorded /\ EarlierIsChained

\* Two scans of the same bytes have the same fingerprints.
LEMMA ScansAgree ==
    ASSUME NEW d, NEW m \in Nat, NEW n \in Nat, NEW g, NEW h, Scans(d, m, g), Scans(d, n, h)
    PROVE  \A k \in Nat : k <= m /\ k <= n => g[k] = h[k]
<1> DEFINE S == {k \in Nat : k <= m /\ k <= n => g[k] = h[k]}
<1>1. 0 \in S
  BY DEF Scans
<1>2. ASSUME NEW k \in S PROVE k + 1 \in S
  <2> SUFFICES ASSUME k + 1 <= m, k + 1 <= n PROVE g[k + 1] = h[k + 1]
    OBVIOUS
  <2>1. k \in 0 .. m - 1 /\ k \in 0 .. n - 1 /\ g[k] = h[k]
    OBVIOUS
  <2> QED
    BY <2>1 DEF Scans
<1>3. S = Nat
  <2>1. S \in SUBSET Nat
    OBVIOUS
  <2> HIDE DEF S
  <2> QED
    BY <1>1, <1>2, <2>1, NaturalInduction
<1> QED
  BY <1>3

\* Where a scan ends, no scan goes on.
LEMMA ScanEndsThere ==
    ASSUME target \in Targets, NEW d \in Nat, NEW m \in Nat, NEW n \in Nat,
           NEW g, NEW h, NEW i, NEW j,
           Scans(d, m, g), ScanEnds(d, m, g, i), Scans(d, n, h), ScanEnds(d, n, h, j)
    PROVE  ~(m < n)
<1> SUFFICES ASSUME m < n PROVE FALSE
  OBVIOUS
<1>1. MinSize(target) \in Nat /\ MaxSize(target) \in Nat
  BY Sizes
<1>2. Reach(d, MaxSize(target)) \in Nat
  BY <1>1 DEF Reach
<1>3. MinSize(target) + n <= Reach(d, MaxSize(target))
  BY <1>1, <1>2 DEF ScanEnds
<1>4. RollOn(d, MinSize(target) + m, g[m]) % MaskOf(d, MinSize(target) + m) = 0
  BY <1>1, <1>2, <1>3 DEF ScanEnds
<1>5. m \in 0 .. n - 1 /\ g[m] = h[m]
  BY ScansAgree
<1> QED
  BY <1>4, <1>5 DEF Scans

\* A chunk is determined by where it begins.
LEMMA ChunkIsDetermined ==
    ASSUME target \in Targets, NEW d \in Nat, NEW i, NEW j, ChunkAt(d, i), ChunkAt(d, j)
    PROVE  i = j
<1>0. MinSize(target) \in Nat
  BY Sizes
<1>1. CASE d <= MinSize(target)
  BY <1>0, <1>1 DEF ChunkAt
<1>2. CASE ~(d <= MinSize(target))
  <2>1. PICK m \in Nat : \E g : Scans(d, m, g) /\ ScanEnds(d, m, g, i)
    BY <1>2 DEF ChunkAt
  <2>2. PICK g : Scans(d, m, g) /\ ScanEnds(d, m, g, i)
    BY <2>1
  <2>3. PICK n \in Nat : \E h : Scans(d, n, h) /\ ScanEnds(d, n, h, j)
    BY <1>2 DEF ChunkAt
  <2>4. PICK h : Scans(d, n, h) /\ ScanEnds(d, n, h, j)
    BY <2>3
  <2>5. ~(m < n) /\ ~(n < m)
    BY <2>2, <2>4, ScanEndsThere
  <2>6. m = n
    BY <2>5
  <2>7. g[m] = h[m]
    BY <2>2, <2>4, <2>6, ScansAgree
  <2>8. Reach(d, MaxSize(target)) \in Nat
    <3>1. MaxSize(target) \in Nat
      BY Sizes
    <3> QED
      BY <3>1 DEF Reach
  <2> QED
    BY <1>0, <2>2, <2>4, <2>6, <2>7, <2>8 DEF ScanEnds
<1> QED
  BY <1>1, <1>2

--------------------------------------------------------------------------------
\* The scan sees the bytes of the common part, under the mask of their place.
LEMMA ScanSeesRest ==
    ASSUME ChunkingTypeOK, Remaining <= Len(rest), at >= offset, at < Len(file)
    PROVE  /\ Rolled = RollOn(Remaining, at - offset, fp)
           /\ Mask = MaskOf(Remaining, at - offset)
<1>1. lead \in Seq(Bytes) /\ rest \in Seq(Bytes)
  BY ChunkingAssumption DEF ChunkingTypeOK
<1>2. /\ Len(file) = Len(lead) + Len(rest) /\ Len(lead) \in Nat /\ Len(rest) \in Nat
      /\ \A i \in 1 .. Len(file) : i > Len(lead) => file[i] = rest[i - Len(lead)]
  BY <1>1 DEF file
<1>3. offset \in Nat /\ at \in Nat /\ offset <= Len(file)
  BY <1>2 DEF ChunkingTypeOK
<1>4. Remaining = Len(file) - offset
  BY DEF Remaining
<1>5. /\ at + 1 \in 1 .. Len(file) /\ at + 1 > Len(lead)
      /\ Len(rest) - Remaining + ((at - offset) + 1) = (at + 1) - Len(lead)
  BY <1>2, <1>3, <1>4
<1>6. file[at + 1] = Byte(Remaining, (at - offset) + 1)
  BY <1>2, <1>5 DEF Byte
<1>7. Rolled = RollOn(Remaining, at - offset, fp)
  BY <1>6 DEF Rolled, RollOn
<1>8. target \in Nat
  BY Sizes DEF ChunkingTypeOK
<1>9. Limit(target) = IF offset + target <= Len(file) THEN offset + target ELSE Len(file)
  BY <1>8, LimitIs
<1>10. at < Limit(target) <=> at - offset < Reach(Remaining, target)
  BY <1>2, <1>3, <1>4, <1>8, <1>9 DEF Reach
<1> QED
  BY <1>7, <1>10 DEF Mask, MaskOf

\* A boundary that ends its chunk goes on with the chain.
LEMMA CutKeepsChain ==
    ASSUME RejoinIInv, NEW end \in Nat, offset < end, end <= Len(file), CutAt(end),
           Remaining <= Len(rest) => ChunkAt(Remaining, end - offset)
    PROVE  Chained(Len(file), cuts, offset)' /\ ScanIsRecorded' /\ EarlierIsChained'
<1>0. /\ cuts' = cuts \cup {end} /\ offset' = end /\ at' = end + MinSize(target) /\ fp' = 0
      /\ lead' = lead /\ rest' = rest /\ target' = target /\ before' = before /\ file' = file
  BY DEF CutAt, file
<1>1. Len(file) \in Nat /\ offset \in Nat /\ ChunkingTypeOK
  BY FileIsBytes DEF RejoinIInv, SizesIInv, ChunkingTypeOK
<1>2. \A c \in cuts : c \in 1 .. offset
  BY <1>1 DEF ChunkingTypeOK
<1>3. MinSize(target) \in Nat
  BY <1>1, Sizes DEF ChunkingTypeOK
<1>4. /\ \A d, n : ChunkAt(d, n)' <=> ChunkAt(d, n)
      /\ \A d, n, g : Scans(d, n, g)' <=> Scans(d, n, g)
  BY <1>0 DEF ChunkAt, Scans, ScanEnds, RollOn, MaskOf, Byte
<1>5. Chained(Len(file), cuts, offset)'
  <2>1. ASSUME NEW c \in cuts', c < end, Len(file) - c <= Len(rest)
        PROVE  \E e \in cuts' : Follows(cuts', c, e) /\ ChunkAt(Len(file) - c, e - c)
    <3>1. c \in cuts /\ c \in 1 .. offset
      BY <1>0, <1>1, <1>2, <2>1
    <3>2. CASE c < offset
      <4>1. PICK e \in cuts : Follows(cuts, c, e) /\ ChunkAt(Len(file) - c, e - c)
        BY <2>1, <3>1, <3>2 DEF RejoinIInv, Chained
      <4>2. e <= end
        BY <1>1, <1>2
      <4>3. Follows(cuts', c, e)
        BY <1>0, <4>1, <4>2 DEF Follows
      <4> QED
        BY <1>0, <4>1, <4>3
    <3>3. CASE c = offset
      <4>1. Follows(cuts', c, end)
        <5>1. \A x \in cuts' : c < x => end <= x
          BY <1>0, <1>1, <1>2, <3>3
        <5> QED
          BY <1>0, <2>1, <5>1 DEF Follows
      <4>2. ChunkAt(Len(file) - c, end - c)
        BY <2>1, <3>3 DEF Remaining
      <4> QED
        BY <1>0, <4>1, <4>2
    <3> QED
      BY <1>1, <3>1, <3>2, <3>3
  <2>2. Chained(Len(file), cuts, offset)' <=>
            \A c \in cuts' : c < end /\ Len(file) - c <= Len(rest) =>
                \E e \in cuts' : Follows(cuts', c, e) /\ ChunkAt(Len(file) - c, e - c)
    BY <1>0, <1>4 DEF Chained, Follows
  <2> QED
    BY <2>1, <2>2
<1>6. ScanIsRecorded'
  <2> DEFINE g == [k \in {0} |-> 0]
  <2>1. at' - offset' - MinSize(target') = 0
    BY <1>0, <1>3
  <2>2. g[0] = 0 /\ 0 .. 0 - 1 = {}
    OBVIOUS
  <2> HIDE DEF g
  <2>3. \A d : Scans(d, 0, g)
    BY <2>2 DEF Scans
  <2> QED
    BY <1>0, <1>4, <2>1, <2>2, <2>3 DEF ScanIsRecorded
<1>7. EarlierIsChained'
  BY <1>0, <1>4 DEF RejoinIInv, EarlierIsChained, Chained, Follows
<1> QED
  BY <1>5, <1>6, <1>7

\* Every step keeps the chains of cuts.
LEMMA ChunkingStepKeepsChain == RejoinIInv /\ [ChunkingNext]_chunkingVars => RejoinIInv'
<1> SUFFICES ASSUME RejoinIInv, [ChunkingNext]_chunkingVars PROVE RejoinIInv'
  OBVIOUS
<1>0. SizesIInv'
  BY ChunkingStepKeepsSizes DEF RejoinIInv
<1> DEFINE n == at - offset - MinSize(target)
<1>1. Len(file) \in Nat /\ offset \in Nat /\ offset <= Len(file) /\ at \in Nat
      /\ ChunkingTypeOK /\ ScanIsInside
  BY FileIsBytes DEF RejoinIInv, SizesIInv, ChunkingTypeOK
<1>2. MinSize(target) \in Nat /\ MaxSize(target) \in Nat
      /\ 1 <= MinSize(target) /\ MinSize(target) < MaxSize(target) /\ target \in Targets
  BY <1>1, Sizes DEF ChunkingTypeOK
<1>3. Limit(MaxSize(target)) = IF offset + MaxSize(target) <= Len(file)
                               THEN offset + MaxSize(target) ELSE Len(file)
  BY <1>1, <1>2, LimitIs
<1>4. Remaining = Len(file) - offset /\ Remaining \in Nat
  BY <1>1 DEF Remaining
<1>5. Limit(MaxSize(target)) = offset + Reach(Remaining, MaxSize(target))
  BY <1>1, <1>2, <1>3, <1>4 DEF Reach
<1>6. CASE TakeRest
  <2>1. Len(file) - offset > 0 /\ Len(file) - offset <= MinSize(target)
    BY <1>6 DEF TakeRest, Remaining
  <2>2. ChunkAt(Remaining, Len(file) - offset) /\ offset < Len(file)
    BY <1>1, <1>4, <2>1 DEF ChunkAt
  <2> QED
    BY <1>0, <1>1, <1>6, <2>2, CutKeepsChain DEF TakeRest, RejoinIInv
<1>7. CASE Roll
  <2>1. /\ fp' = Rolled /\ Rolled % Mask # 0
        /\ at' = at + 1 /\ Remaining > MinSize(target) /\ at < Limit(MaxSize(target))
        /\ UNCHANGED <<lead, rest, target, offset, cuts, file, before>>
    BY <1>7 DEF Roll, Scanning, file
  <2>2. /\ \A d, i : ChunkAt(d, i)' <=> ChunkAt(d, i)
        /\ \A d, i, g : Scans(d, i, g)' <=> Scans(d, i, g)
    BY <2>1 DEF ChunkAt, Scans, ScanEnds, RollOn, MaskOf, Byte
  <2>3. Chained(Len(file), cuts, offset)' /\ EarlierIsChained'
    <3>1. Chained(Len(file), cuts, offset)'
      BY <2>1, <2>2 DEF RejoinIInv, Chained, Follows
    <3>2. EarlierIsChained'
      BY <2>1, <2>2 DEF RejoinIInv, EarlierIsChained, Chained, Follows
    <3> QED
      BY <3>1, <3>2
  <2>4. ASSUME Remaining <= Len(rest)
        PROVE  \E h : Scans(Remaining, n + 1, h) /\ h[n + 1] = Rolled
    <3>1. PICK g : Scans(Remaining, n, g) /\ g[n] = fp
      BY <2>1, <2>4 DEF RejoinIInv, ScanIsRecorded
    <3>2. n \in Nat /\ at >= offset /\ at < Len(file) /\ at - offset = MinSize(target) + n
      BY <1>1, <1>2, <1>3, <2>1 DEF ScanIsInside
    <3>3. /\ Rolled = RollOn(Remaining, MinSize(target) + n, g[n])
          /\ Mask = MaskOf(Remaining, MinSize(target) + n)
      BY <1>1, <2>4, <3>1, <3>2, ScanSeesRest
    <3> HIDE DEF n
    <3> DEFINE h == [k \in 0 .. n + 1 |-> IF k <= n THEN g[k] ELSE Rolled]
    <3>4. h[0] = 0 /\ h[n + 1] = Rolled
      BY <3>1, <3>2 DEF Scans
    <3>5. ASSUME NEW k \in 0 .. (n + 1) - 1
          PROVE  /\ h[k + 1] = RollOn(Remaining, MinSize(target) + k, h[k])
                 /\ h[k + 1] % MaskOf(Remaining, MinSize(target) + k) # 0
      <4>1. CASE k < n
        <5>1. k \in 0 .. n - 1 /\ h[k] = g[k] /\ h[k + 1] = g[k + 1]
          BY <3>2, <4>1
        <5> HIDE DEF h
        <5> QED
          BY <3>1, <5>1 DEF Scans
      <4>2. CASE k = n
        <5>1. h[k] = g[n] /\ h[k + 1] = Rolled
          BY <3>2, <4>2
        <5> HIDE DEF h
        <5> QED
          BY <2>1, <3>3, <4>2, <5>1
      <4> QED
        BY <3>2, <4>1, <4>2
    <3> HIDE DEF h
    <3> QED
      BY <3>4, <3>5 DEF Scans
  <2>5. ScanIsRecorded'
    <3>1. at' - offset' - MinSize(target') = n + 1 /\ Remaining' = Remaining
      BY <1>1, <1>2, <2>1 DEF Remaining
    <3> HIDE DEF n
    <3> QED
      BY <2>1, <2>2, <2>4, <3>1 DEF ScanIsRecorded
  <2> QED
    BY <1>0, <2>3, <2>5 DEF RejoinIInv
<1>8. CASE CutBehind
  <2>1. /\ Remaining > MinSize(target) /\ at < Limit(MaxSize(target)) /\ CutAt(at + 1)
        /\ Rolled % Mask = 0
    BY <1>8 DEF CutBehind, Scanning
  <2>2. n \in Nat /\ at >= offset /\ at < Len(file) /\ at - offset = MinSize(target) + n
    BY <1>1, <1>2, <1>3, <2>1 DEF ScanIsInside
  <2>3. at + 1 \in Nat /\ offset < at + 1 /\ at + 1 <= Len(file)
    BY <1>1, <2>2
  <2>4. ASSUME Remaining <= Len(rest) PROVE ChunkAt(Remaining, (at + 1) - offset)
    <3>1. PICK g : Scans(Remaining, n, g) /\ g[n] = fp
      BY <2>1, <2>4 DEF RejoinIInv, ScanIsRecorded
    <3>2. /\ Rolled = RollOn(Remaining, MinSize(target) + n, g[n])
          /\ Mask = MaskOf(Remaining, MinSize(target) + n)
      BY <1>1, <2>2, <2>4, <3>1, ScanSeesRest
    <3>3. /\ (at + 1) - offset = MinSize(target) + n + 1
          /\ MinSize(target) + n < Reach(Remaining, MaxSize(target))
      <4>1. Reach(Remaining, MaxSize(target)) \in Nat
        BY <1>2, <1>4 DEF Reach
      <4> QED
        BY <1>1, <1>2, <1>5, <2>1, <2>2, <4>1
    <3> HIDE DEF n
    <3>4. ScanEnds(Remaining, n, g, (at + 1) - offset)
      BY <2>1, <3>2, <3>3 DEF ScanEnds
    <3> QED
      BY <2>1, <2>2, <3>1, <3>4 DEF ChunkAt
  <2> QED
    BY <1>0, <2>1, <2>3, <2>4, CutKeepsChain DEF RejoinIInv
<1>9. CASE CutAtLimit
  <2>1. Remaining > MinSize(target) /\ ~(at < Limit(MaxSize(target))) /\ CutAt(at)
    BY <1>9 DEF CutAtLimit, Scanning
  <2>2. at = Limit(MaxSize(target)) /\ at >= offset + MinSize(target)
    BY <1>1, <1>2, <1>3, <2>1 DEF ScanIsInside
  <2>3. /\ n \in Nat /\ at - offset = MinSize(target) + n
        /\ offset < at /\ at <= Len(file)
    BY <1>1, <1>2, <1>3, <2>2
  <2>4. ASSUME Remaining <= Len(rest) PROVE ChunkAt(Remaining, at - offset)
    <3>1. PICK g : Scans(Remaining, n, g) /\ g[n] = fp
      BY <2>1, <2>4 DEF RejoinIInv, ScanIsRecorded
    <3>2. MinSize(target) + n = Reach(Remaining, MaxSize(target))
      <4>1. Reach(Remaining, MaxSize(target)) \in Nat
        BY <1>2, <1>4 DEF Reach
      <4> QED
        BY <1>1, <1>2, <1>5, <2>2, <2>3, <4>1
    <3> HIDE DEF n
    <3>3. ScanEnds(Remaining, n, g, at - offset)
      BY <2>3, <3>2 DEF ScanEnds
    <3> QED
      BY <2>1, <2>3, <3>1, <3>3 DEF ChunkAt
  <2> QED
    BY <1>0, <1>1, <2>1, <2>3, <2>4, CutKeepsChain DEF RejoinIInv
<1>10. ASSUME NEW new \in Leads, Edit(new) PROVE RejoinIInv'
  <2>1. /\ Remaining = 0 /\ before' = [size |-> Len(file), cuts |-> cuts]
        /\ rest' = rest /\ target' = target
        /\ offset' = 0 /\ at' = MinSize(target) /\ fp' = 0 /\ cuts' = {}
    BY <1>10 DEF Edit
  <2>2. offset = Len(file)
    BY <1>1, <1>4, <2>1
  <2>3. /\ \A d, i : ChunkAt(d, i)' <=> ChunkAt(d, i)
        /\ \A d, i, g : Scans(d, i, g)' <=> Scans(d, i, g)
    BY <2>1 DEF ChunkAt, Scans, ScanEnds, RollOn, MaskOf, Byte
  <2>4. before'.size = Len(file) /\ before'.cuts = cuts
    BY <2>1
  <2>5. Chained(before.size, before.cuts, before.size)'
    BY <2>1, <2>2, <2>3, <2>4 DEF RejoinIInv, Chained, Follows
  <2>6. EarlierIsChained'
    BY <1>1, <2>2, <2>4, <2>5 DEF EarlierIsChained, ChunkingTypeOK
  <2>7. Chained(Len(file), cuts, offset)'
    BY <2>1 DEF Chained
  <2>8. ScanIsRecorded'
    <3> DEFINE g == [k \in {0} |-> 0]
    <3>1. at' - offset' - MinSize(target') = 0
      BY <1>2, <2>1
    <3>2. g[0] = 0 /\ 0 .. 0 - 1 = {}
      OBVIOUS
    <3> HIDE DEF g
    <3>3. \A d : Scans(d, 0, g)
      BY <3>2 DEF Scans
    <3> QED
      BY <2>1, <2>3, <3>1, <3>2, <3>3 DEF ScanIsRecorded
  <2> QED
    BY <1>0, <2>6, <2>7, <2>8 DEF RejoinIInv
<1>11. CASE Chunked \/ UNCHANGED chunkingVars
  <2>1. UNCHANGED <<lead, rest, target, offset, at, fp, cuts, before, file>>
    BY <1>11 DEF Chunked, chunkingVars, file
  <2>2. /\ \A d, i : ChunkAt(d, i)' <=> ChunkAt(d, i)
        /\ \A d, i, g : Scans(d, i, g)' <=> Scans(d, i, g)
    BY <2>1 DEF ChunkAt, Scans, ScanEnds, RollOn, MaskOf, Byte
  <2>3. Chained(Len(file), cuts, offset)'
    BY <2>1, <2>2 DEF RejoinIInv, Chained, Follows
  <2>4. EarlierIsChained'
    BY <2>1, <2>2 DEF RejoinIInv, EarlierIsChained, Chained, Follows
  <2>5. ScanIsRecorded'
    BY <2>1, <2>2 DEF RejoinIInv, ScanIsRecorded, Remaining
  <2> QED
    BY <1>0, <2>3, <2>4, <2>5 DEF RejoinIInv
<1> QED
  BY <1>6, <1>7, <1>8, <1>9, <1>10, <1>11 DEF ChunkingNext

\* Both chains start empty.
LEMMA ChunkingInitChain == ChunkingInit => RejoinIInv
<1> SUFFICES ASSUME ChunkingInit PROVE RejoinIInv
  OBVIOUS
<1>1. SizesIInv
  BY ChunkingInitSizes
<1>2. offset = 0 /\ at = MinSize(target) /\ fp = 0 /\ cuts = {} /\ before = Unedited
      /\ target \in Targets
  BY DEF ChunkingInit
<1>3. ScanIsRecorded
  <2> DEFINE g == [k \in {0} |-> 0]
  <2>1. at - offset - MinSize(target) = 0
    BY <1>2, Sizes
  <2>2. g[0] = 0 /\ 0 .. 0 - 1 = {}
    OBVIOUS
  <2> HIDE DEF g
  <2>3. \A d : Scans(d, 0, g)
    BY <2>2 DEF Scans
  <2> QED
    BY <1>2, <2>1, <2>2, <2>3 DEF ScanIsRecorded
<1>4. Chained(Len(file), cuts, offset) /\ EarlierIsChained
  BY <1>2 DEF Chained, EarlierIsChained
<1> QED
  BY <1>1, <1>3, <1>4 DEF RejoinIInv

--------------------------------------------------------------------------------
\* What follows d in a set of boundaries, counted from the end, is the end of
\* the chunk at d.
EndsChunk(D, d, n) == ChunkAt(d, n) /\ n \in Nat /\ n > 0 /\ d - n \in D /\ \A x \in D : x < d => x <= d - n

\* In a chain of cuts a chunk ends at each.
LEMMA ChainEndsChunk ==
    ASSUME NEW length \in Nat, NEW cs \in SUBSET Nat, NEW off \in Nat, Len(rest) \in Nat,
           Chained(length, cs, off),
           NEW d \in FromEnd(length, cs), length - d < off
    PROVE  \E n : EndsChunk(FromEnd(length, cs), d, n)
<1>1. PICK c \in cs : d = length - c /\ length - c <= Len(rest)
  BY DEF FromEnd
<1>2. c < off
  BY <1>1
<1>3. PICK e \in cs : Follows(cs, c, e) /\ ChunkAt(length - c, e - c)
  BY <1>1, <1>2 DEF Chained
<1>4. e - c \in Nat /\ e - c > 0 /\ d - (e - c) = length - e /\ length - e <= Len(rest)
  BY <1>1, <1>3 DEF Follows
<1>5. d - (e - c) \in FromEnd(length, cs)
  BY <1>4 DEF FromEnd
<1>6. ASSUME NEW x \in FromEnd(length, cs), x < d PROVE x <= d - (e - c)
  <2>1. PICK q \in cs : x = length - q
    BY DEF FromEnd
  <2>2. c < q
    BY <1>1, <1>6, <2>1
  <2>3. e <= q
    BY <1>3, <2>2 DEF Follows
  <2> QED
    BY <1>4, <2>1, <2>3
<1> QED
  BY <1>1, <1>3, <1>4, <1>5, <1>6 DEF EndsChunk

\* From a common boundary on, wherever both go on, each boundary is common.
LEMMA CommonGoesOn ==
    ASSUME target \in Targets, NEW C \in SUBSET Nat, NEW D \in SUBSET Nat, NEW d \in C \cap D,
           NEW c \in C, c <= d,
           \A x \in C \cap D : c < x /\ x <= d =>
               (\E n : EndsChunk(C, x, n)) /\ (\E n : EndsChunk(D, x, n))
    PROVE  c \in D
<1> DEFINE T == {x \in C \cap D : c <= x /\ x <= d}
<1>0. c \in Nat /\ d \in Nat
  OBVIOUS
<1>1. T \in SUBSET Nat /\ d \in T
  <2>1. d \in T
    BY <1>0
  <2>2. \A x \in T : x \in Nat
    OBVIOUS
  <2> QED
    BY <2>1, <2>2
<1>2. PICK x \in T : \A y \in T : x <= y
  <2> HIDE DEF T
  <2> QED
    BY <1>1, LeastNatural
<1>3. CASE x = c
  BY <1>3
<1>4. CASE c < x
  <2>1. PICK n : EndsChunk(C, x, n)
    BY <1>2, <1>4
  <2>2. PICK m : EndsChunk(D, x, m)
    BY <1>2, <1>4
  <2>3. n = m
    BY <2>1, <2>2, ChunkIsDetermined DEF EndsChunk
  <2>4. x \in Nat /\ n \in Nat /\ n > 0 /\ x <= d
    BY <1>1, <1>2, <2>1 DEF EndsChunk
  <2>5. c <= x - n /\ x - n \in C /\ x - n \in D
    BY <1>4, <2>1, <2>2, <2>3 DEF EndsChunk
  <2>6. x - n < x /\ x - n <= d
    BY <1>0, <2>4
  <2>7. x - n \in T
    BY <2>5, <2>6
  <2>8. x <= x - n
    BY <1>2, <2>7
  <2> QED
    BY <2>4, <2>8
<1>5. x \in Nat /\ c <= x
  BY <1>1, <1>2
<1> QED
  BY <1>0, <1>3, <1>4, <1>5

\* Two chains that have met once meet from there on.
LEMMA ChainsRejoin == RejoinIInv => RejoinsAfterEdit
<1> SUFFICES ASSUME RejoinIInv, before # Unedited PROVE RejoinsAfterEdit
  BY DEF RejoinsAfterEdit
<1> DEFINE old == FromEnd(before.size, before.cuts)
           new == FromEnd(Len(file), cuts)
<1>1. /\ Len(file) \in Nat /\ offset \in Nat /\ offset <= Len(file)
      /\ ChunkingTypeOK /\ target \in Targets
  BY FileIsBytes DEF RejoinIInv, SizesIInv, ChunkingTypeOK
<1>2. Len(rest) \in Nat
  <2>1. rest \in Seq(Bytes)
    BY <1>1, ChunkingAssumption DEF ChunkingTypeOK
  <2> QED
    BY <2>1
<1>3. cuts \in SUBSET Nat /\ \A c \in cuts : c <= Len(file)
  <2>1. \A c \in 1 .. offset : c \in Nat /\ c <= Len(file)
    BY <1>1
  <2> QED
    BY <1>1, <2>1 DEF ChunkingTypeOK
<1>4. before.size \in Nat /\ before.cuts \in SUBSET Nat /\ \A c \in before.cuts : c <= before.size
  <2>1. before.size \in Nat /\ before.cuts \subseteq 1 .. before.size
    BY DEF RejoinIInv, EarlierIsChained
  <2>2. \A c \in 1 .. before.size : c \in Nat /\ c <= before.size
    BY <2>1
  <2> QED
    BY <2>1, <2>2
<1>5. new \in SUBSET Nat /\ old \in SUBSET Nat
  <2>1. ASSUME NEW x \in new PROVE x \in Nat
    BY <1>1, <1>3 DEF FromEnd
  <2>2. ASSUME NEW x \in old PROVE x \in Nat
    BY <1>4 DEF FromEnd
  <2> QED
    BY <2>1, <2>2
<1>6. ASSUME NEW d \in old \cap new, NEW c \in 0 .. d, c >= Len(file) - offset,
             NEW x \in old \cap new, c < x, x <= d
      PROVE  (\E n : EndsChunk(old, x, n)) /\ (\E n : EndsChunk(new, x, n))
  <2>1. c \in Nat /\ x \in Nat
    BY <1>5
  <2>2. Len(file) - x < offset /\ before.size - x < before.size
    BY <1>1, <1>4, <1>6, <2>1
  <2>3. \E n : EndsChunk(new, x, n)
    BY <1>1, <1>2, <1>3, <2>2, ChainEndsChunk DEF RejoinIInv
  <2>4. \E n : EndsChunk(old, x, n)
    BY <1>2, <1>4, <2>2, ChainEndsChunk DEF RejoinIInv, EarlierIsChained
  <2> QED
    BY <2>3, <2>4
<1>7. \A d \in old \cap new : \A c \in 0 .. d : c >= Len(file) - offset => (c \in old <=> c \in new)
  <2> HIDE DEF old, new
  <2> SUFFICES ASSUME NEW d \in old \cap new, NEW c \in 0 .. d, c >= Len(file) - offset
               PROVE  c \in old <=> c \in new
    OBVIOUS
  <2>1. c <= d /\ d \in old /\ d \in new
    BY <1>5
  <2>2. \A x \in old \cap new : c < x /\ x <= d =>
            (\E n : EndsChunk(old, x, n)) /\ (\E n : EndsChunk(new, x, n))
    BY <1>6
  <2>3. \A x \in new \cap old : c < x /\ x <= d =>
            (\E n : EndsChunk(new, x, n)) /\ (\E n : EndsChunk(old, x, n))
    BY <2>2
  <2>4. d \in new \cap old
    BY <2>1
  <2>5. ASSUME c \in old PROVE c \in new
    BY <1>1, <1>5, <2>1, <2>2, <2>5, CommonGoesOn
  <2>6. ASSUME c \in new PROVE c \in old
    <3> DEFINE C == new
               D == old
    <3>1. /\ C \in SUBSET Nat /\ D \in SUBSET Nat /\ d \in C \cap D /\ c \in C
          /\ \A x \in C \cap D : c < x /\ x <= d =>
                (\E n : EndsChunk(C, x, n)) /\ (\E n : EndsChunk(D, x, n))
      BY <1>5, <2>3, <2>4, <2>6
    <3> HIDE DEF C, D
    <3>2. c \in D
      BY <1>1, <2>1, <3>1, CommonGoesOn
    <3> QED
      BY <3>2 DEF D
  <2> QED
    BY <2>5, <2>6
<1> QED
  BY <1>7 DEF RejoinsAfterEdit

\* Of any file and edit, whatever the bytes and the gear table: behind the first
\* boundary that both versions have in the part the edit left alone, they have
\* the same boundaries.
THEOREM ChunksRejoin == ChunkingSpec => []RejoinsAfterEdit
<1>1. ChunkingSpec => []RejoinIInv
  BY ChunkingInitChain, ChunkingStepKeepsChain, PTL DEF ChunkingSpec
<1> QED
  BY <1>1, ChainsRejoin, PTL

--------------------------------------------------------------------------------
(***************************************************************************)
(* What get packs.                                                         *)
(***************************************************************************)
\* p lists the positions P in their order.
InOrder(p, n, P) ==
    /\ p \in [1 .. n -> P]
    /\ \A k, l \in 1 .. n : k < l => p[k] < p[l]
    /\ \A i \in P : \E k \in 1 .. n : p[k] = i

\* hs are the request's hashes at the positions P.
Picks(hs, P) ==
    \E p : /\ InOrder(p, Len(hs), P)
           /\ \A k \in 1 .. Len(hs) : hs[k] = request[p[k]]

GetTypeOK ==
    /\ stored \subseteq Hashes
    /\ stage \in {"idle", "packing", "answered", "done"}
    /\ request \in Seq(Hashes \cup {NotBytes}) /\ found \in Seq(Hashes) /\ missing \in Seq(Hashes)
    /\ remaining \in Int
    /\ exhausted \in BOOLEAN
    /\ cursor \in 1 .. Len(request) + 1
    /\ held \subseteq 1 .. cursor - 1
    /\ \A i \in held : request[i] \in Hashes

\* The positions that were looked up are packed or missing, each once and in
\* order; none is packed behind the first that did not fit; and what is left of
\* the budget is what has not been spent.
PackedSoFar ==
    \E P \in SUBSET held :
        /\ Picks(found, P) /\ Picks(missing, (1 .. cursor - 1) \ P)
        /\ \A i \in P, j \in held \ P : i < j
        /\ exhausted <=> held # P
        /\ held # P => \E i \in held \ P : Cost(request[i]) > remaining

Spent ==
    /\ remaining = Budget - Charged(request) - Packed
    /\ found # <<>> => remaining >= 0
    /\ Len(found) + Len(missing) = cursor - 1

GetIInv ==
    /\ GetTypeOK
    /\ stage # "idle" => PackedSoFar /\ Spent
    /\ stage = "answered" => cursor = Len(request) + 1

\* Costs are natural numbers.
LEMMA CostsCount ==
    /\ \A h \in Hashes : Cost(h) \in Nat
    /\ Budget \in Nat /\ Reserve \in Nat /\ Entry \in Nat
<1>1. KeySize \in Nat /\ Budget \in Nat /\ Reserve \in Nat /\ Entry \in Nat
  BY GetAssumption
<1>2. \A h \in Hashes : Size[h] \in Nat
  BY GetAssumption
<1> QED
  BY <1>1, <1>2 DEF Cost

\* The running cost of a list of hashes.
Accrues(hs, c) ==
    /\ c \in [0 .. Len(hs) -> Nat] /\ c[0] = 0
    /\ \A n \in 1 .. Len(hs) : c[n] = c[n - 1] + Cost(hs[n])

\* What a list costs, entry by entry.
LEMMA CostsAccrue == ASSUME NEW hs \in Seq(Hashes) PROVE Accrues(hs, CostUpTo(hs))
<1> DEFINE m == Len(hs)
           f == [n \in 1 .. m |-> Cost(hs[n])]
           Is(c) == c = [n \in 0 .. m |-> IF n = 0 THEN 0 ELSE c[n - 1] + Cost(hs[n])]
           c == CostUpTo(hs)
<1>1. m \in Nat /\ \A n \in 1 .. m : hs[n] \in Hashes
  OBVIOUS
<1>2. f \in [1 .. m -> Nat] /\ \A n \in 1 .. m : f[n] = Cost(hs[n])
  BY <1>1, CostsCount
<1> HIDE DEF f, m
<1>3. PICK g \in [0 .. m -> Nat] : g[0] = 0 /\ \A n \in 1 .. m : g[n] = g[n - 1] + f[n]
  BY <1>1, <1>2, RunningTotals
<1>4. \A n \in 1 .. m : g[n] = g[n - 1] + Cost(hs[n])
  BY <1>2, <1>3
<1>5. Is(g)
  <2>1. \A n \in 0 .. m : n = 0 \/ n \in 1 .. m
    BY <1>1
  <2> QED
    BY <1>3, <1>4, <2>1
<1>6. c = CHOOSE x : Is(x)
  BY DEF CostUpTo, m
<1>7. Is(c)
  <2> HIDE DEF Is, c
  <2> QED
    BY <1>5, <1>6
<1> HIDE DEF c
<1>8. c[0] = 0 /\ DOMAIN c = 0 .. m /\ \A n \in 1 .. m : c[n] = c[n - 1] + Cost(hs[n])
  <2>1. 0 \in 0 .. m /\ \A n \in 1 .. m : n \in 0 .. m /\ n # 0
    BY <1>1
  <2> QED
    BY <1>7, <2>1
<1>9. \A n \in 0 .. m : c[n] \in Nat
  <2> DEFINE T == {n \in Nat : n <= m => c[n] \in Nat}
  <2>1. 0 \in T
    BY <1>8
  <2>2. ASSUME NEW n \in T PROVE n + 1 \in T
    <3> SUFFICES ASSUME n + 1 <= m PROVE c[n + 1] \in Nat
      OBVIOUS
    <3>1. c[n] \in Nat /\ n + 1 \in 1 .. m /\ (n + 1) - 1 = n
      BY <1>1
    <3>2. c[n + 1] = c[n] + Cost(hs[n + 1])
      BY <1>8, <3>1
    <3>3. Cost(hs[n + 1]) \in Nat
      BY <1>1, <3>1, CostsCount
    <3> QED
      BY <3>1, <3>2, <3>3
  <2>3. T \in SUBSET Nat
    OBVIOUS
  <2> HIDE DEF T
  <2>4. T = Nat
    BY <2>1, <2>2, <2>3, NaturalInduction
  <2> QED
    BY <1>1, <2>4 DEF T
<1>10. c \in [0 .. m -> Nat]
  BY <1>7, <1>8, <1>9
<1> QED
  BY <1>8, <1>10 DEF Accrues, m, c

\* An empty list costs nothing.
LEMMA NothingCosts == CostUpTo(<<>>)[Len(<<>>)] = 0
<1>1. <<>> \in Seq(Hashes) /\ Len(<<>>) = 0
  OBVIOUS
<1> QED
  BY <1>1, CostsAccrue DEF Accrues

\* One more entry adds its cost.
LEMMA CostGrows ==
    ASSUME NEW hs \in Seq(Hashes), NEW h \in Hashes
    PROVE  /\ CostUpTo(Append(hs, h))[Len(Append(hs, h))] = CostUpTo(hs)[Len(hs)] + Cost(h)
           /\ CostUpTo(hs)[Len(hs)] \in Nat
<1> DEFINE gs == Append(hs, h)
           m == Len(hs)
           c == CostUpTo(hs)
           d == CostUpTo(gs)
<1>1. /\ m \in Nat /\ gs \in Seq(Hashes) /\ Len(gs) = m + 1 /\ gs[m + 1] = h
      /\ \A n \in 1 .. m : gs[n] = hs[n]
  OBVIOUS
<1>2. Accrues(hs, c) /\ Accrues(gs, d)
  BY <1>1, CostsAccrue
<1> HIDE DEF c, d, gs
<1> DEFINE T == {n \in Nat : n <= m => c[n] = d[n]}
<1>3. 0 \in T
  BY <1>2 DEF Accrues
<1>4. ASSUME NEW n \in T PROVE n + 1 \in T
  <2> SUFFICES ASSUME n + 1 <= m PROVE c[n + 1] = d[n + 1]
    OBVIOUS
  <2>1. n + 1 \in 1 .. m /\ n + 1 \in 1 .. Len(gs) /\ (n + 1) - 1 = n /\ c[n] = d[n]
    BY <1>1
  <2> HIDE DEF m
  <2>2. c[n + 1] = c[n] + Cost(hs[n + 1])
    BY <1>2, <2>1 DEF Accrues, m
  <2>3. d[n + 1] = d[n] + Cost(gs[n + 1])
    BY <1>2, <2>1 DEF Accrues
  <2> QED
    BY <1>1, <2>1, <2>2, <2>3
<1>5. T = Nat
  <2>1. T \in SUBSET Nat
    OBVIOUS
  <2> HIDE DEF T
  <2> QED
    BY <1>3, <1>4, <2>1, NaturalInduction
<1>6. c[m] = d[m]
  <2>1. m \in T
    BY <1>1, <1>5
  <2> HIDE DEF m
  <2> QED
    BY <1>1, <2>1
<1>7. d[m + 1] = d[m] + Cost(h)
  <2>1. m + 1 \in 1 .. Len(gs) /\ (m + 1) - 1 = m
    BY <1>1
  <2> HIDE DEF m
  <2> QED
    BY <1>1, <1>2, <2>1 DEF Accrues
<1>8. c[m] \in Nat
  BY <1>1, <1>2 DEF Accrues
<1> QED
  BY <1>1, <1>6, <1>7, <1>8 DEF c, d, gs

--------------------------------------------------------------------------------
\* Behind all positions of P comes a new one, and a hash is picked there.
LEMMA PickMore ==
    ASSUME request \in Seq(Hashes \cup {NotBytes}), NEW hs \in Seq(Hashes), NEW P \in SUBSET Nat, Picks(hs, P),
           NEW c \in Nat, \A i \in P : i < c, NEW h, request[c] = h
    PROVE  Picks(Append(hs, h), P \cup {c})
<1> DEFINE n == Len(hs)
           gs == Append(hs, h)
<1>1. /\ n \in Nat /\ Len(gs) = n + 1 /\ gs[n + 1] = h /\ \A k \in 1 .. n : gs[k] = hs[k]
  OBVIOUS
<1>2. PICK p : InOrder(p, n, P) /\ \A k \in 1 .. n : hs[k] = request[p[k]]
  BY DEF Picks
<1> HIDE DEF n, gs
<1> DEFINE q == [k \in 1 .. n + 1 |-> IF k <= n THEN p[k] ELSE c]
<1>3. /\ \A k \in 1 .. n : q[k] = p[k] /\ p[k] \in P
      /\ q[n + 1] = c
  BY <1>1, <1>2 DEF InOrder
<1>4. q \in [1 .. n + 1 -> P \cup {c}]
  BY <1>1, <1>2 DEF InOrder
<1> HIDE DEF q
<1>5. \A k \in 1 .. n + 1 : k \in 1 .. n \/ k = n + 1
  BY <1>1
<1>6. ASSUME NEW k \in 1 .. n + 1, NEW l \in 1 .. n + 1, k < l PROVE q[k] < q[l]
  <2>1. k \in 1 .. n
    BY <1>1, <1>6
  <2>2. CASE l \in 1 .. n
    BY <1>2, <1>3, <1>6, <2>1, <2>2 DEF InOrder
  <2>3. CASE l = n + 1
    BY <1>3, <2>1, <2>3
  <2> QED
    BY <1>5, <2>2, <2>3
<1>7. ASSUME NEW i \in P \cup {c} PROVE \E k \in 1 .. n + 1 : q[k] = i
  <2>1. CASE i \in P
    <3>1. PICK k \in 1 .. n : p[k] = i
      BY <1>2, <2>1 DEF InOrder
    <3>2. k \in 1 .. n + 1
      BY <1>1
    <3> QED
      BY <1>3, <3>1, <3>2
  <2>2. CASE i = c
    <3>1. n + 1 \in 1 .. n + 1
      BY <1>1
    <3> QED
      BY <1>3, <2>2, <3>1
  <2> QED
    BY <2>1, <2>2
<1>8. InOrder(q, n + 1, P \cup {c})
  BY <1>4, <1>6, <1>7 DEF InOrder
<1>9. \A k \in 1 .. n + 1 : gs[k] = request[q[k]]
  BY <1>1, <1>2, <1>3, <1>5
<1>10. Picks(gs, P \cup {c})
  BY <1>1, <1>8, <1>9 DEF Picks
<1> QED
  BY <1>10 DEF gs

\* Nothing is picked from nothing.
LEMMA PickNone == Picks(<<>>, {})
<1>1. Len(<<>>) = 0 /\ 1 .. 0 = {}
  OBVIOUS
<1>2. [k \in {} |-> k] \in [{} -> {}]
  OBVIOUS
<1> QED
  BY <1>1, <1>2 DEF Picks, InOrder

\* What is picked at P is At(P): the position of rank k is the k-th listed.
LEMMA PickedIsAt ==
    ASSUME NEW hs \in Seq(Hashes), NEW P \in SUBSET Nat, Picks(hs, P)
    PROVE  hs = At(P)
<1> DEFINE n == Len(hs)
           Rank(i) == Cardinality({j \in P : j <= i})
<1>1. n \in Nat /\ DOMAIN hs = 1 .. n /\ hs = [k \in 1 .. n |-> hs[k]]
  OBVIOUS
<1>2. PICK p : InOrder(p, n, P) /\ \A k \in 1 .. n : hs[k] = request[p[k]]
  BY DEF Picks
<1> HIDE DEF n
<1>3. ASSUME NEW k \in 0 .. n, NEW S \in SUBSET Nat,
             \A j : j \in S <=> \E l \in 1 .. k : p[l] = j
      PROVE  Cardinality(S) = k
  <2> DEFINE b == [l \in 1 .. k |-> p[l]]
  <2>1. k \in Nat /\ \A l \in 1 .. k : l \in 1 .. n
    BY <1>1
  <2>2. b \in [1 .. k -> S] /\ \A l \in 1 .. k : b[l] = p[l]
    BY <1>3
  <2>3. \A l, m \in 1 .. k : b[l] = b[m] => l = m
    <3> SUFFICES ASSUME NEW l \in 1 .. k, NEW m \in 1 .. k, p[l] = p[m] PROVE l = m
      BY <2>2
    <3>1. l \in 1 .. n /\ m \in 1 .. n /\ p[l] \in Nat /\ p[m] \in Nat
      BY <1>2, <2>1 DEF InOrder
    <3>2. ~(l < m) /\ ~(m < l)
      BY <1>2, <3>1 DEF InOrder
    <3> QED
      BY <2>1, <3>2
  <2>4. \A j \in S : \E l \in 1 .. k : b[l] = j
    BY <1>3, <2>2
  <2> HIDE DEF b
  <2>5. b \in Bijection(1 .. k, S)
    BY <2>2, <2>3, <2>4 DEF Bijection, Injection, Surjection, IsInjective
  <2>6. IsFiniteSet(1 .. k) /\ Cardinality(1 .. k) = k
    <3>1. 1 \in Int /\ k \in Int
      BY <2>1
    <3>2. IsFiniteSet(1 .. k) /\ Cardinality(1 .. k) = IF 1 > k THEN 0 ELSE k - 1 + 1
      BY <3>1, FS_Interval
    <3> QED
      BY <2>1, <3>2
  <2>7. Cardinality(1 .. k) = Cardinality(S)
    BY <2>5, <2>6, FS_Bijection DEF ExistsBijection
  <2> QED
    BY <2>6, <2>7
<1>4. Cardinality(P) = n
  BY <1>1, <1>2, <1>3 DEF InOrder
<1>5. ASSUME NEW k \in 1 .. n PROVE Rank(p[k]) = k
  <2>1. {j \in P : j <= p[k]} \in SUBSET Nat
    OBVIOUS
  <2>2. k \in 0 .. n
    BY <1>1
  <2>3. ASSUME NEW j PROVE j \in {i \in P : i <= p[k]} <=> \E l \in 1 .. k : p[l] = j
    <3>1. ASSUME j \in P, j <= p[k] PROVE \E l \in 1 .. k : p[l] = j
      <4>1. PICK l \in 1 .. n : p[l] = j
        BY <1>2, <3>1 DEF InOrder
      <4>2. p[l] \in Nat /\ p[k] \in Nat
        BY <1>2 DEF InOrder
      <4>3. ~(k < l)
        BY <1>2, <3>1, <4>1, <4>2 DEF InOrder
      <4>4. l \in 1 .. k
        BY <1>1, <4>3
      <4> QED
        BY <4>1, <4>4
    <3>2. ASSUME NEW l \in 1 .. k, p[l] = j PROVE j \in P /\ j <= p[k]
      <4>1. l \in 1 .. n /\ (l < k \/ l = k)
        BY <1>1
      <4>2. p[l] \in P /\ p[k] \in P /\ p[l] \in Nat /\ p[k] \in Nat
        BY <1>2, <4>1 DEF InOrder
      <4>3. l < k => p[l] < p[k]
        BY <1>2, <4>1 DEF InOrder
      <4> QED
        BY <3>2, <4>1, <4>2, <4>3
    <3> QED
      BY <3>1, <3>2
  <2> QED
    BY <1>3, <2>1, <2>2, <2>3
<1>6. ASSUME NEW k \in 1 .. n PROVE p[k] = CHOOSE i \in P : Rank(i) = k
  <2>1. p[k] \in P /\ Rank(p[k]) = k
    BY <1>2, <1>5 DEF InOrder
  <2>2. ASSUME NEW i \in P, Rank(i) = k PROVE i = p[k]
    <3>1. PICK l \in 1 .. n : p[l] = i
      BY <1>2 DEF InOrder
    <3>2. Rank(i) = l
      BY <1>5, <3>1
    <3> QED
      BY <2>2, <3>1, <3>2
  <2> HIDE DEF Rank
  <2> QED
    BY <2>1, <2>2
<1>7. \A k \in 1 .. n : hs[k] = request[CHOOSE i \in P : Rank(i) = k]
  BY <1>2, <1>6
<1>8. At(P) = [k \in 1 .. n |-> request[CHOOSE i \in P : Rank(i) = k]]
  BY <1>4 DEF At
<1> QED
  BY <1>1, <1>7, <1>8

--------------------------------------------------------------------------------
\* A request is served from its first hash on, with its two lists charged.
LEMMA StartKeepsIInv ==
    ASSUME GetIInv, NEW hs \in Seq(Hashes \cup {NotBytes}), Start(hs), UNCHANGED stored
    PROVE  GetIInv'
<1>1. /\ request' = hs /\ cursor' = 1 /\ remaining' = Budget - Charged(hs)
      /\ exhausted' = FALSE /\ found' = <<>> /\ missing' = <<>> /\ held' = {}
      /\ stage' = "packing"
  BY DEF Start
<1>2. Len(hs) \in Nat /\ <<>> \in Seq(Hashes) /\ Len(<<>>) = 0 /\ 1 .. 0 = {}
  OBVIOUS
<1>3. Charged(hs) \in Int
  <2>1. Len(hs) * Entry \in Int
    BY <1>2, CostsCount
  <2> QED
    BY <2>1, CostsCount DEF Charged
<1>4. GetTypeOK'
  <2>1. remaining' \in Int
    BY <1>1, <1>3, CostsCount
  <2>2. cursor' \in 1 .. Len(request') + 1 /\ held' \subseteq 1 .. cursor' - 1
    BY <1>1, <1>2
  <2> QED
    BY <1>1, <1>2, <2>1, <2>2 DEF GetIInv, GetTypeOK
<1>5. PackedSoFar'
  <2>1. Picks(<<>>, {})'
    <3>1. Len(<<>>) = 0 /\ 1 .. 0 = {} /\ [k \in {} |-> k] \in [{} -> {}]
      OBVIOUS
    <3> QED
      BY <3>1 DEF Picks, InOrder
  <2>2. (1 .. cursor' - 1) \ {} = {}
    BY <1>1
  <2> QED
    BY <1>1, <2>1, <2>2 DEF PackedSoFar, Picks
<1>6. Spent'
  <2>1. Packed' = 0
    BY <1>1, NothingCosts DEF Packed
  <2> QED
    BY <1>1, <1>2, <1>3, <2>1, CostsCount DEF Spent, Charged
<1> QED
  BY <1>1, <1>4, <1>5, <1>6 DEF GetIInv

\* What a lookup that is under way knows.
LEMMA LookingAt ==
    ASSUME GetIInv, NEW h \in Hashes, Looking(h)
    PROVE  /\ GetTypeOK /\ PackedSoFar /\ Spent
           /\ cursor \in 1 .. Len(request) /\ request[cursor] = h
           /\ Len(request) \in Nat /\ cursor \in Nat
           /\ \A i \in held : i \in 1 .. cursor - 1
           /\ (1 .. (cursor + 1) - 1) = (1 .. cursor - 1) \cup {cursor}
           /\ cursor + 1 \in 1 .. Len(request) + 1
<1>1. stage = "packing" /\ cursor <= Len(request) /\ request[cursor] = h
  BY DEF Looking
<1>2. GetTypeOK /\ PackedSoFar /\ Spent
  BY <1>1 DEF GetIInv
<1>3. Len(request) \in Nat
  BY <1>2 DEF GetTypeOK
<1>4. cursor \in 1 .. Len(request) + 1
  BY <1>2 DEF GetTypeOK
<1> QED
  BY <1>1, <1>2, <1>3, <1>4 DEF GetTypeOK

\* A position without an entity goes to missing ...
LEMMA AbsentKeepsIInv == ASSUME GetIInv, NEW h \in Hashes, Absent(h) PROVE GetIInv'
<1>1. /\ Looking(h) /\ missing' = Append(missing, h) /\ cursor' = cursor + 1
      /\ UNCHANGED <<stored, request, remaining, exhausted, found, held, stage, received>>
  BY DEF Absent
<1>2. /\ GetTypeOK /\ PackedSoFar /\ Spent
      /\ cursor \in 1 .. Len(request) /\ request[cursor] = h
      /\ Len(request) \in Nat /\ cursor \in Nat
      /\ \A i \in held : i \in 1 .. cursor - 1
      /\ (1 .. (cursor + 1) - 1) = (1 .. cursor - 1) \cup {cursor}
      /\ cursor + 1 \in 1 .. Len(request) + 1
  BY <1>1, LookingAt
<1>3. missing \in Seq(Hashes) /\ found \in Seq(Hashes) /\ request \in Seq(Hashes \cup {NotBytes})
  BY <1>2 DEF GetTypeOK
<1>4. missing' \in Seq(Hashes) /\ Len(missing') = Len(missing) + 1 /\ Len(missing) \in Nat
      /\ Len(found) \in Nat
  BY <1>1, <1>3
<1>5. GetTypeOK'
  <2>1. cursor' \in 1 .. Len(request') + 1
    BY <1>1, <1>2
  <2>2. held' \subseteq 1 .. cursor' - 1
    BY <1>1, <1>2
  <2> QED
    BY <1>1, <1>2, <1>4, <2>1, <2>2 DEF GetTypeOK
<1>6. PackedSoFar'
  <2>1. PICK P \in SUBSET held :
            /\ Picks(found, P) /\ Picks(missing, (1 .. cursor - 1) \ P)
            /\ \A i \in P, j \in held \ P : i < j
            /\ exhausted <=> held # P
            /\ held # P => \E i \in held \ P : Cost(request[i]) > remaining
    BY <1>2 DEF PackedSoFar
  <2> DEFINE M == (1 .. cursor - 1) \ P
  <2>2. M \in SUBSET Nat /\ \A i \in M : i < cursor
    BY <1>2
  <2>3. Picks(missing', M \cup {cursor})
    <3> HIDE DEF M
    <3> QED
      BY <1>1, <1>2, <1>3, <2>1, <2>2, PickMore DEF M
  <2>4. M \cup {cursor} = (1 .. cursor' - 1) \ P
    BY <1>1, <1>2
  <2>5. \A hs, Q : Picks(hs, Q)' <=> Picks(hs, Q)
    BY <1>1 DEF Picks
  <2>6. Picks(missing', (1 .. cursor' - 1) \ P)
    BY <2>3, <2>4
  <2>7. Picks(found, P) /\ \A i \in P, j \in held \ P : i < j
    BY <2>1
  <2>8. exhausted <=> held # P
    BY <2>1
  <2>9. held # P => \E i \in held \ P : Cost(request[i]) > remaining
    BY <2>1
  <2> HIDE DEF M
  <2> QED
    BY <1>1, <2>5, <2>6, <2>7, <2>8, <2>9 DEF PackedSoFar
<1>7. Spent'
  BY <1>1, <1>2, <1>4 DEF Spent, Packed
<1> QED
  BY <1>1, <1>5, <1>6, <1>7 DEF GetIInv, Looking

\* ... so does one whose entity does not fit ...
LEMMA TurnAwayKeepsIInv == ASSUME GetIInv, NEW h \in Hashes, TurnAway(h) PROVE GetIInv'
<1>1. /\ Looking(h) /\ ~Fits(h) /\ exhausted' = TRUE
      /\ missing' = Append(missing, h) /\ cursor' = cursor + 1
      /\ held' = held \cup {cursor}
      /\ UNCHANGED <<stored, request, remaining, found, stage, received>>
  BY DEF TurnAway
<1>2. /\ GetTypeOK /\ PackedSoFar /\ Spent
      /\ cursor \in 1 .. Len(request) /\ request[cursor] = h
      /\ Len(request) \in Nat /\ cursor \in Nat
      /\ \A i \in held : i \in 1 .. cursor - 1
      /\ (1 .. (cursor + 1) - 1) = (1 .. cursor - 1) \cup {cursor}
      /\ cursor + 1 \in 1 .. Len(request) + 1
  BY <1>1, LookingAt
<1>3. missing \in Seq(Hashes) /\ found \in Seq(Hashes) /\ request \in Seq(Hashes \cup {NotBytes})
      /\ exhausted \in BOOLEAN /\ remaining \in Int
  BY <1>2 DEF GetTypeOK
<1>4. missing' \in Seq(Hashes) /\ Len(missing') = Len(missing) + 1 /\ Len(missing) \in Nat
      /\ Len(found) \in Nat
  BY <1>1, <1>3
<1>5. GetTypeOK'
  <2>1. cursor' \in 1 .. Len(request') + 1
    BY <1>1, <1>2
  <2>2. held' \subseteq 1 .. cursor' - 1
    BY <1>1, <1>2
  <2> QED
    BY <1>1, <1>2, <1>4, <2>1, <2>2 DEF GetTypeOK
<1>6. PackedSoFar'
  <2>1. PICK P \in SUBSET held :
            /\ Picks(found, P) /\ Picks(missing, (1 .. cursor - 1) \ P)
            /\ \A i \in P, j \in held \ P : i < j
            /\ exhausted <=> held # P
            /\ held # P => \E i \in held \ P : Cost(request[i]) > remaining
    BY <1>2 DEF PackedSoFar
  <2> DEFINE M == (1 .. cursor - 1) \ P
  <2>2. M \in SUBSET Nat /\ \A i \in M : i < cursor
    BY <1>2
  <2>3. Picks(missing', M \cup {cursor})
    <3> HIDE DEF M
    <3> QED
      BY <1>1, <1>2, <1>3, <2>1, <2>2, PickMore DEF M
  <2>4. M \cup {cursor} = (1 .. cursor' - 1) \ P
    BY <1>1, <1>2
  <2>5. \A hs, Q : Picks(hs, Q)' <=> Picks(hs, Q)
    BY <1>1 DEF Picks
  <2>6. Picks(missing', (1 .. cursor' - 1) \ P)
    BY <2>3, <2>4
  <2>7. cursor \notin held /\ P \in SUBSET held' /\ held' \ P = (held \ P) \cup {cursor}
    BY <1>1, <1>2
  <2>8. \A i \in P, j \in held' \ P : i < j
    BY <1>2, <2>1, <2>7
  <2>9. \E i \in held' \ P : Cost(request[i]) > remaining
    <3>1. CASE exhausted
      BY <2>1, <2>7, <3>1
    <3>2. CASE ~exhausted
      <4>1. Cost(h) \in Nat /\ ~(Cost(h) <= remaining)
        BY <1>1, <3>2, CostsCount DEF Fits
      <4>2. Cost(request[cursor]) > remaining
        BY <1>2, <1>3, <4>1
      <4> QED
        BY <2>7, <4>2
    <3> QED
      BY <1>3, <3>1, <3>2
  <2>10. held' # P
    BY <2>7
  <2>11. Picks(found, P)
    BY <2>1
  <2> HIDE DEF M
  <2> QED
    BY <1>1, <2>5, <2>6, <2>7, <2>8, <2>9, <2>10, <2>11 DEF PackedSoFar
<1>7. Spent'
  BY <1>1, <1>2, <1>4 DEF Spent, Packed
<1> QED
  BY <1>1, <1>5, <1>6, <1>7 DEF GetIInv, Looking

\* ... and one that fits is packed and paid for.
LEMMA PackKeepsIInv == ASSUME GetIInv, NEW h \in Hashes, Pack(h) PROVE GetIInv'
<1>1. /\ Looking(h) /\ Fits(h) /\ remaining' = remaining - Cost(h)
      /\ found' = Append(found, h) /\ cursor' = cursor + 1
      /\ held' = held \cup {cursor}
      /\ UNCHANGED <<stored, request, exhausted, missing, stage, received>>
  BY DEF Pack
<1>2. /\ GetTypeOK /\ PackedSoFar /\ Spent
      /\ cursor \in 1 .. Len(request) /\ request[cursor] = h
      /\ Len(request) \in Nat /\ cursor \in Nat
      /\ \A i \in held : i \in 1 .. cursor - 1
      /\ (1 .. (cursor + 1) - 1) = (1 .. cursor - 1) \cup {cursor}
      /\ cursor + 1 \in 1 .. Len(request) + 1
  BY <1>1, LookingAt
<1>3. missing \in Seq(Hashes) /\ found \in Seq(Hashes) /\ request \in Seq(Hashes \cup {NotBytes})
      /\ exhausted \in BOOLEAN /\ remaining \in Int
  BY <1>2 DEF GetTypeOK
<1>4. found' \in Seq(Hashes) /\ Len(found') = Len(found) + 1 /\ Len(missing) \in Nat
      /\ Len(found) \in Nat
  BY <1>1, <1>3
<1>5. ~exhausted /\ Cost(h) <= remaining /\ Cost(h) \in Nat
  BY <1>1, CostsCount DEF Fits
<1>6. GetTypeOK'
  <2>1. cursor' \in 1 .. Len(request') + 1
    BY <1>1, <1>2
  <2>2. held' \subseteq 1 .. cursor' - 1
    BY <1>1, <1>2
  <2>3. remaining' \in Int
    BY <1>1, <1>3, <1>5
  <2> QED
    BY <1>1, <1>2, <1>4, <2>1, <2>2, <2>3 DEF GetTypeOK
<1>7. PackedSoFar'
  <2>1. PICK P \in SUBSET held :
            /\ Picks(found, P) /\ Picks(missing, (1 .. cursor - 1) \ P)
            /\ exhausted <=> held # P
    BY <1>2 DEF PackedSoFar
  <2>2. P = held
    BY <1>5, <2>1
  <2>3. held \in SUBSET Nat /\ \A i \in held : i < cursor
    BY <1>2
  <2>4. Picks(found', held')
    BY <1>1, <1>2, <1>3, <2>1, <2>2, <2>3, PickMore
  <2>5. (1 .. cursor' - 1) \ held' = (1 .. cursor - 1) \ held
    BY <1>1, <1>2
  <2>6. \A hs, Q : Picks(hs, Q)' <=> Picks(hs, Q)
    BY <1>1 DEF Picks
  <2>7. Picks(missing', (1 .. cursor' - 1) \ held')
    BY <1>1, <2>1, <2>2, <2>5
  <2>8. held' \in SUBSET held' /\ held' \ held' = {}
    OBVIOUS
  <2> QED
    BY <1>1, <1>5, <2>4, <2>6, <2>7, <2>8 DEF PackedSoFar
<1>8. Spent'
  <2>1. Packed' = Packed + Cost(h) /\ Packed \in Nat
    BY <1>1, <1>3, CostGrows DEF Packed
  <2>2. Charged(request) \in Int
    <3>1. Len(request) * Entry \in Int
      BY <1>2, CostsCount
    <3> QED
      BY <3>1, CostsCount DEF Charged
  <2>3. remaining' = Budget - Charged(request) - Packed'
    BY <1>1, <1>2, <1>5, <2>1, <2>2, CostsCount DEF Spent
  <2>4. remaining' >= 0
    BY <1>1, <1>3, <1>5
  <2> QED
    BY <1>1, <1>2, <1>4, <2>3, <2>4 DEF Spent, Charged
<1> QED
  BY <1>1, <1>6, <1>7, <1>8 DEF GetIInv, Looking

\* Every step of a get.
LEMMA GetStepKeepsIInv == GetIInv /\ [GetNext]_getVars => GetIInv'
<1> SUFFICES ASSUME GetIInv, [GetNext]_getVars PROVE GetIInv'
  OBVIOUS
<1>0. GetTypeOK
  BY DEF GetIInv
\* Steps that leave the request alone.
<1>1. ASSUME UNCHANGED <<request, packVars>>, stored' \subseteq Hashes,
             stage' \in {"idle", "packing", "answered", "done"},
             stage = "idle" => stage' = "idle",
             stage' = "answered" => stage = "answered" \/ cursor = Len(request) + 1
      PROVE  GetIInv'
  <2>1. UNCHANGED <<request, cursor, remaining, exhausted, found, missing, held>>
    BY <1>1 DEF packVars
  <2>2. GetTypeOK'
    BY <1>0, <1>1, <2>1 DEF GetTypeOK
  <2>3. PackedSoFar' <=> PackedSoFar
    BY <2>1 DEF PackedSoFar, Picks
  <2>4. Spent' <=> Spent
    BY <2>1 DEF Spent, Packed
  <2> QED
    BY <1>1, <2>1, <2>2, <2>3, <2>4 DEF GetIInv
<1>2. ASSUME NEW h \in Hashes, Store(h) \/ Drop(h) PROVE GetIInv'
  BY <1>0, <1>1, <1>2 DEF Store, Drop, GetTypeOK, GetIInv
<1>3. CASE Respond
  <2>1. stage = "packing" /\ cursor > Len(request) /\ stage' = "answered"
        /\ UNCHANGED <<stored, request, packVars>>
    BY <1>3 DEF Respond
  <2>2. cursor = Len(request) + 1
    <3>1. Len(request) \in Nat /\ cursor \in 1 .. Len(request) + 1
      BY <1>0 DEF GetTypeOK
    <3> QED
      BY <2>1, <3>1
  <2> QED
    BY <1>0, <1>1, <2>1, <2>2 DEF GetTypeOK
<1>4. CASE GiveUp
  BY <1>0, <1>1, <1>4 DEF GiveUp, GetTypeOK
<1>9. CASE Reject
  BY <1>0, <1>1, <1>9 DEF Reject, Looking, GetTypeOK
<1>5. CASE Retry
  <2>1. Start(missing) /\ UNCHANGED stored /\ missing \in Seq(Hashes \cup {NotBytes})
    BY <1>0, <1>5 DEF Retry, GetTypeOK
  <2> QED
    BY <2>1, StartKeepsIInv
<1>6. ASSUME NEW hs \in Lists, AskFor(hs) PROVE GetIInv'
  <2>1. hs \in Seq(Hashes \cup {NotBytes}) /\ Start(hs) /\ UNCHANGED stored
    BY <1>6, GetAssumption DEF AskFor
  <2> QED
    BY <2>1, StartKeepsIInv
<1>7. ASSUME NEW h \in Hashes, Absent(h) \/ Pack(h) \/ TurnAway(h) PROVE GetIInv'
  BY <1>7, AbsentKeepsIInv, PackKeepsIInv, TurnAwayKeepsIInv
<1>8. CASE GetRest \/ UNCHANGED getVars
  <2>1. UNCHANGED <<stored, stage, request, packVars>>
    BY <1>8 DEF GetRest, getVars
  <2> QED
    BY <1>0, <1>1, <2>1 DEF GetTypeOK
<1> QED
  BY <1>2, <1>3, <1>4, <1>5, <1>6, <1>7, <1>8, <1>9 DEF GetNext, OtherThreads, Serve

\* A request that just arrived.
LEMMA GetInitIInv == GetInit => GetIInv
<1> SUFFICES ASSUME GetInit PROVE GetIInv
  OBVIOUS
<1>1. <<>> \in Seq(Hashes) /\ Len(<<>>) = 0 /\ 1 \in 1 .. 0 + 1
  OBVIOUS
<1>2. /\ stored \subseteq Hashes /\ request = <<>> /\ cursor = 1 /\ remaining = 0
      /\ exhausted = FALSE /\ found = <<>> /\ missing = <<>> /\ held = {} /\ stage = "idle"
  BY DEF GetInit
<1>3. cursor \in 1 .. Len(request) + 1 /\ held \subseteq 1 .. cursor - 1
  BY <1>1, <1>2
<1>9. <<>> \in Seq(Hashes \cup {NotBytes})
  OBVIOUS
<1>4. request \in Seq(Hashes \cup {NotBytes}) /\ found \in Seq(Hashes) /\ missing \in Seq(Hashes)
  BY <1>1, <1>2, <1>9, Zenon
<1>5. remaining \in Int /\ exhausted \in BOOLEAN
  <2>1. 0 \in Int /\ FALSE \in BOOLEAN
    OBVIOUS
  <2> QED
    BY <1>2, <2>1, Zenon
<1>6. stage \in {"idle", "packing", "answered", "done"}
  BY <1>2
<1>7. GetTypeOK
  BY <1>2, <1>3, <1>4, <1>5, <1>6, Zenon DEF GetTypeOK
<1> QED
  BY <1>2, <1>7 DEF GetIInv

\* A finished envelope is packed in order.
LEMMA PackingIsInOrder == GetIInv => PacksInOrder
<1> SUFFICES ASSUME GetIInv, stage = "answered" PROVE PacksInOrder
  BY DEF PacksInOrder
<1>1. GetTypeOK /\ PackedSoFar /\ Spent /\ cursor = Len(request) + 1
  BY DEF GetIInv
<1>2. /\ request \in Seq(Hashes \cup {NotBytes}) /\ found \in Seq(Hashes) /\ missing \in Seq(Hashes)
      /\ Len(request) \in Nat /\ DOMAIN request = 1 .. Len(request)
      /\ Len(found) \in Nat /\ Len(missing) \in Nat
      /\ held \subseteq 1 .. cursor - 1
      /\ \A i \in held : request[i] \in Hashes
  BY <1>1 DEF GetTypeOK
<1>3. cursor - 1 = Len(request)
  BY <1>1, <1>2
<1>4. PICK P \in SUBSET held :
            /\ Picks(found, P) /\ Picks(missing, (1 .. cursor - 1) \ P)
            /\ \A i \in P, j \in held \ P : i < j
            /\ held # P => \E i \in held \ P : Cost(request[i]) > remaining
  BY <1>1 DEF PackedSoFar
<1>5. P \in SUBSET Nat /\ (DOMAIN request \ P) \in SUBSET Nat
  BY <1>2
<1>6. found = At(P) /\ missing = At(DOMAIN request \ P)
  <2>1. found = At(P)
    BY <1>2, <1>4, <1>5, PickedIsAt
  <2>2. Picks(missing, DOMAIN request \ P)
    BY <1>2, <1>3, <1>4
  <2> QED
    BY <1>2, <1>5, <2>1, <2>2, PickedIsAt
<1>7. /\ Charged(request) \in Int /\ Packed \in Int /\ Budget \in Nat
      /\ remaining = Budget - Charged(request) - Packed
      /\ Charged(request) = Reserve + (Len(found) + Len(missing)) * Entry
      /\ Reserve + (Len(found) + Len(missing)) * Entry \in Int
  <2>1. Len(found) + Len(missing) = Len(request)
    BY <1>1, <1>3 DEF Spent
  <2>2. Len(request) * Entry \in Int
    BY <1>2, CostsCount
  <2>3. Packed \in Int
    <3> DEFINE c == CostUpTo(found)
    <3>1. Accrues(found, c)
      BY <1>2, CostsAccrue
    <3>2. Packed = c[Len(found)]
      BY DEF Packed
    <3> HIDE DEF c
    <3>3. c[Len(found)] \in Nat
      <4>1. Len(found) \in Nat
        BY <1>2
      <4>2. Len(found) \in 0 .. Len(found)
        BY <4>1
      <4> QED
        BY <3>1, <4>2 DEF Accrues
    <3> QED
      BY <3>2, <3>3
  <2> QED
    BY <1>1, <2>1, <2>2, <2>3, CostsCount DEF Charged, Spent
<1>8. held # P => \E i \in held \ P : Charged(request) + Packed + Cost(request[i]) > Budget
  <2> SUFFICES ASSUME held # P
               PROVE  \E i \in held \ P : Charged(request) + Packed + Cost(request[i]) > Budget
    OBVIOUS
  <2>1. PICK i \in held \ P : Cost(request[i]) > remaining
    BY <1>4
  <2>2. Cost(request[i]) \in Nat
    <3>1. request[i] \in Hashes
      BY <1>2, <1>3
    <3> QED
      BY <3>1, CostsCount
  <2> QED
    BY <1>7, <2>1, <2>2
<1>9. found # <<>> => Reserve + (Len(found) + Len(missing)) * Entry + Packed <= Budget
  <2> SUFFICES ASSUME found # <<>> PROVE Charged(request) + Packed <= Budget
    BY <1>7
  <2>1. remaining >= 0
    BY <1>1 DEF Spent
  <2> QED
    BY <1>7, <2>1
<1> QED
  BY <1>4, <1>6, <1>8, <1>9 DEF PacksInOrder

\* Whatever is stored and collected while a request is served, for any sizes,
\* budget and list of hashes: each hash is answered once and in order, found or
\* missing, an entity is left out only behind one that did not fit, and the
\* response stays within the frame.
THEOREM GetPacksInOrder == GetSpec => []PacksInOrder
<1>1. GetSpec => []GetIInv
  BY GetInitIInv, GetStepKeepsIInv, PTL DEF GetSpec
<1> QED
  BY <1>1, PackingIsInOrder, PTL

================================================================================
