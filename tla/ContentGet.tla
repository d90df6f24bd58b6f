------------------------------- MODULE ContentGet ------------------------------
(***************************************************************************)
(* system/content:get: the handler packs the entities a request names into *)
(* one response, in request order, within the frame budget of the          *)
(* connection, and the requester asks again for what was left out.  Other  *)
(* threads put entities into the content store and the peer's garbage      *)
(* collection removes them meanwhile.                                      *)
(***************************************************************************)
EXTENDS Integers, Sequences, FiniteSets, SequencesExt

CONSTANTS
    Hashes,     \* content hashes
    NotBytes,   \* an entry of a hash list that is no byte string
    Size,       \* encoded size of the entity a hash names
    KeySize,    \* size of a hash as a key of the included map
    Entry,      \* _HASH_ENTRY_BYTES
    Reserve,    \* FRAME_RESERVE_BYTES
    Budget,     \* frame_budget() of the connection
    Lists       \* hash lists the requester starts from

ASSUME GetAssumption ==
    /\ Size \in [Hashes -> Nat \ {0}]
    /\ {KeySize, Entry, Reserve, Budget} \subseteq Nat
    /\ NotBytes \notin Hashes
    /\ Lists \subseteq Seq(Hashes \cup {NotBytes})

VARIABLES
    stored,     \* hashes whose entity the content store holds
    request,    \* the hashes asked for
    cursor,     \* position of the hash looked up next
    remaining,  \* budget left
    exhausted,  \* whether an entity has been turned away
    found, missing,
    held,       \* positions whose entity was there when it was looked up
    stage,      \* "idle", "packing", "answered" or "done"
    received    \* what the requester has got

packVars == <<cursor, remaining, exhausted, found, missing, held>>
getVars == <<stored, request, packVars, stage, received>>

Cost(h) == Size[h] + KeySize

ChargesReserveOnly(hs) == Reserve

\* Every hash asked for is in one of the two lists, charged up front.
Charged(hs) == Reserve + Len(hs) * Entry

Start(hs) ==
    /\ request' = hs
    /\ cursor' = 1
    /\ remaining' = Budget - Charged(hs)
    /\ exhausted' = FALSE
    /\ found' = <<>> /\ missing' = <<>> /\ held' = {}
    /\ stage' = "packing"

GetInit ==
    /\ stored \in SUBSET Hashes
    /\ request = <<>> /\ cursor = 1 /\ remaining = 0 /\ exhausted = FALSE
    /\ found = <<>> /\ missing = <<>> /\ held = {}
    /\ stage = "idle"
    /\ received = {}

--------------------------------------------------------------------------------
\* Another thread stores an entity; local garbage collection drops one.
Store(h) == h \notin stored /\ stored' = stored \cup {h} /\ UNCHANGED <<request, packVars, stage, received>>
Drop(h) == h \in stored /\ stored' = stored \ {h} /\ UNCHANGED <<request, packVars, stage, received>>

AskFor(hs) == stage = "idle" /\ Start(hs) /\ UNCHANGED <<stored, received>>

Looking(h) == stage = "packing" /\ cursor <= Len(request) /\ request[cursor] = h

\* Once one entity has not fitted, no later one is packed.
Fits(h) == ~exhausted /\ Cost(h) <= remaining

Absent(h) ==
    /\ Looking(h) /\ h \notin stored
    /\ missing' = Append(missing, h)
    /\ cursor' = cursor + 1
    /\ UNCHANGED <<stored, request, remaining, exhausted, found, held, stage, received>>

Pack(h) ==
    /\ Looking(h) /\ h \in stored /\ Fits(h)
    /\ remaining' = remaining - Cost(h)
    /\ found' = Append(found, h)
    /\ held' = held \cup {cursor}
    /\ cursor' = cursor + 1
    /\ UNCHANGED <<stored, request, exhausted, missing, stage, received>>

TurnAway(h) ==
    /\ Looking(h) /\ h \in stored /\ ~Fits(h)
    /\ exhausted' = TRUE
    /\ missing' = Append(missing, h)
    /\ held' = held \cup {cursor}
    /\ cursor' = cursor + 1
    /\ UNCHANGED <<stored, request, remaining, found, stage, received>>

\* Such an entry ends the request where the loop meets it: no lists, and
\* nothing of what was packed.
Reject ==
    /\ Looking(NotBytes)
    /\ stage' = "done"
    /\ UNCHANGED <<stored, request, packVars, received>>

Respond ==
    /\ stage = "packing" /\ cursor > Len(request)
    /\ stage' = "answered"
    /\ received' = received \cup ToSet(found)
    /\ UNCHANGED <<stored, request, packVars>>

AsksForAllAgain ==
    /\ stage = "answered" /\ found # <<>> /\ missing # <<>>
    /\ Start(request)
    /\ UNCHANGED <<stored, received>>

\* The requester retries with missing for as long as that brings it anything.
Retry ==
    /\ stage = "answered" /\ found # <<>> /\ missing # <<>>
    /\ Start(missing)
    /\ UNCHANGED <<stored, received>>

GiveUp ==
    /\ stage = "answered" /\ (found = <<>> \/ missing = <<>>)
    /\ stage' = "done"
    /\ UNCHANGED <<stored, request, packVars, received>>

GetRest == stage = "done" /\ UNCHANGED getVars

OtherThreads == \E h \in Hashes : Store(h) \/ Drop(h)
Serve == Reject \/ Respond \/ Retry \/ GiveUp \/ \E h \in Hashes : Absent(h) \/ Pack(h) \/ TurnAway(h)

GetNext == OtherThreads \/ Serve \/ GetRest \/ \E hs \in Lists : AskFor(hs)

\* A request is served to its end, and the requester acts on its answer.
GetFairness == WF_getVars(Serve)

GetSpec == GetInit /\ [][GetNext]_getVars /\ GetFairness

--------------------------------------------------------------------------------
CostUpTo(hs) ==
    LET total[n \in 0 .. Len(hs)] == IF n = 0 THEN 0 ELSE total[n - 1] + Cost(hs[n])
    IN  total
Packed == CostUpTo(found)[Len(found)]

\* The request's hashes at the positions of P, in request order.
At(P) == [k \in 1 .. Cardinality(P) |->
            request[CHOOSE i \in P : Cardinality({j \in P : j <= i}) = k]]

\* Each hash asked for is answered exactly once, found or missing, and both
\* lists keep the request's order; a held entity is left out only behind the
\* first that does not fit; and what is packed, with both lists, is never more
\* than the connection's frame.
PacksInOrder ==
    stage = "answered" =>
        /\ \E P \in SUBSET held :
              /\ found = At(P) /\ missing = At(DOMAIN request \ P)
              /\ \A i \in P, j \in held \ P : i < j
              /\ held # P => \E i \in held \ P : Charged(request) + Packed + Cost(request[i]) > Budget
        /\ found # <<>> => Reserve + (Len(found) + Len(missing)) * Entry + Packed <= Budget

\* The requester's retries come to an end, whatever is stored or collected
\* while it asks.
RetriesEnd == stage # "idle" ~> stage = "done"
================================================================================
