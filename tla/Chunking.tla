-------------------------------- MODULE Chunking -------------------------------
(***************************************************************************)
(* FastCDC/NC2 chunking of a byte string (cdc_boundaries and the loop that *)
(* create_blob_cdc has in common with it), and what content-defined chunks *)
(* are for: a file is chunked, edited near its beginning, and chunked      *)
(* again, and from the first boundary the two have in common their chunks  *)
(* are the same entities.  Sizes and the fingerprint's register are        *)
(* reduced, the relations between them are not.                            *)
(***************************************************************************)
EXTENDS Naturals, Sequences, FiniteSets, SequencesExt, FiniteSetsExt

CONSTANTS
    Bytes,     \* byte values
    Gear,      \* gear_table: of a byte, a word
    Width,     \* bits of the register the ports compute in
    Targets,   \* target chunk sizes
    Leads,     \* what a file may begin with, before and after the edit
    Rests      \* what follows, which the edit leaves alone

ASSUME ChunkingAssumption ==
    /\ Width \in Nat /\ Targets \subseteq Nat \ (0 .. 3)
    /\ Gear \in [Bytes -> 0 .. 2^Width - 1]
    /\ Leads \cup Rests \subseteq Seq(Bytes)

\* cdc_params, for one target size.
Bits(target) == CHOOSE n \in 0 .. target : 2^n <= target /\ target < 2^(n + 1)
MinSize(target) == target \div 4
MaxSize(target) == 2 * target
\* A fingerprint meets a mask of n ones where its low n bits are zero.
Hard(target) == 2^(Bits(target) + 2)
Easy(target) == 2^(Bits(target) - 2)

VARIABLES
    lead, rest,   \* the file is lead \o rest
    target,       \* target chunk size
    offset,       \* where the current chunk begins
    at,           \* the byte find_boundary looks at
    fp,           \* its fingerprint
    cuts,         \* boundaries found
    before        \* length and boundaries of the file before the edit, once edited

chunkingVars == <<lead, rest, target, offset, at, fp, cuts, before>>

file == lead \o rest
Unedited == [size |-> 0, cuts |-> {}]

ChunkingInit ==
    /\ lead \in Leads /\ rest \in Rests /\ target \in Targets
    /\ offset = 0 /\ at = MinSize(target) /\ fp = 0
    /\ cuts = {}
    /\ before = Unedited

--------------------------------------------------------------------------------
Remaining == Len(file) - offset

KeepsItsFingerprint(end) ==
    /\ cuts' = cuts \cup {end}
    /\ offset' = end /\ at' = end + MinSize(target)
    /\ UNCHANGED <<fp, lead, rest, target, before>>

CutAt(end) ==
    /\ cuts' = cuts \cup {end}
    /\ offset' = end /\ at' = end + MinSize(target) /\ fp' = 0
    /\ UNCHANGED <<lead, rest, target, before>>

\* What is left is no longer than the smallest chunk.
TakeRest ==
    /\ Remaining > 0 /\ Remaining <= MinSize(target)
    /\ CutAt(Len(file))

Limit(size) == Min({offset + size, Len(file)})

\* The mask in force at a position: hard up to the target size, easy after it.
Mask == IF at < Limit(target) THEN Hard(target) ELSE Easy(target)

Scanning == Remaining > MinSize(target) /\ at < Limit(MaxSize(target))

Rolled == (2 * fp + Gear[file[at + 1]]) % 2^Width

Roll ==
    /\ Scanning /\ Rolled % Mask # 0
    /\ fp' = Rolled
    /\ at' = at + 1
    /\ UNCHANGED <<lead, rest, target, offset, cuts, before>>

CutsInFront == Scanning /\ Rolled % Mask = 0 /\ CutAt(at)

\* return i + 1: the byte that completed the fingerprint ends the chunk.
CutBehind == Scanning /\ Rolled % Mask = 0 /\ CutAt(at + 1)

\* Both loops ran out without a hit.
CutAtLimit == Remaining > MinSize(target) /\ ~Scanning /\ CutAt(at)

\* The beginning of the file is rewritten and the file chunked again.
Edit(new) ==
    /\ Remaining = 0 /\ before = Unedited
    /\ before' = [size |-> Len(file), cuts |-> cuts]
    /\ lead' = new
    /\ offset' = 0 /\ at' = MinSize(target) /\ fp' = 0
    /\ cuts' = {}
    /\ UNCHANGED <<rest, target>>

Chunked == Remaining = 0 /\ before # Unedited /\ UNCHANGED chunkingVars

ChunkingNext ==
    \/ TakeRest \/ Roll \/ CutBehind \/ CutAtLimit
    \/ \E new \in Leads : Edit(new)
    \/ Chunked

ChunkingSpec == ChunkingInit /\ [][ChunkingNext]_chunkingVars

--------------------------------------------------------------------------------
Previous(cut) == Max({0} \cup {c \in cuts : c < cut})

\* The chunks partition the file, none is empty, and each but the last is
\* longer than the smallest and at most as long as the largest chunk size; the
\* last one may be shorter.
ChunksAreSized ==
    /\ cuts = {} <=> offset = 0
    /\ cuts # {} => Max(cuts) = offset /\ offset <= Len(file)
    /\ \A c \in cuts : c - Previous(c) \in 1 .. MaxSize(target)
                       /\ (c < Len(file) => c - Previous(c) > MinSize(target))

\* Boundaries by their distance to the end of the file, within the common rest.
FromEnd(size, cs) == {size - c : c \in {d \in cs : size - d <= Len(rest)}}

\* Once both versions have a boundary in common, in the part the edit left
\* alone, every later boundary is common too: the chunks from there on have the
\* same content, so the same hash.
RejoinsAfterEdit ==
    before # Unedited =>
        LET old == FromEnd(before.size, before.cuts)
            new == FromEnd(Len(file), cuts)
        IN  \A d \in old \cap new :
                \A c \in 0 .. d : c >= Len(file) - offset => (c \in old <=> c \in new)
================================================================================
