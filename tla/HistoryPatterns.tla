---------------------------- MODULE HistoryPatterns ----------------------------
(***************************************************************************)
(* Which configuration governs a path: canonicalization of configuration   *)
(* patterns, their specificity, and find_history_config's scan of the      *)
(* configuration directory, whose listing order is unspecified.            *)
(*                                                                         *)
(* A path segment is a positive number, and Star is the segment "*".  A     *)
(* canonical pattern or path is the sequence of its segments, the peer     *)
(* first; its string is what they spell, each after a slash.               *)
(***************************************************************************)
EXTENDS Integers, Sequences, FiniteSets, SequencesExt

CONSTANTS
    Letters,      \* the bytes of each segment's name
    Local,        \* the local peer's segment
    PathSet,      \* canonical paths that are written
    RawPatterns,  \* records [absolute, segs], as a configuration spells them
    Names,        \* names under system/history/config/
    Malformed,    \* the row of an entity _parse_config rejects
    Unbound       \* no configuration entity; also: none selected

Star == 0

ASSUME PatternAssumption ==
    /\ Local \in Nat \ {Star}
    /\ \A r \in RawPatterns : r.absolute \in BOOLEAN /\ r.segs \in Seq(Nat) /\ r.segs # <<>>
    /\ \A p \in PathSet : p \in Seq(Nat \ {Star}) /\ Len(p) > 1
    /\ Unbound \notin Names

Rows == [pattern : RawPatterns, enabled : BOOLEAN] \cup {Malformed, Unbound}

\* canonicalize_pattern: the bare "*" is tested before the peer wildcard.
CanonicalizePattern(raw) ==
    IF raw.absolute \/ (Head(raw.segs) = Star /\ Len(raw.segs) > 1)
    THEN raw.segs ELSE <<Local>> \o raw.segs

\* matches_pattern of core: bare or leading peer wildcard, trailing subtree
\* (strictly deeper than its prefix), anything else exact.
MatchesPattern(p, pat) ==
    LET tail == Last(pat) = Star
        fixed == IF tail THEN 2 .. Len(pat) - 1 ELSE 2 .. Len(pat)
    IN  /\ pat[1] \in {Star, p[1]}
        /\ IF tail THEN Len(p) >= Len(pat) ELSE Len(p) = Len(pat)
        /\ \A i \in fixed : p[i] = pat[i]

\* pattern_specificity's first two keys; the third is the pattern itself.
Literals(pat) == Cardinality({i \in DOMAIN pat : pat[i] # Star})
Depth(pat) == Len(pat)

Slash == 47
Spelling(pat) == FlattenSeq([i \in DOMAIN pat |-> <<Slash>> \o Letters[pat[i]]])

\* Byte order of two canonical patterns, compared as whole strings.
LexLess(pat, other) ==
    LET s == Spelling(pat)
        t == Spelling(other)
    IN  \E k \in 1 .. Len(s) + 1 :
            /\ k <= Len(t)
            /\ SubSeq(s, 1, k - 1) = SubSeq(t, 1, k - 1)
            /\ k > Len(s) \/ s[k] < t[k]

\* Two canonical patterns are two strings.
ASSUME SpellingAssumption ==
    \A q, r \in RawPatterns :
        LET s == CanonicalizePattern(q)
            t == CanonicalizePattern(r)
        IN  Spelling(s) \in Seq(Nat) /\ (Spelling(s) = Spelling(t) => s = t)

HigherByteOrderWins(s, t) ==
    IF Literals(s) # Literals(t) THEN Literals(s) - Literals(t)
    ELSE IF Depth(s) # Depth(t) THEN Depth(s) - Depth(t)
    ELSE IF s = t THEN 0 ELSE IF LexLess(t, s) THEN 1 ELSE -1

\* compare_specificity: positive when s is the more specific.
CompareSpecificity(s, t) ==
    IF Literals(s) # Literals(t) THEN Literals(s) - Literals(t)
    ELSE IF Depth(s) # Depth(t) THEN Depth(s) - Depth(t)
    ELSE IF s = t THEN 0 ELSE IF LexLess(s, t) THEN 1 ELSE -1

VARIABLES
    rows,         \* the configuration directory
    path,         \* the written path being looked up
    todo,         \* listed rows not read yet
    best,         \* name of the best row so far, or Unbound
    considered, skipped

lookupVars == <<rows, path, todo, best, considered, skipped>>

Bound == {n \in Names : rows[n] # Unbound}
Pattern(n) == CanonicalizePattern(rows[n].pattern)
Matching == {n \in Bound : rows[n] # Malformed /\ MatchesPattern(path, Pattern(n))}

LookupInit ==
    /\ rows \in [Names -> Rows]
    /\ path \in PathSet
    /\ todo = Bound
    /\ best = Unbound
    /\ considered = 0 /\ skipped = 0

\* One row, in whatever order the store lists them.
ReadRow(n) ==
    /\ n \in todo
    /\ todo' = todo \ {n}
    /\ IF rows[n] = Malformed
       THEN skipped' = skipped + 1 /\ UNCHANGED <<best, considered>>
       ELSE /\ considered' = considered + 1
            /\ best' = IF /\ MatchesPattern(path, Pattern(n))
                          /\ \/ best = Unbound
                             \/ CompareSpecificity(Pattern(n), Pattern(best)) > 0
                       THEN n ELSE best
            /\ UNCHANGED skipped
    /\ UNCHANGED <<rows, path>>

\* The next write looks its own path up.
NextLookup(p) ==
    /\ todo = {}
    /\ path' = p
    /\ todo' = Bound
    /\ best' = Unbound
    /\ considered' = 0 /\ skipped' = 0
    /\ UNCHANGED rows

LookupNext == (\E n \in Names : ReadRow(n)) \/ (\E p \in PathSet : NextLookup(p))

LookupSpec == LookupInit /\ [][LookupNext]_lookupVars

--------------------------------------------------------------------------------
\* How a canonical pattern ranks against another by the defining order: more
\* literal segments, then deeper, then lower in byte order.
Dominates(s, t) ==
    \/ Literals(s) > Literals(t)
    \/ Literals(s) = Literals(t) /\ Len(s) > Len(t)
    \/ Literals(s) = Literals(t) /\ Len(s) = Len(t) /\ LexLess(s, t)

\* In every listing order the scan selects the one matching pattern that
\* dominates all others, enabled or not: a disabled specific row shadows a
\* general one, a malformed row does not, and a path is unaudited only when no
\* row matches it.
SelectsMostSpecific ==
    todo = {} =>
        /\ best = Unbound <=> Matching = {}
        /\ best # Unbound => best \in Matching /\
              \A n \in Matching : \/ Pattern(n) = Pattern(best)
                                 \/ Dominates(Pattern(best), Pattern(n))

\* Whichever way the directory is listed, the same setting wins.  The
\* specification says so; two rows with one canonical pattern refute it.
SelectionIgnoresListingOrder ==
    todo = {} /\ best # Unbound =>
        \A n \in Matching : Pattern(n) = Pattern(best) => rows[n].enabled = rows[best].enabled
================================================================================
