-------------------------- MODULE MCConformanceGates ---------------------------
(***************************************************************************)
(* One category and the core profile.  Assertions a1 and a2 are about one  *)
(* obligation, a3 about another, a4 and a5 are the core profile's, and a4  *)
(* is noisy; the oracle renames, drops, adds and swaps checks, and hands    *)
(* names on.                                                               *)
(***************************************************************************)
EXTENDS ConformanceGates, TLC

CONSTANTS a1, a2, a3, a4, a5, k1, k2, k3

MCAssertions == {a1, a2, a3, a4, a5}
MCRef == (a1 :> k1) @@ (a2 :> k1) @@ (a3 :> k2) @@ (a4 :> k3) @@ (a5 :> k3)
MCInStem == ("category" :> {a1, a2, a3}) @@ ("core" :> {a4, a5})
MCRounds == ("category" :> {1, 2}) @@ ("core" :> {2})
Original == (a1 :> 1) @@ (a2 :> 2) @@ (a3 :> 3) @@ (a4 :> 7) @@ (a5 :> 8)
Smaller == (a1 :> 1) @@ (a3 :> 6) @@ (a4 :> 7) @@ (a5 :> 8)          \* one dropped, one renamed
MCBuilds ==
    {Original, Smaller,
     (a1 :> 1) @@ (a2 :> 3) @@ (a4 :> 7) @@ (a5 :> 8),               \* one takes a dropped one's name
     (a1 :> 5) @@ (a2 :> 1) @@ (a3 :> 3) @@ (a4 :> 7) @@ (a5 :> 8),   \* one takes a renamed one's name,
     (a1 :> 3) @@ (a2 :> 2) @@ (a3 :> 6) @@ (a4 :> 7) @@ (a5 :> 8)}   \* of its obligation or another's
MCBare == (a1 :> "FAIL") @@ (a2 :> "FAIL") @@ (a3 :> "FAIL") @@ (a4 :> "PASS") @@ (a5 :> "PASS")
MCBodies ==
    {(a1 :> "PASS") @@ (a2 :> "FAIL") @@ (a3 :> "PASS") @@ (a4 :> "PASS") @@ (a5 :> "PASS"),
     (a1 :> "FAIL") @@ (a2 :> "PASS") @@ (a3 :> "PASS") @@ (a4 :> "PASS") @@ (a5 :> "PASS"),
     (a1 :> "PASS") @@ (a2 :> "WARN") @@ (a3 :> "-") @@ (a4 :> "FAIL") @@ (a5 :> "-")}

Row(text, oracle, ours, note) == [text |-> text, oracle |-> oracle, ours |-> ours, note |-> note]
MCContract == <<Row("r1", {1, 2}, FALSE, FALSE), Row("r2", {3}, FALSE, FALSE),
                Row("r3", {}, FALSE, TRUE)>>
MCCategoryOf == [n \in 1 .. 8 |-> IF n \in {7, 8} THEN "core" ELSE "history"]

Line(text, level) == [text |-> text, level |-> level]
Table(ids, rows) == [ids |-> ids, rows |-> rows]
MCTables ==
    {Table(ids, rows) : ids \in BOOLEAN, rows \in
        {<<Line("r1", "MUST"), Line("r3", "SHOULD"), Line("r2", "MUST")>>,
         <<Line("r1", "MUST"), Line("r2*", "MUST"), Line("r3", "SHOULD")>>,
         <<Line("r1", "MUST"), Line("r2", "SHALL"), Line("r3", "SHOULD"), Line("r4", "MAY")>>}}
    \cup {Table(TRUE, rows) : rows \in
        {<<Line("r1", "MUST"), Line("r2", "MUST NOT"), Line("r3", "SHOULD")>>,
         <<Line("r1", "MUST"), Line("r2", "MUST"), Line("r3", "SHOULD"), Line("r4", "MUST NOT")>>,
         <<Line("r1", "MUST"), Line("r2", "MAY")>>}}

\* The fresh checkout starts from the original oracle, an older tree possibly
\* from the smaller one.
MCGatesInit ==
    /\ GatesInit
    /\ build \in (IF reports = NoReports THEN {Original} ELSE {Original, Smaller})

MCGatesSpec == MCGatesInit /\ [][GatesNext]_gateVars
================================================================================
