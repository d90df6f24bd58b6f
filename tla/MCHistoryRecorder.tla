--------------------------- MODULE MCHistoryRecorder ---------------------------
(***************************************************************************)
(* Two serving threads, one audited path, its configuration coming, going  *)
(* and changing under them.                                                *)
(***************************************************************************)
EXTENDS HistoryRecorder, TLC

CONSTANTS a, c1, t1, t2, v1, v2, alice

General == [covers |-> {a, c1}, literals |-> 1, depth |-> 2, canon |-> 1,
            enabled |-> TRUE, excluded |-> {}, events |-> EventTypes]

MCPaths == {a}
MCConfigPaths == {c1}
MCRules == {General}
MCThreads == {t1, t2}
MCCallers == {alice}
MCMayRollback == {<<alice, a>>}
MCMaxCommits == [p \in {a, c1} |-> IF p = a THEN 2 ELSE 1]

Symmetry == Permutations({t1, t2}) \cup Permutations({v1, v2})
================================================================================
