------------------------------- MODULE MCHistory -------------------------------
(***************************************************************************)
(* A peer that serves in turn, with two configuration slots and rules that *)
(* overlap, shadow one another, exclude a path and filter events; and one  *)
(* with two threads, one audited path and one slot whose configuration     *)
(* comes, goes and changes under them.                                     *)
(***************************************************************************)
EXTENDS HistoryAudit, TLC

CONSTANTS a, c1, c2, t1, t2, v1, v2, alice

General == [covers |-> {a, c1, c2}, literals |-> 1, depth |-> 2, canon |-> 1,
            enabled |-> TRUE, excluded |-> {c1}, events |-> EventTypes]
\* More specific by depth only, and filters.
Narrow == [covers |-> {a, c1}, literals |-> 1, depth |-> 3, canon |-> 2,
           enabled |-> TRUE, excluded |-> {}, events |-> {"created", "updated"}]
\* Most specific, and switches auditing off.
Off == [covers |-> {a}, literals |-> 2, depth |-> 3, canon |-> 3,
        enabled |-> FALSE, excluded |-> {}, events |-> EventTypes]
\* The one of the threads' peer: it audits its own directory, too.
Plain == [covers |-> {a, c1}, literals |-> 1, depth |-> 2, canon |-> 4,
          enabled |-> TRUE, excluded |-> {}, events |-> EventTypes]

MCPaths == {a}
MCConfigPaths == {c1, c2}
MCRules == {General, Narrow, Off, Plain}
MCThreads == {t1, t2}
MCCallers == {alice}
MCMayRollback == {<<alice, a>>, <<alice, c1>>}
MCMaxCommits == (a :> 2) @@ (c1 :> 1) @@ (c2 :> 0)

Instance ==
    IF serial
    THEN tree[a] # v2 /\ Plain \notin {tree[c1], tree[c2]}
    ELSE tree[c1] \in {Plain, Malformed, Absent} /\ tree[c2] = Absent

MCHistoryInit == AuditInit /\ Instance
MCHistoryNext == AuditNext /\ Instance'
MCHistorySpec ==
    /\ MCHistoryInit
    /\ [][MCHistoryNext]_<<vars, serial>>
    /\ RecorderFairness
================================================================================
