------------------------------ MODULE HistoryAudit -----------------------------
(***************************************************************************)
(* The recorder on the two kinds of peer: threads that serve requests side *)
(* by side, as the Python and the Rust peer's do, or requests served one   *)
(* at a time, as by the TypeScript peer's event loop.  On the second kind  *)
(* it implements the audit log: a change still being delivered counts as   *)
(* logged if the recorder is going to record it.                           *)
(***************************************************************************)
EXTENDS HistoryRecorder

VARIABLE serial   \* the peer serves one request at a time

\* Two configurations with one canonical pattern would make the selection
\* depend on the order the configuration directory lists them in.
ASSUME DistinctPatterns ==
    \A r, q \in Rules :
        <<r.literals, r.depth, r.canon>> = <<q.literals, q.depth, q.canon>> => r = q

\* The configuration that governs path p under the current tree, if any.
InForce(p) ==
    LET cover == {r \in Rules : p \in r.covers /\ \E c \in ConfigPaths : tree[c] = r}
    IN  {r \in cover : \A q \in cover : ~Outranks(q, r)}

\* Thread t is delivering a change of p that will end in p's chain.
WillRecord(t, p) ==
    /\ phase[t] \in {"emitted", "scanning", "advancing"}
    /\ change[t].path = p
    /\ \E r \in InForce(p) : Audits(r, change[t])

\* The audit log a path has: its chain and the change on its way into it.
Log == [p \in TreePaths |->
          IF \E t \in Threads : WillRecord(t, p)
          THEN Append(chain[p], Transition(change[CHOOSE t \in Threads : WillRecord(t, p)]))
          ELSE chain[p]]

Nothing == [p \in TreePaths |-> Absent]
Empty == [p \in TreePaths |-> <<>>]
Audit == INSTANCE AuditLog WITH
             tree <- IF serial THEN tree ELSE Nothing,
             log <- IF serial THEN Log ELSE Empty

InTurn == serial => \A s, t \in Threads : s # t => "idle" \in {phase[s], phase[t]}

AuditInit == Init /\ serial \in BOOLEAN
AuditNext == Next /\ UNCHANGED serial /\ InTurn'

AuditSpec ==
    /\ AuditInit
    /\ [][AuditNext]_<<vars, serial>>
    /\ RecorderFairness

\* The recorder, with its events, directory scan and head advance, does to the
\* tree and the audit chains what one atomic audited write would do, where
\* requests are served one at a time.
ImplementsAuditLog == Audit!Spec
================================================================================
