------------------------------- MODULE AuditLog --------------------------------
(***************************************************************************)
(* What the history extension promises, seen from outside: a change of a   *)
(* path and the entry of its audit log are one step, and the entry is made *)
(* exactly when the most specific configuration in force right after the   *)
(* change asks for it.                                                     *)
(***************************************************************************)
EXTENDS Naturals, Sequences

CONSTANTS Paths, ConfigPaths, Values, Rules, Malformed, Absent, Callers,
          LocalPeer, MayRollback

TreePaths == Paths \cup ConfigPaths
Storable(p) == IF p \in ConfigPaths THEN Rules \cup {Malformed} ELSE Values

VARIABLES tree, log

MoreSpecific(a, b) ==
    \/ a.literals > b.literals
    \/ a.literals = b.literals /\ a.depth > b.depth
    \/ a.literals = b.literals /\ a.depth = b.depth /\ a.canon < b.canon

Covering(tr, p) == {r \in Rules : p \in r.covers /\ \E c \in ConfigPaths : tr[c] = r}

\* The configurations that may govern p: one, unless two share their pattern.
Governing(tr, p) ==
    {r \in Covering(tr, p) : \A q \in Covering(tr, p) : ~MoreSpecific(q, r)}

Demands(r, p, event) == r.enabled /\ p \notin r.excluded /\ event \in r.events

EventOf(old, new) ==
    IF old = Absent THEN "created" ELSE IF new = Absent THEN "deleted" ELSE "updated"

Entry(p, v, author, op) ==
    [event |-> EventOf(tree[p], v), hash |-> v, previous_hash |-> tree[p],
     author |-> author, operation |-> op]

Init ==
    /\ tree \in {f \in [TreePaths -> Values \cup Rules \cup {Malformed, Absent}] :
                   \A p \in TreePaths : f[p] \in Storable(p) \cup {Absent}}
    /\ log = [p \in TreePaths |-> <<>>]

Change(p, v, author, op) ==
    LET e == Entry(p, v, author, op)
        asked == \E r \in Governing(tree', p) : Demands(r, p, e.event)
    IN  /\ tree[p] # v
        /\ tree' = [tree EXCEPT ![p] = v]
        /\ log' = IF asked THEN [log EXCEPT ![p] = Append(@, e)] ELSE log

Write(p) ==
    \E v \in Storable(p) \cup {Absent}, a \in Callers \cup {LocalPeer} :
        Change(p, v, a, "put")

\* A rollback re-installs a value the path's own log names.
Restore(p) ==
    \E v \in Storable(p), a \in Callers :
        /\ <<a, p>> \in MayRollback
        /\ \E i \in DOMAIN log[p] : v \in {log[p][i].hash, log[p][i].previous_hash}
        /\ Change(p, v, a, "rollback")

Next == \E p \in TreePaths : Write(p) \/ Restore(p)

Spec == Init /\ [][Next]_<<tree, log>>
================================================================================
