---------------------------- MODULE ReactiveRestart ----------------------------
(***************************************************************************)
(* The reactive engine across a restart of its peer.  The tree survives,   *)
(* with expressions, results and subgraph metadata; the dependency index,  *)
(* the re-entrancy counters and the calls being served are in memory and   *)
(* gone.  install_compute rebuilds the index from the metadata before the  *)
(* peer listens again, and evaluates nothing.                              *)
(***************************************************************************)
EXTENDS ReactiveEngine

CONSTANTS
    Reaudited,     \* expressions whose audit passes without an installer
    MaxRestarts    \* bound: restarts

ASSUME RestartAssumption == Reaudited \subseteq Expressions /\ MaxRestarts \in Nat

VARIABLES
    rows,      \* listed subgraphs that rebuild has not come to
    restarts,  \* restarts so far
    cut        \* subgraphs left with another result than theirs

restartVars == <<rows, restarts, cut>>
peerVars == <<vars, restartVars>>

PeerInit == Init /\ rows = {} /\ restarts = 0 /\ cut = {}

\* The calls on thread t's stack would still evaluate, publish or freeze s.
WouldTouch(t, s) ==
    \E i \in DOMAIN stack[t] :
        LET f == stack[t][i]
        IN  CASE f.op = "event" -> Contains(index[f.path], s)
              [] f.op \in {"wake", "refuse"} -> Contains(f.todo, s)
              [] OTHER -> f.sub = s

\* s was edited, and is not woken by all that it now reads.
Outrun(s) ==
    /\ s \notin rows /\ Installed(s) /\ expr[s] # Unset
    /\ ~(ToSet(Reads[expr[s]]) \subseteq Watches(s))

\* s has another result than its expression gives.
Stale(s) == expr[s] # Unset /\ tree[s] # Outcome(expr[s])

\* The process ends, whatever it was doing.
Restart ==
    /\ restarts < MaxRestarts
    /\ restarts' = restarts + 1
    /\ stack' = [t \in Threads |-> <<>>]
    /\ reentry' = [k \in DOMAIN reentry |-> 0]
    /\ index' = [p \in Paths |-> <<>>]
    /\ rows' = {s \in Subgraphs : Installed(s)}
    /\ cut' = cut \cup {s \in Subgraphs : Outrun(s) \/ \E t \in Threads : WouldTouch(t, s)}
    /\ UNCHANGED <<tree, meta, expr, expired, requests>>

\* Mutant: a listed segment is taken for a path, and no row is found at it.
RebuildsNothing(s) ==
    /\ s \in rows
    /\ rows' = rows \ {s}
    /\ UNCHANGED <<vars, restarts, cut>>

\* One row of system/compute/processes, in whatever order the store lists
\* them: registered by its expression as it now is, frozen or not, unless the
\* expression is gone or its audit refuses.
Rebuild(s) ==
    /\ s \in rows
    /\ rows' = rows \ {s}
    /\ index' = IF expr[s] \in Reaudited
                THEN [p \in Paths |-> IF Contains(Reads[expr[s]], p) THEN Append(index[p], s)
                                                                    ELSE index[p]]
                ELSE index
    /\ UNCHANGED <<tree, meta, expr, expired, reentry, stack, requests, restarts, cut>>

Serving == rows = {}

\* Serving goes on.  A result that is published makes up for all that went before,
\* unless another thread has overtaken its evaluation.
Serve(t) ==
    /\ Serving
    /\ Run(t)
    /\ LET published == IF At(t, "publish") THEN {Top(t).sub} ELSE {}
       IN  cut' = (cut \ published) \cup {s \in published : Threads # {t} /\ Stale(s)'}
    /\ UNCHANGED <<rows, restarts>>

\* What a caller writes at a result path or a root path does not wake its subgraph.
Arrive(t) ==
    LET written == {s \in Subgraphs : expr'[s] # expr[s] \/ tree'[s] # tree[s]} IN
    /\ Serving
    /\ Request(t)
    /\ cut' = (cut \ written) \cup {s \in written : Stale(s)'}
    /\ UNCHANGED <<rows, restarts>>

PeerNext ==
    \/ Rest /\ UNCHANGED restartVars
    \/ Restart
    \/ \E s \in Subgraphs : Rebuild(s)
    \/ \E g \in Grants : Expire(g) /\ UNCHANGED restartVars
    \/ \E t \in Threads : Arrive(t) \/ Serve(t)

\* install_compute rebuilds before the peer listens, and a thread keeps
\* executing the call it is in.
PeerFairness ==
    /\ \A s \in Subgraphs : WF_peerVars(Rebuild(s))
    /\ \A t \in Threads : WF_peerVars(Serve(t))

PeerSpec == PeerInit /\ [][PeerNext]_peerVars /\ PeerFairness

--------------------------------------------------------------------------------
\* Once every request is answered, the result of an active subgraph that watches
\* all that its expression reads is what its expression gives over the tree as it
\* then is: no wake-up was lost, in whatever order installations, edits, freezes,
\* lapsing grants and cascades came.  Left stale, until they are next published, are
\* only results whose wake-up a restart cut off, or whose expression it found
\* edited; those that a caller wrote over, or under an expression it replaced; and,
\* where several threads serve, those that an overtaken evaluation published last.
FreshUnlessCut ==
    Quiet => \A s \in Subgraphs \ cut :
        Active(s) /\ expr[s] # Unset /\ ToSet(Reads[expr[s]]) \subseteq Watches(s) => ~Stale(s)

\* Whenever the peer serves and every request is answered, the index and the
\* metadata agree, also after a restart: what is watched is installed and watches
\* all that some expression of it reads, and an active subgraph whose expression
\* nobody edits, and an audit without an installer accepts, is watched.
IndexMatchesTree ==
    Quiet /\ Serving => \A s \in Subgraphs :
        /\ Watches(s) # {} => Installed(s) /\ \E e \in Expressions : Watches(s) = ToSet(Reads[e])
        /\ (Active(s) /\ expr[s] \in Reaudited /\ \A edit \in Edits : edit[1] # s)
              => Watches(s) = ToSet(Reads[expr[s]])
================================================================================
