----------------------------- MODULE HistoryPaging -----------------------------
(***************************************************************************)
(* The callers of query: any caller may ask anything, and one client reads *)
(* a whole chain page by page.  The protocol gives it has_more as the      *)
(* signal to go on and before as the only way to ask for older             *)
(* transitions, so it asks for what precedes the oldest one it got.        *)
(***************************************************************************)
EXTENDS HistoryQuery

VARIABLES
    got,     \* transitions the client has received
    goal,    \* the head its first page named
    status   \* "waiting", "reading" or "done"

clientVars == <<got, goal, status>>
pagingVars == <<queryVars, clientVars>>

PagingInit == QueryInit /\ got = {} /\ goal = 0 /\ status = "waiting"

\* Another caller, before the client starts.  The handler keeps nothing
\* between queries, so one of them is enough.
Other(q) == status = "waiting" /\ phase = "idle" /\ Ask(q) /\ UNCHANGED clientVars

\* The client may filter by event; it leaves since alone.
FirstPage(q) ==
    /\ status = "waiting"
    /\ q.limit > 0 /\ q.before = None /\ q.since = 0
    /\ Ask(q)
    /\ goal' = Len(chain)
    /\ status' = "reading"
    /\ UNCHANGED got

Received == got \cup {page[k] : k \in DOMAIN page}

\* More was promised: move the cursor to the oldest transition received, if
\* the page brought one, and ask again.
NextPage ==
    /\ phase = "answered" /\ status = "reading" /\ More
    /\ Ask([query EXCEPT !.before = IF page = <<>> THEN @ ELSE chain[page[Len(page)]].timestamp])
    /\ got' = Received
    /\ UNCHANGED <<goal, status>>

LastPage ==
    /\ phase = "answered" /\ status = "reading" /\ ~More
    /\ got' = Received
    /\ status' = "done"
    /\ UNCHANGED <<queryVars, goal>>

Served == Walk /\ UNCHANGED clientVars
Client == NextPage \/ LastPage
Rest == phase # "walking" /\ status # "reading" /\ UNCHANGED pagingVars

PagingNext ==
    \/ Grow /\ UNCHANGED clientVars
    \/ \E q \in Queries : q.since <= Len(chain) /\ (Other(q) \/ FirstPage(q))
    \/ Served
    \/ Client
    \/ Rest

\* The handler answers, and a client that reads goes on asking.
PagingFairness == WF_pagingVars(Served) /\ WF_pagingVars(Client)

PagingSpec == PagingInit /\ [][PagingNext]_pagingVars /\ PagingFairness

--------------------------------------------------------------------------------
NoneLost == \A i \in DOMAIN chain : Held(i)
ClockTicks ==
    \A i, j \in {k \in DOMAIN chain : Held(k)} : i < j => chain[i].timestamp < chain[j].timestamp

\* An answer that says there is more brings the client closer to it: has_more
\* is a continuation signal that loses no reachable transition.  The contract of
\* the extension says so; a chain longer than MaxWalk refutes it.
MoreCanContinue ==
    phase = "answered" /\ status = "reading" /\ More /\ NoneLost /\ ClockTicks => page # <<>>

Asked(i) == Held(i) /\ (query.events = None \/ chain[i].event \in query.events)

\* A client that keeps reading ends up with everything it set out to read,
\* however much is recorded meanwhile, unless the chain outgrows the walk bound,
\* two of its transitions are not in timestamp order, or the store lacks one.
ReadsWholeChain ==
    status = "reading" ~>
        \/ status = "done" /\ \A i \in 1 .. goal : Asked(i) => i \in got
        \/ Len(chain) > MaxWalk
        \/ ~NoneLost
        \/ ~ClockTicks
================================================================================
