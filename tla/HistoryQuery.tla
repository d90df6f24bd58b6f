----------------------------- MODULE HistoryQuery ------------------------------
(***************************************************************************)
(* The query operation of system/history: a walk from the head pointer     *)
(* back to the first transition, with its filters and bounds, while the    *)
(* recorder goes on extending the chain.  Transitions are immutable, so a  *)
(* transition is named by its position, 1 the oldest; 0 is no transition.  *)
(* The head pointer is an ordinary path, so someone other than the recorder *)
(* may have bound it first, to a transition whose previous the store lacks: *)
(* such a chain has a Lost transition at its end.                          *)
(***************************************************************************)
EXTENDS Naturals, Sequences

CONSTANTS
    Events,      \* event names a transition carries
    Timestamps,  \* readings of the recorder's clock
    Limits,      \* values of the limit parameter
    Filters,     \* values of the events parameter
    Sinces,      \* values of the since parameter, 0 when it is absent
    MaxWalk,     \* DEFAULT_MAX_WALK
    Recordings,  \* bound: the transitions that the recorder appends
    MaxChain,    \* bound: length of the chain
    None,        \* an absent parameter, or no query in progress
    Lost         \* a transition that the content store does not hold

Transition == [event : Events, timestamp : Timestamps]

ASSUME QueryAssumption ==
    /\ Timestamps \subseteq Nat /\ Limits \subseteq Nat /\ Sinces \subseteq Nat
    /\ Filters \subseteq SUBSET Events
    /\ MaxWalk \in Nat \ {0} /\ MaxChain \in Nat
    /\ None \notin Timestamps /\ Lost \notin Transition
    /\ Recordings \subseteq Transition

Queries == [limit : Limits, before : Timestamps \cup {None}, since : Sinces,
            events : Filters \cup {None}]

VARIABLES
    chain,    \* the path's transitions, oldest first
    query,    \* parameters of the query in progress, or None
    head,     \* the head it read
    current,  \* the transition the walk is at
    walked,   \* transitions it has fetched
    page,     \* what it has collected, newest first
    phase     \* "idle", "walking" or "answered"

walkVars == <<query, head, current, walked, page, phase>>
queryVars == <<chain, walkVars>>

Held(i) == chain[i] # Lost

QueryInit ==
    /\ chain \in {<<>>} \cup {<<Lost, t>> : t \in Recordings}
    /\ query = None
    /\ head = 0 /\ current = 0 /\ walked = 0
    /\ page = <<>>
    /\ phase = "idle"

\* The recorder advances the head.  Its clock may stand still or be set back.
Record(t) ==
    /\ Len(chain) < MaxChain
    /\ chain' = Append(chain, t)
    /\ UNCHANGED walkVars

\* Read the parameters and the head; without a head the answer is empty.
Ask(q) ==
    /\ phase # "walking"
    /\ query' = q
    /\ head' = Len(chain) /\ current' = Len(chain)
    /\ walked' = 0
    /\ page' = <<>>
    /\ phase' = IF chain = <<>> THEN "answered" ELSE "walking"
    /\ UNCHANGED chain

MoreThanOne == current > 1
More == current # 0
Continues == More /\ Len(page) < query.limit /\ walked < MaxWalk
\* The walk has a transition to look at.
Fetches == phase = "walking" /\ Continues /\ Held(current)
AtSince == query.since # 0 /\ current = query.since
BeforeInclusive(i) ==
    \/ query.before # None /\ chain[i].timestamp > query.before
    \/ query.events # None /\ chain[i].event \notin query.events
FilteredOut(i) ==
    \/ query.before # None /\ chain[i].timestamp >= query.before
    \/ query.events # None /\ chain[i].event \notin query.events

\* The loop condition fails.
Finish ==
    /\ phase = "walking" /\ ~Continues
    /\ phase' = "answered"
    /\ UNCHANGED <<chain, query, head, current, walked, page>>

\* The store lacks the transition: the walk ends before it counts it, and
\* has_more stays true.
Break ==
    /\ phase = "walking" /\ Continues /\ ~Held(current)
    /\ phase' = "answered"
    /\ UNCHANGED <<chain, query, head, current, walked, page>>

\* since is an exclusive lower bound: reaching it ends the walk.
StopAtSince ==
    /\ Fetches /\ AtSince
    /\ walked' = walked + 1
    /\ phase' = "answered"
    /\ UNCHANGED <<chain, query, head, current, page>>

\* before and events skip one transition and walk on.
PassOver ==
    /\ Fetches /\ ~AtSince /\ FilteredOut(current)
    /\ walked' = walked + 1
    /\ current' = current - 1
    /\ UNCHANGED <<chain, query, head, page, phase>>

Collect ==
    /\ Fetches /\ ~AtSince /\ ~FilteredOut(current)
    /\ walked' = walked + 1
    /\ page' = Append(page, current)
    /\ current' = current - 1
    /\ UNCHANGED <<chain, query, head, phase>>

Walk == Finish \/ Break \/ StopAtSince \/ PassOver \/ Collect
Grow == \E t \in Recordings : Record(t)

--------------------------------------------------------------------------------
Wanted(i) ==
    /\ i \in 1 .. head /\ Held(i)
    /\ i > query.since
    /\ query.before = None \/ chain[i].timestamp < query.before
    /\ query.events = None \/ chain[i].event \in query.events

\* An answer holds exactly the wanted transitions of the stretch it walked,
\* newest first: none is skipped, repeated or out of order, and what it does
\* not hold lies beyond the point has_more admits to not having passed.  One
\* that promises more and is short of its limit was cut by the walk bound,
\* by since or by a transition that the store lacks.
AnswerIsExact ==
    phase = "answered" =>
        /\ \A k \in DOMAIN page : Wanted(page[k])
        /\ \A k \in 1 .. Len(page) - 1 : page[k] > page[k + 1]
        /\ \A i \in 1 .. head : Wanted(i) =>
              (\E k \in DOMAIN page : page[k] = i) \/ (More /\ i <= current)
        /\ Len(page) <= query.limit /\ walked <= MaxWalk
        /\ More /\ Len(page) < query.limit =>
              walked = MaxWalk \/ current = query.since \/ ~Held(current)
================================================================================
