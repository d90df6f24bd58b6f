----------------------------- MODULE ReactiveEngine ----------------------------
(***************************************************************************)
(* The compute extension's reactive mode: installed subgraphs are woken by *)
(* tree changes of the paths they read, re-evaluated, and their results    *)
(* written back into the tree, which may wake others: a cascade.  The      *)
(* event bus calls its consumers inside Store.bind, so a cascade is a call *)
(* stack; each serving thread has its own.                                 *)
(*                                                                         *)
(* A subgraph names its result path too.  The metadata, expression and     *)
(* process paths are read by no expression, so their events wake nothing.  *)
(***************************************************************************)
EXTENDS Naturals, Sequences, FiniteSets, SequencesExt

CONSTANTS
    Inputs,        \* paths written by callers and read by expressions
    Subgraphs,     \* installable subgraphs
    Expressions,   \* root expressions
    Reads,         \* paths an expression reads, in audit order
    Compute(_, _), \* Compute(e, env): value of e, env over its reads
    Primitives,    \* the values that are no entities
    Wrapped(_, _), \* Wrapped(e, v): the compute/result of e with a primitive v
    Sheets,        \* root expressions the subgraphs may start with
    Edits,         \* pairs <<s, e>>: callers may write e at s's root path
    Data, Errors,  \* entities that callers write; errors
    Unset,         \* an unbound path; an uninstalled subgraph
    Grants,        \* installation grants
    Threads,       \* serving threads
    Engine,        \* key of the engine-wide re-entrancy counter
    SharedReentry, \* TRUE: one counter per engine (Python); FALSE: per thread (Rust)
    CascadeLimit,  \* RECOMMENDED_MAX_CASCADE_DEPTH
    MaxRequests    \* bound: requests served

Paths == Inputs \cup Subgraphs
Values == Data \cup Errors
FreezeCodes == {"cascade_limit", "installation_grant_invalid"}
ReentryLimit == 2 * CascadeLimit
Metadata == [grant : Grants, status : {"active", "frozen"}]

ASSUME EngineAssumption ==
    /\ FreezeCodes \subseteq Errors
    /\ Unset \notin Values /\ Data \cap Errors = {}
    /\ Unset \notin Expressions /\ Unset \notin Metadata
    /\ Reads \in [Expressions -> Seq(Paths)]
    /\ \A e \in Expressions : IsInjective(Reads[e])
    /\ Sheets \subseteq [Subgraphs -> Expressions]
    /\ Edits \subseteq Subgraphs \X (Expressions \cup {Unset})
    /\ CascadeLimit \in Nat \ {0} /\ SharedReentry \in BOOLEAN

VARIABLES
    tree,      \* inputs and results: the entities at these paths
    meta,      \* system/compute/processes: grant and status of a subgraph
    expr,      \* the root expression of a subgraph, as the tree has it
    index,     \* _DependencyIndex: subgraphs watching a path, in order
    expired,   \* grants whose expires_at has passed
    reentry,   \* the re-entrancy counters
    stack,     \* per thread, its call stack, innermost call first
    requests   \* requests accepted so far

vars == <<tree, meta, expr, index, expired, reentry, stack, requests>>

Installed(s) == meta[s] # Unset

(***************************************************************************)
(* Call frames.                                                            *)
(***************************************************************************)
Event(p, d) == [op |-> "event", path |-> p, depth |-> d]
Wake(ss, d) == [op |-> "wake", todo |-> ss, depth |-> d]
Refuse(ss, d) == [op |-> "refuse", todo |-> ss, depth |-> d]
Evaluate(s, g, d) == [op |-> "evaluate", sub |-> s, grant |-> g, depth |-> d]
Publish(s, v, d) == [op |-> "publish", sub |-> s, value |-> v, depth |-> d]
Freeze(s, c, d) == [op |-> "freeze", sub |-> s, code |-> c, depth |-> d]
Mark(s, m) == [op |-> "mark", sub |-> s, meta |-> m]
Registration(s, ps) == [op |-> "register", sub |-> s, reads |-> ps]
Call(op, s) == [op |-> op, sub |-> s]   \* forget, evaluate_now, unbind

Top(t) == Head(stack[t])
At(t, op) == stack[t] # <<>> /\ Top(t).op = op
\* The innermost call goes on as the given frames (none: it returns).
Continue(t, frames) == stack' = [stack EXCEPT ![t] = frames \o Tail(@)]
Idle(t) == stack[t] = <<>>

Counter(t) == IF SharedReentry THEN Engine ELSE t

\* remove_subgraph: each list without its entries for s.
KeptUpTo(entries, s) ==
    LET kept[i \in 0 .. Len(entries)] ==
            IF i = 0 THEN <<>>
            ELSE IF entries[i] = s THEN kept[i - 1] ELSE Append(kept[i - 1], entries[i])
    IN  kept
Removed(s) == [p \in Paths |-> KeptUpTo(index[p], s)[Len(index[p])]]

\* Store.bind of a watched path: an unchanged binding fires no event.
Bind(t, p, v, d, rest) ==
    /\ tree' = [tree EXCEPT ![p] = v]
    /\ Continue(t, IF tree[p] = v THEN rest ELSE <<Event(p, d)>> \o rest)

Init ==
    /\ tree = [p \in Paths |-> Unset]
    /\ meta = [s \in Subgraphs |-> Unset]
    /\ expr \in Sheets
    /\ index = [p \in Paths |-> <<>>]
    /\ expired = {}
    /\ reentry = [k \in Threads \cup {Engine} |-> 0]
    /\ stack = [t \in Threads |-> <<>>]
    /\ requests = 0

--------------------------------------------------------------------------------
(***************************************************************************)
(* Requests.                                                               *)
(***************************************************************************)
Accept(t) == Idle(t) /\ requests < MaxRequests /\ requests' = requests + 1

Put(t, p, v) ==
    /\ Accept(t)
    /\ tree[p] # v
    /\ tree' = [tree EXCEPT ![p] = v]
    /\ stack' = [stack EXCEPT ![t] = <<Event(p, 0)>>]
    /\ UNCHANGED <<meta, expr, index, expired, reentry>>

\* Phases 1 to 3 of install: the audit passed, the metadata is bound.  What
\* will be registered is what the audit found.
Install(t, s, g) ==
    /\ Accept(t)
    /\ expr[s] # Unset /\ g \notin expired
    /\ meta' = [meta EXCEPT ![s] = [grant |-> g, status |-> "active"]]
    /\ stack' = [stack EXCEPT ![t] = <<Registration(s, Reads[expr[s]])>>]
    /\ UNCHANGED <<tree, expr, index, expired, reentry>>

Uninstall(t, s) ==
    /\ Accept(t)
    /\ Installed(s)
    /\ index' = Removed(s)
    /\ stack' = [stack EXCEPT ![t] = <<Call("unbind", s)>>]
    /\ UNCHANGED <<tree, meta, expr, expired, reentry>>

\* A caller replaces, deletes or re-creates the root expression.
Edit(t, s, e) ==
    /\ Accept(t)
    /\ <<s, e>> \in Edits /\ expr[s] # e
    /\ expr' = [expr EXCEPT ![s] = e]
    /\ UNCHANGED <<tree, meta, index, expired, reentry, stack>>

\* The clock passes a grant's expires_at.
Expire(g) ==
    /\ g \notin expired
    /\ expired' = expired \cup {g}
    /\ UNCHANGED <<tree, meta, expr, index, reentry, stack, requests>>

(***************************************************************************)
(* The calls a request makes.                                              *)
(***************************************************************************)
BackstopOffByOne(t) == reentry[Counter(t)] > ReentryLimit
OverBackstop(t) == reentry[Counter(t)] >= ReentryLimit

\* on_tree_change: match, then the re-entrancy backstop.
OnTreeChange(t) ==
    LET f == Top(t)
        entries == index[f.path]
    IN  /\ At(t, "event")
        /\ Continue(t, IF entries = <<>> THEN <<>>
                       ELSE IF OverBackstop(t) THEN <<Refuse(entries, f.depth)>>
                       ELSE <<Wake(entries, f.depth)>>)
        /\ reentry' = IF entries = <<>> \/ OverBackstop(t) THEN reentry
                      ELSE [reentry EXCEPT ![Counter(t)] = @ + 1]
        /\ UNCHANGED <<tree, meta, expr, index, expired, requests>>

ReturnsAtFrozen(t) ==
    LET f == Top(t)
        s == Head(f.todo)
        call == IF ~Installed(s) THEN <<Call("forget", s)>>
                ELSE IF f.depth >= CascadeLimit THEN <<Freeze(s, "cascade_limit", f.depth)>>
                ELSE <<Evaluate(s, meta[s].grant, f.depth)>>
    IN  /\ At(t, "wake") /\ f.todo # <<>>
        /\ Continue(t, IF Installed(s) /\ meta[s].status = "frozen" THEN <<Wake(<<>>, f.depth)>>
                       ELSE call \o <<Wake(Tail(f.todo), f.depth)>>)
        /\ UNCHANGED <<tree, meta, expr, index, expired, reentry, requests>>

\* One matched entry: stale, frozen, too deep, or to be re-evaluated.
WakeNext(t) ==
    LET f == Top(t)
        s == Head(f.todo)
        call == IF ~Installed(s) THEN <<Call("forget", s)>>
                ELSE IF meta[s].status = "frozen" THEN <<>>
                ELSE IF f.depth >= CascadeLimit THEN <<Freeze(s, "cascade_limit", f.depth)>>
                ELSE <<Evaluate(s, meta[s].grant, f.depth)>>
    IN  /\ At(t, "wake") /\ f.todo # <<>>
        /\ Continue(t, call \o <<Wake(Tail(f.todo), f.depth)>>)
        /\ UNCHANGED <<tree, meta, expr, index, expired, reentry, requests>>

NeverLeaves(t) ==
    /\ At(t, "wake") /\ Top(t).todo = <<>>
    /\ Continue(t, <<>>)
    /\ UNCHANGED <<tree, meta, expr, index, expired, reentry, requests>>

WakeDone(t) ==
    /\ At(t, "wake") /\ Top(t).todo = <<>>
    /\ reentry' = [reentry EXCEPT ![Counter(t)] = @ - 1]
    /\ Continue(t, <<>>)
    /\ UNCHANGED <<tree, meta, expr, index, expired, requests>>

RefusesForever(t) ==
    LET f == Top(t)
    IN  /\ At(t, "refuse")
        /\ Continue(t, IF f.todo = <<>> THEN <<>>
                       ELSE <<Freeze(Head(f.todo), "cascade_limit", f.depth), f>>)
        /\ UNCHANGED <<tree, meta, expr, index, expired, reentry, requests>>

\* Over the backstop every matched subgraph is frozen.
RefuseNext(t) ==
    LET f == Top(t)
    IN  /\ At(t, "refuse")
        /\ Continue(t, IF f.todo = <<>> THEN <<>>
                       ELSE <<Freeze(Head(f.todo), "cascade_limit", f.depth),
                              Refuse(Tail(f.todo), f.depth)>>)
        /\ UNCHANGED <<tree, meta, expr, index, expired, reentry, requests>>

\* What an expression reads from the tree.
Env(e) == [i \in DOMAIN Reads[e] |-> tree[Reads[e][i]]]

\* What is bound of a value: a primitive with the hash of the expression it is of,
\* an error or another entity as itself.
ResultEntity(e, v) == IF v \in Primitives THEN Wrapped(e, v) ELSE v
Outcome(e) == ResultEntity(e, Compute(e, Env(e)))

\* re_evaluate up to its outcome: grant, expression as it now is, evaluation.
ReEvaluate(t) ==
    LET f == Top(t)
        s == f.sub
        e == expr[s]
    IN  /\ At(t, "evaluate")
        /\ Continue(t, IF f.grant \in expired
                       THEN <<Freeze(s, "installation_grant_invalid", f.depth)>>
                       ELSE IF e = Unset THEN <<Call("forget", s)>>
                       ELSE <<Publish(s, Outcome(e), f.depth)>>)
        /\ UNCHANGED <<tree, meta, expr, index, expired, reentry, requests>>

\* The result is written unless it is there already, from the same expression.  An
\* error is a result, written at the depth it came from; a value goes one deeper.
PublishResult(t) ==
    LET f == Top(t)
    IN  /\ At(t, "publish")
        /\ Bind(t, f.sub, f.value, IF f.value \in Errors THEN f.depth ELSE f.depth + 1, <<>>)
        /\ UNCHANGED <<meta, expr, index, expired, reentry, requests>>

\* freeze reads the metadata and writes the error to the result path ...
FreezeResult(t) ==
    LET f == Top(t)
    IN  /\ At(t, "freeze")
        /\ IF Installed(f.sub) THEN Bind(t, f.sub, f.code, f.depth, <<Mark(f.sub, meta[f.sub])>>)
                               ELSE Continue(t, <<>>) /\ UNCHANGED tree
        /\ UNCHANGED <<meta, expr, index, expired, reentry, requests>>

\* ... and then the metadata it read back, frozen.
MarkFrozen(t) ==
    LET f == Top(t)
    IN  /\ At(t, "mark")
        /\ meta' = [meta EXCEPT ![f.sub] = [f.meta EXCEPT !.status = "frozen"]]
        /\ Continue(t, <<>>)
        /\ UNCHANGED <<tree, expr, index, expired, reentry, requests>>

\* Stale registrations are dropped.
Forget(t) ==
    /\ At(t, "forget")
    /\ index' = Removed(Top(t).sub)
    /\ Continue(t, <<>>)
    /\ UNCHANGED <<tree, meta, expr, expired, reentry, requests>>

\* Phase 4 of install: a re-install replaces its registrations.
Register(t) ==
    LET s == Top(t).sub
    IN  /\ At(t, "register")
        /\ index' = [p \in Paths |-> IF Contains(Top(t).reads, p) THEN Append(Removed(s)[p], s)
                                                              ELSE Removed(s)[p]]
        /\ Continue(t, <<Call("evaluate_now", s)>>)
        /\ UNCHANGED <<tree, meta, expr, expired, reentry, requests>>

EvaluateNow(t) ==
    LET s == Top(t).sub
    IN  /\ At(t, "evaluate_now")
        /\ Continue(t, IF Installed(s) THEN <<Evaluate(s, meta[s].grant, 0)>> ELSE <<>>)
        /\ UNCHANGED <<tree, meta, expr, index, expired, reentry, requests>>

Unbind(t) ==
    /\ At(t, "unbind")
    /\ meta' = [meta EXCEPT ![Top(t).sub] = Unset]
    /\ Continue(t, <<>>)
    /\ UNCHANGED <<tree, expr, index, expired, reentry, requests>>

Run(t) ==
    \/ OnTreeChange(t) \/ WakeNext(t) \/ WakeDone(t) \/ RefuseNext(t)
    \/ ReEvaluate(t) \/ PublishResult(t) \/ FreezeResult(t) \/ MarkFrozen(t)
    \/ Forget(t) \/ Register(t) \/ EvaluateNow(t) \/ Unbind(t)

Request(t) ==
    \/ \E p \in Inputs, v \in Data : Put(t, p, v)
    \/ \E s \in Subgraphs, g \in Grants : Install(t, s, g)
    \/ \E s \in Subgraphs : Uninstall(t, s)
    \/ \E edit \in Edits : Edit(t, edit[1], edit[2])

Quiet == \A t \in Threads : Idle(t)
Rest == Quiet /\ UNCHANGED vars

Next ==
    \/ Rest
    \/ \E g \in Grants : Expire(g)
    \/ \E t \in Threads : Request(t) \/ Run(t)

Spec == Init /\ [][Next]_vars

\* A thread keeps executing the call it is in.
FairSpec == Spec /\ \A t \in Threads : WF_vars(Run(t))

--------------------------------------------------------------------------------
Frames(t, op) == {i \in DOMAIN stack[t] : stack[t][i].op = op}

\* The backstop bounds the recursion of every thread, even where error writes
\* leave the cascade depth where it was.
StackBounded == \A t \in Threads : Cardinality(Frames(t, "wake")) <= ReentryLimit

\* A subgraph is frozen with cascade_limit only by a cascade that is too long
\* or by a call stack that is itself too deep inside Store.bind.
CascadeFreezeJustified ==
    \A t \in Threads : \A i \in Frames(t, "freeze") :
        stack[t][i].code = "cascade_limit" =>
            \/ stack[t][i].depth >= CascadeLimit
            \/ Cardinality(Frames(t, "wake")) >= ReentryLimit

\* So it is, and once the cascades are over, whoever reads a frozen subgraph's
\* result finds the reason it was frozen, whatever it was evaluating then.
FreezesAreJustified ==
    /\ CascadeFreezeJustified
    /\ Quiet => \A s \in Subgraphs :
          Installed(s) /\ meta[s].status = "frozen" => tree[s] \in FreezeCodes

Active(s) == Installed(s) /\ meta[s].status = "active"
Watches(s) == {p \in Paths : Contains(index[p], s)}

\* Every cascade ends: a request that wakes subgraphs, even ones that feed on
\* each other's values or errors, is answered.
EveryRequestIsAnswered == \A t \in Threads : ~Idle(t) ~> Idle(t)
================================================================================
