---------------------------- MODULE HistoryRecorder ----------------------------
(***************************************************************************)
(* The history extension's recorder: a consumer of the peer's tree-change  *)
(* events that appends an audit transition to a per-path chain whenever    *)
(* the most specific configuration covering the written path asks for it.  *)
(* One process per thread that serves requests; a thread delivers the      *)
(* event of its own write, synchronously, after Store.bind has released    *)
(* its lock, so the reads below interleave with other threads' writes.     *)
(*                                                                         *)
(* Transitions are content addressed and immutable, so a head pointer is   *)
(* represented by the sequence of transitions reachable from it.           *)
(***************************************************************************)
EXTENDS Naturals, Sequences, FiniteSets, SequencesExt

CONSTANTS
    Paths,        \* ordinary tree paths
    ConfigPaths,  \* system/history/config/* of the local peer
    Values,       \* entities an ordinary path may hold
    Rules,        \* well-formed configurations, see RuleAssumption
    Malformed,    \* a configuration entity _parse_config rejects
    Absent,       \* an unbound path, a missing field, no configuration
    Threads,      \* serving threads (TypeScript: exactly one)
    Callers,      \* authors an execution context can carry
    LocalPeer,    \* the peer's own identity, author of autonomous writes
    Autonomous,   \* the missing execution context of an autonomous write
    MayRollback,  \* pairs <<caller, path>> _check_target_access lets through
    MaxCommits    \* bound: changes per path before writers stop asking

TreePaths == Paths \cup ConfigPaths
EventTypes == {"created", "updated", "deleted"}
CoreEvents == {"created", "modified", "deleted"}
Configs == Rules \cup {Malformed}
Content == Values \cup Configs

\* The entities that may be written at a path.
Writable(p) == IF p \in ConfigPaths THEN Configs ELSE Values

ASSUME RuleAssumption ==
    Rules \subseteq [covers : SUBSET TreePaths, literals : Nat, depth : Nat,
                     canon : Nat, enabled : BOOLEAN,
                     excluded : SUBSET TreePaths, events : SUBSET EventTypes]

ASSUME ConstantAssumption ==
    /\ Absent \notin Content
    /\ Malformed \notin Rules
    /\ MayRollback \subseteq Callers \X TreePaths
    /\ LocalPeer \notin Callers
    /\ Autonomous \notin Callers
    /\ MaxCommits \in [TreePaths -> Nat]

Writers == Callers \cup {Autonomous}
Changes == [path : TreePaths, kind : CoreEvents, new : Content \cup {Absent},
            prev : Content \cup {Absent}, who : Writers,
            op : {"put", "rollback"}]
Transitions == [event : EventTypes, hash : Content \cup {Absent},
                previous_hash : Content \cup {Absent},
                author : Callers \cup {LocalPeer}, operation : {"put", "rollback"}]
Counters == {"observed", "recorded", "self_guard", "unconfigured", "fallback", "context"}
Restores == [path : TreePaths, target : Content, who : Callers]

VARIABLES
    tree,      \* the store's bindings, head pointers aside
    chain,     \* per path, what system/history/head/<path> reaches, oldest first
    commits,   \* per path, every change the store made, in lock order
    reported,  \* per path, HistoryRecorder.recorded_transitions
    stats,     \* RecorderStats
    phase,     \* per thread, where it is in its write
    change,    \* per thread, the event it delivers
    todo,      \* per thread, listed configurations not read yet
    best,      \* per thread, the best configuration read so far
    base,      \* per thread, the chain it read from the head
    restore    \* per thread, the rollback it has validated

treeVars == <<tree, commits>>
recorderVars == <<chain, reported, stats>>
scanVars == <<todo, best, base>>
vars == <<treeVars, recorderVars, phase, change, scanVars, restore>>

(***************************************************************************)
(* Store events, transitions and configuration selection.                  *)
(***************************************************************************)
CoreEvent(prev, new) ==
    IF prev = Absent THEN "created" ELSE IF new = Absent THEN "deleted" ELSE "modified"

FromCoreEventType(kind) == IF kind = "modified" THEN "updated" ELSE kind

\* Mutants, here and below, are named after the bug they stand for.
UnattributedContext(c) == [author |-> c.who, operation |-> c.op]
LocalPeerContext(c) == [author |-> LocalPeer, operation |-> "put"]

\* build_context: a change without an author is taken for an autonomous one.
BuildContext(c) ==
    IF c.who = Autonomous THEN [author |-> LocalPeer, operation |-> "put"]
                          ELSE [author |-> c.who, operation |-> c.op]

Transition(c) ==
    [event |-> FromCoreEventType(c.kind), hash |-> c.new, previous_hash |-> c.prev,
     author |-> BuildContext(c).author, operation |-> BuildContext(c).operation]

\* compare_specificity(a, b) > 0
Outranks(a, b) ==
    \/ a.literals > b.literals
    \/ a.literals = b.literals /\ a.depth > b.depth
    \/ a.literals = b.literals /\ a.depth = b.depth /\ a.canon < b.canon

AuditsDisabledToo(r, c) ==
    r # Absent /\ c.path \notin r.excluded /\ FromCoreEventType(c.kind) \in r.events

\* The recorder's decision once it has selected configuration r (or none).
Audits(r, c) ==
    /\ r # Absent
    /\ r.enabled
    /\ c.path \notin r.excluded
    /\ FromCoreEventType(c.kind) \in r.events

HasHistory(p, v) == chain[p] # <<>>

\* _is_in_history: hash OR previous_hash, over the whole chain.
IsInHistory(p, v) ==
    \E i \in DOMAIN chain[p] : v \in {chain[p][i].hash, chain[p][i].previous_hash}

--------------------------------------------------------------------------------
(***************************************************************************)
(* History is installed on a peer whose tree may already be populated.     *)
(***************************************************************************)
Init ==
    /\ tree \in {f \in [TreePaths -> Content \cup {Absent}] :
                   \A p \in TreePaths : f[p] \in Writable(p) \cup {Absent}}
    /\ chain = [p \in TreePaths |-> <<>>]
    /\ commits = [p \in TreePaths |-> <<>>]
    /\ reported = [p \in TreePaths |-> <<>>]
    /\ stats = [k \in Counters |-> 0]
    /\ phase = [t \in Threads |-> "idle"]
    /\ change = [t \in Threads |-> Absent]
    /\ todo = [t \in Threads |-> {}]
    /\ best = [t \in Threads |-> Absent]
    /\ base = [t \in Threads |-> <<>>]
    /\ restore = [t \in Threads |-> Absent]

\* Store.bind / unbind: consumers run only when the binding changed.
Commit(t, p, v, who, op) ==
    /\ tree[p] # v
    /\ tree' = [tree EXCEPT ![p] = v]
    /\ LET c == [path |-> p, kind |-> CoreEvent(tree[p], v), new |-> v,
                 prev |-> tree[p], who |-> who, op |-> op]
       IN  /\ commits' = [commits EXCEPT ![p] = Append(@, c)]
           /\ change' = [change EXCEPT ![t] = c]
    /\ phase' = [phase EXCEPT ![t] = "emitted"]

\* A put or delete of any path by a caller or by the peer itself.
Put(t, p, v, who) ==
    /\ phase[t] = "idle"
    /\ Len(commits[p]) < MaxCommits[p]
    /\ Commit(t, p, v, who, "put")
    /\ UNCHANGED <<recorderVars, scanVars, restore>>

\* Increment the named counters of RecorderStats.
Count(names) == [k \in Counters |-> IF k \in names THEN stats[k] + 1 ELSE stats[k]]

\* on_tree_change up to the listing of the configuration directory.
Observe(t) ==
    /\ phase[t] = "emitted"
    /\ stats' = Count({"observed", IF change[t].who = Autonomous THEN "fallback" ELSE "context"})
    /\ todo' = [todo EXCEPT ![t] = {c \in ConfigPaths : tree[c] # Absent}]
    /\ phase' = [phase EXCEPT ![t] = "scanning"]
    /\ UNCHANGED <<treeVars, chain, reported, change, best, base, restore>>

\* What one row makes of the best configuration so far.
Better(r, b, p) ==
    IF r \in Rules /\ p \in r.covers /\ (b = Absent \/ Outranks(r, b)) THEN r ELSE b

\* One iteration of find_history_config's loop: the row may be gone by now.
ReadConfig(t, c) ==
    /\ phase[t] = "scanning"
    /\ c \in todo[t]
    /\ todo' = [todo EXCEPT ![t] = @ \ {c}]
    /\ best' = [best EXCEPT ![t] = Better(tree[c], @, change[t].path)]
    /\ UNCHANGED <<treeVars, recorderVars, phase, change, base, restore>>

\* The handler call returns to the writer; its locals go out of scope.
Return(t) ==
    /\ phase' = [phase EXCEPT ![t] = "idle"]
    /\ change' = [change EXCEPT ![t] = Absent]
    /\ best' = [best EXCEPT ![t] = Absent]
    /\ base' = [base EXCEPT ![t] = <<>>]

\* record_transition returns None.
Skip(t) ==
    /\ phase[t] = "scanning" /\ todo[t] = {}
    /\ ~Audits(best[t], change[t])
    /\ stats' = Count({"unconfigured"})
    /\ Return(t)
    /\ UNCHANGED <<treeVars, chain, reported, todo, restore>>

\* prev_head_hex = store.hash_at(head_path)
ReadHead(t) ==
    /\ phase[t] = "scanning" /\ todo[t] = {}
    /\ Audits(best[t], change[t])
    /\ base' = [base EXCEPT ![t] = chain[change[t].path]]
    /\ phase' = [phase EXCEPT ![t] = "advancing"]
    /\ UNCHANGED <<treeVars, recorderVars, change, todo, best, restore>>

\* store.bind(head_path, transition); a changed head is itself an event, which
\* the recorder sees and the self-guard drops. prune_history only reads.
AdvanceHead(t) ==
    LET p == change[t].path
        head == Append(base[t], Transition(change[t]))
    IN  /\ phase[t] = "advancing"
        /\ chain' = [chain EXCEPT ![p] = head]
        /\ stats' = Count(IF chain[p] = head THEN {} ELSE {"observed", "self_guard"})
        /\ phase' = [phase EXCEPT ![t] = "reporting"]
        /\ UNCHANGED <<treeVars, reported, change, scanVars, restore>>

\* on_tree_change counts and keeps the RecordedTransition.
Report(t) ==
    /\ phase[t] = "reporting"
    /\ stats' = Count({"recorded"})
    /\ reported' = [reported EXCEPT ![change[t].path] = Append(@, Transition(change[t]))]
    /\ Return(t)
    /\ UNCHANGED <<treeVars, chain, todo, restore>>

\* rollback up to its decision; a refused one changes nothing.
Rollback(t, p, v, who) ==
    /\ phase[t] = "idle"
    /\ Len(commits[p]) < MaxCommits[p]
    /\ <<who, p>> \in MayRollback
    /\ IsInHistory(p, v)
    /\ restore' = [restore EXCEPT ![t] = [path |-> p, target |-> v, who |-> who]]
    /\ phase' = [phase EXCEPT ![t] = "restoring"]
    /\ UNCHANGED <<treeVars, recorderVars, change, scanVars>>

\* rollback's store.bind, with the dispatch's execution context ...
RollbackBind(t) ==
    /\ phase[t] = "restoring"
    /\ Commit(t, restore[t].path, restore[t].target, restore[t].who, "rollback")
    /\ restore' = [restore EXCEPT ![t] = Absent]
    /\ UNCHANGED <<recorderVars, scanVars>>

AwaitsItsEvent(t) ==
    phase[t] = "restoring" /\ tree[restore[t].path] = restore[t].target /\ UNCHANGED vars

\* ... which fires nothing when the path already holds the target.
RollbackUnchanged(t) ==
    /\ phase[t] = "restoring"
    /\ tree[restore[t].path] = restore[t].target
    /\ restore' = [restore EXCEPT ![t] = Absent]
    /\ phase' = [phase EXCEPT ![t] = "idle"]
    /\ UNCHANGED <<treeVars, recorderVars, change, scanVars>>

\* No request is being served.
Rest == (\A t \in Threads : phase[t] = "idle") /\ UNCHANGED vars

Deliver(t) ==
    \/ Observe(t)
    \/ \E c \in ConfigPaths : ReadConfig(t, c)
    \/ Skip(t)
    \/ ReadHead(t)
    \/ AdvanceHead(t)
    \/ Report(t)
    \/ RollbackBind(t)
    \/ RollbackUnchanged(t)

Request(t) ==
    \E p \in TreePaths :
        \/ \E v \in Writable(p) \cup {Absent}, who \in Writers : Put(t, p, v, who)
        \/ \E v \in Writable(p), who \in Callers : Rollback(t, p, v, who)

Next == Rest \/ \E t \in Threads : Request(t) \/ Deliver(t)

Spec == Init /\ [][Next]_vars

\* A thread that serves a request runs on until the request is answered.
RecorderFairness == \A t \in Threads : WF_vars(Deliver(t))

--------------------------------------------------------------------------------
(***************************************************************************)
(* Properties.                                                             *)
(***************************************************************************)
\* Every variable ranges over what the recorder and the rollback handler
\* store in it; an event is at hand exactly while one is being delivered.
TypeOK ==
    /\ tree \in [TreePaths -> Content \cup {Absent}]
    /\ chain \in [TreePaths -> Seq(Transitions)]
    /\ commits \in [TreePaths -> Seq(Changes)]
    /\ reported \in [TreePaths -> Seq(Transitions)]
    /\ stats \in [Counters -> Nat]
    /\ phase \in [Threads -> {"idle", "emitted", "scanning", "advancing",
                              "reporting", "restoring"}]
    /\ change \in [Threads -> Changes \cup {Absent}]
    /\ todo \in [Threads -> SUBSET ConfigPaths]
    /\ best \in [Threads -> Rules \cup {Absent}]
    /\ base \in [Threads -> Seq(Transitions)]
    /\ restore \in [Threads -> Restores \cup {Absent}]
    /\ \A t \in Threads :
          /\ phase[t] \notin {"idle", "restoring"} => change[t] \in Changes
          /\ phase[t] = "restoring" => restore[t] \in Restores

\* A transition x tells the truth about change c of path p: its values, the
\* event they make, and the author its execution context named.
Attests(x, c) ==
    /\ x.hash = c.new /\ x.previous_hash = c.prev
    /\ x.event = "created" <=> c.prev = Absent
    /\ x.event = "deleted" <=> (c.new = Absent /\ c.prev # Absent)
    /\ x.author = IF c.who = Autonomous THEN LocalPeer ELSE c.who

\* Whatever the interleaving, the audit chain of a path holds only changes
\* that were made to that very path, with their real values and author.
ChainSound ==
    \A p \in TreePaths : \A i \in DOMAIN chain[p] :
        \E j \in DOMAIN commits[p] : Attests(chain[p][i], commits[p][j])

\* Rollback is no unrestricted put: every value it installs is one the same
\* path held before, although other writers run between its check and its bind.
RestoresOnlyPast ==
    \A p \in TreePaths : \A i \in DOMAIN commits[p] :
        commits[p][i].op = "rollback" =>
            \E j \in 1 .. i - 1 :
                commits[p][i].new \in {commits[p][j].new, commits[p][j].prev}

\* Every transition the recorder reports as recorded is found by walking its
\* path's chain from the head.
ReportedIsReachable ==
    \A p \in TreePaths : \A j \in DOMAIN reported[p] :
        \E i \in DOMAIN chain[p] : chain[p][i] = reported[p][j]

\* A request that has changed the tree or validated a rollback is answered.
EveryRequestIsAnswered ==
    \A t \in Threads : phase[t] # "idle" ~> phase[t] = "idle"

--------------------------------------------------------------------------------
(***************************************************************************)
(* The inductive invariant behind ChainSound and RestoresOnlyPast: what a  *)
(* thread has read or validated stays covered by the changes of its path,  *)
(* because commits only grow.                                              *)
(***************************************************************************)
\* Transition x records some change of p.
Recorded(x, p) == \E j \in DOMAIN commits[p] : Transition(commits[p][j]) = x

CommitsAreChanges ==
    \A p \in TreePaths : \A j \in DOMAIN commits[p] :
        LET c == commits[p][j]
        IN  c.path = p /\ c.new # c.prev /\ c.kind = CoreEvent(c.prev, c.new)

ChainRecorded ==
    \A p \in TreePaths : \A i \in DOMAIN chain[p] : Recorded(chain[p][i], p)

DeliversItsCommit ==
    \A t \in Threads : phase[t] \notin {"idle", "restoring"} =>
        Recorded(Transition(change[t]), change[t].path)

BaseRecorded ==
    \A t \in Threads : phase[t] = "advancing" =>
        \A i \in DOMAIN base[t] : Recorded(base[t][i], change[t].path)

RestoreWasHeld ==
    \A t \in Threads : phase[t] = "restoring" =>
        \E j \in DOMAIN commits[restore[t].path] :
            restore[t].target \in {commits[restore[t].path][j].new,
                                  commits[restore[t].path][j].prev}

\* The facts a step needs of the step before it, whichever threads took them.
IInv ==
    /\ TypeOK
    /\ CommitsAreChanges
    /\ ChainRecorded
    /\ DeliversItsCommit
    /\ BaseRecorded
    /\ RestoreWasHeld
    /\ RestoresOnlyPast
================================================================================
