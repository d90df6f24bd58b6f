------------------------- MODULE HistoryRecorderProofs -------------------------
(***************************************************************************)
(* Proofs about the recorder for every set of paths, configurations,       *)
(* callers and threads, and about the audit log that it implements where   *)
(* requests are served one at a time.                                      *)
(***************************************************************************)
EXTENDS HistoryAudit, TLAPS

\* The three-key order of compare_specificity never prefers two
\* configurations to each other.
LEMMA OutranksAsymmetric ==
    ASSUME NEW r \in Rules, NEW q \in Rules, Outranks(r, q)
    PROVE  ~Outranks(q, r)
BY RuleAssumption DEF Outranks

\* ... and is transitive, so scanning the directory row by row finds a
\* configuration none of the rows outranks.
LEMMA OutranksTransitive ==
    ASSUME NEW r \in Rules, NEW q \in Rules, NEW s \in Rules,
           Outranks(r, q), Outranks(q, s)
    PROVE  Outranks(r, s)
BY RuleAssumption DEF Outranks

--------------------------------------------------------------------------------
\* The transition built from a change is well formed.
LEMMA TransitionType ==
    ASSUME NEW c \in Changes
    PROVE  Transition(c) \in Transitions
BY ConstantAssumption
   DEF Transition, Transitions, Changes, Writers, BuildContext, FromCoreEventType,
       CoreEvents, EventTypes

\* Whatever may be written at a path is content.
LEMMA WritableContent ==
    ASSUME NEW p, NEW v \in Writable(p)
    PROVE  v \in Content
BY DEF Writable, Content

\* A write that takes effect records a well-formed change, and nothing else.
LEMMA CommitType ==
    ASSUME TypeOK, NEW t \in Threads, NEW p \in TreePaths,
           NEW v \in Content \cup {Absent}, NEW who \in Writers,
           NEW op \in {"put", "rollback"}, Commit(t, p, v, who, op)
    PROVE  /\ tree' \in [TreePaths -> Content \cup {Absent}]
           /\ commits' \in [TreePaths -> Seq(Changes)]
           /\ change' \in [Threads -> Changes \cup {Absent}]
           /\ change'[t] \in Changes
           /\ \A u \in Threads \ {t} : change'[u] = change[u]
           /\ phase' = [phase EXCEPT ![t] = "emitted"]
<1> DEFINE c == [path |-> p, kind |-> CoreEvent(tree[p], v), new |-> v,
                 prev |-> tree[p], who |-> who, op |-> op]
<1>1. c \in Changes
  BY DEF TypeOK, Changes, CoreEvent, CoreEvents
<1>2. /\ tree' = [tree EXCEPT ![p] = v]
      /\ commits' = [commits EXCEPT ![p] = Append(@, c)]
      /\ change' = [change EXCEPT ![t] = c]
      /\ phase' = [phase EXCEPT ![t] = "emitted"]
  BY DEF Commit
<1> HIDE DEF c
<1> QED
  BY <1>1, <1>2 DEF TypeOK

\* The state the extension is installed in is well typed.
LEMMA TypeInit == Init => TypeOK
BY DEF Init, TypeOK

\* Counting an event keeps the statistics natural numbers.
LEMMA CountType ==
    ASSUME TypeOK, NEW names
    PROVE  Count(names) \in [Counters -> Nat]
BY DEF TypeOK, Count

\* Every action of every thread keeps the state well typed, and leaves the
\* thread holding the event or the rollback its phase speaks of.
LEMMA TypeStep == TypeOK /\ [Next]_vars => TypeOK'
<1> SUFFICES ASSUME TypeOK, [Next]_vars PROVE TypeOK'
  OBVIOUS
<1> USE DEF recorderVars, scanVars, treeVars
<1>1. ASSUME NEW t \in Threads, NEW p \in TreePaths, NEW v \in Writable(p) \cup {Absent},
             NEW who \in Writers, Put(t, p, v, who)
      PROVE  TypeOK'
  <2>1. v \in Content \cup {Absent}
    BY WritableContent
  <2>2. Commit(t, p, v, who, "put")
    BY <1>1 DEF Put
  <2>3. UNCHANGED <<recorderVars, scanVars, restore>>
    BY <1>1 DEF Put
  <2>4. /\ tree' \in [TreePaths -> Content \cup {Absent}]
        /\ commits' \in [TreePaths -> Seq(Changes)]
        /\ change' \in [Threads -> Changes \cup {Absent}]
        /\ change'[t] \in Changes
        /\ \A u \in Threads \ {t} : change'[u] = change[u]
        /\ phase' = [phase EXCEPT ![t] = "emitted"]
    BY <2>1, <2>2, CommitType
  <2> QED
    BY <2>3, <2>4 DEF TypeOK
<1>2. ASSUME NEW t \in Threads, Observe(t) PROVE TypeOK'
  BY <1>2, CountType DEF Observe, TypeOK
<1>3. ASSUME NEW t \in Threads, NEW c \in ConfigPaths, ReadConfig(t, c) PROVE TypeOK'
  <2>1. Better(tree[c], best[t], change[t].path) \in Rules \cup {Absent}
    BY DEF Better, TypeOK
  <2> QED
    BY <1>3, <2>1 DEF ReadConfig, TypeOK
<1>4. ASSUME NEW t \in Threads, Skip(t) PROVE TypeOK'
  BY <1>4, CountType DEF Skip, Return, TypeOK
<1>5. ASSUME NEW t \in Threads, ReadHead(t) PROVE TypeOK'
  <2>1. change[t].path \in TreePaths
    BY <1>5 DEF ReadHead, TypeOK, Changes
  <2> QED
    BY <1>5, <2>1 DEF ReadHead, TypeOK
<1>6. ASSUME NEW t \in Threads, AdvanceHead(t) PROVE TypeOK'
  <2>1. change[t] \in Changes /\ change[t].path \in TreePaths
    BY <1>6 DEF AdvanceHead, TypeOK, Changes
  <2>2. Append(base[t], Transition(change[t])) \in Seq(Transitions)
    BY <2>1, TransitionType DEF TypeOK
  <2> QED
    BY <1>6, <2>1, <2>2, CountType DEF AdvanceHead, TypeOK
<1>7. ASSUME NEW t \in Threads, Report(t) PROVE TypeOK'
  <2>1. change[t] \in Changes /\ change[t].path \in TreePaths
    BY <1>7 DEF Report, TypeOK, Changes
  <2>2. Append(reported[change[t].path], Transition(change[t])) \in Seq(Transitions)
    BY <2>1, TransitionType DEF TypeOK
  <2> QED
    BY <1>7, <2>1, <2>2, CountType DEF Report, Return, TypeOK
<1>8. ASSUME NEW t \in Threads, NEW p \in TreePaths, NEW v \in Writable(p),
             NEW who \in Callers, Rollback(t, p, v, who)
      PROVE  TypeOK'
  <2>1. [path |-> p, target |-> v, who |-> who] \in Restores
    BY WritableContent DEF Restores
  <2> QED
    BY <1>8, <2>1 DEF Rollback, TypeOK
<1>9. ASSUME NEW t \in Threads, RollbackBind(t) PROVE TypeOK'
  <2>1. restore[t] \in Restores
    BY <1>9 DEF RollbackBind, TypeOK
  <2>2. /\ restore[t].path \in TreePaths
        /\ restore[t].target \in Content \cup {Absent}
        /\ restore[t].who \in Writers
    BY <2>1 DEF Restores, Writers
  <2>3. Commit(t, restore[t].path, restore[t].target, restore[t].who, "rollback")
    BY <1>9 DEF RollbackBind
  <2>4. /\ restore' = [restore EXCEPT ![t] = Absent]
        /\ UNCHANGED <<recorderVars, scanVars>>
    BY <1>9 DEF RollbackBind
  <2>5. /\ tree' \in [TreePaths -> Content \cup {Absent}]
        /\ commits' \in [TreePaths -> Seq(Changes)]
        /\ change' \in [Threads -> Changes \cup {Absent}]
        /\ change'[t] \in Changes
        /\ \A u \in Threads \ {t} : change'[u] = change[u]
        /\ phase' = [phase EXCEPT ![t] = "emitted"]
    BY <2>2, <2>3, CommitType
  <2> QED
    BY <2>4, <2>5 DEF TypeOK
<1>10. ASSUME NEW t \in Threads, RollbackUnchanged(t) PROVE TypeOK'
  BY <1>10 DEF RollbackUnchanged, TypeOK
<1>11. CASE UNCHANGED vars
  BY <1>11 DEF vars, TypeOK
<1>12. CASE Rest
  BY <1>12 DEF Rest, vars, TypeOK
<1> QED
  BY <1>1, <1>2, <1>3, <1>4, <1>5, <1>6, <1>7, <1>8, <1>9, <1>10, <1>11, <1>12
     DEF Next, Request, Deliver

\* Every variable keeps its type in every reachable state, for any number of
\* threads, paths and configurations.
THEOREM TypeCorrect == Spec => []TypeOK
<1>1. Init => TypeOK
  BY TypeInit
<1>2. TypeOK /\ [Next]_vars => TypeOK'
  BY TypeStep
<1> QED
  BY <1>1, <1>2, PTL DEF Spec

--------------------------------------------------------------------------------
\* The store's history of a path only grows, and what it holds never changes.
LEMMA CommitsGrow ==
    ASSUME TypeOK, NEW t \in Threads, NEW p \in TreePaths,
           NEW v \in Content \cup {Absent}, NEW who \in Writers,
           NEW op \in {"put", "rollback"}, Commit(t, p, v, who, op)
    PROVE  \E c \in Changes :
             /\ c.path = p /\ c.new = v /\ c.prev = tree[p] /\ c.op = op
             /\ c.new # c.prev /\ c.kind = CoreEvent(c.prev, c.new)
             /\ change'[t] = c
             /\ Len(commits'[p]) = Len(commits[p]) + 1
             /\ commits'[p][Len(commits[p]) + 1] = c
             /\ \A q \in TreePaths : q # p => commits'[q] = commits[q]
             /\ \A q \in TreePaths : \A j \in DOMAIN commits[q] :
                   j \in DOMAIN commits'[q] /\ commits'[q][j] = commits[q][j]
<1> DEFINE c == [path |-> p, kind |-> CoreEvent(tree[p], v), new |-> v,
                 prev |-> tree[p], who |-> who, op |-> op]
<1>1. c \in Changes
  BY DEF TypeOK, Changes, CoreEvent, CoreEvents
<1>2. /\ c.path = p /\ c.new = v /\ c.prev = tree[p] /\ c.op = op
      /\ c.new # c.prev /\ c.kind = CoreEvent(c.prev, c.new)
  BY DEF Commit
<1>3. /\ commits' = [commits EXCEPT ![p] = Append(@, c)]
      /\ change' = [change EXCEPT ![t] = c]
  BY DEF Commit
<1> HIDE DEF c
<1>4. commits[p] \in Seq(Changes) /\ commits'[p] = Append(commits[p], c)
  BY <1>3 DEF TypeOK
<1>5. /\ Len(commits'[p]) = Len(commits[p]) + 1
      /\ commits'[p][Len(commits[p]) + 1] = c
      /\ \A j \in DOMAIN commits[p] :
            j \in DOMAIN commits'[p] /\ commits'[p][j] = commits[p][j]
  BY <1>1, <1>4
<1>6. \A q \in TreePaths : q # p => commits'[q] = commits[q]
  BY <1>3 DEF TypeOK
<1>7. change'[t] = c
  BY <1>3 DEF TypeOK
<1> QED
  BY <1>1, <1>2, <1>5, <1>6, <1>7

\* What a Commit does to the facts of the inductive invariant. A rollback's
\* target has to be a value the path held.
LEMMA CommitStep ==
    ASSUME IInv, NEW t \in Threads, NEW p \in TreePaths,
           NEW v \in Content \cup {Absent}, NEW who \in Writers,
           NEW op \in {"put", "rollback"}, Commit(t, p, v, who, op),
           op = "rollback" => \E j \in DOMAIN commits[p] :
                                 v \in {commits[p][j].new, commits[p][j].prev}
    PROVE  /\ CommitsAreChanges'
           /\ RestoresOnlyPast'
           /\ change'[t].path = p
           /\ \E j \in DOMAIN commits'[p] :
                 Transition(commits'[p][j]) = Transition(change'[t])
           /\ \A q \in TreePaths : \A j \in DOMAIN commits[q] :
                 j \in DOMAIN commits'[q] /\ commits'[q][j] = commits[q][j]
<1>1. PICK c \in Changes :
        /\ c.path = p /\ c.new = v /\ c.prev = tree[p] /\ c.op = op
        /\ c.new # c.prev /\ c.kind = CoreEvent(c.prev, c.new)
        /\ change'[t] = c
        /\ Len(commits'[p]) = Len(commits[p]) + 1
        /\ commits'[p][Len(commits[p]) + 1] = c
        /\ \A q \in TreePaths : q # p => commits'[q] = commits[q]
        /\ \A q \in TreePaths : \A j \in DOMAIN commits[q] :
              j \in DOMAIN commits'[q] /\ commits'[q][j] = commits[q][j]
  BY CommitsGrow DEF IInv
<1>2. commits' \in [TreePaths -> Seq(Changes)] /\ commits \in [TreePaths -> Seq(Changes)]
  <2>1. TypeOK
    BY DEF IInv
  <2>2. commits' \in [TreePaths -> Seq(Changes)]
    BY <2>1, CommitType
  <2> QED
    BY <2>1, <2>2 DEF TypeOK
<1>3. \A q \in TreePaths : \A j \in DOMAIN commits'[q] :
        \/ j \in DOMAIN commits[q] /\ commits'[q][j] = commits[q][j]
        \/ q = p /\ j = Len(commits[p]) + 1 /\ commits'[q][j] = c
  BY <1>1, <1>2
<1>4. CommitsAreChanges'
  <2> SUFFICES ASSUME NEW q \in TreePaths, NEW j \in DOMAIN commits'[q]
               PROVE  /\ commits'[q][j].path = q
                      /\ commits'[q][j].new # commits'[q][j].prev
                      /\ commits'[q][j].kind =
                            CoreEvent(commits'[q][j].prev, commits'[q][j].new)
    BY DEF CommitsAreChanges, CoreEvent
  <2>1. CASE j \in DOMAIN commits[q] /\ commits'[q][j] = commits[q][j]
    BY <2>1 DEF IInv, CommitsAreChanges
  <2>2. CASE q = p /\ commits'[q][j] = c
    BY <1>1, <2>2
  <2> QED
    BY <1>3, <2>1, <2>2
<1>5. RestoresOnlyPast'
  <2> SUFFICES ASSUME NEW q \in TreePaths, NEW i \in DOMAIN commits'[q],
                      commits'[q][i].op = "rollback"
               PROVE  \E j \in 1 .. i - 1 :
                        commits'[q][i].new \in {commits'[q][j].new, commits'[q][j].prev}
    BY DEF RestoresOnlyPast
  <2>1. CASE i \in DOMAIN commits[q] /\ commits'[q][i] = commits[q][i]
    <3>1. PICK j \in 1 .. i - 1 :
            commits[q][i].new \in {commits[q][j].new, commits[q][j].prev}
      BY <2>1 DEF IInv, RestoresOnlyPast
    <3>2. j \in DOMAIN commits[q]
      BY <1>2, <2>1
    <3> QED
      BY <1>1, <2>1, <3>1, <3>2
  <2>2. CASE q = p /\ i = Len(commits[p]) + 1 /\ commits'[q][i] = c
    <3>1. PICK j \in DOMAIN commits[p] : v \in {commits[p][j].new, commits[p][j].prev}
      BY <1>1, <2>2
    <3>2. j \in 1 .. i - 1
      BY <1>2, <2>2
    <3> QED
      BY <1>1, <2>2, <3>1, <3>2
  <2> QED
    BY <1>3, <2>1, <2>2
<1>6. Len(commits[p]) + 1 \in DOMAIN commits'[p]
  BY <1>1, <1>2
<1> QED
  BY <1>1, <1>4, <1>5, <1>6

\* Facts about recorded changes survive a step that only adds changes.
LEMMA RecordedStays ==
    ASSUME NEW p, NEW x, Recorded(x, p),
           \A j \in DOMAIN commits[p] :
              j \in DOMAIN commits'[p] /\ commits'[p][j] = commits[p][j]
    PROVE  Recorded(x, p)'
BY DEF Recorded, Transition, BuildContext

\* A Commit by a thread that leaves chains and bases alone keeps the invariant.
LEMMA CommitKeepsIInv ==
    ASSUME IInv, TypeOK', NEW t \in Threads, NEW p \in TreePaths,
           NEW v \in Content \cup {Absent}, NEW who \in Writers,
           NEW op \in {"put", "rollback"}, Commit(t, p, v, who, op),
           op = "rollback" => \E j \in DOMAIN commits[p] :
                                 v \in {commits[p][j].new, commits[p][j].prev},
           chain' = chain, base' = base,
           \A u \in Threads \ {t} : restore'[u] = restore[u]
    PROVE  IInv'
<1>1. /\ CommitsAreChanges'
      /\ RestoresOnlyPast'
      /\ change'[t].path = p
      /\ \E j \in DOMAIN commits'[p] :
            Transition(commits'[p][j]) = Transition(change'[t])
      /\ \A q \in TreePaths : \A j \in DOMAIN commits[q] :
            j \in DOMAIN commits'[q] /\ commits'[q][j] = commits[q][j]
  BY CommitStep
<1>2. TypeOK
  BY DEF IInv
<1>3. \A u \in Threads \ {t} : change'[u] = change[u] /\ phase'[u] = phase[u]
  BY <1>2 DEF Commit, TypeOK
<1>4. phase'[t] = "emitted"
  BY <1>2 DEF Commit, TypeOK
<1>5. ChainRecorded'
  <2> SUFFICES ASSUME NEW q \in TreePaths, NEW i \in DOMAIN chain[q]
               PROVE  Recorded(chain[q][i], q)'
    BY DEF ChainRecorded, Recorded
  <2> QED
    BY <1>1, RecordedStays DEF IInv, ChainRecorded
<1>6. DeliversItsCommit'
  <2> SUFFICES ASSUME NEW u \in Threads, phase'[u] \notin {"idle", "restoring"}
               PROVE  Recorded(Transition(change[u]), change[u].path)'
    BY DEF DeliversItsCommit, Recorded, Transition, BuildContext
  <2>1. CASE u = t
    BY <1>1, <2>1 DEF Recorded, Transition, BuildContext
  <2>2. CASE u # t
    <3>1. Recorded(Transition(change[u]), change[u].path)
      BY <1>3, <2>2 DEF IInv, DeliversItsCommit
    <3>2. change[u].path \in TreePaths
      BY <1>2, <1>3, <2>2 DEF TypeOK, Changes
    <3>3. PICK j \in DOMAIN commits[change[u].path] :
            Transition(commits[change[u].path][j]) = Transition(change[u])
      BY <3>1 DEF Recorded
    <3>4. /\ j \in DOMAIN commits'[change[u].path]
          /\ commits'[change[u].path][j] = commits[change[u].path][j]
      BY <1>1, <3>2
    <3>5. Transition(commits'[change[u].path][j]) = Transition(change'[u])
      BY <1>3, <2>2, <3>3, <3>4
    <3>6. Transition(commits[change[u].path][j])' = Transition(change[u])'
      BY <1>3, <2>2, <3>5 DEF Transition, BuildContext, FromCoreEventType
    <3> QED
      BY <1>3, <2>2, <3>4, <3>6 DEF Recorded
  <2> QED
    BY <2>1, <2>2
<1>7. BaseRecorded'
  <2> SUFFICES ASSUME NEW u \in Threads, phase'[u] = "advancing", NEW i \in DOMAIN base[u]
               PROVE  Recorded(base[u][i], change[u].path)'
    BY DEF BaseRecorded, Recorded
  <2>1. u # t
    BY <1>4
  <2>2. Recorded(base[u][i], change[u].path) /\ change[u].path \in TreePaths
    BY <1>2, <1>3, <2>1 DEF IInv, BaseRecorded, TypeOK, Changes
  <2>3. PICK j \in DOMAIN commits[change[u].path] :
          Transition(commits[change[u].path][j]) = base[u][i]
    BY <2>2 DEF Recorded
  <2>4. /\ j \in DOMAIN commits'[change[u].path]
        /\ commits'[change[u].path][j] = commits[change[u].path][j]
    BY <1>1, <2>2
  <2>5. Transition(commits[change[u].path][j])' = base'[u][i]
    BY <1>3, <2>1, <2>3, <2>4 DEF Transition, BuildContext, FromCoreEventType
  <2> QED
    BY <1>3, <2>1, <2>4, <2>5 DEF Recorded
<1>8. RestoreWasHeld'
  <2> SUFFICES ASSUME NEW u \in Threads, phase'[u] = "restoring"
               PROVE  \E j \in DOMAIN commits'[restore'[u].path] :
                        restore'[u].target \in {commits'[restore'[u].path][j].new,
                                               commits'[restore'[u].path][j].prev}
    BY DEF RestoreWasHeld
  <2>1. u # t
    BY <1>4
  <2>2. phase[u] = "restoring" /\ restore'[u] = restore[u]
    BY <1>3, <2>1
  <2>3. restore[u].path \in TreePaths
    BY <1>2, <2>2 DEF TypeOK, Restores
  <2> QED
    BY <1>1, <2>2, <2>3 DEF IInv, RestoreWasHeld
<1> QED
  BY <1>1, <1>5, <1>6, <1>7, <1>8 DEF IInv

\* Before the first request no chain, event or rollback exists to be covered.
LEMMA InitIInv == Init => IInv
BY TypeInit
   DEF Init, IInv, CommitsAreChanges, ChainRecorded, DeliversItsCommit, BaseRecorded,
       RestoreWasHeld, RestoresOnlyPast

\* A step of thread t that makes no commit keeps the invariant if every head
\* it leaves behind, and whatever t now holds, is covered by recorded changes.
LEMMA QuietStep ==
    ASSUME IInv, TypeOK', NEW t \in Threads, commits' = commits,
           \A q \in TreePaths : \A i \in DOMAIN chain'[q] : Recorded(chain'[q][i], q),
           \A u \in Threads \ {t} : /\ phase'[u] = phase[u] /\ change'[u] = change[u]
                                   /\ base'[u] = base[u] /\ restore'[u] = restore[u],
           phase'[t] \notin {"idle", "restoring"} =>
              phase[t] \notin {"idle", "restoring"} /\ change'[t] = change[t],
           phase'[t] = "advancing" =>
              \A i \in DOMAIN base'[t] : Recorded(base'[t][i], change[t].path),
           phase'[t] = "restoring" =>
              \E j \in DOMAIN commits[restore'[t].path] :
                 restore'[t].target \in {commits[restore'[t].path][j].new,
                                        commits[restore'[t].path][j].prev}
    PROVE  IInv'
<1>1. CommitsAreChanges' /\ RestoresOnlyPast'
  BY DEF IInv, CommitsAreChanges, RestoresOnlyPast, CoreEvent
<1>2. ChainRecorded'
  BY DEF ChainRecorded, Recorded, Transition, BuildContext, FromCoreEventType
<1>3. DeliversItsCommit'
  <2> SUFFICES ASSUME NEW u \in Threads, phase'[u] \notin {"idle", "restoring"}
               PROVE  Recorded(Transition(change[u]), change[u].path)'
    BY DEF DeliversItsCommit, Recorded, Transition, BuildContext, FromCoreEventType
  <2>1. phase[u] \notin {"idle", "restoring"} /\ change'[u] = change[u]
    OBVIOUS
  <2>2. PICK j \in DOMAIN commits[change[u].path] :
          Transition(commits[change[u].path][j]) = Transition(change[u])
    BY <2>1 DEF IInv, DeliversItsCommit, Recorded
  <2>3. Transition(commits[change[u].path][j])' = Transition(change[u])'
    BY <2>1, <2>2 DEF Transition, BuildContext, FromCoreEventType
  <2> QED
    BY <2>1, <2>2, <2>3 DEF Recorded
<1>4. BaseRecorded'
  <2> SUFFICES ASSUME NEW u \in Threads, phase'[u] = "advancing", NEW i \in DOMAIN base'[u]
               PROVE  Recorded(base[u][i], change[u].path)'
    BY DEF BaseRecorded, Recorded
  <2>1. change'[u] = change[u]
    OBVIOUS
  <2>2. Recorded(base'[u][i], change[u].path)
    BY DEF IInv, BaseRecorded
  <2>3. PICK j \in DOMAIN commits[change[u].path] :
          Transition(commits[change[u].path][j]) = base'[u][i]
    BY <2>2 DEF Recorded
  <2>4. Transition(commits[change[u].path][j])' = base'[u][i]
    BY <2>1, <2>3 DEF Transition, BuildContext, FromCoreEventType
  <2> QED
    BY <2>1, <2>3, <2>4 DEF Recorded
<1>5. RestoreWasHeld'
  BY DEF IInv, RestoreWasHeld
<1> QED
  BY <1>1, <1>2, <1>3, <1>4, <1>5 DEF IInv

\* Every step keeps the inductive invariant: commits by CommitKeepsIInv, all
\* the others by QuietStep.
LEMMA StepIInv == IInv /\ [Next]_vars => IInv'
<1> SUFFICES ASSUME IInv, [Next]_vars PROVE IInv'
  OBVIOUS
<1>a. TypeOK /\ TypeOK'
  BY TypeStep DEF IInv
<1>b. \A q \in TreePaths : \A i \in DOMAIN chain[q] : Recorded(chain[q][i], q)
  BY DEF IInv, ChainRecorded
<1> USE DEF treeVars, recorderVars, scanVars
<1>1. ASSUME NEW t \in Threads, NEW p \in TreePaths, NEW v \in Writable(p) \cup {Absent},
             NEW who \in Writers, Put(t, p, v, who)
      PROVE  IInv'
  <2>1. v \in Content \cup {Absent}
    BY WritableContent
  <2>2. Commit(t, p, v, who, "put") /\ chain' = chain /\ base' = base /\ restore' = restore
    BY <1>1 DEF Put
  <2> QED
    BY <1>a, <2>1, <2>2, CommitKeepsIInv
<1>2. ASSUME NEW t \in Threads, Observe(t) PROVE IInv'
  <2>1. /\ UNCHANGED <<commits, chain, change, base, restore>>
        /\ phase[t] = "emitted" /\ phase' = [phase EXCEPT ![t] = "scanning"]
    BY <1>2 DEF Observe
  <2> QED
    BY <1>a, <1>b, <2>1, QuietStep DEF TypeOK
<1>3. ASSUME NEW t \in Threads, NEW c \in ConfigPaths, ReadConfig(t, c) PROVE IInv'
  <2>1. UNCHANGED <<commits, chain, phase, change, base, restore>> /\ phase[t] = "scanning"
    BY <1>3 DEF ReadConfig
  <2> QED
    BY <1>a, <1>b, <2>1, QuietStep DEF TypeOK
<1>4. ASSUME NEW t \in Threads, Skip(t) \/ Report(t) PROVE IInv'
  <2>1. UNCHANGED <<commits, chain, restore>> /\ Return(t)
    BY <1>4 DEF Skip, Report
  <2> QED
    BY <1>a, <1>b, <2>1, QuietStep DEF TypeOK, Return
<1>5. ASSUME NEW t \in Threads, ReadHead(t) PROVE IInv'
  <2>1. /\ UNCHANGED <<commits, chain, change, restore>> /\ phase[t] = "scanning"
        /\ base' = [base EXCEPT ![t] = chain[change[t].path]]
        /\ phase' = [phase EXCEPT ![t] = "advancing"]
    BY <1>5 DEF ReadHead
  <2>2. change[t].path \in TreePaths
    BY <1>a, <2>1 DEF TypeOK, Changes
  <2>3. base'[t] = chain[change[t].path]
    BY <1>a, <2>1 DEF TypeOK
  <2>4. \A i \in DOMAIN base'[t] : Recorded(base'[t][i], change[t].path)
    BY <1>b, <2>2, <2>3
  <2> QED
    BY <1>a, <1>b, <2>1, <2>4, QuietStep DEF TypeOK
<1>6. ASSUME NEW t \in Threads, AdvanceHead(t) PROVE IInv'
  <2> DEFINE p == change[t].path
             x == Transition(change[t])
  <2>1. /\ chain' = [chain EXCEPT ![p] = Append(base[t], x)]
        /\ UNCHANGED <<commits, change, base, restore>>
        /\ phase[t] = "advancing" /\ phase' = [phase EXCEPT ![t] = "reporting"]
    BY <1>6 DEF AdvanceHead
  <2>2. p \in TreePaths /\ x \in Transitions
    BY <1>a, <2>1, TransitionType DEF TypeOK, Changes
  <2>3. Recorded(x, p) /\ \A i \in DOMAIN base[t] : Recorded(base[t][i], p)
    BY <2>1 DEF IInv, DeliversItsCommit, BaseRecorded
  <2>4. base[t] \in Seq(Transitions)
    BY <1>a DEF TypeOK
  <2> HIDE DEF x
  <2>5. \A i \in DOMAIN Append(base[t], x) : Recorded(Append(base[t], x)[i], p)
    BY <2>2, <2>3, <2>4
  <2>6. \A q \in TreePaths : \A i \in DOMAIN chain'[q] : Recorded(chain'[q][i], q)
    BY <1>a, <1>b, <2>1, <2>2, <2>5 DEF TypeOK
  <2> QED
    BY <1>a, <2>1, <2>6, QuietStep DEF TypeOK
<1>8. ASSUME NEW t \in Threads, NEW p \in TreePaths, NEW v \in Writable(p),
             NEW who \in Callers, Rollback(t, p, v, who)
      PROVE  IInv'
  <2>1. PICK i \in DOMAIN chain[p] : v \in {chain[p][i].hash, chain[p][i].previous_hash}
    BY <1>8 DEF Rollback, IsInHistory
  <2>2. PICK j \in DOMAIN commits[p] : Transition(commits[p][j]) = chain[p][i]
    BY <1>b DEF Recorded
  <2>3. v \in {commits[p][j].new, commits[p][j].prev}
    BY <2>1, <2>2 DEF Transition
  <2>4. /\ UNCHANGED <<commits, chain, change, base>>
        /\ restore' = [restore EXCEPT ![t] = [path |-> p, target |-> v, who |-> who]]
        /\ phase' = [phase EXCEPT ![t] = "restoring"]
    BY <1>8 DEF Rollback
  <2>5. restore'[t].path = p /\ restore'[t].target = v
    BY <1>a, <2>4 DEF TypeOK
  <2> QED
    BY <1>a, <1>b, <2>3, <2>4, <2>5, QuietStep DEF TypeOK
<1>9. ASSUME NEW t \in Threads, RollbackBind(t) PROVE IInv'
  <2>1. restore[t] \in Restores /\ phase[t] = "restoring"
    BY <1>9, <1>a DEF RollbackBind, TypeOK
  <2>2. /\ restore[t].path \in TreePaths
        /\ restore[t].target \in Content \cup {Absent}
        /\ restore[t].who \in Writers
    BY <2>1 DEF Restores, Writers
  <2>3. \E j \in DOMAIN commits[restore[t].path] :
          restore[t].target \in {commits[restore[t].path][j].new,
                                commits[restore[t].path][j].prev}
    BY <2>1 DEF IInv, RestoreWasHeld
  <2>4. /\ Commit(t, restore[t].path, restore[t].target, restore[t].who, "rollback")
        /\ chain' = chain /\ base' = base
        /\ restore' = [restore EXCEPT ![t] = Absent]
    BY <1>9 DEF RollbackBind
  <2>5. \A u \in Threads \ {t} : restore'[u] = restore[u]
    BY <1>a, <2>4 DEF TypeOK
  <2> QED
    BY <1>a, <2>2, <2>3, <2>4, <2>5, CommitKeepsIInv
<1>10. ASSUME NEW t \in Threads, RollbackUnchanged(t) PROVE IInv'
  <2>1. /\ UNCHANGED <<commits, chain, change, base>>
        /\ restore' = [restore EXCEPT ![t] = Absent]
        /\ phase' = [phase EXCEPT ![t] = "idle"]
    BY <1>10 DEF RollbackUnchanged
  <2> QED
    BY <1>a, <1>b, <2>1, QuietStep DEF TypeOK
<1>11. CASE UNCHANGED vars
  BY <1>11, <1>a
     DEF vars, IInv, CommitsAreChanges, ChainRecorded, DeliversItsCommit, BaseRecorded,
         RestoreWasHeld, RestoresOnlyPast, Recorded, Transition, BuildContext,
         FromCoreEventType, CoreEvent
<1>12. CASE Rest
  BY <1>11, <1>12 DEF Rest
<1> QED
  BY <1>1, <1>2, <1>3, <1>4, <1>5, <1>6, <1>8, <1>9, <1>10, <1>11, <1>12
     DEF Next, Request, Deliver

\* The inductive invariant holds in every reachable state.
LEMMA Invariance == Spec => []IInv
<1>1. IInv /\ [Next]_vars => IInv'
  BY StepIInv
<1> QED
  BY <1>1, InitIInv, PTL DEF Spec

\* A recorded transition attests a change that really happened to its path:
\* no interleaving of threads forges a value, an event or an author.
THEOREM ChainIsSound == Spec => []ChainSound
<1>1. IInv => ChainSound
  <2> SUFFICES ASSUME IInv, NEW p \in TreePaths, NEW i \in DOMAIN chain[p]
               PROVE  \E j \in DOMAIN commits[p] : Attests(chain[p][i], commits[p][j])
    BY DEF ChainSound
  <2>1. PICK j \in DOMAIN commits[p] : Transition(commits[p][j]) = chain[p][i]
    BY DEF IInv, ChainRecorded, Recorded
  <2>2. /\ commits[p][j].new # commits[p][j].prev
        /\ commits[p][j].kind = CoreEvent(commits[p][j].prev, commits[p][j].new)
    BY DEF IInv, CommitsAreChanges
  <2> QED
    BY <2>1, <2>2 DEF Attests, Transition, BuildContext, FromCoreEventType, CoreEvent
<1> QED
  BY <1>1, Invariance, PTL

\* A rollback installs only what its path has held before, whatever happens
\* between its check of the chain and its write.
THEOREM RollbackRestoresPast == Spec => []RestoresOnlyPast
<1>1. IInv => RestoresOnlyPast
  BY DEF IInv
<1> QED
  BY <1>1, Invariance, PTL

--------------------------------------------------------------------------------
(***************************************************************************)
(* The audit log.                                                          *)
(***************************************************************************)

Delivering(t) == phase[t] \in {"emitted", "scanning", "advancing"}
OneAtATime == \A s, t \in Threads : s # t => "idle" \in {phase[s], phase[t]}

\* Two configurations are told apart by the order of their patterns.
LEMMA OutranksTotal ==
    ASSUME NEW r \in Rules, NEW q \in Rules, ~Outranks(r, q), ~Outranks(q, r)
    PROVE  r = q
<1>1. /\ r.literals \in Nat /\ q.literals \in Nat /\ r.depth \in Nat /\ q.depth \in Nat
      /\ r.canon \in Nat /\ q.canon \in Nat
  BY RuleAssumption
<1>2. r.literals = q.literals /\ r.depth = q.depth /\ r.canon = q.canon
  BY <1>1 DEF Outranks
<1> QED
  BY <1>2, DistinctPatterns

--------------------------------------------------------------------------------
(***************************************************************************)
(* The audit log in each state: the chains, and the change that is being   *)
(* delivered if it is going to be recorded.                                *)
(***************************************************************************)
LogFacts ==
    TypeOK /\ OneAtATime =>
        /\ (\A t \in Threads : ~Delivering(t)) => Log = chain
        /\ \A t \in Threads : Delivering(t) =>
              Log = IF WillRecord(t, change[t].path)
                    THEN [chain EXCEPT ![change[t].path] = Append(@, Transition(change[t]))]
                    ELSE chain

\* In every well-typed state in which one thread at most is busy ...
LEMMA Logs == LogFacts
<1> SUFFICES ASSUME TypeOK, OneAtATime
             PROVE  /\ (\A t \in Threads : ~Delivering(t)) => Log = chain
                    /\ \A t \in Threads : Delivering(t) =>
                          Log = IF WillRecord(t, change[t].path)
                                THEN [chain EXCEPT ![change[t].path] = Append(@, Transition(change[t]))]
                                ELSE chain
  BY DEF LogFacts
<1>1. DOMAIN chain = TreePaths /\ chain = [p \in TreePaths |-> chain[p]]
  BY DEF TypeOK
<1>2. ASSUME \A t \in Threads : ~Delivering(t) PROVE Log = chain
  <2>1. \A t \in Threads : \A p : ~WillRecord(t, p)
    BY <1>2 DEF WillRecord, Delivering
  <2>2. Log = [p \in TreePaths |-> chain[p]]
    BY <2>1 DEF Log
  <2> QED
    BY <1>1, <2>2
<1>3. ASSUME NEW t \in Threads, Delivering(t)
      PROVE  Log = IF WillRecord(t, change[t].path)
                   THEN [chain EXCEPT ![change[t].path] = Append(@, Transition(change[t]))]
                   ELSE chain
  <2>1. \A u \in Threads : \A p : WillRecord(u, p) => u = t /\ p = change[t].path
    BY <1>3 DEF WillRecord, Delivering, OneAtATime
  <2>2. CASE WillRecord(t, change[t].path)
    <3>1. (CHOOSE u \in Threads : WillRecord(u, change[t].path)) = t
      BY <2>1, <2>2
    <3>2. Log = [p \in TreePaths |-> IF p = change[t].path THEN Append(chain[p], Transition(change[t]))
                                                             ELSE chain[p]]
      BY <2>1, <2>2, <3>1 DEF Log
    <3> QED
      BY <1>1, <2>2, <3>2
  <2>3. CASE ~WillRecord(t, change[t].path)
    <3>1. Log = [p \in TreePaths |-> chain[p]]
      BY <2>1, <2>3 DEF Log
    <3> QED
      BY <1>1, <2>3, <3>1
  <2> QED
    BY <2>2, <2>3
<1> QED
  BY <1>2, <1>3

\* ... hence in the next one too.
LEMMA LogsNext == LogFacts'
BY Logs, PTL

--------------------------------------------------------------------------------
(***************************************************************************)
(* What the thread that is serving has seen so far.  Nobody writes while   *)
(* it scans, so that it stays true of the tree and of the chain.           *)
(***************************************************************************)
\* The best of the rows that were read is bound somewhere, and none of them
\* outranks it.
Scanned(t) ==
    /\ best[t] # Absent => /\ best[t] \in Rules /\ change[t].path \in best[t].covers
                           /\ \E c \in ConfigPaths : tree[c] = best[t]
    /\ \A c \in ConfigPaths \ todo[t] :
          tree[c] \in Rules /\ change[t].path \in tree[c].covers =>
              best[t] # Absent /\ ~Outranks(tree[c], best[t])

Validated(t) ==
    LET r == restore[t]
    IN  <<r.who, r.path>> \in MayRollback /\ r.target \in Writable(r.path)
        /\ IsInHistory(r.path, r.target)

SerialInv ==
    /\ OneAtATime
    /\ \A t \in Threads :
          /\ phase[t] \in {"idle", "emitted", "restoring"} => best[t] = Absent
          /\ phase[t] = "scanning" => Scanned(t)
          /\ phase[t] = "advancing" =>
                base[t] = chain[change[t].path] /\ WillRecord(t, change[t].path)
          /\ phase[t] = "restoring" => Validated(t)

\* The rows are all read: what was found is what is in force.
LEMMA ScanFindsInForce ==
    ASSUME TypeOK, NEW t \in Threads, phase[t] = "scanning", Scanned(t), todo[t] = {}
    PROVE  Audits(best[t], change[t]) <=> \E r \in InForce(change[t].path) : Audits(r, change[t])
<1> DEFINE p == change[t].path
           cover == {r \in Rules : p \in r.covers /\ \E c \in ConfigPaths : tree[c] = r}
<1>1. InForce(p) = {r \in cover : \A q \in cover : ~Outranks(q, r)}
  BY DEF InForce
<1>2. \A r \in cover : best[t] # Absent /\ ~Outranks(r, best[t])
  BY DEF Scanned
<1>3. best[t] # Absent => best[t] \in cover
  BY DEF Scanned
<1>4. best[t] # Absent => InForce(p) = {best[t]}
  <2> SUFFICES ASSUME best[t] # Absent PROVE InForce(p) = {best[t]}
    OBVIOUS
  <2>1. best[t] \in InForce(p)
    BY <1>1, <1>2, <1>3
  <2>2. \A r \in InForce(p) : r \in Rules /\ ~Outranks(best[t], r) /\ ~Outranks(r, best[t])
    BY <1>1, <1>2, <1>3
  <2>3. \A r \in InForce(p) : r = best[t]
    BY <2>2, <1>3, OutranksTotal
  <2> QED
    BY <2>1, <2>3
<1>5. best[t] = Absent => InForce(p) = {}
  BY <1>1, <1>2
<1> QED
  BY <1>4, <1>5 DEF Audits

--------------------------------------------------------------------------------
(* A change of the tree *)

\* The step of the audit log in the recorder's terms.
Logged(c) ==
    /\ tree[c.path] # c.new /\ tree' = [tree EXCEPT ![c.path] = c.new]
    /\ Log' = IF \E r \in InForce(c.path)' : Audits(r, c)
              THEN [Log EXCEPT ![c.path] = Append(@, Transition(c))] ELSE Log

\* A change of the tree is a change the audit log makes together with its entry.
LEMMA CommitIsLogged ==
    ASSUME TypeOK, TypeOK', OneAtATime', NEW t \in Threads, phase[t] \in {"idle", "restoring"},
           NEW p \in TreePaths, NEW v, NEW who, NEW op, Commit(t, p, v, who, op), UNCHANGED chain
    PROVE  \E c : /\ c = [path |-> p, kind |-> CoreEvent(tree[p], v), new |-> v,
                          prev |-> tree[p], who |-> who, op |-> op]
                  /\ Logged(c) /\ Log = chain
<1>0. PICK c : c = [path |-> p, kind |-> CoreEvent(tree[p], v), new |-> v, prev |-> tree[p],
                    who |-> who, op |-> op]
  OBVIOUS
<1>1. /\ tree[p] # v /\ tree' = [tree EXCEPT ![p] = v] /\ change'[t] = c
      /\ phase'[t] = "emitted" /\ \A u \in Threads : u # t => phase'[u] = phase[u]
  BY <1>0 DEF Commit, TypeOK
<1>2. \A u \in Threads : u # t => phase[u] = "idle"
  BY <1>1 DEF OneAtATime
<1>3. (\A u \in Threads : ~Delivering(u)) /\ OneAtATime
  BY <1>2 DEF Delivering, OneAtATime
<1>4. Log = chain
  BY <1>3, Logs DEF LogFacts
<1>5. Delivering(t)'
  BY <1>1 DEF Delivering
<1>6. c.path = p /\ c.new = v
  BY <1>0
<1>7. Transition(change[t])' = Transition(c)
  BY <1>1 DEF Transition, BuildContext
<1>8. WillRecord(t, change[t].path)' <=> \E r \in InForce(c.path)' : Audits(r, c)
  <2>1. change'[t].path = c.path
    BY <1>1
  <2>2. \A r : Audits(r, change[t])' <=> Audits(r, c)
    BY <1>1 DEF Audits
  <2>3. InForce(change[t].path)' = InForce(c.path)'
    BY <2>1 DEF InForce
  <2> QED
    BY <1>1, <2>1, <2>2, <2>3 DEF WillRecord
<1>9. Log' = IF WillRecord(t, change[t].path)'
             THEN [chain EXCEPT ![c.path] = Append(@, Transition(c))] ELSE chain
  <2>1. change'[t].path = c.path
    BY <1>1
  <2>2. Log' = IF WillRecord(t, change[t].path)'
               THEN [chain' EXCEPT ![change'[t].path] = Append(@, Transition(change[t])')] ELSE chain'
    BY <1>5, LogsNext DEF LogFacts
  <2> QED
    BY <1>7, <2>1, <2>2
<1>10. Logged(c)
  BY <1>1, <1>4, <1>6, <1>8, <1>9 DEF Logged
<1> QED
  BY <1>0, <1>4, <1>10

--------------------------------------------------------------------------------
(* The invariant *)

\* Before the first request nobody has seen anything.
LEMMA SerialInit == Init => SerialInv
BY DEF Init, SerialInv, OneAtATime

\* In a step of thread t all others rest, so only t's facts are to be shown.
LEMMA OnlyOneSees ==
    ASSUME SerialInv, OneAtATime', NEW t \in Threads,
           phase[t] # "idle" \/ phase'[t] # "idle",
           \A u \in Threads \ {t} : phase'[u] = phase[u] /\ best'[u] = best[u],
           phase'[t] \in {"idle", "emitted", "restoring"} => best'[t] = Absent,
           phase'[t] = "scanning" => Scanned(t)',
           phase'[t] = "advancing" =>
              base'[t] = chain'[change'[t].path] /\ WillRecord(t, change[t].path)',
           phase'[t] = "restoring" => Validated(t)'
    PROVE  SerialInv'
<1>1. \A u \in Threads \ {t} : phase'[u] = "idle" /\ best'[u] = Absent
  BY DEF SerialInv, OneAtATime
<1>2. ASSUME NEW u \in Threads
      PROVE  /\ phase'[u] \in {"idle", "emitted", "restoring"} => best'[u] = Absent
             /\ phase'[u] = "scanning" => Scanned(u)'
             /\ phase'[u] = "advancing" =>
                   base'[u] = chain'[change'[u].path] /\ WillRecord(u, change[u].path)'
             /\ phase'[u] = "restoring" => Validated(u)'
  <2>1. CASE u = t
    BY <2>1
  <2>2. CASE u # t
    BY <1>1, <2>2
  <2> QED
    BY <2>1, <2>2
<1> QED
  BY <1>2 DEF SerialInv

\* One row read: the best so far still outranks, or is, every row that was read.
LEMMA RowScanned ==
    ASSUME TypeOK, NEW t \in Threads, NEW c \in ConfigPaths, ReadConfig(t, c), Scanned(t)
    PROVE  Scanned(t)'
<1>1. /\ tree' = tree /\ change' = change
      /\ todo'[t] = todo[t] \ {c}
      /\ best'[t] = Better(tree[c], best[t], change[t].path)
  BY DEF ReadConfig, TypeOK, treeVars
<1>2. best'[t] # Absent =>
        /\ best'[t] \in Rules /\ change[t].path \in best'[t].covers
        /\ \E d \in ConfigPaths : tree[d] = best'[t]
  BY <1>1 DEF Better, Scanned
<1>3. ASSUME NEW d \in ConfigPaths \ todo'[t], tree[d] \in Rules,
             change[t].path \in tree[d].covers
      PROVE  best'[t] # Absent /\ ~Outranks(tree[d], best'[t])
  <2>1. Absent \notin Rules
    BY ConstantAssumption DEF Content, Configs
  <2>2. best[t] \in Rules \cup {Absent}
    BY DEF TypeOK
  <2>3. CASE d = c
    BY <1>1, <1>3, <2>1, <2>2, <2>3, OutranksAsymmetric DEF Better
  <2>4. CASE d # c
    <3>1. best[t] # Absent /\ ~Outranks(tree[d], best[t])
      BY <1>1, <1>3, <2>4 DEF Scanned
    <3>2. CASE best'[t] = best[t]
      BY <3>1, <3>2
    <3>3. CASE best'[t] = tree[c] /\ tree[c] \in Rules /\ Outranks(tree[c], best[t])
      <4>1. ~Outranks(tree[d], tree[c])
        BY <1>3, <2>2, <3>1, <3>3, OutranksTransitive
      <4> QED
        BY <2>1, <3>3, <4>1
    <3> QED
      BY <1>1, <3>1, <3>2, <3>3 DEF Better
  <2> QED
    BY <2>3, <2>4
<1> QED
  BY <1>1, <1>2, <1>3 DEF Scanned, Outranks

--------------------------------------------------------------------------------
(* What each step is to the audit log *)

\* A put or delete, or an autonomous write.
LoggedWrite ==
    \E c : /\ c.path \in TreePaths /\ c.new \in Writable(c.path) \cup {Absent}
           /\ c.prev = tree[c.path] /\ c.kind = CoreEvent(c.prev, c.new)
           /\ c.who \in Writers /\ c.op = "put" /\ Logged(c)

\* A rollback by a caller who may, to a value the path's log names.
LoggedRestore ==
    \E c : /\ c.path \in TreePaths /\ c.new \in Writable(c.path)
           /\ c.prev = tree[c.path] /\ c.kind = CoreEvent(c.prev, c.new)
           /\ c.who \in Callers /\ c.op = "rollback" /\ <<c.who, c.path>> \in MayRollback
           /\ \E i \in DOMAIN Log[c.path] :
                 c.new \in {Log[c.path][i].hash, Log[c.path][i].previous_hash}
           /\ Logged(c)

LogStep == LoggedWrite \/ LoggedRestore \/ UNCHANGED <<tree, Log>>

\* Whether a change will be recorded depends on the tree and on the change.
LEMMA WillRecordSame ==
    ASSUME NEW t \in Threads, tree' = tree, change'[t] = change[t], Delivering(t), Delivering(t)'
    PROVE  WillRecord(t, change[t].path)' <=> WillRecord(t, change[t].path)
<1>1. InForce(change[t].path)' = InForce(change[t].path)
  BY DEF InForce
<1>2. \A r : Audits(r, change[t])' <=> Audits(r, change[t])
  BY DEF Audits
<1> QED
  BY <1>1, <1>2 DEF WillRecord, Delivering

\* A thread that goes on delivering its change leaves the log alone.
LEMMA StillDelivering ==
    ASSUME TypeOK, TypeOK', OneAtATime, OneAtATime', NEW t \in Threads, tree' = tree,
           chain' = chain, change'[t] = change[t], Delivering(t), Delivering(t)'
    PROVE  Log' = Log
<1>1. Log = IF WillRecord(t, change[t].path)
            THEN [chain EXCEPT ![change[t].path] = Append(@, Transition(change[t]))] ELSE chain
  BY Logs DEF LogFacts
<1>2. Log' = IF WillRecord(t, change[t].path)'
             THEN [chain' EXCEPT ![change'[t].path] = Append(@, Transition(change[t])')] ELSE chain'
  BY LogsNext DEF LogFacts
<1>3. Transition(change[t])' = Transition(change[t])
  BY DEF Transition, BuildContext
<1> QED
  BY <1>1, <1>2, <1>3, WillRecordSame

\* Nobody delivers before or after: the log is the chains.
LEMMA NobodyDelivers ==
    ASSUME TypeOK, TypeOK', OneAtATime, OneAtATime', chain' = chain,
           \A t \in Threads : ~Delivering(t), \A t \in Threads : ~Delivering(t)'
    PROVE  Log' = Log
<1>1. Log = chain
  BY Logs DEF LogFacts
<1>2. Log' = chain'
  BY LogsNext DEF LogFacts
<1> QED
  BY <1>1, <1>2

\* Every step keeps the invariant and is a step of the audit log or none.
LEMMA SerialStep ==
    ASSUME TypeOK, TypeOK', SerialInv, OneAtATime', [Next]_vars
    PROVE  SerialInv' /\ LogStep
<1> USE DEF treeVars, recorderVars, scanVars
<1>0. OneAtATime
  BY DEF SerialInv
<1>a. ASSUME NEW t \in Threads, phase[t] # "idle"
      PROVE  \A u \in Threads \ {t} : phase[u] = "idle"
  BY <1>0, <1>a DEF OneAtATime
<1>1. ASSUME NEW t \in Threads, NEW p \in TreePaths, NEW v \in Writable(p) \cup {Absent},
             NEW who \in Writers, Put(t, p, v, who)
      PROVE  SerialInv' /\ LogStep
  <2>1. /\ phase[t] = "idle" /\ Commit(t, p, v, who, "put") /\ chain' = chain /\ best' = best
        /\ phase' = [phase EXCEPT ![t] = "emitted"]
    BY <1>1 DEF Put, Commit
  <2>2. PICK c : /\ c = [path |-> p, kind |-> CoreEvent(tree[p], v), new |-> v,
                         prev |-> tree[p], who |-> who, op |-> "put"]
                 /\ Logged(c)
    BY <2>1, CommitIsLogged
  <2>3. LoggedWrite
    BY <2>2 DEF LoggedWrite
  <2>4. phase'[t] = "emitted" /\ best'[t] = Absent
    BY <2>1 DEF TypeOK, SerialInv
  <2>5. SerialInv'
    BY <2>1, <2>4, OnlyOneSees DEF TypeOK
  <2> QED
    BY <2>3, <2>5 DEF LogStep
<1>2. ASSUME NEW t \in Threads, Observe(t) PROVE SerialInv' /\ LogStep
  <2>1. /\ phase[t] = "emitted" /\ phase' = [phase EXCEPT ![t] = "scanning"]
        /\ todo' = [todo EXCEPT ![t] = {c \in ConfigPaths : tree[c] # Absent}]
        /\ tree' = tree /\ chain' = chain /\ change' = change /\ best' = best
    BY <1>2 DEF Observe
  <2>2. best'[t] = Absent /\ todo'[t] = {c \in ConfigPaths : tree[c] # Absent} /\ phase'[t] = "scanning"
    BY <2>1 DEF SerialInv, TypeOK
  <2>3. Absent \notin Rules
    BY ConstantAssumption DEF Content, Configs
  <2>4. Scanned(t)'
    BY <2>1, <2>2, <2>3 DEF Scanned
  <2>5. SerialInv'
    BY <2>1, <2>2, <2>4, OnlyOneSees DEF TypeOK
  <2>6. Log' = Log
    BY <1>0, <2>1, <2>2, StillDelivering DEF Delivering
  <2> QED
    BY <2>1, <2>5, <2>6 DEF LogStep
<1>3. ASSUME NEW t \in Threads, NEW c \in ConfigPaths, ReadConfig(t, c)
      PROVE  SerialInv' /\ LogStep
  <2>1. /\ phase[t] = "scanning" /\ phase' = phase /\ tree' = tree /\ chain' = chain
        /\ change' = change /\ \A u \in Threads \ {t} : best'[u] = best[u]
    BY <1>3 DEF ReadConfig, TypeOK
  <2>2. Scanned(t)'
    BY <1>3, <2>1, RowScanned DEF SerialInv
  <2>3. SerialInv'
    BY <2>1, <2>2, OnlyOneSees
  <2>4. Log' = Log
    BY <1>0, <2>1, StillDelivering DEF Delivering
  <2> QED
    BY <2>1, <2>3, <2>4 DEF LogStep
<1>4. ASSUME NEW t \in Threads, Skip(t) PROVE SerialInv' /\ LogStep
  <2>1. /\ phase[t] = "scanning" /\ todo[t] = {} /\ ~Audits(best[t], change[t])
        /\ phase' = [phase EXCEPT ![t] = "idle"] /\ best' = [best EXCEPT ![t] = Absent]
        /\ tree' = tree /\ chain' = chain
    BY <1>4 DEF Skip, Return
  <2>2. /\ phase'[t] = "idle" /\ best'[t] = Absent
        /\ \A u \in Threads \ {t} : phase'[u] = phase[u] /\ best'[u] = best[u]
    BY <2>1 DEF TypeOK
  <2>3. SerialInv'
    BY <2>1, <2>2, OnlyOneSees
  <2>4. ~WillRecord(t, change[t].path)
    BY <2>1, ScanFindsInForce DEF SerialInv, WillRecord
  <2>5. Log = chain
    BY <1>0, <2>1, <2>4, Logs DEF LogFacts, Delivering
  <2>6. \A u \in Threads : ~Delivering(u)'
    BY <1>a, <2>1, <2>2 DEF Delivering
  <2>7. Log' = chain'
    BY <2>6, LogsNext DEF LogFacts
  <2> QED
    BY <2>1, <2>3, <2>5, <2>7 DEF LogStep
<1>5. ASSUME NEW t \in Threads, ReadHead(t) PROVE SerialInv' /\ LogStep
  <2>1. /\ phase[t] = "scanning" /\ todo[t] = {} /\ Audits(best[t], change[t])
        /\ base' = [base EXCEPT ![t] = chain[change[t].path]]
        /\ phase' = [phase EXCEPT ![t] = "advancing"] /\ best' = best
        /\ tree' = tree /\ chain' = chain /\ change' = change
    BY <1>5 DEF ReadHead
  <2>2. /\ phase'[t] = "advancing" /\ base'[t] = chain[change[t].path]
        /\ \A u \in Threads \ {t} : phase'[u] = phase[u] /\ best'[u] = best[u]
    BY <2>1 DEF TypeOK
  <2>3. WillRecord(t, change[t].path)
    BY <2>1, ScanFindsInForce DEF SerialInv, WillRecord
  <2>4. WillRecord(t, change[t].path)'
    BY <2>1, <2>2, <2>3, WillRecordSame DEF Delivering
  <2>5. SerialInv'
    BY <2>1, <2>2, <2>4, OnlyOneSees
  <2>6. Log' = Log
    BY <1>0, <2>1, <2>2, StillDelivering DEF Delivering
  <2> QED
    BY <2>1, <2>5, <2>6 DEF LogStep
<1>6. ASSUME NEW t \in Threads, AdvanceHead(t) PROVE SerialInv' /\ LogStep
  <2>1. /\ phase[t] = "advancing" /\ phase' = [phase EXCEPT ![t] = "reporting"]
        /\ chain' = [chain EXCEPT ![change[t].path] = Append(base[t], Transition(change[t]))]
        /\ tree' = tree /\ best' = best
    BY <1>6 DEF AdvanceHead
  <2>2. /\ phase'[t] = "reporting"
        /\ \A u \in Threads \ {t} : phase'[u] = phase[u] /\ best'[u] = best[u]
    BY <2>1 DEF TypeOK
  <2>3. SerialInv'
    BY <2>1, <2>2, OnlyOneSees
  <2>4. base[t] = chain[change[t].path] /\ WillRecord(t, change[t].path)
    BY <2>1 DEF SerialInv
  <2>5. Log = [chain EXCEPT ![change[t].path] = Append(@, Transition(change[t]))]
    BY <1>0, <2>1, <2>4, Logs DEF LogFacts, Delivering
  <2>6. \A u \in Threads : ~Delivering(u)'
    BY <1>a, <2>1, <2>2 DEF Delivering
  <2>7. Log' = chain'
    BY <2>6, LogsNext DEF LogFacts
  <2>8. Log' = Log
    BY <2>1, <2>4, <2>5, <2>7
  <2> QED
    BY <2>1, <2>3, <2>8 DEF LogStep
<1>7. ASSUME NEW t \in Threads, Report(t) PROVE SerialInv' /\ LogStep
  <2>1. /\ phase[t] = "reporting" /\ phase' = [phase EXCEPT ![t] = "idle"]
        /\ best' = [best EXCEPT ![t] = Absent] /\ tree' = tree /\ chain' = chain
    BY <1>7 DEF Report, Return
  <2>2. /\ phase'[t] = "idle" /\ best'[t] = Absent
        /\ \A u \in Threads \ {t} : phase'[u] = phase[u] /\ best'[u] = best[u]
    BY <2>1 DEF TypeOK
  <2>3. SerialInv'
    BY <2>1, <2>2, OnlyOneSees
  <2>4. \A u \in Threads : ~Delivering(u) /\ ~Delivering(u)'
    BY <1>a, <2>1, <2>2 DEF Delivering
  <2>5. Log' = Log
    BY <1>0, <2>1, <2>4, NobodyDelivers
  <2> QED
    BY <2>1, <2>3, <2>5 DEF LogStep
<1>8. ASSUME NEW t \in Threads, NEW p \in TreePaths, NEW v \in Writable(p),
             NEW who \in Callers, Rollback(t, p, v, who)
      PROVE  SerialInv' /\ LogStep
  <2>1. /\ phase[t] = "idle" /\ phase' = [phase EXCEPT ![t] = "restoring"]
        /\ restore' = [restore EXCEPT ![t] = [path |-> p, target |-> v, who |-> who]]
        /\ <<who, p>> \in MayRollback /\ IsInHistory(p, v)
        /\ tree' = tree /\ chain' = chain /\ best' = best
    BY <1>8 DEF Rollback
  <2>2. /\ phase'[t] = "restoring" /\ best'[t] = Absent
        /\ restore'[t] = [path |-> p, target |-> v, who |-> who]
        /\ \A u \in Threads \ {t} : phase'[u] = phase[u] /\ best'[u] = best[u]
    BY <2>1 DEF TypeOK, SerialInv
  <2>3. Validated(t)'
    BY <2>1, <2>2 DEF Validated, IsInHistory, Writable
  <2>4. SerialInv'
    BY <2>2, <2>3, OnlyOneSees
  <2>5. \A u \in Threads : ~Delivering(u) /\ ~Delivering(u)'
    BY <2>1, <2>2 DEF Delivering, OneAtATime
  <2>6. Log' = Log
    BY <1>0, <2>1, <2>5, NobodyDelivers
  <2> QED
    BY <2>1, <2>4, <2>6 DEF LogStep
<1>9. ASSUME NEW t \in Threads, RollbackBind(t) PROVE SerialInv' /\ LogStep
  <2> DEFINE r == restore[t]
  <2>1. /\ phase[t] = "restoring" /\ Commit(t, r.path, r.target, r.who, "rollback")
        /\ chain' = chain /\ best' = best /\ phase' = [phase EXCEPT ![t] = "emitted"]
    BY <1>9 DEF RollbackBind, Commit
  <2>2. r.path \in TreePaths /\ r.who \in Callers
    BY <2>1 DEF TypeOK, Restores
  <2>3. <<r.who, r.path>> \in MayRollback /\ r.target \in Writable(r.path)
        /\ IsInHistory(r.path, r.target)
    BY <2>1 DEF SerialInv, Validated
  <2>4. PICK c : /\ c = [path |-> r.path, kind |-> CoreEvent(tree[r.path], r.target), new |-> r.target,
                         prev |-> tree[r.path], who |-> r.who, op |-> "rollback"]
                 /\ Logged(c) /\ Log = chain
    BY <2>1, <2>2, CommitIsLogged
  <2>5. /\ c.path = r.path /\ c.new = r.target /\ c.who = r.who /\ c.op = "rollback"
        /\ c.prev = tree[c.path] /\ c.kind = CoreEvent(c.prev, c.new)
    BY <2>4
  <2>6. LoggedRestore
    BY <2>2, <2>3, <2>4, <2>5 DEF LoggedRestore, IsInHistory
  <2>7. phase'[t] = "emitted" /\ best'[t] = Absent
    BY <2>1 DEF TypeOK, SerialInv
  <2>8. SerialInv'
    BY <2>1, <2>7, OnlyOneSees DEF TypeOK
  <2> QED
    BY <2>6, <2>8 DEF LogStep
<1>10. ASSUME NEW t \in Threads, RollbackUnchanged(t) PROVE SerialInv' /\ LogStep
  <2>1. /\ phase[t] = "restoring" /\ phase' = [phase EXCEPT ![t] = "idle"]
        /\ tree' = tree /\ chain' = chain /\ best' = best
    BY <1>10 DEF RollbackUnchanged
  <2>2. /\ phase'[t] = "idle" /\ best'[t] = Absent
        /\ \A u \in Threads \ {t} : phase'[u] = phase[u] /\ best'[u] = best[u]
    BY <2>1 DEF TypeOK, SerialInv
  <2>3. SerialInv'
    BY <2>1, <2>2, OnlyOneSees
  <2>4. \A u \in Threads : ~Delivering(u) /\ ~Delivering(u)'
    BY <1>a, <2>1, <2>2 DEF Delivering
  <2>5. Log' = Log
    BY <1>0, <2>1, <2>4, NobodyDelivers
  <2> QED
    BY <2>1, <2>3, <2>5 DEF LogStep
<1>11. CASE UNCHANGED vars
  <2>1. /\ UNCHANGED <<tree, chain, phase, change, todo, best, base, restore>>
    BY <1>11 DEF vars
  <2>2. \A u \in Threads : \A p : WillRecord(u, p)' <=> WillRecord(u, p)
    BY <2>1 DEF WillRecord, InForce, Audits
  <2>3. Log' = Log
    BY <2>1, <2>2 DEF Log, Transition, BuildContext
  <2>4. \A u \in Threads : Scanned(u)' <=> Scanned(u)
    BY <2>1 DEF Scanned
  <2>5. \A u \in Threads : Validated(u)' <=> Validated(u)
    BY <2>1 DEF Validated, Writable, IsInHistory
  <2>6. ASSUME NEW u \in Threads
        PROVE  WillRecord(u, change[u].path)' <=> WillRecord(u, change[u].path)
    BY <2>1 DEF WillRecord, InForce, Audits
  <2>7. SerialInv'
    BY <2>1, <2>4, <2>5, <2>6 DEF SerialInv
  <2> QED
    BY <2>1, <2>3, <2>7 DEF LogStep
<1>12. CASE Rest
  BY <1>11, <1>12 DEF Rest
<1> QED
  BY <1>1, <1>2, <1>3, <1>4, <1>5, <1>6, <1>7, <1>8, <1>9, <1>10, <1>11, <1>12
     DEF Next, Request, Deliver

--------------------------------------------------------------------------------
(***************************************************************************)
(* The same step in the audit log's own terms.                             *)
(***************************************************************************)
\* A logged change is a change of the audit log, under the author and the
\* operation its context names.
LEMMA LoggedIsChange ==
    ASSUME serial, serial', NEW c, c.prev = tree[c.path], c.kind = CoreEvent(c.prev, c.new), Logged(c)
    PROVE  Audit!Change(c.path, c.new, BuildContext(c).author, BuildContext(c).operation)
<1>1. /\ (IF serial THEN tree ELSE Nothing) = tree
      /\ (IF serial THEN tree ELSE Nothing)' = tree'
      /\ (IF serial THEN Log ELSE Empty) = Log
      /\ (IF serial THEN Log ELSE Empty)' = Log'
  OBVIOUS
<1>2. Audit!Entry(c.path, c.new, BuildContext(c).author, BuildContext(c).operation) = Transition(c)
  BY <1>1 DEF Audit!Entry, Audit!EventOf, Transition, FromCoreEventType, CoreEvent
<1>3. Transition(c).event = FromCoreEventType(c.kind)
  BY DEF Transition
<1>4. Audit!Governing(tree', c.path) = InForce(c.path)'
  BY DEF Audit!Governing, Audit!Covering, Audit!MoreSpecific, InForce, Outranks
<1>5. \A r \in InForce(c.path)' : Audits(r, c) <=> Audit!Demands(r, c.path, Transition(c).event)
  <2>1. Absent \notin Rules
    BY ConstantAssumption DEF Content, Configs
  <2> QED
    BY <1>3, <2>1 DEF Audits, Audit!Demands, InForce
<1> QED
  BY <1>1, <1>2, <1>4, <1>5 DEF Audit!Change, Logged

\* The peer starts with some tree and an empty log.
LEMMA InitImplements == AuditInit => Audit!Init
<1> SUFFICES ASSUME AuditInit PROVE Audit!Init
  OBVIOUS
<1>1. TypeOK /\ SerialInv
  BY TypeInit, SerialInit DEF AuditInit
<1>2. Log = chain
  BY <1>1, Logs DEF LogFacts, SerialInv, Delivering, AuditInit, Init
<1>3. Content \cup {Absent} = Values \cup Rules \cup {Malformed, Absent}
  BY DEF Content, Configs
<1>4. \A q \in TreePaths : Audit!Storable(q) = Writable(q)
  BY DEF Audit!Storable, Writable, Configs
<1>5. Audit!TreePaths = TreePaths
  BY DEF Audit!TreePaths, TreePaths
<1>6. CASE serial
  <2>1. (IF serial THEN tree ELSE Nothing) = tree /\ (IF serial THEN Log ELSE Empty) = chain
    BY <1>2, <1>6
  <2>2. /\ tree \in [TreePaths -> Values \cup Rules \cup {Malformed, Absent}]
        /\ \A q \in TreePaths : tree[q] \in Audit!Storable(q) \cup {Absent}
        /\ chain = [q \in TreePaths |-> <<>>]
    BY <1>3, <1>4 DEF AuditInit, Init
  <2> QED
    BY <1>5, <2>1, <2>2 DEF Audit!Init
<1>7. CASE ~serial
  <2>1. (IF serial THEN tree ELSE Nothing) = Nothing /\ (IF serial THEN Log ELSE Empty) = Empty
    BY <1>7
  <2> QED
    BY <1>5, <2>1 DEF Audit!Init, Nothing, Empty
<1> QED
  BY <1>6, <1>7

\* Every step of the recorder is a step of the audit log or none.
LEMMA StepImplements ==
    ASSUME TypeOK, TypeOK', serial => SerialInv, [AuditNext]_<<vars, serial>>
    PROVE  /\ serial' => SerialInv'
           /\ [Audit!Next]_<<IF serial THEN tree ELSE Nothing, IF serial THEN Log ELSE Empty>>
<1>1. [Next]_vars /\ serial' = serial
  BY DEF AuditNext
<1>2. CASE ~serial
  BY <1>1, <1>2 DEF Nothing, Empty
<1>3. CASE serial
  <2>1. OneAtATime'
    <3>1. CASE AuditNext
      BY <1>1, <1>3, <3>1 DEF AuditNext, InTurn, OneAtATime
    <3>2. CASE UNCHANGED <<vars, serial>>
      BY <1>3, <3>2 DEF SerialInv, OneAtATime, vars
    <3> QED
      BY <3>1, <3>2
  <2>2. SerialInv' /\ LogStep
    BY <1>1, <1>3, <2>1, SerialStep
  <2>3. /\ (IF serial THEN tree ELSE Nothing) = tree
        /\ (IF serial THEN tree ELSE Nothing)' = tree'
        /\ (IF serial THEN Log ELSE Empty) = Log
        /\ (IF serial THEN Log ELSE Empty)' = Log'
    BY <1>1, <1>3
  <2>4. \A q \in TreePaths : Audit!Storable(q) = Writable(q)
    BY DEF Audit!Storable, Writable, Configs
  <2>5. Audit!TreePaths = TreePaths
    BY DEF Audit!TreePaths, TreePaths
  <2>6. CASE LoggedWrite
    <3>1. PICK c : /\ c.path \in TreePaths /\ c.new \in Writable(c.path) \cup {Absent}
                   /\ c.prev = tree[c.path] /\ c.kind = CoreEvent(c.prev, c.new)
                   /\ c.who \in Writers /\ c.op = "put" /\ Logged(c)
      BY <2>6 DEF LoggedWrite
    <3>2. Audit!Change(c.path, c.new, BuildContext(c).author, BuildContext(c).operation)
      BY <1>1, <1>3, <3>1, LoggedIsChange
    <3>3. BuildContext(c).author \in Callers \cup {LocalPeer} /\ BuildContext(c).operation = "put"
      BY <3>1 DEF BuildContext, Writers
    <3>4. Audit!Write(c.path)
      BY <2>4, <3>1, <3>2, <3>3 DEF Audit!Write
    <3> QED
      BY <2>2, <2>5, <3>1, <3>4 DEF Audit!Next
  <2>7. CASE LoggedRestore
    <3>1. PICK c : /\ c.path \in TreePaths /\ c.new \in Writable(c.path)
                   /\ c.prev = tree[c.path] /\ c.kind = CoreEvent(c.prev, c.new)
                   /\ c.who \in Callers /\ c.op = "rollback" /\ <<c.who, c.path>> \in MayRollback
                   /\ \E i \in DOMAIN Log[c.path] :
                         c.new \in {Log[c.path][i].hash, Log[c.path][i].previous_hash}
                   /\ Logged(c)
      BY <2>7 DEF LoggedRestore
    <3>2. Audit!Change(c.path, c.new, BuildContext(c).author, BuildContext(c).operation)
      BY <1>1, <1>3, <3>1, LoggedIsChange
    <3>3. BuildContext(c).author = c.who /\ BuildContext(c).operation = "rollback"
      BY <3>1, ConstantAssumption DEF BuildContext
    <3>4. Audit!Restore(c.path)
      BY <2>3, <2>4, <3>1, <3>2, <3>3 DEF Audit!Restore
    <3> QED
      BY <2>2, <2>5, <3>1, <3>4 DEF Audit!Next
  <2>8. CASE UNCHANGED <<tree, Log>>
    BY <2>2, <2>3, <2>8
  <2> QED
    BY <2>2, <2>6, <2>7, <2>8 DEF LogStep
<1> QED
  BY <1>2, <1>3

\* Served one request at a time, the recorder with its events, its scan of the
\* configurations and its head pointers does what the audit log specifies: a
\* change and its entry are one step, made when the configuration in force asks.
THEOREM RecorderImplementsAuditLog == AuditSpec => ImplementsAuditLog
<1>1. AuditInit => TypeOK /\ (serial => SerialInv)
  BY TypeInit, SerialInit DEF AuditInit
<1>2. TypeOK /\ [AuditNext]_<<vars, serial>> => TypeOK'
  <2> SUFFICES ASSUME TypeOK, [AuditNext]_<<vars, serial>> PROVE TypeOK'
    OBVIOUS
  <2>1. [Next]_vars
    BY DEF AuditNext
  <2> QED
    BY <2>1, TypeStep
<1>3. TypeOK /\ TypeOK' /\ (serial => SerialInv) /\ [AuditNext]_<<vars, serial>>
        => /\ (serial => SerialInv)'
           /\ [Audit!Next]_<<IF serial THEN tree ELSE Nothing, IF serial THEN Log ELSE Empty>>
  BY StepImplements
<1> QED
  BY <1>1, <1>2, <1>3, InitImplements, PTL DEF AuditSpec, ImplementsAuditLog, Audit!Spec
================================================================================
