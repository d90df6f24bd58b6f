------------------------------- MODULE ToolProofs ------------------------------
(***************************************************************************)
(* Proofs about the tools that guard a composition, for any of their       *)
(* inputs: `make compose`, the conformance gates, `make ext-checks`.       *)
(***************************************************************************)
EXTENDS Compose, ConformanceGates, ExtChecks, NaturalLemmas

(***************************************************************************)
(* The composition resolver.                                               *)
(***************************************************************************)
\* The queue and the resolved names together: what the loop has met so far.
Met == Members \cup ToSet(stack)

ComposeTypeOK ==
    /\ contracts \in Books /\ system \in Systems
    /\ order \in Seq(Extensions) /\ stack \in Seq(Extensions)

NothingTwice == \A i, j \in DOMAIN order : order[i] = order[j] => i = j

\* What was met includes what was asked for and what its members need; and
\* whoever installs all that was asked for, and what it needs, installs it.
MetIsNeeded ==
    /\ Requested \subseteq Met
    /\ \A n \in Members : Loads(n) /\ ToSet(contracts[n].depends) \subseteq Met
    /\ \A S \in SUBSET Extensions :
          Requested \subseteq S /\ ClosedUnderDepends(S) => Met \subseteq S

\* A verdict that is not a refusal was given over a composition that asks for
\* something, passed every check, and is what PLAN.json says.
VerdictIsMeant ==
    /\ outcome # "refused" => Requested # {}
    /\ Accepted => stack = <<>> /\ Acceptable /\ plan = Fresh

\* The state a run starts in: nothing resolved, and the requested names queued.
JustStarted ==
    /\ system \in Systems /\ contracts \in Books
    /\ order = <<>> /\ stack = system.extensions
    /\ outcome = IF stack = <<>> THEN "refused" ELSE "resolving"

ComposeIInv == ComposeTypeOK /\ NothingTwice /\ MetIsNeeded /\ VerdictIsMeant

--------------------------------------------------------------------------------
\* What is in a queue after its head left and some names were added.
LEMMA QueueContents ==
    ASSUME NEW S, NEW s \in Seq(S), NEW t \in Seq(S), s # <<>>
    PROVE  /\ Tail(s) \in Seq(S) /\ Head(s) \in S /\ Tail(s) \o t \in Seq(S)
           /\ ToSet(s) = {Head(s)} \cup ToSet(Tail(s))
           /\ ToSet(Tail(s) \o t) = ToSet(Tail(s)) \cup ToSet(t)
<1>1. Tail(s) \in Seq(S) /\ Head(s) \in S /\ Tail(s) \o t \in Seq(S)
  OBVIOUS
<1>2. ToSet(s) = {Head(s)} \cup ToSet(Tail(s))
  <2>1. Len(s) \in Nat \ {0} /\ Len(Tail(s)) = Len(s) - 1 /\ DOMAIN s = 1 .. Len(s)
        /\ DOMAIN Tail(s) = 1 .. Len(s) - 1 /\ Head(s) = s[1]
    OBVIOUS
  <2>2. \A i \in 1 .. Len(s) - 1 : Tail(s)[i] = s[i + 1]
    OBVIOUS
  <2>3. ASSUME NEW i \in 1 .. Len(s) PROVE s[i] = Head(s) \/ s[i] \in ToSet(Tail(s))
    <3>1. CASE i = 1
      BY <2>1, <3>1
    <3>2. CASE i # 1
      <4>1. i - 1 \in 1 .. Len(s) - 1 /\ (i - 1) + 1 = i
        BY <2>1, <3>2
      <4>2. Tail(s)[i - 1] = s[i]
        BY <2>2, <4>1
      <4> QED
        BY <2>1, <4>1, <4>2 DEF ToSet
    <3> QED
      BY <3>1, <3>2
  <2>4. \A i \in 1 .. Len(s) - 1 : i + 1 \in 1 .. Len(s)
    BY <2>1
  <2>5. 1 \in 1 .. Len(s)
    BY <2>1
  <2>6. ToSet(Tail(s)) \subseteq ToSet(s)
    BY <2>1, <2>2, <2>4 DEF ToSet
  <2>7. ToSet(s) \subseteq {Head(s)} \cup ToSet(Tail(s))
    BY <2>1, <2>3 DEF ToSet
  <2>8. Head(s) \in ToSet(s)
    BY <2>1, <2>5 DEF ToSet
  <2> QED
    BY <2>6, <2>7, <2>8
<1>3. ASSUME NEW u \in Seq(S) PROVE ToSet(u \o t) = ToSet(u) \cup ToSet(t)
  <2>1. /\ DOMAIN (u \o t) = 1 .. Len(u) + Len(t)
        /\ DOMAIN u = 1 .. Len(u) /\ DOMAIN t = 1 .. Len(t)
        /\ Len(u) \in Nat /\ Len(t) \in Nat
    OBVIOUS
  <2>2. /\ \A i \in 1 .. Len(u) : (u \o t)[i] = u[i]
        /\ \A i \in 1 .. Len(t) : (u \o t)[Len(u) + i] = t[i]
    OBVIOUS
  <2>3. ASSUME NEW i \in 1 .. Len(u) + Len(t) PROVE (u \o t)[i] \in ToSet(u) \cup ToSet(t)
    <3>1. CASE i \in 1 .. Len(u)
      BY <2>1, <2>2, <3>1 DEF ToSet
    <3>2. CASE i \notin 1 .. Len(u)
      <4>1. i - Len(u) \in 1 .. Len(t) /\ Len(u) + (i - Len(u)) = i
        BY <2>1, <3>2
      <4>2. (u \o t)[i] = t[i - Len(u)]
        BY <2>2, <4>1
      <4> QED
        BY <2>1, <4>1, <4>2 DEF ToSet
    <3> QED
      BY <3>1, <3>2
  <2>4. /\ \A i \in 1 .. Len(u) : i \in 1 .. Len(u) + Len(t)
        /\ \A i \in 1 .. Len(t) : Len(u) + i \in 1 .. Len(u) + Len(t)
    BY <2>1
  <2>5. ToSet(u) \subseteq ToSet(u \o t)
    BY <2>1, <2>2, <2>4 DEF ToSet
  <2>6. ToSet(t) \subseteq ToSet(u \o t)
    BY <2>1, <2>2, <2>4 DEF ToSet
  <2>7. ToSet(u \o t) \subseteq ToSet(u) \cup ToSet(t)
    BY <2>1, <2>3 DEF ToSet
  <2> QED
    BY <2>5, <2>6, <2>7
<1> QED
  BY <1>1, <1>2, <1>3

\* What a list holds with one more entry.
LEMMA AppendContents ==
    ASSUME NEW S, NEW s \in Seq(S), NEW e \in S
    PROVE  /\ Append(s, e) \in Seq(S)
           /\ ToSet(Append(s, e)) = ToSet(s) \cup {e}
           /\ DOMAIN Append(s, e) = DOMAIN s \cup {Len(s) + 1}
           /\ \A i \in DOMAIN s : Append(s, e)[i] = s[i]
           /\ Append(s, e)[Len(s) + 1] = e
<1>1. /\ Append(s, e) \in Seq(S) /\ Len(s) \in Nat
      /\ DOMAIN s = 1 .. Len(s) /\ DOMAIN Append(s, e) = 1 .. Len(s) + 1
      /\ \A i \in 1 .. Len(s) : Append(s, e)[i] = s[i]
      /\ Append(s, e)[Len(s) + 1] = e
  OBVIOUS
<1>2. DOMAIN Append(s, e) = DOMAIN s \cup {Len(s) + 1}
  BY <1>1
<1>3. ToSet(Append(s, e)) = ToSet(s) \cup {e}
  BY <1>1, <1>2 DEF ToSet
<1> QED
  BY <1>1, <1>2, <1>3

\* What a contract that loads declares.
LEMMA ContractsAreTyped ==
    ASSUME ComposeTypeOK, NEW n \in Extensions, Loads(n)
    PROVE  contracts[n].depends \in Seq(Extensions) /\ contracts[n].owned \in Seq(Seq(Nat))
BY ComposeAssumption DEF ComposeTypeOK, Loads, IsContract

\* A run starts with an empty order and the requested names on the queue.
LEMMA FreshRun == JustStarted => ComposeIInv
<1> SUFFICES ASSUME JustStarted PROVE ComposeIInv
  OBVIOUS
<1>1. system.extensions \in Seq(Extensions)
  BY ComposeAssumption DEF SystemType, JustStarted
<1>2. order \in Seq(Extensions) /\ Members = {} /\ DOMAIN order = {}
  BY DEF JustStarted, Members, ToSet
<1>3. Met = Requested
  BY <1>2 DEF JustStarted, Met, Requested
<1>4. stack # <<>> => Requested # {}
  <2>1. stack \in Seq(Extensions) /\ Requested = ToSet(stack)
    BY <1>1 DEF JustStarted, Requested
  <2>2. stack # <<>> => ToSet(stack) = {Head(stack)} \cup ToSet(Tail(stack))
    BY <2>1, QueueContents
  <2> QED
    BY <2>1, <2>2
<1> QED
  BY <1>1, <1>2, <1>3, <1>4
  DEF JustStarted, ComposeIInv, ComposeTypeOK, NothingTwice, MetIsNeeded, VerdictIsMeant, Accepted

\* One turn of the loop.
LEMMA ResolveKeepsIInv == ComposeIInv /\ Resolve => ComposeIInv'
<1> SUFFICES ASSUME ComposeIInv, Resolve PROVE ComposeIInv'
  OBVIOUS
<1> DEFINE n == Head(stack)
<1>1. /\ ComposeTypeOK /\ NothingTwice /\ MetIsNeeded /\ VerdictIsMeant
      /\ outcome = "resolving" /\ stack # <<>>
      /\ UNCHANGED <<contracts, system, mode, plan>>
  BY DEF ComposeIInv, Resolve
<1>2. /\ Tail(stack) \in Seq(Extensions) /\ n \in Extensions
      /\ ToSet(stack) = {n} \cup ToSet(Tail(stack))
  BY <1>1, QueueContents DEF ComposeTypeOK
<1>3. CASE n \in Members
  <2>1. stack' = Tail(stack) /\ order' = order /\ outcome' = outcome
    BY <1>3 DEF Resolve
  <2>2. Met' = Met
    BY <1>2, <1>3, <2>1 DEF Met, Members
  <2> QED
    BY <1>1, <1>2, <2>1, <2>2
    DEF ComposeIInv, ComposeTypeOK, NothingTwice, MetIsNeeded, VerdictIsMeant, Accepted,
        Members, Loads, Requested, ClosedUnderDepends
<1>4. CASE n \notin Members /\ Loads(n)
  <2>1. /\ stack' = Tail(stack) \o contracts[n].depends
        /\ order' = Append(order, n) /\ outcome' = outcome
    BY <1>4 DEF Resolve
  <2>2. contracts[n].depends \in Seq(Extensions)
    BY <1>1, <1>2, <1>4, ContractsAreTyped
  <2>3. stack' \in Seq(Extensions) /\ ToSet(stack') = ToSet(Tail(stack)) \cup ToSet(contracts[n].depends)
    BY <1>1, <1>2, <2>1, <2>2, QueueContents DEF ComposeTypeOK
  <2>4. /\ order' \in Seq(Extensions) /\ Members' = Members \cup {n}
        /\ DOMAIN order' = DOMAIN order \cup {Len(order) + 1}
        /\ \A i \in DOMAIN order : order'[i] = order[i]
        /\ order'[Len(order) + 1] = n
    BY <1>1, <1>2, <2>1, AppendContents DEF ComposeTypeOK, Members
  <2>5. NothingTwice'
    <3>1. \A i \in DOMAIN order : order[i] # n
      BY <1>4 DEF Members, ToSet
    <3> QED
      BY <1>1, <2>4, <3>1 DEF NothingTwice
  <2>6. Met' = Met \cup ToSet(contracts[n].depends)
    BY <1>2, <2>3, <2>4 DEF Met
  <2>7. MetIsNeeded'
    <3>1. Requested' = Requested /\ Requested \subseteq Met'
      BY <1>1, <2>6 DEF Requested, MetIsNeeded
    <3>2. \A m \in Members' : Loads(m)' /\ (ToSet(contracts[m].depends) \subseteq Met)'
      BY <1>1, <1>4, <2>4, <2>6 DEF MetIsNeeded, Loads
    <3>3. ASSUME NEW S \in SUBSET Extensions, Requested \subseteq S, ClosedUnderDepends(S)
          PROVE  Met' \subseteq S
      <4>1. Met \subseteq S
        BY <1>1, <3>3 DEF MetIsNeeded
      <4>2. n \in Met
        BY <1>2 DEF Met
      <4> QED
        BY <2>6, <3>3, <4>1, <4>2 DEF ClosedUnderDepends
    <3> QED
      BY <1>1, <3>1, <3>2, <3>3 DEF MetIsNeeded, ClosedUnderDepends, Loads
  <2>8. VerdictIsMeant'
    BY <1>1, <2>1 DEF VerdictIsMeant, Requested, Accepted
  <2> QED
    BY <1>1, <2>3, <2>4, <2>5, <2>7, <2>8 DEF ComposeIInv, ComposeTypeOK
<1>5. CASE n \notin Members /\ ~Loads(n)
  <2>1. outcome' = "refused" /\ UNCHANGED <<stack, order>>
    BY <1>5 DEF Resolve
  <2> QED
    BY <1>1, <2>1
    DEF ComposeIInv, ComposeTypeOK, NothingTwice, MetIsNeeded, VerdictIsMeant, Accepted,
        Met, Members, Loads, Requested, ClosedUnderDepends
<1> QED
  BY <1>3, <1>4, <1>5

\* What the checks and the plan are computed from.
LEMMA CheckedState ==
    ASSUME UNCHANGED <<contracts, system, order>>
    PROVE  Acceptable' = Acceptable /\ Fresh' = Fresh /\ Requested' = Requested
<1>1. Acceptable' = Acceptable
  BY DEF Acceptable, PatternsDisjoint, NamespacesDisjoint, OwnedBy, SnapshotsPinned,
         ProfileSound, FacesSound, Members
<1>2. Fresh' = Fresh
  BY DEF Fresh, PlannedHandler, HandlerFace
<1> QED
  BY <1>1, <1>2 DEF Requested

\* The checks, and the plan that is written or compared.
LEMMA EmitKeepsIInv == ComposeIInv /\ Emit => ComposeIInv'
<1> SUFFICES ASSUME ComposeIInv, Emit PROVE ComposeIInv'
  OBVIOUS
<1>1. UNCHANGED <<contracts, system, mode, stack, order>>
  BY DEF Emit
<1>2. ComposeTypeOK' /\ NothingTwice' /\ MetIsNeeded'
  BY <1>1 DEF ComposeIInv, ComposeTypeOK, NothingTwice, MetIsNeeded, Met, Members, Loads,
              Requested, ClosedUnderDepends
<1>3. Acceptable' = Acceptable /\ Fresh' = Fresh /\ Requested' = Requested
  BY <1>1, CheckedState
<1>4. /\ outcome = "resolving" /\ stack = <<>>
      /\ Accepted' => Acceptable /\ plan' = Fresh
  BY DEF Emit, Accepted
<1>5. VerdictIsMeant'
  BY <1>1, <1>3, <1>4 DEF ComposeIInv, VerdictIsMeant
<1> QED
  BY <1>2, <1>5 DEF ComposeIInv

\* Every step of the resolver and the authors.
LEMMA ComposeStepKeepsIInv == ComposeIInv /\ [ComposeNext]_composeVars => ComposeIInv'
<1> SUFFICES ASSUME ComposeIInv, [ComposeNext]_composeVars PROVE ComposeIInv'
  OBVIOUS
<1>1. CASE Resolve
  BY <1>1, ResolveKeepsIInv
<1>2. CASE Emit
  BY <1>2, EmitKeepsIInv
<1>3. ASSUME NEW b, NEW c, NEW m, Rerun(b, c, m),
             \/ b \in Books /\ c = system
             \/ b = contracts /\ c \in Redesigns
      PROVE  ComposeIInv'
  <2>1. b \in Books /\ c \in Systems
    BY <1>3, ComposeAssumption DEF ComposeIInv, ComposeTypeOK
  <2>2. JustStarted'
    BY <1>3, <2>1 DEF JustStarted, Rerun, ComposeIInv, ComposeTypeOK
  <2> QED
    BY <2>2, FreshRun, PTL
<1>4. CASE UNCHANGED composeVars
  <2>1. UNCHANGED <<contracts, system, stack, order, outcome, plan>>
    BY <1>4 DEF composeVars
  <2>2. ComposeTypeOK' /\ NothingTwice'
    BY <2>1 DEF ComposeIInv, ComposeTypeOK, NothingTwice
  <2>3. MetIsNeeded'
    BY <2>1 DEF ComposeIInv, MetIsNeeded, Met, Members, Loads, Requested, ClosedUnderDepends
  <2>4. Acceptable' = Acceptable /\ Fresh' = Fresh /\ Requested' = Requested
    BY <2>1, CheckedState
  <2>5. VerdictIsMeant'
    BY <2>1, <2>4 DEF ComposeIInv, VerdictIsMeant, Accepted
  <2> QED
    BY <2>2, <2>3, <2>5 DEF ComposeIInv
<1> QED
  BY <1>1, <1>2, <1>3, <1>4 DEF ComposeNext

\* From here the theorems speak of the resolver without its fairness.
ComposeSpec == ComposeInit /\ [][ComposeNext]_composeVars

\* The invariant of the resolver.
LEMMA ComposeInvariant == ComposeSpec => []ComposeIInv
<1>1. ComposeInit => ComposeIInv
  BY FreshRun DEF ComposeInit, JustStarted
<1> QED
  BY <1>1, ComposeStepKeepsIInv, PTL DEF ComposeSpec

\* A written or reproduced plan installs the closure of what was requested.
LEMMA MeantVerdictIsClosure == ComposeIInv => PlanIsTheClosure
<1> SUFFICES ASSUME ComposeIInv, Accepted PROVE PlanIsTheClosure
  BY DEF PlanIsTheClosure
<1>1. plan.install_order = order /\ stack = <<>>
  BY DEF ComposeIInv, VerdictIsMeant, Fresh
<1>2. Met = ToSet(order)
  BY <1>1 DEF Met, Members, ToSet
<1>3. MetIsNeeded /\ NothingTwice
  BY DEF ComposeIInv
<1>4. Requested \subseteq ToSet(order) /\ ClosedUnderDepends(ToSet(order))
  BY <1>2, <1>3 DEF MetIsNeeded, ClosedUnderDepends, Members
<1>5. \A S \in SUBSET Extensions :
          Requested \subseteq S /\ ClosedUnderDepends(S) => ToSet(order) \subseteq S
  BY <1>2, <1>3 DEF MetIsNeeded
<1> QED
  BY <1>1, <1>3, <1>4, <1>5 DEF PlanIsTheClosure, NothingTwice

\* For all contracts and compositions, however the contracts are edited between
\* the runs: a plan that was just written or reproduced is the dependency
\* closure of the composition, exactly and once each.
THEOREM PlansAreClosures == ComposeSpec => []PlanIsTheClosure
BY ComposeInvariant, MeantVerdictIsClosure, PTL

\* The face that the checks let through for an extension is its own: the flat
\* form is only left where the extension is alone.
LEMMA ExcludedIsDeclared ==
    ASSUME ComposeIInv, Accepted, NEW i \in DOMAIN order
    PROVE  HandlerFace(order[i]) = "not-installable" <=>
              \/ system.faces[order[i]] = "not-installable"
              \/ /\ system.flat = "not-installable"
                 /\ Requested = {order[i]} /\ Len(order) = 1
<1> DEFINE n == order[i]
<1>1. /\ FacesSound /\ stack = <<>> /\ Requested # {}
      /\ order \in Seq(Extensions) /\ n \in Extensions
  BY DEF ComposeIInv, ComposeTypeOK, VerdictIsMeant, Accepted, Acceptable
<1>2. Missing # "not-installable"
  BY ComposeAssumption DEF FaceStates
<1>3. CASE \A m \in Extensions : system.faces[m] = Missing
  <2>1. HandlerFace(n) = system.flat /\ system.faces[n] = Missing
    BY <1>1, <1>3 DEF HandlerFace
  <2>2. ASSUME system.flat = "not-installable" PROVE Requested = {n} /\ Len(order) = 1
    <3>1. ~(Len(order) > 1)
      BY <1>1, <1>2, <1>3, <2>2 DEF FacesSound
    <3>2. Len(order) = 1 /\ DOMAIN order = {1} /\ i = 1
      <4>1. Len(order) \in Nat /\ DOMAIN order = 1 .. Len(order) /\ i \in 1 .. Len(order)
        BY <1>1
      <4>2. Len(order) = 1
        BY <3>1, <4>1
      <4> QED
        BY <4>1, <4>2
    <3>3. Members = {n}
      BY <3>2 DEF Members, ToSet
    <3>4. Requested \subseteq Members
      BY <1>1 DEF ComposeIInv, MetIsNeeded, Met, ToSet
    <3> QED
      BY <1>1, <3>2, <3>3, <3>4
  <2> QED
    BY <1>2, <2>1, <2>2
<1>4. CASE \E m \in Extensions : system.faces[m] # Missing
  <2>1. HandlerFace(n) = system.faces[n]
    BY <1>4 DEF HandlerFace
  <2>2. system.flat \in {"empty", Missing}
    BY <1>1, <1>4 DEF FacesSound
  <2> QED
    BY <1>2, <2>1, <2>2
<1> QED
  BY <1>3, <1>4

\* A plan that was meant is sound.
LEMMA MeantVerdictIsSound == ComposeIInv => PlanIsSound
<1> SUFFICES ASSUME ComposeIInv, Accepted PROVE PlanIsSound
  BY DEF PlanIsSound
<1>1. /\ plan = Fresh /\ PatternsDisjoint /\ NamespacesDisjoint
      /\ order \in Seq(Extensions) /\ NothingTwice
  BY DEF ComposeIInv, ComposeTypeOK, VerdictIsMeant, Acceptable
<1>2. /\ DOMAIN plan.installs = DOMAIN order
      /\ \A i \in DOMAIN order :
            /\ plan.installs[i].extension = order[i]
            /\ plan.installs[i].pattern = PlannedHandler(order[i])
            /\ plan.installs[i].owned = OwnedBy(i)
  BY <1>1 DEF Fresh, OwnedBy
<1>3. ASSUME NEW i \in DOMAIN order, NEW j \in DOMAIN order, i # j
      PROVE  /\ PlannedHandler(order[i]) = Missing \/ PlannedHandler(order[i]) # PlannedHandler(order[j])
             /\ \A s \in ToSet(OwnedBy(i)), t \in ToSet(OwnedBy(j)) : ~IsPrefix(s, t)
  <2>1. order[i] \in Members /\ order[j] \in Members /\ order[i] # order[j]
    BY <1>1, <1>3 DEF Members, ToSet, NothingTwice
  <2>2. PlannedHandler(order[i]) = Missing \/ PlannedHandler(order[i]) # PlannedHandler(order[j])
    BY <1>1, <2>1 DEF PlannedHandler, PatternsDisjoint
  <2>3. ASSUME NEW k \in DOMAIN OwnedBy(i), NEW l \in DOMAIN OwnedBy(j)
        PROVE  ~IsPrefix(OwnedBy(i)[k], OwnedBy(j)[l])
    <3>1. i < j \/ j < i
      <4>1. i \in 1 .. Len(order) /\ j \in 1 .. Len(order) /\ Len(order) \in Nat
        BY <1>1
      <4> QED
        BY <1>3, <4>1
    <3>2. CASE i < j
      BY <1>1, <3>2, Zenon DEF NamespacesDisjoint, Overlap
    <3>3. CASE j < i
      BY <1>1, <3>3, Zenon DEF NamespacesDisjoint, Overlap
    <3> QED
      BY <3>1, <3>2, <3>3
  <2>4. \A s \in ToSet(OwnedBy(i)), t \in ToSet(OwnedBy(j)) : ~IsPrefix(s, t)
    BY <2>3 DEF ToSet
  <2> QED
    BY <2>2, <2>4
<1>4. ASSUME NEW i \in DOMAIN order
      PROVE  PlannedHandler(order[i]) =
                IF \/ system.faces[order[i]] = "not-installable"
                   \/ /\ system.flat = "not-installable"
                      /\ Requested = {order[i]} /\ Len(order) = 1
                THEN Missing ELSE contracts[order[i]].handler
  BY ExcludedIsDeclared DEF PlannedHandler
<1> QED
  BY <1>2, <1>3, <1>4 DEF PlanIsSound

\* No plan that was just written or reproduced lets two installs meet in a
\* dispatch pattern or a namespace, or excludes a handler that its composition
\* did not exclude.
THEOREM PlansAreSound == ComposeSpec => []PlanIsSound
BY ComposeInvariant, MeantVerdictIsSound, PTL

--------------------------------------------------------------------------------
(***************************************************************************)
(* The conformance gates: what the reports on disk mean.                   *)
(***************************************************************************)
\* The severities an arm has by right, under oracle and peer w, and the
\* assertions of a stem that it therefore reports.
Base(arm, w) == IF arm = "bare" THEN Bare ELSE w[2]
There(s, arm, w) == {x \in InStem[s] \cap DOMAIN w[1] : Base(arm, w)[x] # Absent}

\* A report speaks of the oracle and the peer it was made with: under each name
\* of a check, of the assertion that had it, and truly of a steady one.
Genuine(r, s, arm) ==
    /\ r.of \in Builds \X Bodies
    /\ DOMAIN r.sev = {r.of[1][x] : x \in There(s, arm, r.of)} /\ DOMAIN r.ref = DOMAIN r.sev
    /\ \A x \in There(s, arm, r.of) :
          /\ r.ref[r.of[1][x]] = Ref[x]
          /\ r.sev[r.of[1][x]] \in Severities
          /\ Steady(x) => r.sev[r.of[1][x]] = Base(arm, r.of)[x]

GenuineRounds(q, s, arm) == q \in Seq(ToSet(q)) /\ \A r \in ToSet(q) : Genuine(r, s, arm)

GatesTypeOK ==
    /\ build \in Builds /\ body \in Bodies
    /\ DOMAIN reports = Stems /\ \A s \in Stems : DOMAIN reports[s] = Arms
    /\ \A s \in Stems, arm \in Arms : GenuineRounds(reports[s][arm], s, arm)

--------------------------------------------------------------------------------
\* A report says what the oracle and the peer that made it say.
LEMMA LaunchesAreGenuine ==
    ASSUME build \in Builds, body \in Bodies, NEW s \in Stems, NEW arm \in Arms,
           NEW slow \in SUBSET Noisy, NEW stamp
    PROVE  Genuine(ReportOf(s, arm, slow, stamp), s, arm)
<1> DEFINE r == ReportOf(s, arm, slow, stamp)
           w == <<build, body>>
           there == There(s, arm, w)
           by(n) == CHOOSE x \in there : build[x] = n
<1>1. \A x, y \in DOMAIN build : build[x] = build[y] => x = y
  BY ReportsAssumption
<1>2. there \subseteq DOMAIN build
  BY DEF There
<1>3. \A x \in there : by(build[x]) = x
  BY <1>1, <1>2
<1>4. /\ r.of = w
      /\ r.sev = [n \in {build[x] : x \in there} |-> IF by(n) \in slow THEN "WARN" ELSE Base(arm, w)[by(n)]]
      /\ r.ref = [n \in {build[x] : x \in there} |-> Ref[by(n)]]
  BY DEF ReportOf, There, Base
<1>5. \A x \in there : Base(arm, w)[x] \in Severities
  <2>1. there \subseteq Assertions
    BY ReportsAssumption DEF There
  <2>2. Base(arm, w) \in [Assertions -> Severities \cup {Absent}]
    BY ReportsAssumption DEF Base
  <2>3. \A x \in there : Base(arm, w)[x] # Absent
    BY DEF There
  <2> QED
    BY <2>1, <2>2, <2>3
<1>6. ASSUME NEW x \in there
      PROVE  /\ r.ref[build[x]] = Ref[x]
             /\ r.sev[build[x]] = IF x \in slow THEN "WARN" ELSE Base(arm, w)[x]
  <2> DEFINE n == build[x]
             names == {build[y] : y \in there}
  <2>1. n \in names /\ by(n) = x
    BY <1>3
  <2>2. /\ r.sev = [m \in names |-> IF by(m) \in slow THEN "WARN" ELSE Base(arm, w)[by(m)]]
        /\ r.ref = [m \in names |-> Ref[by(m)]]
    BY <1>4
  <2> HIDE DEF n, names, by, there, r, w
  <2>3. r.ref[n] = Ref[by(n)] /\ r.sev[n] = IF by(n) \in slow THEN "WARN" ELSE Base(arm, w)[by(n)]
    BY <2>1, <2>2
  <2>4. r.ref[n] = Ref[x] /\ r.sev[n] = IF x \in slow THEN "WARN" ELSE Base(arm, w)[x]
    BY <2>1, <2>3
  <2> QED
    BY <2>4 DEF n
<1>7. \A x \in there : Steady(x) => x \notin slow
  BY DEF Steady
<1>8. "WARN" \in Severities
  BY DEF Severities
<1>9. w[1] = build /\ w \in Builds \X Bodies /\ DOMAIN r.sev = {build[x] : x \in there} /\ DOMAIN r.ref = DOMAIN r.sev
  BY <1>4
<1> HIDE DEF r, there, by
<1>10. /\ \A x \in there : r.ref[build[x]] = Ref[x]
       /\ \A x \in there : r.sev[build[x]] \in Severities
       /\ \A x \in there : Steady(x) => r.sev[build[x]] = Base(arm, w)[x]
  BY <1>5, <1>6, <1>7, <1>8
<1>11. Genuine(r, s, arm)
  <2>1. r.of = w /\ there = There(s, arm, r.of)
    BY <1>4 DEF there
  <2> QED
    BY <1>9, <1>10, <2>1 DEF Genuine
<1> QED
  BY <1>11 DEF r

\* One more round.
LEMMA AddedRound ==
    ASSUME NEW q, NEW s, NEW arm, GenuineRounds(q, s, arm), NEW r, Genuine(r, s, arm)
    PROVE  GenuineRounds(Append(q, r), s, arm)
<1> DEFINE p == Append(q, r)
<1>1. q \in Seq(ToSet(q) \cup {r}) /\ r \in ToSet(q) \cup {r}
  BY DEF GenuineRounds
<1>2. ToSet(p) = ToSet(q) \cup {r}
  <2>1. /\ Len(q) \in Nat /\ DOMAIN q = 1 .. Len(q) /\ DOMAIN p = 1 .. Len(q) + 1
        /\ \A i \in 1 .. Len(q) : p[i] = q[i]
        /\ p[Len(q) + 1] = r
    BY <1>1
  <2>2. DOMAIN p = DOMAIN q \cup {Len(q) + 1}
    BY <2>1
  <2> QED
    BY <2>1, <2>2 DEF ToSet
<1>3. p \in Seq(ToSet(p))
  BY <1>1, <1>2
<1> QED
  BY <1>2, <1>3 DEF GenuineRounds

\* A round done over.
LEMMA RepeatedRound ==
    ASSUME NEW q, NEW s, NEW arm, GenuineRounds(q, s, arm), NEW r, Genuine(r, s, arm),
           NEW i \in DOMAIN q
    PROVE  GenuineRounds([q EXCEPT ![i] = r], s, arm)
<1> DEFINE p == [q EXCEPT ![i] = r]
<1>1. q \in Seq(ToSet(q))
  BY DEF GenuineRounds
<1>2. DOMAIN p = DOMAIN q /\ \A j \in DOMAIN q : p[j] = IF j = i THEN r ELSE q[j]
  OBVIOUS
<1>3. /\ Len(q) \in Nat /\ DOMAIN p = 1 .. Len(q)
      /\ \A j \in 1 .. Len(q) : p[j] \in ToSet(p)
      /\ p = [j \in 1 .. Len(q) |-> p[j]]
  BY <1>1, <1>2 DEF ToSet
<1>4. p \in Seq(ToSet(p))
  <2> HIDE DEF p
  <2> QED
    BY <1>3
<1>5. \A e \in ToSet(p) : Genuine(e, s, arm)
  BY <1>2 DEF GenuineRounds, ToSet
<1> QED
  BY <1>4, <1>5 DEF GenuineRounds

\* No round yet.
LEMMA NoRounds == ASSUME NEW s, NEW arm PROVE GenuineRounds(<<>>, s, arm)
BY DEF GenuineRounds, ToSet

\* Of every arm of every stem, a step keeps the rounds, drops them, adds one or
\* repeats one.
LEMMA ReportsStepKeepsType == GatesTypeOK /\ ReportsNext => GatesTypeOK'
<1> SUFFICES ASSUME GatesTypeOK, ReportsNext PROVE GatesTypeOK'
  OBVIOUS
<1>1. ASSUME NEW s \in Stems, NEW arms, NEW n, StartRun(s, arms, n) PROVE GatesTypeOK'
  <2>1. reports' = [reports EXCEPT ![s] = [arm \in Arms |-> <<>>]] /\ UNCHANGED <<build, body>>
    BY <1>1 DEF StartRun
  <2>2. /\ DOMAIN reports' = Stems
        /\ \A t \in Stems : DOMAIN reports'[t] = Arms
        /\ \A t \in Stems, a \in Arms : reports'[t][a] = IF t = s THEN <<>> ELSE reports[t][a]
    BY <2>1 DEF GatesTypeOK
  <2>3. \A t \in Stems, a \in Arms : GenuineRounds(reports'[t][a], t, a)
    BY <2>2, NoRounds DEF GatesTypeOK
  <2> QED
    BY <2>1, <2>2, <2>3 DEF GatesTypeOK
<1>2. CASE Launch
  <2> DEFINE s == driver.stem
             arm == Head(driver.left)
  <2>1. PICK slow \in Load :
            reports' = [reports EXCEPT ![s][arm] = Append(@, ReportOf(s, arm, slow, NextStamp(s)))]
    BY <1>2 DEF Launch
  <2>2. slow \in SUBSET Noisy
    BY DEF Load
  <2>3. UNCHANGED <<build, body>>
    BY <1>2 DEF Launch
  <2> HIDE DEF s, arm
  <2>4. s \in Stems /\ arm \in Arms =>
            GenuineRounds(Append(reports[s][arm], ReportOf(s, arm, slow, NextStamp(s))), s, arm)
    BY <2>2, AddedRound, LaunchesAreGenuine DEF GatesTypeOK
  <2>5. /\ DOMAIN reports' = Stems
        /\ \A t \in Stems : DOMAIN reports'[t] = Arms
        /\ \A t \in Stems, a \in Arms :
              reports'[t][a] = IF t = s /\ a = arm
                               THEN Append(reports[s][arm], ReportOf(s, arm, slow, NextStamp(s)))
                               ELSE reports[t][a]
    BY <2>1 DEF GatesTypeOK
  <2>6. \A t \in Stems, a \in Arms : GenuineRounds(reports'[t][a], t, a)
    BY <2>4, <2>5 DEF GatesTypeOK
  <2> QED
    BY <2>3, <2>5, <2>6 DEF GatesTypeOK
<1>3. CASE LaunchFails
  BY <1>3 DEF LaunchFails, GatesTypeOK
<1>4. ASSUME NEW s \in Stems, NEW arm \in Arms, NEW i \in DOMAIN reports[s][arm],
             Relaunch(s, arm, i)
      PROVE  GatesTypeOK'
  <2> DEFINE r == ReportOf(s, arm, {}, NextStamp(s))
  <2>1. reports' = [reports EXCEPT ![s][arm][i] = r] /\ UNCHANGED <<build, body>>
    BY <1>4 DEF Relaunch
  <2>2. Genuine(r, s, arm)
    BY LaunchesAreGenuine DEF GatesTypeOK
  <2> HIDE DEF r
  <2>3. GenuineRounds([reports[s][arm] EXCEPT ![i] = r], s, arm)
    BY <2>2, RepeatedRound DEF GatesTypeOK
  <2>4. /\ DOMAIN reports' = Stems
        /\ \A t \in Stems : DOMAIN reports'[t] = Arms
        /\ \A t \in Stems, a \in Arms :
              reports'[t][a] = IF t = s /\ a = arm THEN [reports[s][arm] EXCEPT ![i] = r]
                               ELSE reports[t][a]
    BY <2>1 DEF GatesTypeOK
  <2>5. \A t \in Stems, a \in Arms : GenuineRounds(reports'[t][a], t, a)
    BY <2>3, <2>4 DEF GatesTypeOK
  <2> QED
    BY <2>1, <2>4, <2>5 DEF GatesTypeOK
<1>5. ASSUME NEW b \in Builds, NEW f \in Bodies, Revise(b, f) PROVE GatesTypeOK'
  BY <1>5 DEF Revise, GatesTypeOK
<1> QED
  BY <1>1, <1>2, <1>3, <1>4, <1>5 DEF ReportsNext, RunStems

\* No report yet.
LEMMA ReportsInitType == ReportsInit => GatesTypeOK
<1> SUFFICES ASSUME ReportsInit PROVE GatesTypeOK
  OBVIOUS
<1>1. build \in Builds /\ body \in Bodies /\ reports \in {NoReports, AllRun}
  BY DEF ReportsInit
<1>2. CASE reports = NoReports
  BY <1>1, <1>2, NoRounds DEF GatesTypeOK, NoReports
<1>3. CASE reports = AllRun
  <2>1. ASSUME NEW s \in Stems, NEW arm \in Arms PROVE GenuineRounds(reports[s][arm], s, arm)
    <3> DEFINE r == ReportOf(s, arm, {}, IF arm = "bare" THEN 1 ELSE 2)
    <3>1. reports[s][arm] = Append(<<>>, r)
      BY <1>3 DEF AllRun
    <3>2. Genuine(r, s, arm)
      BY <1>1, LaunchesAreGenuine
    <3> HIDE DEF r
    <3> QED
      BY <3>1, <3>2, NoRounds, AddedRound
  <2> QED
    BY <1>1, <1>3, <2>1 DEF GatesTypeOK, AllRun
<1> QED
  BY <1>1, <1>2, <1>3

--------------------------------------------------------------------------------
(***************************************************************************)
(* The rename join.                                                        *)
(***************************************************************************)
Joins(lost, gained) ==
    [lost : SUBSET lost, gained : SUBSET gained, renamed : SUBSET (lost \X gained)]

\* A lost check that finds an heir is renamed to it.
LEMMA HeirIsTaken ==
    ASSUME NEW lost \in SUBSET Names, NEW gained \in SUBSET Names, NEW obliged, NEW keys,
           NEW acc \in Joins(lost, gained), NEW l \in lost
    PROVE  /\ TakeHeir(acc, l, obliged, keys) \in Joins(lost, gained)
           /\ acc.renamed \subseteq TakeHeir(acc, l, obliged, keys).renamed
           /\ acc.lost \subseteq TakeHeir(acc, l, obliged, keys).lost
                                 \cup {k \in lost : \E g \in gained :
                                         <<k, g>> \in TakeHeir(acc, l, obliged, keys).renamed}
<1> DEFINE heirs == {g \in acc.gained : l \in DOMAIN obliged /\ keys[g] = obliged[l]}
<1>1. CASE heirs = {}
  BY <1>1 DEF TakeHeir
<1>2. CASE heirs # {}
  <2>1. FirstOf(heirs) \in heirs
    <3>1. heirs \in SUBSET Nat
      <4>1. Names \subseteq Nat
        BY ReportsAssumption, FS_CardinalityType
      <4>2. acc.gained \subseteq gained
        BY DEF Joins
      <4> QED
        BY <4>1, <4>2
    <3> HIDE DEF heirs
    <3> QED
      BY <1>2, <3>1, LeastNatural DEF FirstOf
  <2> DEFINE h == FirstOf(heirs)
  <2>2. h \in gained
    BY <2>1 DEF Joins
  <2>3. TakeHeir(acc, l, obliged, keys) =
            [lost |-> acc.lost \ {l}, gained |-> acc.gained \ {h},
             renamed |-> acc.renamed \cup {<<l, h>>}]
    BY <1>2 DEF TakeHeir
  <2> HIDE DEF h
  <2> QED
    BY <2>2, <2>3 DEF Joins
<1> QED
  BY <1>1, <1>2

\* The join runs through the names, from nothing joined.
JoinRuns(lost, gained, obliged, keys, n, j) ==
    /\ n \in Nat /\ Names = 1 .. n
    /\ j \in [0 .. n -> Joins(lost, gained)]
    /\ j[0] = [lost |-> lost, gained |-> gained, renamed |-> {}]
    /\ \A k \in 1 .. n :
          j[k] = IF k \in lost THEN TakeHeir(j[k - 1], k, obliged, keys) ELSE j[k - 1]

\* The join goes through the names one by one.
LEMMA JoinSteps ==
    ASSUME NEW lost \in SUBSET Names, NEW gained \in SUBSET Names, NEW obliged, NEW keys
    PROVE  JoinRuns(lost, gained, obliged, keys, Cardinality(Names),
                    JoinUpTo(lost, gained, obliged, keys))
<1> DEFINE n == Cardinality(Names)
           A == Joins(lost, gained)
           a == [lost |-> lost, gained |-> gained, renamed |-> {}]
           step == [k \in 1 .. n |-> [acc \in A |->
                      IF k \in lost THEN TakeHeir(acc, k, obliged, keys) ELSE acc]]
           Is(f) == f = [k \in 0 .. n |-> IF k = 0 THEN a
                           ELSE IF k \in lost THEN TakeHeir(f[k - 1], k, obliged, keys)
                           ELSE f[k - 1]]
<1>1. n \in Nat /\ Names = 1 .. n
  BY ReportsAssumption, FS_CardinalityType
<1>2. a \in A
  BY DEF Joins
<1>3. step \in [1 .. n -> [A -> A]]
  <2>1. \A k \in lost, acc \in A : TakeHeir(acc, k, obliged, keys) \in A
    BY HeirIsTaken
  <2> HIDE DEF A
  <2> QED
    BY <2>1
<1>4. \A k \in 1 .. n, acc \in A :
          step[k][acc] = IF k \in lost THEN TakeHeir(acc, k, obliged, keys) ELSE acc
  OBVIOUS
<1> HIDE DEF step, A, n, a
<1>5. PICK g : Recurs(n, A, a, step, g)
  BY <1>1, <1>2, <1>3, RecursionExists
<1>6. /\ g \in [0 .. n -> A] /\ g[0] = a
      /\ \A k \in 1 .. n : g[k] = IF k \in lost THEN TakeHeir(g[k - 1], k, obliged, keys) ELSE g[k - 1]
  <2>1. g \in [0 .. n -> A] /\ g[0] = a /\ \A k \in 1 .. n : g[k] = step[k][g[k - 1]]
    BY <1>5 DEF Recurs
  <2>2. \A k \in 1 .. n : g[k - 1] \in A
    BY <1>1, <2>1
  <2> QED
    BY <1>4, <2>1, <2>2
<1>7. Is(g)
  <2>1. \A k \in 0 .. n : k = 0 \/ k \in 1 .. n
    BY <1>1
  <2> QED
    BY <1>6, <2>1
<1>8. JoinUpTo(lost, gained, obliged, keys) = CHOOSE f : Is(f)
  BY DEF JoinUpTo, n, a
<1> DEFINE j == JoinUpTo(lost, gained, obliged, keys)
<1>9. Is(j)
  <2> HIDE DEF Is
  <2> QED
    BY <1>7, <1>8
<1>10. \A k \in 0 .. n : j[k] = g[k]
  <2> DEFINE T == {k \in Nat : k <= n => j[k] = g[k]}
  <2>1. 0 \in T
    BY <1>1, <1>6, <1>9
  <2>2. \A k \in T : k + 1 \in T
    <3> SUFFICES ASSUME NEW k \in Nat, k \in T, k + 1 <= n PROVE j[k + 1] = g[k + 1]
      OBVIOUS
    <3>1. j[k] = g[k] /\ k + 1 \in 1 .. n /\ (k + 1) - 1 = k /\ k + 1 # 0 /\ k + 1 \in 0 .. n
      BY <1>1
    <3>2. g[k + 1] = IF k + 1 \in lost THEN TakeHeir(g[k], k + 1, obliged, keys) ELSE g[k]
      BY <1>6, <3>1
    <3>3. j[k + 1] = IF k + 1 \in lost THEN TakeHeir(j[k], k + 1, obliged, keys) ELSE j[k]
      <4> HIDE DEF j
      <4> QED
        BY <1>9, <3>1
    <3> QED
      BY <3>1, <3>2, <3>3
  <2> HIDE DEF T
  <2>3. T \in SUBSET Nat
    BY DEF T
  <2>4. T = Nat
    BY <2>1, <2>2, <2>3, NaturalInduction
  <2> QED
    BY <1>1, <2>4 DEF T
<1>11. j = g
  <2>1. j = [k \in 0 .. n |-> j[k]]
    <3> HIDE DEF j
    <3>1. DOMAIN j = 0 .. n
      BY <1>9
    <3> QED
      BY <1>9, <3>1
  <2> HIDE DEF j
  <2> QED
    BY <1>6, <1>10, <2>1
<1> QED
  BY <1>1, <1>6, <1>11 DEF n, A, a, JoinRuns

\* A lost name comes out of the join as lost or as renamed.
LEMMA JoinKeepsTheLost ==
    ASSUME NEW lost \in SUBSET Names, NEW gained \in SUBSET Names, NEW obliged, NEW keys,
           Join(lost, gained, obliged, keys).lost = {},
           Join(lost, gained, obliged, keys).renamed = {}
    PROVE  lost = {}
<1> DEFINE n == Cardinality(Names)
           j == JoinUpTo(lost, gained, obliged, keys)
           Left(k) ==
             j[k].lost \cup {l \in lost : \E g \in gained : <<l, g>> \in j[k].renamed}
           T == {k \in Nat : k <= n => lost \subseteq Left(k)}
<1> HIDE DEF j, n
<1>0. JoinRuns(lost, gained, obliged, keys, n, j)
  BY JoinSteps DEF n, j
<1>1. /\ n \in Nat /\ Names = 1 .. n
      /\ j \in [0 .. n -> Joins(lost, gained)]
      /\ j[0] = [lost |-> lost, gained |-> gained, renamed |-> {}]
      /\ \A k \in 1 .. n :
            j[k] = IF k \in lost THEN TakeHeir(j[k - 1], k, obliged, keys) ELSE j[k - 1]
  BY <1>0 DEF JoinRuns
<1>2. 0 \in T
  BY <1>1
<1>3. \A k \in T : k + 1 \in T
  <2> SUFFICES ASSUME NEW k \in Nat, lost \subseteq Left(k), k + 1 <= n
               PROVE  lost \subseteq Left(k + 1)
    <3> HIDE DEF Left
    <3> QED
      BY <1>1
  <2>1. k + 1 \in 1 .. n /\ (k + 1) - 1 = k /\ k \in 0 .. n
    BY <1>1
  <2>2. /\ j[k] \in Joins(lost, gained)
        /\ j[k + 1] = IF k + 1 \in lost THEN TakeHeir(j[k], k + 1, obliged, keys) ELSE j[k]
    BY <1>1, <2>1
  <2>3. CASE k + 1 \in lost
    <3> DEFINE t == TakeHeir(j[k], k + 1, obliged, keys)
    <3>1. /\ j[k].renamed \subseteq t.renamed
          /\ j[k].lost \subseteq t.lost \cup {l \in lost : \E g \in gained : <<l, g>> \in t.renamed}
      BY <2>2, <2>3, HeirIsTaken
    <3>2. j[k + 1] = t
      BY <2>2, <2>3
    <3> HIDE DEF t
    <3> QED
      BY <3>1, <3>2
  <2>4. CASE k + 1 \notin lost
    BY <2>2, <2>4
  <2> QED
    BY <2>3, <2>4
<1>4. n \in T
  <2> HIDE DEF T
  <2>1. T \in SUBSET Nat
    BY DEF T
  <2>2. T = Nat
    BY <1>2, <1>3, <2>1, NaturalInduction
  <2> QED
    BY <1>1, <2>2
<1>5. j[n].lost = {} /\ j[n].renamed = {}
  BY DEF Join, j, n
<1>6. lost \subseteq Left(n)
  <2> HIDE DEF Left
  <2>1. n \in Nat /\ n <= n
    BY <1>1
  <2> QED
    BY <1>4, <2>1
<1> QED
  BY <1>5, <1>6

\* One round of the join.
Joined(acc, k, lost, obliged, keys) ==
    IF k \in lost THEN TakeHeir(acc, k, obliged, keys) ELSE acc

\* Induction along the join, over what may have come of the first k names.
LEMMA JoinReaches ==
    ASSUME NEW lost \in SUBSET Names, NEW gained \in SUBSET Names, NEW obliged, NEW keys,
           NEW Good, [lost |-> lost, gained |-> gained, renamed |-> {}] \in Good[0],
           \A k \in Names : \A acc \in Good[k - 1] \cap Joins(lost, gained) :
               Joined(acc, k, lost, obliged, keys) \in Good[k]
    PROVE  /\ Join(lost, gained, obliged, keys) \in Good[Cardinality(Names)]
           /\ Join(lost, gained, obliged, keys) \in Joins(lost, gained)
<1> DEFINE n == Cardinality(Names)
           j == JoinUpTo(lost, gained, obliged, keys)
           T == {k \in Nat : k <= n => j[k] \in Good[k]}
<1> HIDE DEF j, n
<1>0. JoinRuns(lost, gained, obliged, keys, n, j)
  BY JoinSteps DEF n, j
<1>1. /\ n \in Nat /\ Names = 1 .. n
      /\ j \in [0 .. n -> Joins(lost, gained)]
      /\ j[0] = [lost |-> lost, gained |-> gained, renamed |-> {}]
      /\ \A k \in 1 .. n :
            j[k] = IF k \in lost THEN TakeHeir(j[k - 1], k, obliged, keys) ELSE j[k - 1]
  BY <1>0 DEF JoinRuns
<1>2. 0 \in T
  BY <1>1
<1>3. \A k \in T : k + 1 \in T
  <2> SUFFICES ASSUME NEW k \in Nat, k \in T, k + 1 <= n PROVE j[k + 1] \in Good[k + 1]
    OBVIOUS
  <2>1. k + 1 \in 1 .. n /\ (k + 1) - 1 = k /\ k \in 0 .. n /\ k <= n
    BY <1>1
  <2>2. j[k] \in Good[k] /\ j[k] \in Joins(lost, gained)
    BY <1>1, <2>1
  <2>3. j[k + 1] = Joined(j[k], k + 1, lost, obliged, keys)
    BY <1>1, <2>1 DEF Joined
  <2> QED
    BY <1>1, <2>1, <2>2, <2>3
<1>4. n \in T
  <2> HIDE DEF T
  <2>1. T \in SUBSET Nat
    BY DEF T
  <2>2. T = Nat
    BY <1>2, <1>3, <2>1, NaturalInduction
  <2> QED
    BY <1>1, <2>2
<1>5. j[n] \in Good[n] /\ j[n] \in Joins(lost, gained)
  <2>1. n <= n /\ n \in 0 .. n
    BY <1>1
  <2> QED
    BY <1>1, <1>4, <2>1
<1> QED
  BY <1>5 DEF Join, j, n

\* A lost name with no heir is not renamed.
LEMMA TheHeirlessIsLost ==
    ASSUME NEW lost \in SUBSET Names, NEW gained \in SUBSET Names, NEW obliged, NEW keys,
           NEW l \in lost, \A g \in gained : keys[g] # obliged[l]
    PROVE  l \in Join(lost, gained, obliged, keys).lost
<1> DEFINE Good == [k \in 0 .. Cardinality(Names) |-> {acc \in Joins(lost, gained) : l \in acc.lost}]
<1>1. [lost |-> lost, gained |-> gained, renamed |-> {}] \in Joins(lost, gained)
  BY DEF Joins
<1>2. Cardinality(Names) \in Nat /\ Names = 1 .. Cardinality(Names)
  BY ReportsAssumption, FS_CardinalityType
<1>3. \A k \in 0 .. Cardinality(Names) : Good[k] = {acc \in Joins(lost, gained) : l \in acc.lost}
  OBVIOUS
<1>4. ASSUME NEW k \in Names, NEW acc \in Joins(lost, gained), l \in acc.lost
      PROVE  /\ Joined(acc, k, lost, obliged, keys) \in Joins(lost, gained)
             /\ l \in Joined(acc, k, lost, obliged, keys).lost
  <2>1. CASE k \in lost /\ k # l
    <3>1. TakeHeir(acc, k, obliged, keys) \in Joins(lost, gained)
      BY <2>1, HeirIsTaken
    <3>2. l \in TakeHeir(acc, k, obliged, keys).lost
      BY <1>4, <2>1 DEF TakeHeir
    <3> QED
      BY <2>1, <3>1, <3>2 DEF Joined
  <2>2. CASE k = l
    <3>1. acc.gained \subseteq gained
      BY DEF Joins
    <3>2. TakeHeir(acc, k, obliged, keys) = acc
      BY <2>2, <3>1 DEF TakeHeir
    <3> QED
      BY <1>4, <3>2 DEF Joined
  <2>3. CASE k \notin lost
    BY <1>4, <2>3 DEF Joined
  <2> QED
    BY <2>1, <2>2, <2>3
<1>5. \A k \in Names : k - 1 \in 0 .. Cardinality(Names) /\ k \in 0 .. Cardinality(Names)
  BY <1>2
<1>6. Cardinality(Names) \in 0 .. Cardinality(Names) /\ 0 \in 0 .. Cardinality(Names)
  BY <1>2
<1> HIDE DEF Good
<1>7. [lost |-> lost, gained |-> gained, renamed |-> {}] \in Good[0]
  BY <1>1, <1>3, <1>6
<1>8. \A k \in Names : \A acc \in Good[k - 1] \cap Joins(lost, gained) :
          Joined(acc, k, lost, obliged, keys) \in Good[k]
  BY <1>3, <1>4, <1>5
<1>9. Join(lost, gained, obliged, keys) \in Good[Cardinality(Names)]
  BY <1>7, <1>8, JoinReaches
<1> QED
  BY <1>3, <1>6, <1>9

\* Of each obligation as many names are lost as gained.
Balanced(S, obliged, T, keys) ==
    \A o : Cardinality({l \in S : obliged[l] = o}) = Cardinality({g \in T : keys[g] = o})

\* One name less on either side.
LEMMA StaysBalanced ==
    ASSUME NEW S, IsFiniteSet(S), NEW T, IsFiniteSet(T), NEW obliged, NEW keys,
           Balanced(S, obliged, T, keys), NEW l \in S, NEW h \in T, keys[h] = obliged[l]
    PROVE  Balanced(S \ {l}, obliged, T \ {h}, keys)
<1> SUFFICES ASSUME NEW o
             PROVE  Cardinality({i \in S \ {l} : obliged[i] = o})
                  = Cardinality({g \in T \ {h} : keys[g] = o})
  BY DEF Balanced
<1> DEFINE A == {i \in S : obliged[i] = o}
           B == {g \in T : keys[g] = o}
<1>1. IsFiniteSet(A) /\ IsFiniteSet(B) /\ Cardinality(A) = Cardinality(B)
  BY FS_Subset DEF Balanced
<1>2. CASE obliged[l] = o
  <2>1. {i \in S \ {l} : obliged[i] = o} = A \ {l} /\ {g \in T \ {h} : keys[g] = o} = B \ {h}
    OBVIOUS
  <2>2. l \in A /\ h \in B
    BY <1>2
  <2> HIDE DEF A, B
  <2>3. Cardinality(A \ {l}) = Cardinality(A) - 1 /\ Cardinality(B \ {h}) = Cardinality(B) - 1
    BY <1>1, <2>2, FS_RemoveElement
  <2> QED
    BY <1>1, <2>1, <2>3
<1>3. CASE obliged[l] # o
  <2>1. {i \in S \ {l} : obliged[i] = o} = A /\ {g \in T \ {h} : keys[g] = o} = B
    BY <1>3
  <2> QED
    BY <1>1, <2>1
<1> QED
  BY <1>2, <1>3

\* The join settles what is balanced: every lost name finds an heir, and every
\* gained one is taken.
LEMMA BalancedIsSettled ==
    ASSUME NEW lost \in SUBSET Names, NEW gained \in SUBSET Names, NEW obliged, NEW keys,
           lost \subseteq DOMAIN obliged, Balanced(lost, obliged, gained, keys)
    PROVE  /\ Join(lost, gained, obliged, keys).lost = {}
           /\ Join(lost, gained, obliged, keys).gained = {}
<1> DEFINE n == Cardinality(Names)
           a == [lost |-> lost, gained |-> gained, renamed |-> {}]
           Settled(acc, k) ==
               acc.lost = {l \in lost : k < l} /\ Balanced(acc.lost, obliged, acc.gained, keys)
           Good == [k \in 0 .. n |-> {acc \in Joins(lost, gained) : Settled(acc, k)}]
<1>1. n \in Nat /\ Names = 1 .. n /\ IsFiniteSet(Names)
  BY ReportsAssumption, FS_CardinalityType
<1>2. \A k \in 0 .. n : Good[k] = {acc \in Joins(lost, gained) : Settled(acc, k)}
  OBVIOUS
<1>3. a \in Joins(lost, gained) /\ Settled(a, 0)
  <2>1. lost = {l \in lost : 0 < l}
    BY <1>1
  <2> QED
    BY <2>1 DEF Joins
<1>4. ASSUME NEW k \in Names, NEW acc \in Joins(lost, gained), Settled(acc, k - 1)
      PROVE  /\ Joined(acc, k, lost, obliged, keys) \in Joins(lost, gained)
             /\ Settled(Joined(acc, k, lost, obliged, keys), k)
  <2>1. acc.lost \subseteq lost /\ acc.gained \subseteq gained
    BY DEF Joins
  <2>2. IsFiniteSet(acc.lost) /\ IsFiniteSet(acc.gained)
    <3>1. acc.lost \subseteq Names /\ acc.gained \subseteq Names
      BY <2>1
    <3> QED
      BY <1>1, <3>1, FS_Subset
  <2>3. \A l \in lost : k - 1 < l <=> l = k \/ k < l
    <3>1. \A l \in lost : l \in Int /\ k \in Int
      BY <1>1
    <3> QED
      BY <3>1
  <2>4. k < k <=> FALSE
    BY <1>1
  <2>5. CASE k \notin lost
    <3>1. {l \in lost : k - 1 < l} = {l \in lost : k < l}
      BY <2>3, <2>5
    <3>2. Joined(acc, k, lost, obliged, keys) = acc
      BY <2>5 DEF Joined
    <3> QED
      BY <1>4, <3>1, <3>2
  <2>6. CASE k \in lost
    <3> DEFINE heirs == {g \in acc.gained : k \in DOMAIN obliged /\ keys[g] = obliged[k]}
               h == FirstOf(heirs)
    <3>1. k \in acc.lost /\ k \in DOMAIN obliged
      BY <1>4, <2>3, <2>6
    <3>2. heirs # {}
      <4> DEFINE A == {l \in acc.lost : obliged[l] = obliged[k]}
                 B == {g \in acc.gained : keys[g] = obliged[k]}
      <4>1. Cardinality(A) = Cardinality(B)
        BY <1>4 DEF Balanced
      <4>2. k \in A /\ IsFiniteSet(A)
        BY <2>2, <3>1, FS_Subset
      <4>3. Cardinality(A) # 0
        <5> HIDE DEF A
        <5> QED
          BY <4>2, FS_EmptySet
      <4>4. B # {}
        <5> HIDE DEF A, B
        <5> QED
          BY <4>1, <4>3, FS_EmptySet
      <4> QED
        BY <3>1, <4>4
    <3>3. h \in heirs
      <4>1. heirs \in SUBSET Nat
        BY <1>1, <2>1
      <4> HIDE DEF heirs
      <4> QED
        BY <3>2, <4>1, LeastNatural DEF FirstOf
    <3>4. Joined(acc, k, lost, obliged, keys) = TakeHeir(acc, k, obliged, keys)
      BY <2>6 DEF Joined
    <3>5. TakeHeir(acc, k, obliged, keys) =
              [lost |-> acc.lost \ {k}, gained |-> acc.gained \ {h},
               renamed |-> acc.renamed \cup {<<k, h>>}]
      BY <3>2 DEF TakeHeir
    <3>6. h \in acc.gained /\ keys[h] = obliged[k]
      BY <3>3
    <3> HIDE DEF h, heirs
    <3>7. Balanced(acc.lost \ {k}, obliged, acc.gained \ {h}, keys)
      BY <1>4, <2>2, <3>1, <3>6, StaysBalanced
    <3>8. acc.lost \ {k} = {l \in lost : k < l}
      BY <1>4, <2>3, <2>4
    <3>9. TakeHeir(acc, k, obliged, keys) \in Joins(lost, gained)
      BY <2>6, HeirIsTaken
    <3> QED
      BY <3>4, <3>5, <3>7, <3>8, <3>9
  <2> QED
    BY <2>5, <2>6
<1>5. \A k \in Names : k - 1 \in 0 .. n /\ k \in 0 .. n
  BY <1>1
<1>6. n \in 0 .. n /\ 0 \in 0 .. n
  BY <1>1
<1> DEFINE result == Join(lost, gained, obliged, keys)
<1>7. result \in Joins(lost, gained) /\ Settled(result, n)
  <2> HIDE DEF Good, Settled, n, result
  <2>1. a \in Good[0]
    BY <1>2, <1>3, <1>6
  <2>2. \A k \in Names : \A acc \in Good[k - 1] \cap Joins(lost, gained) :
            Joined(acc, k, lost, obliged, keys) \in Good[k]
    BY <1>2, <1>4, <1>5
  <2>3. result \in Good[n]
    BY <2>1, <2>2, JoinReaches DEF n, result
  <2> QED
    BY <1>2, <1>6, <2>3
<1> HIDE DEF result
<1>8. result.lost = {}
  <2>1. \A l \in lost : ~(n < l)
    BY <1>1
  <2> QED
    BY <1>7, <2>1
<1>9. result.gained = {}
  <2> SUFFICES ASSUME NEW g \in result.gained PROVE FALSE
    OBVIOUS
  <2> DEFINE A == {l \in result.lost : obliged[l] = keys[g]}
             B == {i \in result.gained : keys[i] = keys[g]}
  <2>1. Cardinality(A) = Cardinality(B)
    BY <1>7 DEF Balanced
  <2>2. A = {}
    BY <1>8
  <2>3. IsFiniteSet(B)
    <3>1. B \subseteq Names
      BY <1>7 DEF Joins
    <3> QED
      BY <1>1, <3>1, FS_Subset
  <2>4. g \in B
    OBVIOUS
  <2> HIDE DEF A, B
  <2> QED
    BY <2>1, <2>2, <2>3, <2>4, FS_EmptySet
<1> QED
  BY <1>8, <1>9 DEF result

--------------------------------------------------------------------------------
(***************************************************************************)
(* The expectation gate.                                                   *)
(***************************************************************************)
\* Every report of an arm was made with oracle and peer w.
MadeWith(s, arm, w) == \A r \in ToSet(reports[s][arm]) : r.of = w

\* The reports of a stem whose reports all speak of w: under the name of an
\* assertion that the arm has, the same severity in every round, the one it has
\* by right if it is steady.
LEMMA SteadyValues ==
    ASSUME GatesTypeOK, NEW s \in Stems, NEW arm \in Arms, reports[s][arm] # <<>>,
           NEW w, MadeWith(s, arm, w), NEW x \in There(s, arm, w), Steady(x)
    PROVE  /\ w[1][x] \in ChecksOf(reports[s][arm])
           /\ Stable(Values(reports[s][arm], w[1][x])) = Base(arm, w)[x]
           /\ Values(reports[s][arm], w[1][x])[1] = Base(arm, w)[x]
<1> DEFINE q == reports[s][arm]
           n == w[1][x]
           v == Values(q, n)
<1>1. /\ q \in Seq(ToSet(q)) /\ q # <<>> /\ \A r \in ToSet(q) : Genuine(r, s, arm) /\ r.of = w
  BY DEF GatesTypeOK, GenuineRounds, MadeWith
<1>2. \A r \in ToSet(q) : n \in DOMAIN r.sev /\ r.sev[n] = Base(arm, w)[x]
  BY <1>1 DEF Genuine
<1>3. 1 \in DOMAIN q
  <2> HIDE DEF q
  <2> QED
    BY <1>1
<1>4. \A i \in DOMAIN q : q[i] \in ToSet(q)
  BY DEF ToSet
<1>5. DOMAIN v = DOMAIN q /\ \A i \in DOMAIN q : v[i] = Base(arm, w)[x]
  BY <1>2, <1>4 DEF Values
<1>6. n \in ChecksOf(q)
  BY <1>2, <1>3, <1>4 DEF ChecksOf
<1> HIDE DEF v, q, n
<1>7. v[1] = Base(arm, w)[x] /\ Stable(v) = Base(arm, w)[x]
  BY <1>3, <1>5 DEF Stable
<1> QED
  BY <1>6, <1>7 DEF v, q, n

\* Every name in the reports is that of an assertion the arm has.
LEMMA ReportedNames ==
    ASSUME GatesTypeOK, NEW s \in Stems, NEW arm \in Arms, NEW n \in ChecksOf(reports[s][arm])
    PROVE  /\ n \in Names
           /\ \A w : MadeWith(s, arm, w) => \E x \in There(s, arm, w) : w[1][x] = n
<1>1. PICK i \in DOMAIN reports[s][arm] : n \in DOMAIN reports[s][arm][i].sev
  BY DEF ChecksOf
<1> DEFINE r == reports[s][arm][i]
<1>2. r \in ToSet(reports[s][arm])
  BY DEF ToSet
<1>3. Genuine(r, s, arm)
  BY <1>2 DEF GatesTypeOK, GenuineRounds
<1> HIDE DEF r
<1>4. PICK x \in There(s, arm, r.of) : n = r.of[1][x]
  BY <1>1, <1>3 DEF Genuine, r
<1>5. n \in Names
  <2>1. r.of[1] \in Builds /\ x \in DOMAIN r.of[1]
    BY <1>3 DEF Genuine, There
  <2>2. r.of[1] \in [DOMAIN r.of[1] -> Names]
    BY <2>1, ReportsAssumption
  <2> QED
    BY <1>4, <2>1, <2>2
<1>6. \A w : MadeWith(s, arm, w) => r.of = w
  BY <1>2 DEF MadeWith
<1> QED
  BY <1>4, <1>5, <1>6

\* No severity is the mark of a movement.
LEMMA SeveritiesAreNotMoved == Moved \notin Severities
BY DEF Moved, Severities

\* In reports that speak of one oracle and one peer, a steady assertion that
\* passes better than on the bare peer is measured as improved,
LEMMA ImprovementIsMeasured ==
    ASSUME GatesTypeOK, NEW s \in Stems, Measured(s), NEW w,
           \A arm \in Arms : MadeWith(s, arm, w),
           NEW x \in InStem[s], Steady(x), Improves(w, x), w[1][x] \notin Straddles
    PROVE  w[1][x] \in Measure(s).improved
<1> DEFINE n == w[1][x]
           bare == Values(reports[s]["bare"], n)
           full == Values(reports[s]["composed"], n)
<1>1. "bare" \in Arms /\ "composed" \in Arms /\ "composed" # "bare"
  BY DEF Arms
<1>2. \A arm \in Arms : reports[s][arm] # <<>>
  BY DEF Measured, Refused, Unmeasured
<1>3. Absent \notin Severities
  BY DEF Absent, Severities
<1>4. x \in There(s, "bare", w) /\ x \in There(s, "composed", w)
  BY <1>1, <1>3 DEF Improves, There, Base
<1>5. /\ n \in ChecksOf(reports[s]["bare"])
      /\ Stable(bare) = Bare[x] /\ bare[1] = Bare[x]
  BY <1>1, <1>2, <1>4, SteadyValues DEF Base
<1>6. /\ n \in ChecksOf(reports[s]["composed"])
      /\ Stable(full) = w[2][x]
  BY <1>1, <1>2, <1>4, SteadyValues DEF Base
<1>7. BetterThanBare(bare, full) /\ bare[1] # "PASS"
  BY <1>5, <1>6, SeveritiesAreNotMoved DEF BetterThanBare, Improves
<1> QED
  BY <1>5, <1>6, <1>7 DEF Measure

\* and under the name of every check that is measured as improved there is such
\* an assertion, if it is steady.
LEMMA MeasuredIsImprovement ==
    ASSUME GatesTypeOK, NEW s \in Stems, Measured(s), NEW w,
           \A arm \in Arms : MadeWith(s, arm, w), NEW n \in Measure(s).improved
    PROVE  /\ n \in Names
           /\ \E x \in InStem[s] \cap DOMAIN w[1] : w[1][x] = n
           /\ \A x \in InStem[s] \cap DOMAIN w[1] : w[1][x] = n /\ Steady(x) => Improves(w, x)
<1> DEFINE bare == Values(reports[s]["bare"], n)
           full == Values(reports[s]["composed"], n)
<1>1. "bare" \in Arms /\ "composed" \in Arms /\ "composed" # "bare"
  BY DEF Arms
<1>2. \A arm \in Arms : reports[s][arm] # <<>>
  BY DEF Measured, Refused, Unmeasured
<1>3. /\ n \in ChecksOf(reports[s]["bare"]) /\ n \in ChecksOf(reports[s]["composed"])
      /\ BetterThanBare(bare, full) /\ bare[1] # "PASS"
  BY DEF Measure
<1>4. n \in Names
  BY <1>1, <1>3, ReportedNames
<1>5. /\ \E x \in There(s, "bare", w) : w[1][x] = n
      /\ \E x \in There(s, "composed", w) : w[1][x] = n
  BY <1>1, <1>3, ReportedNames
<1>6. w[1] \in Builds /\ w \in Builds \X Bodies
  <2>1. PICK i \in DOMAIN reports[s]["bare"] : n \in DOMAIN reports[s]["bare"][i].sev
    BY <1>3 DEF ChecksOf
  <2>2. reports[s]["bare"][i] \in ToSet(reports[s]["bare"])
    BY DEF ToSet
  <2> QED
    <3> DEFINE r == reports[s]["bare"][i]
    <3>1. Genuine(r, s, "bare") /\ r.of = w
      BY <1>1, <2>2 DEF GatesTypeOK, GenuineRounds, MadeWith
    <3>2. r.of \in Builds \X Bodies
      BY <3>1 DEF Genuine
    <3> HIDE DEF r
    <3> QED
      BY <3>1, <3>2
<1>7. ASSUME NEW x \in InStem[s] \cap DOMAIN w[1], w[1][x] = n, Steady(x)
      PROVE  Improves(w, x)
  <2>1. \A y \in DOMAIN w[1] : w[1][y] = n => y = x
    BY <1>6, <1>7, ReportsAssumption
  <2>2. x \in There(s, "bare", w) /\ x \in There(s, "composed", w)
    BY <1>5, <2>1 DEF There
  <2>3. Stable(bare) = Bare[x] /\ bare[1] = Bare[x]
    BY <1>1, <1>2, <1>7, <2>2, SteadyValues DEF Base
  <2>4. Stable(full) = w[2][x]
    BY <1>1, <1>2, <1>7, <2>2, SteadyValues DEF Base
  <2>5. Bare[x] \in Severities /\ w[2][x] \in Severities
    <3>1. Bare \in [Assertions -> Severities \cup {Absent}] /\ w[2] \in [Assertions -> Severities \cup {Absent}]
      BY <1>6, ReportsAssumption
    <3>2. x \in Assertions
      BY ReportsAssumption
    <3>3. Bare[x] # Absent /\ w[2][x] # Absent
      BY <1>1, <2>2 DEF There, Base
    <3> QED
      BY <3>1, <3>2, <3>3
  <2> QED
    BY <1>3, <2>3, <2>4, <2>5 DEF BetterThanBare, Improves
<1> QED
  BY <1>4, <1>5, <1>7 DEF There

\* An arm has finitely many rounds.
LEMMA RoundsAreFinite ==
    ASSUME GatesTypeOK, NEW s \in Stems, NEW arm \in Arms
    PROVE  IsFiniteSet(ToSet(reports[s][arm]))
<1> DEFINE q == reports[s][arm]
<1>1. q \in Seq(ToSet(q))
  BY DEF GatesTypeOK, GenuineRounds
<1> HIDE DEF q
<1>2. Len(q) \in Nat /\ DOMAIN q = 1 .. Len(q) /\ q = [i \in 1 .. Len(q) |-> q[i]]
  BY <1>1
<1>3. IsFiniteSet(1 .. Len(q))
  <2>1. 1 \in Int /\ Len(q) \in Int
    BY <1>2
  <2> QED
    BY <2>1, FS_Interval
<1>4. IsFiniteSet({q[i] : i \in 1 .. Len(q)})
  BY <1>2, <1>3, ImageIsFinite
<1> QED
  BY <1>2, <1>4 DEF ToSet, q

\* Finitely many oracles and peers made the reports.
LEMMA FewRanWith == ASSUME GatesTypeOK, NEW s \in Stems PROVE IsFiniteSet(RanWith(s))
<1> DEFINE S == ToSet(reports[s]["bare"]) \cup ToSet(reports[s]["composed"])
           f == [r \in S |-> r.of]
<1>1. "bare" \in Arms /\ "composed" \in Arms
  BY DEF Arms
<1>2. IsFiniteSet(S)
  BY <1>1, RoundsAreFinite, FS_Union
<1> HIDE DEF S
<1>3. IsFiniteSet({f[r] : r \in S})
  <2>1. DOMAIN f = S /\ f = [r \in S |-> f[r]]
    OBVIOUS
  <2> HIDE DEF f
  <2> QED
    BY <1>2, <2>1, ImageIsFinite
<1>4. {f[r] : r \in S} = {r.of : r \in S}
  OBVIOUS
<1> QED
  BY <1>3, <1>4 DEF RanWith, S

\* What a baseline remembers: every improvement there was when it was made, if
\* the reports then spoke of one oracle and one peer.
BaselineRemembers ==
    /\ DOMAIN baseline = Stems /\ DOMAIN blessedAt = Stems
    /\ \A s \in Stems : IsFiniteSet(blessedAt[s])
    /\ \A s \in Stems : baseline[s] # NoBaseline =>
          \A w : blessedAt[s] = {w} =>
             /\ baseline[s].improved \subseteq Names
             /\ \A x \in InStem[s] :
                   Steady(x) /\ Improves(w, x) /\ w[1][x] \notin Straddles
                   => w[1][x] \in baseline[s].improved

GatesIInv == GatesTypeOK /\ BaselineRemembers

\* A blessing remembers every improvement.
LEMMA BlessingRemembers == GatesIInv /\ BlessBaseline => GatesIInv'
<1> SUFFICES ASSUME GatesIInv, BlessBaseline PROVE GatesIInv'
  OBVIOUS
<1>1. /\ UNCHANGED <<build, body, reports>>
      /\ baseline' = [s \in Stems |-> IF Measured(s) THEN Block(s) ELSE NoBaseline]
      /\ blessedAt' = [s \in Stems |-> RanWith(s)]
  BY DEF BlessBaseline, Bless, reportVars
<1>2. GatesTypeOK /\ GatesTypeOK'
  BY <1>1 DEF GatesIInv, GatesTypeOK
<1>3. \A s \in Stems : IsFiniteSet(blessedAt'[s])
  BY <1>1, <1>2, FewRanWith
<1>4. ASSUME NEW s \in Stems, baseline'[s] # NoBaseline, NEW w, blessedAt'[s] = {w}
      PROVE  /\ baseline'[s].improved \subseteq Names
             /\ \A x \in InStem[s] :
                   Steady(x) /\ Improves(w, x) /\ w[1][x] \notin Straddles
                   => w[1][x] \in baseline'[s].improved
  <2>1. Measured(s) /\ baseline'[s] = Block(s)
    BY <1>1, <1>4
  <2>2. baseline'[s].improved = Measure(s).improved
    BY <2>1 DEF Block
  <2>3. RanWith(s) = {w}
    BY <1>1, <1>4
  <2>4. \A arm \in Arms : MadeWith(s, arm, w)
    BY <2>3 DEF RanWith, MadeWith, Arms
  <2> QED
    BY <1>2, <2>1, <2>2, <2>4, ImprovementIsMeasured, MeasuredIsImprovement
<1> QED
  BY <1>1, <1>2, <1>3, <1>4 DEF GatesIInv, BaselineRemembers

\* Every step.
LEMMA GatesStepKeepsIInv == GatesIInv /\ [GatesNext]_gateVars => GatesIInv'
<1> SUFFICES ASSUME GatesIInv, [GatesNext]_gateVars PROVE GatesIInv'
  OBVIOUS
<1>1. CASE ReportsNext /\ UNCHANGED <<baseline, obligation, blessedAt, keyedAt>>
  BY <1>1, ReportsStepKeepsType DEF GatesIInv, BaselineRemembers
<1>2. CASE BlessBaseline
  BY <1>2, BlessingRemembers
<1>3. CASE BlessMap
  BY <1>3 DEF BlessMap, reportVars, GatesIInv, GatesTypeOK, BaselineRemembers
<1>4. CASE UNCHANGED gateVars
  BY <1>4 DEF gateVars, reportVars, GatesIInv, GatesTypeOK, BaselineRemembers
<1> QED
  BY <1>1, <1>2, <1>3, <1>4 DEF GatesNext

\* Before anything was blessed.
LEMMA GatesStartWell == GatesInit => GatesIInv
<1> SUFFICES ASSUME GatesInit PROVE GatesIInv
  OBVIOUS
<1>1. GatesTypeOK
  BY ReportsInitType DEF GatesInit
<1>2. BaselineRemembers
  BY FS_EmptySet DEF GatesInit, BaselineInit, BaselineRemembers
<1> QED
  BY <1>1, <1>2 DEF GatesIInv

\* The invariant of the gates.
LEMMA GatesInvariant == GatesSpec => []GatesIInv
BY GatesStartWell, GatesStepKeepsIInv, PTL DEF GatesSpec

\* A green verdict keeps what the baseline remembers.
LEMMA GreenKeepsWhatIsRemembered == GatesIInv => NothingIsForgotten
<1> SUFFICES ASSUME GatesIInv, ExpectationCode = 0, NEW s \in Stems, Measured(s), OneEach(s),
                    NEW x \in InStem[s], Steady(x), Improves(Before(s), x),
                    Before(s)[1][x] \notin Straddles, NameNotReused(s, x)
             PROVE  Improves(Now(s), x)
  BY DEF NothingIsForgotten
<1> DEFINE b == Before(s)
           w == Now(s)
           d == baseline[s]
           got == Measure(s)
           n == b[1][x]
<1>1. GatesTypeOK /\ BaselineRemembers
  BY DEF GatesIInv
<1>2. blessedAt[s] = {b}
  <2>1. \E e : blessedAt[s] = {e}
    BY <1>1, FS_Singleton DEF OneEach, BaselineRemembers
  <2> QED
    BY <2>1 DEF Before
<1>3. RanWith(s) = {w}
  <2>1. \E e : RanWith(s) = {e}
    BY <1>1, FewRanWith, FS_Singleton DEF OneEach
  <2> QED
    BY <2>1 DEF Now
<1>4. \A arm \in Arms : MadeWith(s, arm, w)
  <2> HIDE DEF w
  <2> QED
    BY <1>3 DEF RanWith, MadeWith, Arms
<1>5. d # NoBaseline /\ Holds(Evaluate(s, d))
  BY DEF ExpectationCode
<1>6. d.improved \subseteq Names /\ n \in d.improved
  <2> HIDE DEF b, d
  <2> QED
    BY <1>1, <1>2, <1>5 DEF BaselineRemembers, b, d
<1>7. got.improved \subseteq Names
  BY <1>1, <1>4, MeasuredIsImprovement
<1>8. /\ Join(d.improved \ got.improved, got.improved \ d.improved, d.requirement, KeyOf(s)).lost = {}
      /\ Join(d.improved \ got.improved, got.improved \ d.improved, d.requirement, KeyOf(s)).renamed = {}
  BY <1>5 DEF Evaluate, Holds
<1>9. d.improved \ got.improved = {}
  <2>1. d.improved \ got.improved \in SUBSET Names /\ got.improved \ d.improved \in SUBSET Names
    BY <1>6, <1>7
  <2> HIDE DEF d, got
  <2> QED
    BY <1>8, <2>1, JoinKeepsTheLost
<1>10. n \in got.improved
  BY <1>6, <1>9
<1>11. PICK y \in InStem[s] \cap DOMAIN w[1] : w[1][y] = n
  BY <1>1, <1>4, <1>10, MeasuredIsImprovement
<1>12. y = x
  BY <1>11 DEF NameNotReused
<1> QED
  BY <1>1, <1>4, <1>10, <1>11, <1>12, MeasuredIsImprovement


--------------------------------------------------------------------------------
(***************************************************************************)
(* Renames and losses.  A join takes a heir of each lost assertion's       *)
(* obligation while there is one, so that a pure rename, which loses and   *)
(* gains as many names of every obligation, leaves nothing lost.           *)
(***************************************************************************)

\* A report speaks of a build and a body that there are.
LEMMA MadersExist ==
    ASSUME GatesTypeOK, NEW s \in Stems, NEW arm \in Arms, NEW w, MadeWith(s, arm, w),
           NEW n \in ChecksOf(reports[s][arm])
    PROVE  /\ w \in Builds \X Bodies /\ w[1] \in Builds
           /\ \A x, y \in DOMAIN w[1] : w[1][x] = w[1][y] => x = y
<1>1. PICK i \in DOMAIN reports[s][arm] : n \in DOMAIN reports[s][arm][i].sev
  BY DEF ChecksOf
<1> DEFINE r == reports[s][arm][i]
<1>2. r \in ToSet(reports[s][arm])
  BY DEF ToSet
<1>3. Genuine(r, s, arm) /\ r.of = w
  BY <1>2 DEF GatesTypeOK, GenuineRounds, MadeWith
<1>4. r.of \in Builds \X Bodies
  BY <1>3 DEF Genuine
<1> HIDE DEF r
<1> QED
  BY <1>3, <1>4, ReportsAssumption

\* Nor is anything the composition breaks under a clean verdict: its check is
\* lost in the composed reports, or stable there and worse than on the bare peer.
LEMMA GreenBreaksNothing == GatesIInv => NothingIsBroken
<1> SUFFICES ASSUME GatesIInv, NEW s \in Stems, Green(s), Cardinality(RanWith(s)) = 1,
                    NEW x \in Broken(s)
             PROVE  FALSE
  BY DEF NothingIsBroken
<1> DEFINE w == Now(s)
           n == w[1][x]
           bare == Values(reports[s]["bare"], n)
           full == Values(reports[s]["composed"], n)
<1>1. GatesTypeOK /\ "bare" \in Arms /\ "composed" \in Arms /\ "composed" # "bare"
  BY DEF GatesIInv, Arms
<1>2. RanWith(s) = {w}
  <2>1. \E e : RanWith(s) = {e}
    BY <1>1, FewRanWith, FS_Singleton
  <2> QED
    BY <2>1 DEF Now
<1>3. \A arm \in Arms : MadeWith(s, arm, w)
  <2> HIDE DEF w
  <2> QED
    BY <1>2 DEF RanWith, MadeWith, Arms
<1>4. /\ x \in InStem[s] \cap DOMAIN w[1] /\ Steady(x) /\ n \notin Straddles
      /\ Bare[x] = "PASS" /\ w[2][x] # "PASS"
  BY DEF Broken
<1>5. reports[s]["bare"] # <<>> /\ reports[s]["composed"] # <<>>
  <2>1. CASE Measured(s)
    BY <1>1, <2>1 DEF Measured, Refused, Unmeasured
  <2>2. CASE ~DiffRefuses(s)
    <3>1. reports[s]["bare"] # <<>> /\ Len(reports[s]["bare"]) = Len(reports[s]["composed"])
      BY <2>2 DEF DiffRefuses
    <3>2. reports[s]["bare"] \in Seq(ToSet(reports[s]["bare"]))
      BY <1>1 DEF GatesTypeOK, GenuineRounds
    <3>3. Len(reports[s]["bare"]) # 0
      BY <3>1, <3>2
    <3> QED
      BY <3>1, <3>3
  <2> QED
    BY <2>1, <2>2 DEF Green
<1>6. /\ n \in ChecksOf(reports[s]["bare"])
      /\ Stable(bare) = "PASS" /\ bare[1] = "PASS"
  <2>1. x \in There(s, "bare", w)
    BY <1>4 DEF There, Base, Absent
  <2> QED
    BY <1>1, <1>3, <1>4, <1>5, <2>1, SteadyValues DEF Base
<1>7. CASE n \notin ChecksOf(reports[s]["composed"])
  <2>1. n \in DiffArms(s).lost
    BY <1>6, <1>7 DEF DiffArms
  <2>2. n \in Measure(s).bare_only
    BY <1>4, <1>6, <1>7 DEF Measure
  <2>3. n \in Evaluate(s, baseline[s]).bare_only
    BY <2>2 DEF Evaluate
  <2> QED
    BY <2>1, <2>3 DEF Green, DiffFails, ExpectationCode, Holds
<1>8. CASE n \in ChecksOf(reports[s]["composed"])
  <2>1. PICK y \in There(s, "composed", w) : w[1][y] = n
    BY <1>1, <1>3, <1>8, ReportedNames
  <2>2. \A z \in DOMAIN w[1] : w[1][z] = n => z = x
    BY <1>1, <1>3, <1>4, <1>8, MadersExist
  <2>3. x \in There(s, "composed", w) /\ w[2][x] # Absent
    BY <1>1, <2>1, <2>2 DEF There, Base
  <2>4. Stable(full) = w[2][x]
    BY <1>1, <1>3, <1>4, <1>5, <2>3, SteadyValues DEF Base
  <2>5. w[2][x] \in Severities
    <3>1. w \in Builds \X Bodies
      <4> HIDE DEF w
      <4> QED
        BY <1>1, <1>3, <1>8, MadersExist
    <3>2. w[2] \in [Assertions -> Severities \cup {Absent}]
      <4> HIDE DEF w
      <4> QED
        BY <3>1, ReportsAssumption
    <3>3. x \in Assertions
      BY <1>4, ReportsAssumption
    <3> QED
      BY <2>3, <3>2, <3>3
  <2>6. BetterThanBare(bare, full)
    BY <1>4, <1>6, <2>4, <2>5, SeveritiesAreNotMoved DEF BetterThanBare, Severities
  <2>7. n \in DiffArms(s).regressions
    BY <1>4, <1>6, <1>8, <2>6 DEF DiffArms
  <2>8. n \in Measure(s).regressed
    BY <1>4, <1>6, <1>8, <2>6 DEF Measure
  <2>9. n \in Evaluate(s, baseline[s]).regressions
    BY <2>8 DEF Evaluate
  <2> QED
    BY <2>7, <2>9 DEF Green, DiffFails, ExpectationCode, Holds
<1> QED
  BY <1>7, <1>8

\* For any oracles, peers, stems and numbers of rounds, through re-pins,
\* interrupted runs and noisy launches: a clean verdict of the expectation gate
\* hides no loss of what the baseline remembers, and neither its clean verdict
\* nor that of diff-arms hides what the composition breaks.
THEOREM GreenLosesNothing == GatesSpec => []LossIsNeverGreen
<1>1. GatesIInv => LossIsNeverGreen
  BY GreenBreaksNothing, GreenKeepsWhatIsRemembered DEF LossIsNeverGreen
<1> QED
  BY <1>1, GatesInvariant, PTL

\* The obligation the gate reads for a check is that of the assertion.
LEMMA KeyIsTheObligation ==
    ASSUME GatesTypeOK, NEW s \in Stems, NEW w, MadeWith(s, "composed", w),
           NEW x \in There(s, "composed", w), w[1][x] \in ChecksOf(reports[s]["composed"])
    PROVE  KeyOf(s)[w[1][x]] = Ref[x]
<1> DEFINE q == reports[s]["composed"]
           n == w[1][x]
           Latest(i) == /\ n \in DOMAIN q[i].ref
                        /\ \A j \in DOMAIN q : n \in DOMAIN q[j].ref => j <= i
           last == CHOOSE i \in DOMAIN q : Latest(i)
<1>1. "composed" \in Arms
  BY DEF Arms
<1>2. /\ q \in Seq(ToSet(q)) /\ \A r \in ToSet(q) : Genuine(r, s, "composed") /\ r.of = w
  BY <1>1 DEF GatesTypeOK, GenuineRounds, MadeWith
<1>3. \A i \in DOMAIN q : n \in DOMAIN q[i].ref /\ q[i].ref[n] = Ref[x]
  <2>1. ASSUME NEW r \in ToSet(q) PROVE n \in DOMAIN r.ref /\ r.ref[n] = Ref[x]
    BY <1>2 DEF Genuine
  <2> QED
    BY <2>1 DEF ToSet
<1>4. DOMAIN q # {}
  BY DEF ChecksOf
<1>5. Len(q) \in DOMAIN q /\ Latest(Len(q))
  <2>1. DOMAIN q = 1 .. Len(q) /\ Len(q) \in Nat
    BY <1>2
  <2>2. Len(q) \in DOMAIN q /\ \A j \in DOMAIN q : j <= Len(q)
    <3> HIDE DEF q
    <3> QED
      BY <1>4, <2>1
  <2> QED
    BY <1>3, <2>2
<1>6. last \in DOMAIN q
  <2> HIDE DEF Latest, q
  <2> QED
    BY <1>5
<1>7. KeyOf(s)[n] = q[last].ref[n]
  BY DEF KeyOf
<1> QED
  BY <1>3, <1>6, <1>7

\* What a baseline holds besides what it must: of a measurement by one oracle
\* and one peer, under each improved name an assertion of theirs, with its
\* obligation, and improved indeed if it is steady.
BaselineIsExact ==
    \A s \in Stems : baseline[s] # NoBaseline =>
        /\ DOMAIN baseline[s].requirement = baseline[s].improved
        /\ \A w : blessedAt[s] = {w} =>
              /\ baseline[s].improved # {} =>
                    w[1] \in Builds /\ \A x, y \in DOMAIN w[1] : w[1][x] = w[1][y] => x = y
              /\ \A n \in baseline[s].improved :
                    \E x \in InStem[s] \cap DOMAIN w[1] :
                        /\ w[1][x] = n /\ baseline[s].requirement[n] = Ref[x]
                        /\ Steady(x) => Improves(w, x)

\* What the map of obligations holds, read from the reports of one oracle and
\* one peer: the obligations of their assertions, of which an arm has each.
MapIsExact ==
    \A w : keyedAt = {w} =>
        \A n \in Keyed : \A x \in DOMAIN w[1] : w[1][x] = n =>
            obligation[n] = Ref[x] /\ \E arm \in Arms : Base(arm, w)[x] # Absent

\* What a measurement finds improved has the obligation of an assertion.
LEMMA BlocksAreExact ==
    ASSUME GatesTypeOK, NEW s \in Stems, Measured(s), NEW w,
           \A arm \in Arms : MadeWith(s, arm, w), NEW n \in Measure(s).improved
    PROVE  /\ w[1] \in Builds /\ \A x, y \in DOMAIN w[1] : w[1][x] = w[1][y] => x = y
           /\ \E x \in InStem[s] \cap DOMAIN w[1] :
                  /\ w[1][x] = n /\ KeyOf(s)[n] = Ref[x]
                  /\ Steady(x) => Improves(w, x)
<1>1. "composed" \in Arms
  BY DEF Arms
<1>2. n \in ChecksOf(reports[s]["composed"])
  BY DEF Measure
<1>3. w[1] \in Builds /\ \A x, y \in DOMAIN w[1] : w[1][x] = w[1][y] => x = y
  BY <1>1, <1>2, MadersExist
<1>4. PICK x \in There(s, "composed", w) : w[1][x] = n
  BY <1>1, <1>2, ReportedNames
<1>5. KeyOf(s)[n] = Ref[x]
  BY <1>1, <1>2, <1>4, KeyIsTheObligation
<1>6. x \in InStem[s] \cap DOMAIN w[1]
  BY DEF There
<1>7. Steady(x) => Improves(w, x)
  BY <1>4, <1>6, MeasuredIsImprovement
<1> QED
  BY <1>3, <1>4, <1>5, <1>6, <1>7

\* A blessing writes what it measured.
LEMMA BlessingIsExact ==
    GatesIInv /\ BaselineIsExact /\ MapIsExact /\ BlessBaseline => BaselineIsExact' /\ MapIsExact'
<1> SUFFICES ASSUME GatesIInv, MapIsExact, BlessBaseline PROVE BaselineIsExact' /\ MapIsExact'
  OBVIOUS
<1>1. /\ baseline' = [s \in Stems |-> IF Measured(s) THEN Block(s) ELSE NoBaseline]
      /\ blessedAt' = [s \in Stems |-> RanWith(s)] /\ UNCHANGED <<obligation, keyedAt>>
      /\ body' = body
  BY DEF BlessBaseline, Bless, reportVars
<1>2. ASSUME NEW s \in Stems, baseline'[s] # NoBaseline
      PROVE  /\ baseline'[s].improved = Measure(s).improved
             /\ baseline'[s].requirement = [n \in Measure(s).improved |-> KeyOf(s)[n]]
             /\ Measured(s)
  BY <1>1, <1>2 DEF Block
<1>3. ASSUME NEW s \in Stems, baseline'[s] # NoBaseline, NEW w, blessedAt'[s] = {w}
      PROVE  \A arm \in Arms : MadeWith(s, arm, w)
  <2>1. RanWith(s) = {w}
    BY <1>1, <1>3
  <2> QED
    BY <2>1 DEF RanWith, MadeWith, Arms
<1>4. ASSUME NEW s \in Stems, baseline'[s] # NoBaseline, NEW w, blessedAt'[s] = {w},
             NEW n \in baseline'[s].improved
      PROVE  /\ w[1] \in Builds /\ \A x, y \in DOMAIN w[1] : w[1][x] = w[1][y] => x = y
             /\ \E x \in InStem[s] \cap DOMAIN w[1] :
                    /\ w[1][x] = n /\ baseline'[s].requirement[n] = Ref[x]
                    /\ Steady(x) => Improves(w, x)
  <2>1. n \in Measure(s).improved /\ baseline'[s].requirement[n] = KeyOf(s)[n]
    BY <1>2, <1>4
  <2>2. GatesTypeOK /\ Measured(s)
    BY <1>2, <1>4 DEF GatesIInv
  <2> QED
    BY <1>3, <1>4, <2>1, <2>2, BlocksAreExact
<1>5. \A s \in Stems : baseline'[s] # NoBaseline =>
          DOMAIN baseline'[s].requirement = baseline'[s].improved
  BY <1>2
<1>6. BaselineIsExact'
  BY <1>4, <1>5 DEF BaselineIsExact
<1>7. MapIsExact'
  BY <1>1 DEF MapIsExact, Keyed
<1> QED
  BY <1>6, <1>7

\* The map is read from what the reports publish.
LEMMA MapIsRead ==
    GatesIInv /\ BaselineIsExact /\ BlessMap => BaselineIsExact' /\ MapIsExact'
<1> SUFFICES ASSUME GatesIInv, BaselineIsExact, BlessMap PROVE BaselineIsExact' /\ MapIsExact'
  OBVIOUS
<1>1. /\ UNCHANGED <<baseline, blessedAt, body>>
      /\ keyedAt' = UNION {RanWith(s) : s \in Stems}
      /\ obligation' = [n \in Pinned |-> ObligationOf(n)] /\ \A n \in Pinned : Published(n)
  BY DEF BlessMap, BlessObligations, reportVars
<1>2. ASSUME NEW w, keyedAt' = {w}, NEW n \in Pinned, NEW x \in DOMAIN w[1], w[1][x] = n
      PROVE  ObligationOf(n) = Ref[x] /\ \E arm \in Arms : Base(arm, w)[x] # Absent
  <2>1. Obligations(n) # {}
    <3>1. Cardinality(Obligations(n)) = 1
      BY <1>1 DEF Published
    <3>2. Cardinality({}) = 0
      BY FS_EmptySet
    <3> QED
      BY <3>1, <3>2
  <2>2. ObligationOf(n) \in Obligations(n)
    BY <2>1 DEF ObligationOf
  <2>3. PICK r \in Corpus : n \in DOMAIN r.ref /\ r.ref[n] = ObligationOf(n)
    BY <2>2 DEF Obligations
  <2>4. PICK s \in Stems, arm \in Arms : r \in ToSet(reports[s][arm])
    BY <2>3 DEF Corpus
  <2>5. Genuine(r, s, arm)
    BY <2>4 DEF GatesIInv, GatesTypeOK, GenuineRounds
  <2>6. r.of = w
    <3>1. r.of \in RanWith(s)
      BY <2>4 DEF RanWith, Arms
    <3>2. r.of \in keyedAt'
      BY <1>1, <3>1
    <3> QED
      BY <1>2, <3>2
  <2>7. w \in Builds \X Bodies
    BY <2>5, <2>6 DEF Genuine
  <2>8. PICK y \in There(s, arm, w) : n = w[1][y]
    BY <2>3, <2>5, <2>6 DEF Genuine
  <2>9. y = x
    BY <1>2, <2>7, <2>8, ReportsAssumption DEF There
  <2>10. r.ref[n] = Ref[x]
    BY <2>5, <2>6, <2>8, <2>9 DEF Genuine
  <2> QED
    BY <2>3, <2>8, <2>9, <2>10 DEF There
<1>3. MapIsExact'
  <2>1. Keyed' = Pinned /\ \A n \in Pinned : obligation'[n] = ObligationOf(n)
    BY <1>1 DEF Keyed
  <2> QED
    BY <1>2, <2>1 DEF MapIsExact
<1>4. BaselineIsExact'
  BY <1>1 DEF BaselineIsExact
<1> QED
  BY <1>3, <1>4

\* A stem that was measured in reports of one oracle and one peer, against a
\* baseline that was: what the two say.
LEMMA MeasuredAgain ==
    ASSUME GatesIInv, BaselineIsExact, NEW s \in Stems, Measured(s), OneEach(s)
    PROVE  /\ blessedAt[s] = {Before(s)} /\ RanWith(s) = {Now(s)}
           /\ \A arm \in Arms : MadeWith(s, arm, Now(s))
           /\ baseline[s].improved \in SUBSET Names /\ Measure(s).improved \in SUBSET Names
           /\ baseline[s].improved # {} =>
                  /\ Before(s)[1] \in Builds
                  /\ \A x, y \in DOMAIN Before(s)[1] : Before(s)[1][x] = Before(s)[1][y] => x = y
<1>1. GatesTypeOK /\ BaselineRemembers /\ baseline[s] # NoBaseline
  BY DEF GatesIInv, OneEach
<1>2. blessedAt[s] = {Before(s)}
  <2>1. \E e : blessedAt[s] = {e}
    BY <1>1, FS_Singleton DEF OneEach, BaselineRemembers
  <2> QED
    BY <2>1 DEF Before
<1>3. RanWith(s) = {Now(s)}
  <2>1. \E e : RanWith(s) = {e}
    BY <1>1, FewRanWith, FS_Singleton DEF OneEach
  <2> QED
    BY <2>1 DEF Now
<1>4. \A arm \in Arms : MadeWith(s, arm, Now(s))
  BY <1>3 DEF RanWith, MadeWith, Arms
<1>5. baseline[s].improved \subseteq Names
  BY <1>1, <1>2 DEF BaselineRemembers
<1>6. Measure(s).improved \subseteq Names
  BY <1>1, <1>4, MeasuredIsImprovement
<1>7. baseline[s].improved # {} =>
          /\ Before(s)[1] \in Builds
          /\ \A x, y \in DOMAIN Before(s)[1] : Before(s)[1][x] = Before(s)[1][y] => x = y
  BY <1>1, <1>2 DEF BaselineIsExact
<1> QED
  BY <1>2, <1>3, <1>4, <1>5, <1>6, <1>7

\* A join cannot hide a loss whose obligation no other assertion has.
LEMMA TheLonelyAreNamed == GatesIInv /\ BaselineIsExact => LonelyLossIsNamed
<1> SUFFICES ASSUME GatesIInv, BaselineIsExact, NEW s \in Stems, Measured(s), OneEach(s),
                    NEW x \in InStem[s], Steady(x), Improves(Before(s), x), ~Improves(Now(s), x),
                    \A y \in Assertions : Ref[y] = Ref[x] => y = x,
                    Before(s)[1][x] \notin Straddles, NameNotReused(s, x)
             PROVE  Before(s)[1][x] \in Evaluate(s, baseline[s]).lost
  BY DEF LonelyLossIsNamed
<1> DEFINE b == Before(s)
           w == Now(s)
           d == baseline[s]
           got == Measure(s)
           n == b[1][x]
           lost == d.improved \ got.improved
           gained == got.improved \ d.improved
<1>1. /\ blessedAt[s] = {b} /\ \A arm \in Arms : MadeWith(s, arm, w)
      /\ d.improved \in SUBSET Names /\ got.improved \in SUBSET Names
      /\ GatesTypeOK /\ BaselineRemembers /\ d # NoBaseline
      /\ d.improved # {} => \A p, q \in DOMAIN b[1] : b[1][p] = b[1][q] => p = q
  BY MeasuredAgain DEF GatesIInv, OneEach
<1>2. n \in d.improved
  <2> HIDE DEF b, d
  <2> QED
    BY <1>1 DEF BaselineRemembers, b, d
<1>3. ASSUME NEW m \in got.improved
      PROVE  \E y \in InStem[s] \cap DOMAIN w[1] :
                /\ w[1][y] = m /\ KeyOf(s)[m] = Ref[y] /\ y # x
  <2>1. PICK y \in InStem[s] \cap DOMAIN w[1] :
            w[1][y] = m /\ KeyOf(s)[m] = Ref[y] /\ (Steady(y) => Improves(w, y))
    BY <1>1, <1>3, BlocksAreExact
  <2> QED
    BY <2>1
<1>4. n \notin got.improved
  BY <1>3 DEF NameNotReused
<1>5. d.requirement[n] = Ref[x]
  <2>1. PICK y \in InStem[s] \cap DOMAIN b[1] : b[1][y] = n /\ d.requirement[n] = Ref[y]
    <3> HIDE DEF b, d, n
    <3> QED
      BY <1>1, <1>2 DEF BaselineIsExact, d
  <2>2. x \in DOMAIN b[1]
    BY DEF Improves
  <2>3. y = x
    BY <1>1, <1>2, <2>1, <2>2
  <2> QED
    BY <2>1, <2>3
<1>6. \A g \in gained : KeyOf(s)[g] # d.requirement[n]
  <2>1. InStem[s] \subseteq Assertions
    BY ReportsAssumption
  <2> QED
    BY <1>3, <1>5, <2>1
<1>7. lost \in SUBSET Names /\ gained \in SUBSET Names /\ n \in lost
  BY <1>1, <1>2, <1>4
<1>8. Evaluate(s, d).lost = Join(lost, gained, d.requirement, KeyOf(s)).lost
  BY DEF Evaluate
<1> HIDE DEF lost, gained, n, d
<1>9. n \in Join(lost, gained, d.requirement, KeyOf(s)).lost
  BY <1>6, <1>7, TheHeirlessIsLost
<1> QED
  BY <1>8, <1>9 DEF d, n

\* Two namings of the same assertions, which share a name only within an
\* obligation: what is lost of the first, and what is gained in the second.
Renaming(I, f, g, lost, obliged, gained, keys) ==
    /\ lost = {f[x] : x \in I} \ {g[x] : x \in I}
    /\ gained = {g[x] : x \in I} \ {f[x] : x \in I}
    /\ \A x \in I : f[x] \in Names /\ g[x] \in Names
    /\ \A x, y \in I : (f[x] = f[y] => x = y) /\ (g[x] = g[y] => x = y)
    /\ \A x \in I : obliged[f[x]] = Ref[x] /\ keys[g[x]] = Ref[x]
    /\ \A x, y \in I : f[x] = g[y] => Ref[x] = Ref[y]

\* Then of each obligation as many names are lost as gained.
LEMMA RenamingIsBalanced ==
    ASSUME NEW I, NEW f, NEW g, NEW lost, NEW obliged, NEW gained, NEW keys,
           Renaming(I, f, g, lost, obliged, gained, keys)
    PROVE  Balanced(lost, obliged, gained, keys)
<1> USE DEF Renaming
<1> SUFFICES ASSUME NEW o
             PROVE  Cardinality({l \in lost : obliged[l] = o}) = Cardinality({l \in gained : keys[l] = o})
  BY DEF Balanced
<1> DEFINE J == {x \in I : Ref[x] = o}
           F == {f[x] : x \in J}
           G == {g[x] : x \in J}
<1>1. {l \in lost : obliged[l] = o} = F \ G
  OBVIOUS
<1>2. {l \in gained : keys[l] = o} = G \ F
  OBVIOUS
<1>3. IsFiniteSet(F)
  <2>1. F \subseteq Names
    OBVIOUS
  <2> QED
    BY <2>1, ReportsAssumption, FS_Subset
<1>4. IsFiniteSet(G) /\ Cardinality(G) = Cardinality(F)
  <2> DEFINE of(n) == CHOOSE x \in J : f[x] = n
             h == [n \in F |-> g[of(n)]]
  <2>1. \A x \in J : of(f[x]) = x
    OBVIOUS
  <2>2. \A x \in J : f[x] \in F /\ g[x] \in G /\ h[f[x]] = g[x]
    BY <2>1
  <2>3. h \in [F -> G]
    BY <2>1
  <2>4. \A m, n \in F : h[m] = h[n] => m = n
    BY <2>2
  <2>5. \A k \in G : \E n \in F : h[n] = k
    <3> SUFFICES ASSUME NEW k \in G PROVE \E n \in F : h[n] = k
      OBVIOUS
    <3>1. PICK x \in J : k = g[x]
      OBVIOUS
    <3>2. f[x] \in F /\ h[f[x]] = k
      BY <2>2, <3>1
    <3> QED
      BY <3>2
  <2> HIDE DEF h, F, G, J, of
  <2>6. h \in Bijection(F, G)
    BY <2>3, <2>4, <2>5 DEF Bijection, Injection, Surjection, IsInjective
  <2>7. ExistsBijection(F, G)
    BY <2>6 DEF ExistsBijection
  <2> QED
    BY <1>3, <2>7, FS_Bijection
<1> HIDE DEF F, G
<1>5. /\ Cardinality(F \ G) = Cardinality(F) - Cardinality(F \cap G)
      /\ Cardinality(G \ F) = Cardinality(G) - Cardinality(G \cap F)
  BY <1>3, <1>4, FS_Difference
<1>6. F \cap G = G \cap F
  OBVIOUS
<1> QED
  BY <1>1, <1>2, <1>4, <1>5, <1>6

\* A rename is no loss to the expectation gate.
LEMMA RenamedIsKept ==
    ASSUME GatesIInv, BaselineIsExact, NEW s \in Stems, Measured(s), OnlyRenamed(s),
           \A x \in InStem[s] : Steady(x),
           \A b \in {Before(s)[1], Now(s)[1]} : \A x \in DOMAIN b : b[x] \notin Straddles
    PROVE  Evaluate(s, baseline[s]).lost = {} /\ Evaluate(s, baseline[s]).gained = {}
<1> DEFINE b == Before(s)
           w == Now(s)
           d == baseline[s]
           got == Measure(s)
           I == {x \in InStem[s] : Improves(w, x)}
           lost == d.improved \ got.improved
           gained == got.improved \ d.improved
<1>1. /\ blessedAt[s] = {b} /\ \A arm \in Arms : MadeWith(s, arm, w)
      /\ d.improved \in SUBSET Names /\ got.improved \in SUBSET Names
      /\ GatesTypeOK /\ BaselineRemembers /\ d # NoBaseline
      /\ d.improved # {} => \A p, q \in DOMAIN b[1] : b[1][p] = b[1][q] => p = q
  BY MeasuredAgain DEF GatesIInv, OneEach, OnlyRenamed
<1>2. /\ b[2] = w[2] /\ DOMAIN b[1] = DOMAIN w[1]
      /\ \A x, y \in DOMAIN w[1] : b[1][x] = w[1][y] => Ref[x] = Ref[y]
  BY DEF OnlyRenamed
<1>3. \A x : Improves(b, x) <=> Improves(w, x)
  <2> HIDE DEF b, w
  <2> QED
    BY <1>2 DEF Improves
<1>4. \A x \in I : x \in DOMAIN w[1] /\ x \in DOMAIN b[1] /\ x \in InStem[s]
  BY <1>2 DEF Improves
<1>5. \A x \in I : b[1][x] \notin Straddles /\ w[1][x] \notin Straddles
  BY <1>4
<1>6. /\ d.improved = {b[1][x] : x \in I}
      /\ \A x \in I : d.requirement[b[1][x]] = Ref[x]
  <2>1. \A x \in I : b[1][x] \in d.improved
    <3> SUFFICES ASSUME NEW x \in I PROVE b[1][x] \in d.improved
      OBVIOUS
    <3>1. x \in InStem[s] /\ Steady(x) /\ Improves(b, x) /\ b[1][x] \notin Straddles
      BY <1>3, <1>5
    <3> HIDE DEF b, d, I
    <3> QED
      BY <1>1, <3>1 DEF BaselineRemembers, d
  <2>2. \A n \in d.improved : \E x \in I : b[1][x] = n /\ d.requirement[n] = Ref[x]
    <3> SUFFICES ASSUME NEW n \in d.improved PROVE \E x \in I : b[1][x] = n /\ d.requirement[n] = Ref[x]
      OBVIOUS
    <3>1. PICK x \in InStem[s] \cap DOMAIN b[1] :
              b[1][x] = n /\ d.requirement[n] = Ref[x] /\ (Steady(x) => Improves(b, x))
      <4> HIDE DEF b
      <4> QED
        BY <1>1 DEF BaselineIsExact
    <3> QED
      BY <1>3, <3>1
  <2>3. \A x \in I : d.requirement[b[1][x]] = Ref[x]
    <3> SUFFICES ASSUME NEW x \in I PROVE d.requirement[b[1][x]] = Ref[x]
      OBVIOUS
    <3>1. PICK y \in I : b[1][y] = b[1][x] /\ d.requirement[b[1][x]] = Ref[y]
      BY <2>1, <2>2
    <3>2. y = x
      BY <1>1, <1>4, <2>1, <3>1
    <3> QED
      BY <3>1, <3>2
  <2> HIDE DEF b, d, I
  <2> QED
    BY <2>1, <2>2, <2>3
<1>7. /\ got.improved = {w[1][x] : x \in I}
      /\ \A x \in I : KeyOf(s)[w[1][x]] = Ref[x]
      /\ \A x, y \in I : w[1][x] = w[1][y] => x = y
  <2>1. \A x \in I : w[1][x] \in got.improved
    BY <1>1, <1>5, ImprovementIsMeasured
  <2>2. ASSUME NEW n \in got.improved
        PROVE  /\ \E x \in I : w[1][x] = n /\ KeyOf(s)[n] = Ref[x]
               /\ \A x, y \in DOMAIN w[1] : w[1][x] = w[1][y] => x = y
    BY <1>1, BlocksAreExact
  <2>3. \A x, y \in I : w[1][x] = w[1][y] => x = y
    BY <1>4, <2>1, <2>2
  <2> HIDE DEF w, got, I
  <2>4. \A x \in I : KeyOf(s)[w[1][x]] = Ref[x]
    BY <2>1, <2>2, <2>3
  <2> QED
    BY <2>1, <2>2, <2>3, <2>4
<1>8. \A x, y \in I : b[1][x] = b[1][y] => x = y
  BY <1>1, <1>4, <1>6
<1>9. \A x, y \in I : b[1][x] = w[1][y] => Ref[x] = Ref[y]
  BY <1>2, <1>4
<1>10. \A x \in I : b[1][x] \in Names /\ w[1][x] \in Names
  <2> HIDE DEF I
  <2> QED
    BY <1>1, <1>6, <1>7
<1>11. Balanced(lost, d.requirement, gained, KeyOf(s))
  <2> DEFINE f == b[1]
             g == w[1]
             o == d.requirement
             k == KeyOf(s)
  <2>1. Renaming(I, f, g, lost, o, gained, k)
    BY <1>6, <1>7, <1>8, <1>9, <1>10 DEF Renaming
  <2> HIDE DEF f, g, o, k, I, lost, gained
  <2>2. Balanced(lost, o, gained, k)
    BY <2>1, RenamingIsBalanced
  <2> QED
    BY <2>2 DEF o, k
<1>12. lost \in SUBSET Names /\ gained \in SUBSET Names /\ lost \subseteq DOMAIN d.requirement
  <2>1. DOMAIN d.requirement = d.improved
    BY <1>1 DEF BaselineIsExact
  <2> QED
    BY <1>1, <2>1
<1>13. /\ Evaluate(s, d).lost = Join(lost, gained, d.requirement, KeyOf(s)).lost
       /\ Evaluate(s, d).gained = Join(lost, gained, d.requirement, KeyOf(s)).gained
  BY DEF Evaluate
<1> HIDE DEF lost, gained, d
<1>14. /\ Join(lost, gained, d.requirement, KeyOf(s)).lost = {}
       /\ Join(lost, gained, d.requirement, KeyOf(s)).gained = {}
  BY <1>11, <1>12, BalancedIsSettled
<1> QED
  BY <1>13, <1>14 DEF d

\* Nor to the coverage gate: the check is found again by its obligation.
LEMMA RenamedIsRepinned ==
    ASSUME GatesIInv, BaselineIsExact, MapIsExact, NEW t \in Tables, NEW s \in Stems,
           keyedAt = blessedAt[s], Measured(s), OnlyRenamed(s),
           NEW x \in InStem[s] \cap DOMAIN Before(s)[1],
           CategoryOf[Before(s)[1][x]] = CategoryOf[Now(s)[1][x]],
           Before(s)[1][x] \in MeasurementLost(t)
    PROVE  FALSE
<1> DEFINE b == Before(s)
           w == Now(s)
           n == b[1][x]
           m == w[1][x]
<1>1. /\ keyedAt = {b} /\ \A arm \in Arms : MadeWith(s, arm, w)
      /\ RanWith(s) = {w} /\ GatesTypeOK
      /\ b[2] = w[2] /\ DOMAIN b[1] = DOMAIN w[1]
  BY MeasuredAgain DEF GatesIInv, OnlyRenamed
<1>2. n \in Keyed /\ Carriers(n, obligation[n]) = {}
  BY DEF MeasurementLost
<1>3. obligation[n] = Ref[x]
  BY <1>1, <1>2 DEF MapIsExact
<1>4. PICK arm \in Arms : Base(arm, b)[x] # Absent
  BY <1>1, <1>2 DEF MapIsExact
<1>5. x \in There(s, arm, w)
  <2>1. Base(arm, w) = Base(arm, b)
    BY <1>1 DEF Base
  <2> QED
    BY <1>1, <1>4, <2>1 DEF There
<1>6. reports[s][arm] # <<>>
  BY DEF Measured, Refused, Unmeasured
<1>7. PICK r \in ToSet(reports[s][arm]) : TRUE
  <2> DEFINE q == reports[s][arm]
  <2>1. q \in Seq(ToSet(q))
    BY <1>1 DEF GatesTypeOK, GenuineRounds
  <2>2. 1 \in DOMAIN q
    <3> HIDE DEF q
    <3> QED
      BY <1>6, <2>1 DEF q
  <2> QED
    BY <2>2 DEF ToSet
<1>8. Genuine(r, s, arm) /\ r.of = w
  BY <1>1 DEF GatesTypeOK, GenuineRounds, MadeWith
<1>9. m \in DOMAIN r.sev /\ m \in DOMAIN r.ref /\ r.ref[m] = Ref[x]
  BY <1>5, <1>8 DEF Genuine
<1>10. r \in Corpus
  BY DEF Corpus
<1>11. m \in Executed /\ Ref[x] \in Obligations(m)
  BY <1>9, <1>10 DEF Executed, Obligations
<1>12. m \in Carriers(n, obligation[n])
  BY <1>3, <1>11 DEF Carriers
<1> QED
  BY <1>2, <1>12

\* What the blocks and the map hold.
BlocksIInv == GatesIInv /\ BaselineIsExact /\ MapIsExact

\* The invariant of the blocks.
LEMMA BlocksInvariant == GatesSpec => []BlocksIInv
<1>1. GatesInit => BlocksIInv
  <2> SUFFICES ASSUME GatesInit PROVE BlocksIInv
    OBVIOUS
  <2>1. GatesIInv
    BY GatesStartWell
  <2>2. BaselineIsExact /\ MapIsExact
    BY DEF GatesInit, BaselineInit, BaselineIsExact, MapIsExact
  <2> QED
    BY <2>1, <2>2 DEF BlocksIInv
<1>2. BlocksIInv /\ [GatesNext]_gateVars => BlocksIInv'
  <2> SUFFICES ASSUME BlocksIInv, [GatesNext]_gateVars PROVE BlocksIInv'
    OBVIOUS
  <2>1. GatesIInv /\ BaselineIsExact /\ MapIsExact /\ GatesIInv'
    BY GatesStepKeepsIInv DEF BlocksIInv
  <2>2. CASE UNCHANGED <<baseline, obligation, blessedAt, keyedAt>>
    BY <2>1, <2>2 DEF BlocksIInv, BaselineIsExact, MapIsExact, Keyed
  <2>3. CASE BlessBaseline
    BY <2>1, <2>3, BlessingIsExact DEF BlocksIInv
  <2>4. CASE BlessMap
    BY <2>1, <2>4, MapIsRead DEF BlocksIInv
  <2> QED
    BY <2>2, <2>3, <2>4 DEF GatesNext, gateVars
<1> QED
  BY <1>1, <1>2, PTL DEF GatesSpec

\* A rename and a loss, told apart by what the blocks remember.
LEMMA ToldApart == BlocksIInv => RenamesAndLossesToldApart
<1> SUFFICES ASSUME BlocksIInv PROVE RenameIsNoLoss /\ LonelyLossIsNamed
  BY DEF RenamesAndLossesToldApart
<1>1. LonelyLossIsNamed
  BY TheLonelyAreNamed DEF BlocksIInv
<1>2. RenameIsNoLoss
  BY RenamedIsKept, RenamedIsRepinned DEF BlocksIInv, RenameIsNoLoss
<1> QED
  BY <1>1, <1>2

\* For any oracles, peers, stems, obligations and tables: the join of the
\* expectation gate takes no rename for a loss and hides no loss that it could
\* tell, and the coverage gate finds every renamed check again.
THEOREM RenamesAreToldFromLosses == GatesSpec => []RenamesAndLossesToldApart
BY BlocksInvariant, ToldApart, PTL

--------------------------------------------------------------------------------
(***************************************************************************)
(* The coverage gate.                                                      *)
(***************************************************************************)
LEMMA CorpusIsFinite == ASSUME GatesTypeOK PROVE IsFiniteSet(Corpus)
<1> DEFINE f == [p \in Stems \X Arms |-> ToSet(reports[p[1]][p[2]])]
           F == {f[p] : p \in Stems \X Arms}
<1>1. IsFiniteSet(Arms)
  <2>1. Arms = {"bare"} \cup {"composed"}
    BY DEF Arms
  <2> QED
    BY <2>1, FS_Singleton, FS_Union
<1>2. IsFiniteSet(Stems \X Arms)
  BY <1>1, ReportsAssumption, FS_Product
<1>3. IsFiniteSet(F)
  <2>1. DOMAIN f = Stems \X Arms /\ f = [p \in Stems \X Arms |-> f[p]]
    OBVIOUS
  <2> HIDE DEF f
  <2> QED
    BY <1>2, <2>1, ImageIsFinite
<1>4. \A T \in F : IsFiniteSet(T)
  BY RoundsAreFinite
<1>5. Corpus = UNION F
  <2>1. \A s \in Stems, arm \in Arms :
          /\ f[<<s, arm>>] = ToSet(reports[s][arm])
          /\ f[<<s, arm>>] \in F
    OBVIOUS
  <2>2. ASSUME NEW T \in F
        PROVE  \E s \in Stems, arm \in Arms : T = ToSet(reports[s][arm])
    <3>1. PICK p \in Stems \X Arms : T = f[p]
      OBVIOUS
    <3>2. p[1] \in Stems /\ p[2] \in Arms /\ T = ToSet(reports[p[1]][p[2]])
      BY <3>1
    <3> QED
      BY <3>2
  <2> HIDE DEF f, F
  <2>3. ASSUME NEW r \in Corpus PROVE \E T \in F : r \in T
    <3>1. PICK s \in Stems, arm \in Arms : r \in ToSet(reports[s][arm])
      BY DEF Corpus
    <3> QED
      BY <2>1, <3>1
  <2>4. ASSUME NEW T \in F, NEW r \in T PROVE r \in Corpus
    <3>1. PICK s \in Stems, arm \in Arms : T = ToSet(reports[s][arm])
      BY <2>2
    <3> QED
      BY <3>1 DEF Corpus
  <2> QED
    BY <2>3, <2>4
<1> HIDE DEF F
<1> QED
  BY <1>3, <1>4, <1>5, FS_UNION

\* A check that ran has an obligation, and if all reports agree on it, the one.
LEMMA ExecutedIsObliged ==
    ASSUME GatesTypeOK, NEW n \in Executed, ~(Cardinality(Obligations(n)) > 1)
    PROVE  Published(n) /\ Obligations(n) = {ObligationOf(n)}
<1> DEFINE Q == {q \in Corpus : n \in DOMAIN q.ref}
           f == [r \in Q |-> r.ref[n]]
<1>1. Obligations(n) # {}
  <2>1. PICK r \in Corpus : n \in DOMAIN r.sev
    BY DEF Executed
  <2>2. PICK s \in Stems, arm \in Arms : r \in ToSet(reports[s][arm])
    BY <2>1 DEF Corpus
  <2>3. DOMAIN r.ref = DOMAIN r.sev
    BY <2>2 DEF GatesTypeOK, GenuineRounds, Genuine
  <2> QED
    BY <2>1, <2>3 DEF Obligations
<1>2. IsFiniteSet(Q)
  BY CorpusIsFinite, FS_Subset
<1>3. IsFiniteSet({f[r] : r \in Q})
  <2> HIDE DEF Q
  <2>1. DOMAIN f = Q /\ f = [r \in Q |-> f[r]]
    OBVIOUS
  <2> HIDE DEF f
  <2> QED
    BY <1>2, <2>1, ImageIsFinite
<1>4. IsFiniteSet(Obligations(n))
  <2>1. {f[r] : r \in Q} = {r.ref[n] : r \in Q}
    OBVIOUS
  <2> QED
    BY <1>3, <2>1 DEF Obligations
<1>5. Cardinality(Obligations(n)) = 1
  <2>1. Cardinality(Obligations(n)) \in Nat /\ Cardinality(Obligations(n)) # 0
    BY <1>1, <1>4, FS_CardinalityType, FS_EmptySet
  <2> QED
    BY <2>1
<1>6. \E o : Obligations(n) = {o}
  BY <1>4, <1>5, FS_Singleton
<1> QED
  BY <1>5, <1>6 DEF Published, ObligationOf

\* A green verdict covers the specification.
LEMMA GreenIsCovered == GatesIInv => GreenCoversTheSpec
<1> SUFFICES ASSUME GatesIInv, NEW t \in Tables, CoverageCode(t) = 0,
                    NEW i \in DOMAIN t.rows, t.rows[i].level \in Binding
             PROVE  \E j \in DOMAIN Contract :
                        /\ Contract[j].text = t.rows[i].text /\ (t.ids => i = j)
                        /\ \A n \in Contract[j].oracle :
                              n \in Executed /\ Obligations(n) = {obligation[n]}
                        /\ Contract[j].oracle # {} \/ Contract[j].ours \/ Contract[j].note
  BY DEF GreenCoversTheSpec
<1>1. /\ Reworded(t) = {} /\ Omissions(t) = {} /\ Undeclared(t) = {}
      /\ Unkeyed = {} /\ ObligationMoved = {} /\ Ambiguous = {} /\ Gone(t) = {}
  BY DEF CoverageCode
<1>2. i \in Parsed(t)
  BY DEF Parsed, Binding
<1>3. PICK p \in Mapped(t) : p[1] = i
  BY <1>1, <1>2 DEF Undeclared
<1> DEFINE j == p[2]
<1>4. j \in DOMAIN Contract /\ RowKey(t, i) = DeclaredKey(t, j)
  BY <1>3 DEF Mapped
<1>5. Contract[j].text = t.rows[i].text /\ (t.ids => i = j)
  <2>1. CASE t.ids
    BY <1>1, <1>3, <1>4, <2>1 DEF Reworded, RowKey, DeclaredKey
  <2>2. CASE ~t.ids
    BY <1>4, <2>2 DEF RowKey, DeclaredKey
  <2> QED
    BY <2>1, <2>2
<1>6. ASSUME NEW n \in Contract[j].oracle PROVE n \in Executed /\ Obligations(n) = {obligation[n]}
  <2>1. n \in Executed
    BY <1>1, <1>3 DEF Gone
  <2>2. n \in Pinned \cap Keyed
    BY <1>1, <1>4 DEF Pinned, Unkeyed
  <2>3. ~(Cardinality(Obligations(n)) > 1)
    BY <1>1, <2>2 DEF Ambiguous
  <2>4. Published(n) /\ Obligations(n) = {ObligationOf(n)}
    BY <2>1, <2>3, ExecutedIsObliged DEF GatesIInv
  <2>5. ObligationOf(n) = obligation[n]
    BY <1>1, <2>2, <2>4 DEF ObligationMoved
  <2> QED
    BY <2>1, <2>4, <2>5
<1>7. Contract[j].oracle # {} \/ Contract[j].ours \/ Contract[j].note
  BY <1>1, <1>3 DEF Omissions
<1> QED
  BY <1>4, <1>5, <1>6, <1>7

\* A clean coverage verdict means that every binding requirement is accounted
\* for, whatever is on disk and whatever the specification's table holds.
THEOREM GreenCovers == GatesSpec => []GreenCoversTheSpec
BY GatesInvariant, GreenIsCovered, PTL

--------------------------------------------------------------------------------
(***************************************************************************)
(* The authored extension checks.  The files the comparer reads may be of  *)
(* any age, but those of a make in which every client was heard are its    *)
(* own.                                                                    *)
(***************************************************************************)
MadeLaunch == [target : ArmTargets, arm : BothArms]
InQueue(l) == \E i \in DOMAIN queue : queue[i] = l
HeardIn(on, l) == on[l.target][l.arm] = Report(l, TRUE)
Heard(l) == HeardIn(files, l)
Making == phase # "idle" \/ answer = "ok"

ChecksTypeOK ==
    /\ corpus \subseteq Checks
    /\ declared \in [ArmTargets -> [Compositions -> [Faces ->
                        {"undeclared", "installed", "not-installable"}]]]
    /\ DOMAIN host = ArmTargets
    /\ \A t \in ArmTargets :
          /\ DOMAIN host[t] = Compositions \cup {"bare"}
          /\ \A a \in Compositions \cup {"bare"} :
                /\ DOMAIN host[t][a] = Checks
                /\ \A k \in Checks : host[t][a][k].done \in 0 .. Len(k.steps)
    /\ DOMAIN files = ArmTargets /\ \A t \in ArmTargets : DOMAIN files[t] = BothArms
    /\ queue \in Seq(MadeLaunch)

\* A launch of the make is still to come, or had a mishap, or left its report.
AllAccountedFor == \A l \in MadeLaunch : InQueue(l) \/ l \in dead \cup unreached \/ Heard(l)

ChecksIInv ==
    /\ ChecksTypeOK
    /\ Making => comp \in Compositions /\ Emitted /\ AllAccountedFor
    /\ answer = "ok" => phase = "idle" /\ queue = <<>> /\ Answer = "ok"

--------------------------------------------------------------------------------
\* The recipe launches both arms of every target.
LEMMA EveryArmIsLaunched ==
    Launches \in Seq(MadeLaunch) /\ \A l \in MadeLaunch : \E i \in DOMAIN Launches : Launches[i] = l
<1>1. Len(Order) \in Nat /\ \A i \in 1 .. Len(Order) : Order[i] \in ArmTargets
  BY TypedArms
<1> DEFINE n == 2 * Len(Order)
<1>2. n \in Nat /\ \A i \in 1 .. n : (i + 1) \div 2 \in 1 .. Len(Order)
  BY <1>1
<1>3. Launches \in [1 .. n -> MadeLaunch]
  BY <1>1, <1>2 DEF Launches, MadeLaunch, BothArms
<1>4. Launches \in Seq(MadeLaunch)
  BY <1>2, <1>3
<1>5. ASSUME NEW l \in MadeLaunch PROVE \E i \in 1 .. n : Launches[i] = l
  <2>1. PICK j \in 1 .. Len(Order) : l.target = Order[j]
    BY <1>1 DEF MadeLaunch, ArmTargets
  <2>2. CASE l.arm = "composed"
    <3> DEFINE i == 2 * j - 1
    <3>1. i \in 1 .. n /\ (i + 1) \div 2 = j /\ i % 2 = 1
      BY <1>1
    <3>2. Launches[i] = [target |-> Order[j], arm |-> "composed"]
      BY <3>1 DEF Launches
    <3> QED
      BY <2>1, <2>2, <3>1, <3>2 DEF MadeLaunch
  <2>3. CASE l.arm = "bare"
    <3> DEFINE i == 2 * j
    <3>1. i \in 1 .. n /\ (i + 1) \div 2 = j /\ i % 2 = 0
      BY <1>1
    <3>2. Launches[i] = [target |-> Order[j], arm |-> "bare"]
      BY <3>1 DEF Launches
    <3> QED
      BY <2>1, <2>3, <3>1, <3>2 DEF MadeLaunch
  <2> QED
    BY <2>2, <2>3 DEF MadeLaunch, BothArms
<1> QED
  BY <1>3, <1>4, <1>5

\* A verdict is pass exactly where a check that is valid is satisfied.
LEMMA PassMeansSatisfied ==
    ASSUME NEW k, Valid(k), Len(k.steps) \in Nat, NEW m, m.done \in 0 .. Len(k.steps)
    PROVE  Verdict(k, m) = "pass" <=> Satisfies(m, k)
<1>1. ASSUME Verdict(k, m) = "pass" PROVE Satisfies(m, k)
  <2>1. m.dials /\ (\A a \in k.asserts : Passes(a, k, m)) /\ ~(m.done < Len(k.steps))
    BY <1>1 DEF Verdict
  <2> QED
    BY <2>1 DEF Satisfies, Passes
<1>2. ASSUME Satisfies(m, k) PROVE Verdict(k, m) = "pass"
  <2>1. \A a \in k.asserts : Passes(a, k, m)
    BY <1>2 DEF Satisfies, Passes, Valid, Captures
  <2> QED
    BY <1>2, <2>1 DEF Satisfies, Verdict
<1> QED
  BY <1>1, <1>2

--------------------------------------------------------------------------------
\* The steps of a make account for the launch they are about.
LEMMA LaunchStep ==
    ASSUME ChecksIInv, Launching, NEW d, NEW u,
           dead' = dead \cup d, unreached' = unreached \cup u,
           DOMAIN files' = ArmTargets, \A t \in ArmTargets : DOMAIN files'[t] = BothArms,
           \A l \in MadeLaunch : l # Head(queue) => files'[l.target][l.arm] = files[l.target][l.arm],
           Head(queue) \in d \cup u \/ HeardIn(files', Head(queue)),
           queue' = Tail(queue), UNCHANGED <<tree, comp, phase, answer>>
    PROVE  ChecksIInv'
<1> DEFINE h == Head(queue)
<1>1. /\ queue \in Seq(MadeLaunch) /\ queue # <<>> /\ phase = "running" /\ answer # "ok"
      /\ comp \in Compositions /\ Emitted /\ AllAccountedFor
  BY DEF ChecksIInv, ChecksTypeOK, Launching, Making
<1>2. /\ h \in MadeLaunch /\ queue' \in Seq(MadeLaunch)
      /\ \A i \in DOMAIN queue : queue[i] = h \/ \E j \in DOMAIN queue' : queue'[j] = queue[i]
  <2>1. /\ Len(queue) \in Nat \ {0} /\ h = queue[1] /\ Tail(queue) \in Seq(MadeLaunch)
        /\ Len(Tail(queue)) = Len(queue) - 1
        /\ \A i \in 1 .. Len(queue) - 1 : Tail(queue)[i] = queue[i + 1]
    BY <1>1
  <2>2. h \in MadeLaunch
    BY <1>1, <2>1
  <2>3. ASSUME NEW i \in DOMAIN queue, i # 1
        PROVE  i - 1 \in DOMAIN Tail(queue) /\ Tail(queue)[i - 1] = queue[i]
    BY <1>1, <2>1, <2>3
  <2> QED
    BY <2>1, <2>2, <2>3
<1>3. ChecksTypeOK'
  BY <1>2 DEF ChecksIInv, ChecksTypeOK, tree
<1>4. \A l, reached : Report(l, reached)' = Report(l, reached)
  BY DEF Report, Answers, tree
<1>5. AllAccountedFor'
  <2> SUFFICES ASSUME NEW l \in MadeLaunch
               PROVE  InQueue(l)' \/ l \in dead' \cup unreached' \/ Heard(l)'
    BY DEF AllAccountedFor
  <2>1. CASE l = h
    BY <2>1, <1>4 DEF Heard, HeardIn
  <2>2. CASE l # h
    <3>1. InQueue(l) \/ l \in dead \cup unreached \/ Heard(l)
      BY <1>1 DEF AllAccountedFor
    <3>2. InQueue(l) => InQueue(l)'
      BY <1>2, <2>2 DEF InQueue
    <3>3. Heard(l) => Heard(l)'
      BY <1>4, <2>2 DEF Heard, HeardIn
    <3> QED
      BY <3>1, <3>2, <3>3
  <2> QED
    BY <2>1, <2>2
<1>6. Emitted'
  BY <1>1 DEF Emitted, tree
<1> QED
  BY <1>1, <1>3, <1>5, <1>6 DEF ChecksIInv

\* A step that makes nothing and says nothing of a make.
LEMMA EditStep ==
    ASSUME ChecksIInv, ChecksTypeOK', phase' = "idle", answer' # "ok"
    PROVE  ChecksIInv'
BY DEF ChecksIInv, Making

\* Every step keeps the invariant.
LEMMA MakeStepKeepsIInv == ChecksIInv /\ [CheckNext]_checkVars => ChecksIInv'
<1> SUFFICES ASSUME ChecksIInv, [CheckNext]_checkVars PROVE ChecksIInv'
  OBVIOUS
<1>0. ChecksTypeOK
  BY DEF ChecksIInv
<1>1. CASE UNCHANGED checkVars
  <2>1. ChecksTypeOK'
    BY <1>0, <1>1 DEF ChecksTypeOK, checkVars
  <2>2. AllAccountedFor => AllAccountedFor'
    BY <1>1 DEF AllAccountedFor, InQueue, Heard, HeardIn, Report, Answers, checkVars
  <2>3. (Making' <=> Making) /\ (Emitted => Emitted') /\ Answer' = Answer
    BY <1>1 DEF Making, Emitted, Answer, Unmatched, MissingArms, Reported, Loaded, Pairs,
                PairRefused, Ran, VerdictsOf, FaceState, Decided, checkVars
  <2> QED
    BY <1>1, <2>1, <2>2, <2>3 DEF ChecksIInv, checkVars
<1>2. ASSUME NEW c \in Compositions, Make(c) PROVE ChecksIInv'
  <2>1. CASE Emitted
    <3>1. /\ queue' = Launches /\ phase' = "running" /\ answer' = "none" /\ comp' = c
          /\ UNCHANGED <<corpus, declared, host, files>>
      BY <1>2, <2>1 DEF Make
    <3>2. ChecksTypeOK'
      BY <1>0, <3>1, EveryArmIsLaunched DEF ChecksTypeOK
    <3>3. AllAccountedFor'
      BY <3>1, EveryArmIsLaunched DEF AllAccountedFor, InQueue
    <3>4. Emitted'
      BY <2>1, <3>1 DEF Emitted
    <3> QED
      BY <3>1, <3>2, <3>3, <3>4 DEF ChecksIInv
  <2>2. CASE ~Emitted
    <3>1. /\ phase' = "idle" /\ answer' = "refused"
          /\ UNCHANGED <<corpus, declared, host, files, queue>>
      BY <1>2, <2>2 DEF Make
    <3>2. ChecksTypeOK'
      BY <1>0, <3>1 DEF ChecksTypeOK
    <3> QED
      BY <3>1, <3>2, EditStep
  <2> QED
    BY <2>1, <2>2
<1>3. CASE ClientReports
  <2> DEFINE h == Head(queue)
  <2>1. PICK reached \in BOOLEAN :
           /\ files' = [files EXCEPT ![h.target][h.arm] = Report(h, reached)]
           /\ unreached' = IF reached THEN unreached ELSE unreached \cup {h}
    BY <1>3 DEF ClientReports
  <2>2. h \in MadeLaunch
    BY <1>0, <1>3 DEF ChecksTypeOK, ClientReports, Launching
  <2>3. /\ Launching /\ queue' = Tail(queue) /\ UNCHANGED <<tree, comp, phase, answer, dead>>
    BY <1>3 DEF ClientReports, tree
  <2>4. /\ DOMAIN files' = ArmTargets /\ \A t \in ArmTargets : DOMAIN files'[t] = BothArms
        /\ files'[h.target][h.arm] = Report(h, reached)
        /\ \A l \in MadeLaunch : l # h => files'[l.target][l.arm] = files[l.target][l.arm]
    <3>1. PICK r : r = Report(h, reached)
      OBVIOUS
    <3>2. h.target \in ArmTargets /\ h.arm \in BothArms
      BY <2>2 DEF MadeLaunch
    <3>3. \A l \in MadeLaunch : l # h => l.target # h.target \/ l.arm # h.arm
      BY <2>2 DEF MadeLaunch
    <3>4. files' = [files EXCEPT ![h.target][h.arm] = r]
      BY <2>1, <3>1
    <3> HIDE DEF h
    <3>5. /\ DOMAIN files' = ArmTargets /\ \A t \in ArmTargets : DOMAIN files'[t] = BothArms
          /\ files'[h.target][h.arm] = r
      BY <1>0, <3>2, <3>4 DEF ChecksTypeOK
    <3>6. ASSUME NEW l \in MadeLaunch, l # h PROVE files'[l.target][l.arm] = files[l.target][l.arm]
      BY <1>0, <3>2, <3>3, <3>4, <3>6 DEF ChecksTypeOK, MadeLaunch
    <3> QED
      BY <3>1, <3>5, <3>6
  <2>5. dead' = dead \cup {}
    BY <2>3
  <2>6. CASE reached
    <3>1. unreached' = unreached \cup {}
      BY <2>1, <2>6
    <3>2. reached = TRUE
      BY <2>6
    <3>3. HeardIn(files', h)
      BY <2>4, <3>2 DEF HeardIn
    <3> QED
      BY <2>3, <2>4, <2>5, <3>1, <3>3, LaunchStep
  <2>7. CASE ~reached
    <3>1. unreached' = unreached \cup {h}
      BY <2>1, <2>7
    <3> QED
      BY <2>3, <2>4, <2>5, <3>1, LaunchStep
  <2> QED
    BY <2>6, <2>7
<1>4. CASE ClientDies
  <2>1. /\ Launching /\ queue' = Tail(queue) /\ UNCHANGED <<tree, comp, phase, answer>>
        /\ dead' = dead \cup {Head(queue)} /\ unreached' = unreached \cup {} /\ files' = files
    BY <1>4 DEF ClientDies, tree
  <2> QED
    BY <1>0, <2>1, LaunchStep DEF ChecksTypeOK
<1>5. CASE BootFails \/ TimesOut
  <2>1. /\ phase' = "idle" /\ queue' = <<>> /\ answer' = "stopped"
        /\ UNCHANGED <<corpus, declared, host, files>>
    BY <1>5 DEF BootFails, TimesOut, Stop
  <2>2. ChecksTypeOK'
    BY <1>0, <2>1 DEF ChecksTypeOK
  <2> QED
    BY <2>1, <2>2, EditStep
<1>6. CASE ClientHangs
  <2>1. /\ phase = "running" /\ phase' = "hung"
        /\ UNCHANGED <<tree, files, comp, queue, dead, unreached, answer>>
    BY <1>6 DEF ClientHangs, Launching, tree
  <2>2. ChecksTypeOK'
    BY <1>0, <2>1 DEF ChecksTypeOK, tree
  <2>3. AllAccountedFor => AllAccountedFor'
    BY <2>1 DEF AllAccountedFor, InQueue, Heard, HeardIn, Report, Answers, tree
  <2>4. (Emitted => Emitted') /\ Making /\ answer' # "ok"
    BY <2>1 DEF Making, Emitted, tree, ChecksIInv
  <2> QED
    BY <2>1, <2>2, <2>3, <2>4 DEF ChecksIInv
<1>7. CASE Compare
  <2>1. /\ phase = "running" /\ queue = <<>> /\ phase' = "idle" /\ answer' = Answer
        /\ UNCHANGED <<tree, files, comp, queue, dead, unreached>>
    BY <1>7 DEF Compare, tree
  <2>2. ChecksTypeOK'
    BY <1>0, <2>1 DEF ChecksTypeOK, tree
  <2>3. AllAccountedFor => AllAccountedFor'
    BY <2>1 DEF AllAccountedFor, InQueue, Heard, HeardIn, Report, Answers, tree
  <2>4. UNCHANGED <<corpus, declared, host, files>>
    BY <2>1 DEF tree
  <2>5. (Emitted => Emitted') /\ Making
    BY <2>1, <2>4 DEF Making, Emitted
  <2>6. Answer' = Answer
    BY <2>4 DEF Answer, Unmatched, MissingArms, Reported, Loaded, Pairs, PairRefused, Ran,
                VerdictsOf, FaceState, Decided
  <2> QED
    BY <2>1, <2>2, <2>3, <2>5, <2>6 DEF ChecksIInv
<1>8. CASE Author
  <2>1. corpus' \in Corpora /\ phase' = "idle" /\ answer' = "none"
        /\ UNCHANGED <<declared, host, files, queue>>
    BY <1>8 DEF Author, BetweenMakes
  <2>2. ChecksTypeOK'
    BY <1>0, <2>1 DEF ChecksTypeOK, Checks
  <2> QED
    BY <2>1, <2>2, EditStep
<1>9. CASE Declare
  <2>1. PICK t \in ArmTargets, c \in Compositions, f \in Faces,
             st \in {"undeclared", "installed", "not-installable"} :
          declared' = [declared EXCEPT ![t][c][f] = st]
    BY <1>9 DEF Declare
  <2>2. phase' = "idle" /\ answer' = "none" /\ UNCHANGED <<corpus, host, files, queue>>
    BY <1>9 DEF Declare, BetweenMakes
  <2>3. ChecksTypeOK'
    BY <1>0, <2>1, <2>2 DEF ChecksTypeOK
  <2> QED
    BY <2>2, <2>3, EditStep
<1>10. CASE ChangeHost
  <2>1. PICK t \in ArmTargets, a \in Compositions \cup {"bare"}, k \in corpus :
          \E m \in Manners(k) : host' = [host EXCEPT ![t][a][k] = m]
    BY <1>10 DEF ChangeHost
  <2>2. PICK m \in Manners(k) : host' = [host EXCEPT ![t][a][k] = m]
    BY <2>1
  <2>3. m.done \in 0 .. Len(k.steps)
    BY <1>0, TypedArms DEF ChecksTypeOK
  <2>4. phase' = "idle" /\ answer' = "none" /\ UNCHANGED <<corpus, declared, files, queue>>
    BY <1>10 DEF ChangeHost, BetweenMakes
  <2>5. ChecksTypeOK'
    BY <1>0, <2>2, <2>3, <2>4 DEF ChecksTypeOK
  <2> QED
    BY <2>4, <2>5, EditStep
<1> QED
  BY <1>1, <1>2, <1>3, <1>4, <1>5, <1>6, <1>7, <1>8, <1>9, <1>10 DEF CheckNext

\* Before the first make there is no answer.
LEMMA ChecksInitIInv == CheckInit => ChecksIInv
<1> SUFFICES ASSUME CheckInit PROVE ChecksIInv
  OBVIOUS
<1>1. corpus \subseteq Checks /\ queue \in Seq(MadeLaunch) /\ ~Making
  BY DEF CheckInit, Checks, Making
<1>2. ChecksTypeOK
  BY <1>1, TypedArms DEF CheckInit, ChecksTypeOK
<1> QED
  BY <1>1, <1>2 DEF ChecksIInv, Making

--------------------------------------------------------------------------------
\* The invariant implies the property: what the comparer accepted was done.
LEMMA OkIsEarned == ChecksIInv => GreenIsEarned
<1> SUFFICES ASSUME ChecksIInv, answer = "ok", dead = {}, unreached = {},
                    NEW t \in ArmTargets, NEW k \in corpus
             PROVE  IF FaceState(t, comp, k) = "not-installable"
                    THEN ~Satisfies(host[t][comp][k], k)
                    ELSE /\ FaceState(t, comp, k) = "installed"
                         /\ Satisfies(host[t][comp][k], k)
                         /\ ~Satisfies(host[t]["bare"][k], k)
  BY DEF GreenIsEarned
<1> DEFINE c == [target |-> t, arm |-> "composed"]
           b == [target |-> t, arm |-> "bare"]
           p == <<t, comp>>
<1>1. /\ comp \in Compositions /\ Emitted /\ AllAccountedFor /\ queue = <<>> /\ Answer = "ok" /\ ChecksTypeOK
  BY DEF ChecksIInv, Making
<1>2. \A l \in MadeLaunch : Heard(l)
  BY <1>1 DEF AllAccountedFor, InQueue
<1>3. c \in MadeLaunch /\ b \in MadeLaunch
  BY DEF MadeLaunch, BothArms
<1>4. /\ files[t]["composed"] = Report(c, TRUE) /\ files[t]["bare"] = Report(b, TRUE)
      /\ \A l \in MadeLaunch : files[l.target][l.arm].composition = comp
  <2>1. \A l \in MadeLaunch : files[l.target][l.arm] = Report(l, TRUE)
    BY <1>2 DEF Heard, HeardIn
  <2>2. \A l : Report(l, TRUE).composition = comp
    BY DEF Report
  <2>3. files[c.target][c.arm] = Report(c, TRUE) /\ files[b.target][b.arm] = Report(b, TRUE)
    <3> HIDE DEF c, b
    <3> QED
      BY <1>3, <2>1
  <2>4. c.target = t /\ c.arm = "composed" /\ b.target = t /\ b.arm = "bare"
    OBVIOUS
  <2> QED
    BY <2>1, <2>2, <2>3, <2>4
<1>5. p \in Pairs
  <2>1. PICK l \in Loaded : l.target = t
    BY <1>1 DEF Answer, MissingArms, Reported
  <2> QED
    BY <2>1, <1>4 DEF Pairs, Loaded, MadeLaunch
<1>6. ~PairRefused(p)
  BY <1>1, <1>5 DEF Answer
<1>7. /\ VerdictsOf(p, "composed") = [j \in corpus |-> Verdict(j, host[t][comp][j])]
      /\ VerdictsOf(p, "bare") = [j \in corpus |-> Verdict(j, host[t]["bare"][j])]
  BY <1>4 DEF VerdictsOf, Report, Answers
<1>8. /\ VerdictsOf(p, "composed")[k] = Verdict(k, host[t][comp][k])
      /\ VerdictsOf(p, "bare")[k] = Verdict(k, host[t]["bare"][k])
      /\ k \in DOMAIN VerdictsOf(p, "composed")
  BY <1>7
<1>9. FaceState(t, comp, k) \in {"installed", "not-installable"}
  <2>1. FaceState(t, comp, k) # "undeclared"
    BY <1>6, <1>8 DEF PairRefused
  <2>2. k \in Checks /\ k.face \in Faces
    BY <1>1, TypedArms DEF ChecksTypeOK
  <2> QED
    BY <1>1, <2>1, <2>2 DEF FaceState, ChecksTypeOK
<1>10. Decided(p, k) \in {"admitted", "not-applicable"}
  BY <1>1, <1>5, <1>8 DEF Answer
<1>11. Decided(p, k) = Decide(Verdict(k, host[t][comp][k]), Verdict(k, host[t]["bare"][k]),
                              FaceState(t, comp, k))
  BY <1>8 DEF Decided
<1>12. \A a \in {comp, "bare"} : Verdict(k, host[t][a][k]) = "pass" <=> Satisfies(host[t][a][k], k)
  <2> SUFFICES ASSUME NEW a \in {comp, "bare"}
               PROVE  Verdict(k, host[t][a][k]) = "pass" <=> Satisfies(host[t][a][k], k)
    OBVIOUS
  <2>1. Valid(k) /\ k \in Checks /\ Len(k.steps) \in Nat
    BY <1>1, TypedArms DEF Emitted, ChecksTypeOK
  <2>2. host[t][a][k].done \in 0 .. Len(k.steps)
    BY <1>1, <2>1 DEF ChecksTypeOK
  <2> QED
    BY <2>1, <2>2, PassMeansSatisfied
<1> QED
  BY <1>9, <1>10, <1>11, <1>12 DEF Decide

\* Whatever older makes left behind, whatever was edited between makes and in
\* whatever order: an OK over clients that were all heard is a statement about the
\* tree and the hosts as they are.
THEOREM GreenIsAlwaysEarned == CheckSpec => []GreenIsEarned
<1>1. CheckSpec => []ChecksIInv
  BY ChecksInitIInv, MakeStepKeepsIInv, PTL DEF CheckSpec
<1> QED
  BY <1>1, OkIsEarned, PTL

================================================================================
