-------------------------------- MODULE Compose --------------------------------
(***************************************************************************)
(* tools/compose.py: SYSTEM.toml and the extension contracts are resolved  *)
(* into PLAN.json, or refused.  The closure loop runs one step per         *)
(* dequeued name; contracts and the composition are edited between runs,   *)
(* and --check compares a fresh resolution with the plan on disk.          *)
(***************************************************************************)
EXTENDS Integers, Sequences, FiniteSets, SequencesExt

CONSTANTS
    Extensions,       \* extension names
    Books,       \* contract directories: per extension a contract, see IsContract
    Systems,     \* SYSTEM.toml files, see SystemType
    Redesigns,   \* bound: what an author makes of one afterwards
    Targets,     \* languages/<target>/ with a profile.toml
    Cells,       \* pairs <<target, extension>> with a port
    Manifests,      \* snapshots with a MANIFEST.md
    Missing      \* an absent file or field

FaceStates == {"installed", "not-installed", "not-installable"}
FaceMaps == FaceStates \cup {"empty", "misspelt", Missing}

\* profile.toml, as far as load_profile looks at it.
ProfileType == [declared : {"its directory", "another"}, complete : BOOLEAN]

SystemType ==
    [extensions : Seq(Extensions), target : {t.name : t \in Targets}, contradicted : BOOLEAN,
     flat : FaceMaps, faces : [Extensions -> FaceMaps]]

IsContract(c) ==
    c = Missing \/
    /\ c.declared \in Extensions /\ c.depends \in Seq(Extensions)
    /\ c.owned \in Seq(Seq(Nat))

ASSUME ComposeAssumption ==
    /\ \A b \in Books : DOMAIN b = Extensions /\ \A n \in Extensions : IsContract(b[n])
    /\ Systems \subseteq SystemType /\ Redesigns \subseteq Systems
    /\ Cells \subseteq {t.name : t \in Targets} \X Extensions
    /\ Missing \notin FaceStates

VARIABLES
    contracts,   \* extension-contracts/*/EXTENSION.toml
    system,      \* the composition being resolved
    mode,        \* "write", or "check" for --check
    stack,       \* names to resolve, in order
    order,       \* names resolved so far
    outcome,     \* "resolving", "refused", "wrote", "reproducible", "differs"
    plan         \* PLAN.json, Missing before the first one

composeVars == <<contracts, system, mode, stack, order, outcome, plan>>

\* A file either changed its mind about its name or was moved.
Loads(n) == contracts[n] # Missing /\ contracts[n].declared = n

Members == ToSet(order)

OneWayPrefix(s, t) == IsPrefix(s, t)
Overlap(s, t) == IsPrefix(s, t) \/ IsPrefix(t, s)

\* check_disjoint (I6): no dispatch pattern is claimed twice ...
PatternsDisjoint ==
    \A m, n \in Members :
        m # n /\ contracts[m].handler # Missing => contracts[m].handler # contracts[n].handler

\* ... and (I7) no owned namespace is a prefix of another, an extension's own
\* ones included.
OwnedBy(i) == contracts[order[i]].owned
NamespacesDisjoint ==
    \A i, j \in DOMAIN order : \A k \in DOMAIN OwnedBy(i), l \in DOMAIN OwnedBy(j) :
        i < j \/ (i = j /\ k < l) => ~Overlap(OwnedBy(i)[k], OwnedBy(j)[l])

\* check_snapshots
SnapshotsPinned == \A n \in Members : contracts[n].snapshot \in Manifests

\* load_profile: the target has a profile, for itself, with every field.
ProfileSound ==
    \E t \in Targets : /\ t.name = system.target
                       /\ t.profile.declared = "its directory" /\ t.profile.complete

\* check_faces: one form only; the flat one for a single extension; the
\* per-extension one for installed extensions; known states.
FacesSound ==
    LET blocks == {n \in Extensions : system.faces[n] # Missing}
    IN  IF blocks = {}
        THEN /\ system.flat # "misspelt"
             /\ Len(order) > 1 => system.flat \in {"empty", Missing}
        ELSE /\ system.flat \in {"empty", Missing}
             /\ blocks \subseteq Members
             /\ \A n \in blocks : system.faces[n] # "misspelt"

HandlerFace(n) ==
    IF \E m \in Extensions : system.faces[m] # Missing THEN system.faces[n] ELSE system.flat

\* The dispatch pattern the plan binds: none where the peer cannot host it.
PlannedHandler(n) ==
    IF HandlerFace(n) = "not-installable" THEN Missing ELSE contracts[n].handler

Fresh ==
    [target |-> system.target,
     install_order |-> order,
     installs |-> [i \in DOMAIN order |->
        [extension |-> order[i], pattern |-> PlannedHandler(order[i]),
         pattern_declared |-> contracts[order[i]].handler,
         owned |-> contracts[order[i]].owned, snapshot |-> contracts[order[i]].snapshot]]]

Acceptable ==
    /\ PatternsDisjoint /\ NamespacesDisjoint /\ SnapshotsPinned
    /\ ~system.contradicted
    /\ ProfileSound /\ FacesSound
    /\ \A n \in Members : <<system.target, n>> \in Cells

ComposeInit ==
    /\ contracts \in Books
    /\ system \in Systems
    /\ mode = "write"
    /\ stack = system.extensions
    /\ order = <<>>
    /\ outcome = IF stack = <<>> THEN "refused" ELSE "resolving"
    /\ plan = Missing

RevisitsSeen ==
    /\ outcome = "resolving" /\ stack # <<>>
    /\ IF Loads(Head(stack))
       THEN /\ order' = IF Head(stack) \in Members THEN order ELSE Append(order, Head(stack))
            /\ stack' = Tail(stack) \o contracts[Head(stack)].depends
            /\ UNCHANGED outcome
       ELSE outcome' = "refused" /\ UNCHANGED <<stack, order>>
    /\ UNCHANGED <<contracts, system, mode, plan>>

ForgetsDepends ==
    /\ outcome = "resolving" /\ stack # <<>>
    /\ IF Head(stack) \in Members \/ ~Loads(Head(stack))
       THEN UNCHANGED order ELSE order' = Append(order, Head(stack))
    /\ stack' = Tail(stack)
    /\ UNCHANGED <<contracts, system, mode, plan, outcome>>

\* One turn of resolve_closure's loop; an unmet dependency refuses (I9).
Resolve ==
    /\ outcome = "resolving" /\ stack # <<>>
    /\ LET n == Head(stack)
       IN  IF n \in Members
           THEN stack' = Tail(stack) /\ UNCHANGED <<order, outcome>>
           ELSE IF Loads(n)
           THEN /\ stack' = Tail(stack) \o contracts[n].depends
                /\ order' = Append(order, n)
                /\ UNCHANGED outcome
           ELSE outcome' = "refused" /\ UNCHANGED <<stack, order>>
    /\ UNCHANGED <<contracts, system, mode, plan>>

\* The rest of build_plan and of main.  A refusal leaves the old plan behind.
Emit ==
    /\ outcome = "resolving" /\ stack = <<>>
    /\ IF ~Acceptable THEN outcome' = "refused" /\ UNCHANGED plan
       ELSE IF mode = "write" THEN outcome' = "wrote" /\ plan' = Fresh
       ELSE outcome' = (IF plan = Fresh THEN "reproducible" ELSE "differs") /\ UNCHANGED plan
    /\ UNCHANGED <<contracts, system, mode, stack, order>>

\* Somebody edits the contracts or the composition and runs the tool again.
Rerun(b, c, m) ==
    /\ outcome # "resolving"
    /\ contracts' = b /\ system' = c
    /\ mode' = m
    /\ stack' = c.extensions
    /\ order' = <<>>
    /\ outcome' = IF stack' = <<>> THEN "refused" ELSE "resolving"
    /\ UNCHANGED plan

ComposeNext ==
    \/ Resolve \/ Emit
    \/ \E b \in Books, m \in {"write", "check"} : Rerun(b, system, m)
    \/ \E c \in Redesigns, m \in {"write", "check"} : Rerun(contracts, c, m)

ComposeFairness == WF_composeVars(Resolve \/ Emit)

--------------------------------------------------------------------------------
Accepted == outcome \in {"wrote", "reproducible"}

Requested == ToSet(system.extensions)

\* Every extension of S has a contract of its own, and its dependencies in S.
ClosedUnderDepends(S) == \A n \in S : Loads(n) /\ ToSet(contracts[n].depends) \subseteq S

\* A plan on disk that was just written, or that --check has just called
\* reproducible, installs what was requested and, by the contracts of today,
\* everything that needs; nothing else, and nothing twice.
PlanIsTheClosure ==
    Accepted =>
        LET installed == plan.install_order
        IN  /\ Requested \subseteq ToSet(installed)
            /\ ClosedUnderDepends(ToSet(installed))
            /\ \A S \in SUBSET Extensions :
                  Requested \subseteq S /\ ClosedUnderDepends(S) => ToSet(installed) \subseteq S
            /\ \A i, j \in DOMAIN installed : installed[i] = installed[j] => i = j

\* In such a plan no two installs meet in a dispatch pattern or in a
\* namespace, whichever of the two was resolved first; and it binds an
\* extension's pattern unless the composition declares, of that very extension,
\* that the peer cannot host its handler: a face state that was written for one
\* extension never spreads to another.
PlanIsSound ==
    Accepted => \A i \in DOMAIN plan.installs :
        LET a == plan.installs[i]
            excluded == \/ system.faces[a.extension] = "not-installable"
                        \/ /\ system.flat = "not-installable"
                           /\ Requested = {a.extension} /\ Len(order) = 1
        IN  /\ a.pattern = IF excluded THEN Missing ELSE contracts[a.extension].handler
            /\ \A j \in DOMAIN plan.installs \ {i} :
                  LET b == plan.installs[j]
                  IN  /\ a.pattern = Missing \/ a.pattern # b.pattern
                      /\ \A s \in ToSet(a.owned), t \in ToSet(b.owned) : ~IsPrefix(s, t)

\* Resolution comes to an end, with a plan or a refusal, also when contracts
\* depend on one another in a circle.
ResolutionEnds == outcome = "resolving" ~> outcome # "resolving"

\* "Install order IS the closure order: a dependency is installed before the
\* extension that declared it."
DependenciesComeFirst ==
    Accepted => \A i, j \in DOMAIN order :
        order[i] \in ToSet(contracts[order[j]].depends) => i <= j
================================================================================
