----------------------------- MODULE SubgraphAudit -----------------------------
(***************************************************************************)
(* What the installation of an expression finds out about it without        *)
(* evaluating it, and what the evaluation then does.                        *)
(***************************************************************************)
EXTENDS Evaluator

CONSTANT Bare       \* the values that literals and data entities are made of

ASSUME BareHoldsNoCode ==
    \A v \in Bare :
        /\ v.kind \notin {"closure", "construct", "code"}
        /\ v.kind = "int" => v.int \in Int
        /\ v.kind = "array" => v.items \in Seq(Bare)
        /\ v.kind = "entity" => \A i \in DOMAIN v.fields : v.fields[i] \in Bare

\* What is found under a hash: nothing, an expression, or a stored entity, which is
\* a limit or failure, a function that closes over entities and bare values, or data.
Holds(n) ==
    /\ n.kind \in Expressions \cup {"stored", "missing"}
    /\ n.kind = "stored" =>
         \/ n.value.kind = "error"
         \/ /\ n.value.kind = "closure" /\ n.value.params \in Seq(Range(n.value.params))
            /\ \A x \in DOMAIN n.value.env : EntityLike(n.value.env[x]) \/ n.value.env[x] \in Bare
         \/ n.value \in Bare

ASSUME TreeHoldsEntities ==
    /\ Readable \subseteq DOMAIN Tree
    /\ \A p \in DOMAIN Tree : Tree[p] # None => Tree[p].kind # "missing" /\ Holds(Tree[p])

VARIABLES
    visited,    \* the entities the walk has been at
    pending     \* those it has met and will be at

auditVars == <<visited, pending>>

\* Mutant: a walk that looks for references in scalar fields only, and so misses
\* the arguments of an apply and the bindings of a let.
ReferencedInFields(n) ==
    CASE n.kind \in {"tree", "hash", "missing", "literal", "scope", "stored"} -> {}
      [] n.kind \in Collections \cup {"concat", "range", "alias", "store"} -> {}
      [] n.kind = "apply" -> {Head(n.args)}
      [] n.kind = "let" -> {Last(n.args)}
      [] OTHER -> Range(n.args)

\* The compute entities an entity's data refers to.  Lookups are leaves, and
\* no literal here holds a bare hash.
Referenced(n) ==
    CASE n.kind \in {"tree", "hash", "missing", "literal", "scope"} -> {}
      [] n.kind = "stored" /\ n.value.kind = "closure" ->
           {n.value.body} \cup {[kind |-> "stored", value |-> n.value.env[x]] :
               x \in {y \in DOMAIN n.value.env : EntityLike(n.value.env[y])}}
      [] n.kind = "stored" /\ n.value.kind # "closure" -> {}
      [] OTHER -> Range(n.args)

\* The walk goes to every entity it meets, once.
AuditInit == visited = {} /\ pending = {root}

Visit ==
    /\ \E n \in pending :
         /\ visited' = visited \cup {n}
         /\ pending' = (pending \cup Referenced(n)) \ visited'
    /\ UNCHANGED vars

\* An expression is evaluated after its installation has walked it.
AuditedNext == Visit \/ (pending = {} /\ Next /\ UNCHANGED auditVars)

AuditedSpec == Init /\ AuditInit /\ [][AuditedNext]_<<vars, auditVars>>

--------------------------------------------------------------------------------
\* The paths the installation checks against the grant and the engine watches.
ReadPaths == {m.path : m \in {w \in visited : w.kind = "tree"}}

\* Operands are there as the kind asks for them; without one that it needs an
\* expression is "malformed".
WellFormed(n) ==
    LET takes(few, many) == Len(n.args) \in few .. many
        is(kinds) == n.kind \in kinds
    IN
    /\ n.kind \in Expressions \ {"literal", "scope", "tree"} => n.args \in Seq(Range(n.args))
    /\ is({"cast", "field", "length", "concat", "range", "hash", "lambda"}) => takes(1, 1)
    /\ is({"arithmetic", "compare", "index", "map", "filter", "group", "store"}) => takes(2, 2)
    /\ is({"fold", "assoc"}) => takes(3, 3)
    /\ is({"if"}) => takes(2, 3)
    /\ is({"let", "apply", "lambda"}) => n.names \in Seq(Range(n.names))
    /\ is({"let", "apply"}) => Len(n.args) = Len(n.names) + 1
    /\ is({"logic", "alias"}) => n.args # <<>>
    /\ is({"alias"}) => n.of \in {"arithmetic", "compare", "logic", "field", "construct"}

\* What a store decodes: literals are bare values, and what is not an expression
\* is an entity at rest.
Decoded(n) ==
    /\ WellFormed(n) /\ Holds(n)
    /\ n.kind = "literal" => n.value \in Bare
    /\ n.kind = "hash" => Holds(n.args[1])

Runs(n) == n.kind \in Expressions \/ (n.kind = "stored" /\ n.value.kind = "closure")

\* What it constructs is data: no expression or function, which it could store and
\* then look up.  The builtin evaluates its type, so nothing is known of that.
BuildsData(n) ==
    /\ n.kind = "construct" => n.type \notin CodeTypes
    /\ n.kind = "alias" => n.of # "construct"

\* All the code of the graph is in the graph: none comes out of the tree, none
\* through a hash lookup, and none is built on the way.
SelfContained ==
    \A m \in visited :
        /\ Decoded(m)
        /\ BuildsData(m)
        /\ (m.kind = "tree" /\ Tree[m.path] # None) => ~Runs(Tree[m.path])
        /\ m.kind = "hash" => ~Runs(m.args[1])

\* What a self-contained expression reads, in whatever branch, argument, binding
\* or function body, its installation has checked and the engine watches.
ReadsAreAudited == SelfContained => reads \subseteq ReadPaths

\* Every tree read of an evaluation is a registered dependency.
ReadsAreRegistered == reads \subseteq ReadPaths
================================================================================
