--------------------------- MODULE ComputeAuthority ----------------------------
(***************************************************************************)
(* Under what authority and budget an expression is evaluated, which       *)
(* depends on the door it came through: a caller's eval request, an        *)
(* entity-native handler, or a wake-up of an installed subgraph, possibly  *)
(* from inside another evaluation that stored where the subgraph reads.    *)
(* What evaluating does is the Evaluator's; here an evaluation walks the   *)
(* nodes of its program, each one step, and gathers the data it reaches.   *)
(* The content store holds every data entity, and it makes no difference   *)
(* whether an envelope brings them along: the gate is the same for both.   *)
(***************************************************************************)
EXTENDS ComputeInstall

CONSTANTS
    DefaultBudget,    \* max_operations of the peer
    Asks,             \* budgets asked for in a request; None asks for none
    Ceilings,         \* of a token: what its entries say of max_compute_operations
    Computed,         \* a data entity that nobody but an evaluation makes
    Lapsing,          \* tokens whose expires_at may pass
    MaxNesting,       \* bound: evaluations inside one another
    MaxEvaluations    \* bound: evaluations that start outside all others

ASSUME AuthorityAssumption ==
    /\ DefaultBudget \in Nat /\ Asks \subseteq Nat \cup {None}
    /\ \A tok \in Tokens : Ceilings[tok] \in Seq(Nat \cup {None})
    /\ Lapsing \subseteq Tokens /\ Computed \in Hashes

VARIABLES
    running,    \* the evaluations of one thread, innermost first
    lapsed,     \* tokens that have expired
    evaluated

authorityVars == <<installVars, running, lapsed, evaluated>>

AuthorityInit == InstallInit /\ running = <<>> /\ lapsed = {} /\ evaluated = 0

--------------------------------------------------------------------------------
(* Ceilings *)

\* Mutant: zero is taken for no budget.
TruthyBudget(ask) == Min({DefaultBudget} \cup ({ask} \ {None, 0}))

\* What a request asks for lowers the peer's limit and never raises it.
RequestBudget(ask) == Min({DefaultBudget} \cup ({ask} \ {None}))

\* The tightest entry of the installation grant.
ReactiveBudget(grant) == Min({DefaultBudget} \cup (ToSet(Ceilings[grant]) \ {None}))

(* What an evaluation may reach *)

\* The two path predicates.  In-process callers have no token to narrow by.
CanRead(e, p) == e.token # None => p \in MayGet[e.token]
CanWrite(e, p) == e.token # None => p \in MayPut[e.token]

\* Data is no expression: only a hash that was sealed lets it through (Tier 2).
Admits(e, h) == h \in e.sealed

\* result: where the peer writes the result; nowhere unless it was woken.
Evaluation(entry, r, result, tok, ask, budget, sealed) ==
    [entry |-> entry, result |-> result, token |-> tok, ask |-> ask, operations |-> budget,
     sealed |-> sealed, left |-> expression[r], steps |-> 0, held |-> {}, wrote |-> {},
     done |-> FALSE]

--------------------------------------------------------------------------------
(* The doors *)

Enter(e) == running = <<>> /\ evaluated < MaxEvaluations /\ evaluated' = evaluated + 1
            /\ running' = <<e>>

\* system/compute:eval, refused unless there is an expression at its target.
EvalRequest(r, cap, ask) ==
    /\ relisted = {} /\ expression[r] # None
    /\ Enter(Evaluation("request", r, None, cap, ask, RequestBudget(ask), {}))
    /\ UNCHANGED <<installVars, lapsed>>

\* The expression of an entity-native handler runs under the handler's grant,
\* whatever its caller holds; without a grant it is refused.
DispatchNative(r, grant) ==
    /\ relisted = {} /\ expression[r] # None /\ grant # None
    /\ Enter(Evaluation("native", r, None, grant, None, DefaultBudget, {}))
    /\ UNCHANGED <<installVars, lapsed>>

\* Mutant: a subgraph that a writer wakes runs under the writer's token.
WokenByWriter(r) ==
    LET m == installed[r]
        tok == IF running = <<>> THEN m.grant
               ELSE IF Head(running).token = None THEN m.grant ELSE Head(running).token
    IN  Evaluation("woken", r, m.result, tok, None, ReactiveBudget(m.grant), m.sealed)

\* A subgraph runs under its installation grant, with a budget of its own.
Woken(r) ==
    LET m == installed[r]
    IN  Evaluation("woken", r, m.result, m.grant, None, ReactiveBudget(m.grant), m.sealed)

\* The grant must still be there and not have expired, and the expression too.
Wakes(r) ==
    /\ installed[r] # None /\ expression[r] # None
    /\ installed[r].grant \in stored \ lapsed

\* Somebody else's write wakes it.
WakeUp(r) ==
    /\ relisted = {} /\ watched[r] # {} /\ Wakes(r)
    /\ Enter(Woken(r))
    /\ UNCHANGED <<installVars, lapsed>>

--------------------------------------------------------------------------------
(* An evaluation *)

Inner == Head(running)
Node == Head(Inner.left)
Outer(e) == <<e>> \o Tail(running)
Walked == [Inner EXCEPT !.left = Tail(@), !.operations = @ - 1, !.steps = @ + 1]
Failed == [Inner EXCEPT !.left = <<>>]

Facing(kind) ==
    /\ running # <<>> /\ Inner.left # <<>> /\ Inner.operations > 1
    /\ Node.kind = kind
    /\ UNCHANGED <<lapsed, evaluated>>

LookUp ==
    /\ Facing("read") /\ UNCHANGED installVars
    /\ running' = Outer(IF CanRead(Inner, Node.path) /\ data[Node.path] # None
                        THEN [Walked EXCEPT !.held = @ \cup {data[Node.path]}] ELSE Failed)

Resolve ==
    /\ Facing("data") /\ UNCHANGED installVars
    /\ running' = Outer(IF Node.hash # None /\ Admits(Inner, Node.hash)
                        THEN [Walked EXCEPT !.held = @ \cup {Node.hash}] ELSE Failed)

\* Handlers are not called from inside an evaluation.
Apply == Facing("call") /\ UNCHANGED installVars /\ running' = Outer(Failed)

WellFormed(n) == n.cap = None /\ n.resource = None

\* store binds what it has got or something of its own; if that is a change it
\* wakes, before it returns, the subgraphs that read there.
StoreAt(p) ==
    /\ Facing("builtin") /\ WellFormed(Node) /\ (Node.write = p \/ Node.write = Dynamic)
    /\ CanWrite(Inner, p)
    /\ LET after == Outer([Walked EXCEPT !.wrote = @ \cup {p}])
       IN  \E h \in Inner.held \cup {Computed} :
              /\ data' = [data EXCEPT ![p] = h]
              /\ bound' = bound \cup {<<p, h>>}
              /\ LET woken == {r \in Roots : data[p] # h /\ p \in watched[r] /\ Wakes(r)}
                 IN  IF woken = {} THEN running' = after
                     ELSE \E r \in woken : Len(running) < MaxNesting /\ running' = <<Woken(r)>> \o after
    /\ UNCHANGED <<expression, stored, installed, watched, calls, relisted, asked, writes>>

Refused ==
    /\ Facing("builtin") /\ UNCHANGED installVars
    /\ ~WellFormed(Node) \/ \E p \in DataPaths : Node.write \in {p, Dynamic} /\ ~CanWrite(Inner, p)
    /\ running' = Outer(Failed)

\* The budget is spent: an error, like the others.
Exhausted ==
    /\ running # <<>> /\ Inner.left # <<>> /\ Inner.operations <= 1
    /\ running' = Outer(Failed)
    /\ UNCHANGED <<installVars, lapsed, evaluated>>

\* A subgraph's result, an error as well, is written by the peer itself.
WriteResult ==
    /\ running # <<>> /\ Inner.left = <<>> /\ ~Inner.done
    /\ running' = Outer([Inner EXCEPT !.done = TRUE,
                            !.wrote = IF Inner.entry = "woken" THEN @ \cup {Inner.result} ELSE @])
    /\ UNCHANGED <<installVars, lapsed, evaluated>>

Leave ==
    /\ running # <<>> /\ Inner.done
    /\ running' = Tail(running)
    /\ UNCHANGED <<installVars, lapsed, evaluated>>

Lapse(tok) ==
    /\ tok \notin lapsed
    /\ lapsed' = lapsed \cup {tok}
    /\ UNCHANGED <<installVars, running, evaluated>>

AuthorityNext ==
    \/ InstallNext /\ UNCHANGED <<lapsed, evaluated>>
       /\ running' = IF relisted' # {} THEN <<>> ELSE running
    \/ \E r \in Roots :
         \/ \E cap \in Tokens \cup {None}, budget \in Asks : EvalRequest(r, cap, budget)
         \/ \E grant \in Tokens : DispatchNative(r, grant)
         \/ WakeUp(r)
    \/ LookUp \/ Resolve \/ Apply \/ Refused \/ Exhausted \/ WriteResult \/ Leave
    \/ \E p \in DataPaths : StoreAt(p)
    \/ \E tok \in Lapsing : Lapse(tok)

AuthoritySpec == AuthorityInit /\ [][AuthorityNext]_authorityVars

--------------------------------------------------------------------------------
\* Data that was bound, at some time, where token tok may read.
WithinReach(tok) ==
    {h \in Hashes : \E p \in DataPaths : <<p, h>> \in bound /\ (tok = None \/ p \in MayGet[tok])}

\* Compute is no way around the tree's permissions, through any door and with
\* any sequence of installing, editing, storing and waking: what an evaluation
\* gets hold of was bound where the token it runs under may read, also when it
\* is a hash that was sealed long before; and all it writes, the result that the
\* peer writes for it included, is where that token may write.
NothingBeyondItsToken ==
    \A i \in DOMAIN running :
        LET e == running[i]
        IN  /\ e.held \subseteq WithinReach(e.token)
            /\ e.token # None => e.wrote \subseteq MayPut[e.token]

\* The step that would use up a budget is no longer taken.
Within(e, ceiling) == e.steps = 0 \/ e.steps < ceiling

\* No evaluation, whoever it runs for and wherever it was started from, takes
\* more steps than any ceiling set for it: the peer's, what was asked for (which
\* may be nothing at all), and each entry of the grant it was installed with.
CeilingsHold ==
    \A i \in DOMAIN running :
        LET e == running[i]
        IN  /\ Within(e, DefaultBudget)
            /\ e.ask # None => Within(e, e.ask)
            /\ e.entry = "woken" =>
                 \A k \in DOMAIN Ceilings[e.token] :
                    Ceilings[e.token][k] # None => Within(e, Ceilings[e.token][k])
================================================================================
