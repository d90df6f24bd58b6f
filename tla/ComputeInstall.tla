----------------------------- MODULE ComputeInstall ----------------------------
(***************************************************************************)
(* The install operation of system/compute: the audit of the expression    *)
(* (phase 1), the checks of the caller's capability (2) and of data hashes *)
(* (2b), the commit (3) and the registration (4), among writers who rebind *)
(* what the checks read; and the rebuild after a restart, which audits the *)
(* expression again.  What the engine then does is ReactiveEngine's.       *)
(***************************************************************************)
EXTENDS Naturals, Sequences, FiniteSets, SequencesExt

CONSTANTS
    DataPaths,                \* tree paths read, written and hinted at
    Hashes,                   \* data entities
    Roots,                    \* root expression paths
    Programs,                 \* expression graphs: their nodes in the order of the walk
    Tokens,                   \* capability tokens
    Granter, Parent,          \* of a token: who issued it, what it derives from
    MayGet, MayPut, MayCall,  \* of a token: what it covers
    ResultPath,               \* of a root: {root}/result
    Overrides,                \* result paths that a request may name instead
    Authors,                  \* installers; None is a request that names none
    MaxChain,                 \* MAX_CHAIN_DEPTH
    Servers,
    Dynamic,                  \* a field that is computed, not a literal
    None,                     \* an absent field, an unbound path
    MaxInstalls, MaxWrites    \* bounds: installations asked for, rebinds and edits

Read(p) == [kind |-> "read", path |-> p]
DataRef(h, hint) == [kind |-> "data", hash |-> h, hint |-> hint]
Dispatch(target, cap, resource) ==
    [kind |-> "call", target |-> target, cap |-> cap, resource |-> resource]
Builtin(cap, resource, write) ==
    [kind |-> "builtin", cap |-> cap, resource |-> resource, write |-> write]

ASSUME InstallAssumption ==
    /\ \A program \in Programs : program \in Seq(ToSet(program))
    /\ \A program \in Programs : \A n \in ToSet(program) :
          /\ n.kind \in {"read", "data", "call", "builtin"}
          /\ n.kind = "read" => n.path \in DataPaths
          /\ n.kind = "data" => n.hash \in Hashes \cup {None} /\ n.hint \in DataPaths \cup {None}
    /\ Parent \in [Tokens -> Tokens \cup {None}]
    /\ None \notin Tokens \cup DataPaths \cup Hashes \cup Overrides /\ Dynamic \notin Tokens
    /\ MaxChain \in Nat

VARIABLES
    data,        \* the data bound at a path
    expression,  \* the program bound at a root path
    stored,      \* tokens in the content store
    installed,   \* system/compute/processes: what an installation recorded
    watched,     \* what the index watches for a root's subgraph
    calls,       \* the installation each thread is serving
    relisted,    \* roots that rebuild has not come to
    asked, writes,
    bound        \* every binding of data the tree has had

installVars == <<data, expression, stored, installed, watched, calls, relisted, asked, writes, bound>>

AtRest == [phase |-> "idle"]

InstallInit ==
    /\ data \in [DataPaths -> Hashes \cup {None}]
    /\ expression \in [Roots -> Programs \cup {None}]
    /\ stored = {}
    /\ installed = [r \in Roots |-> None]
    /\ watched = [r \in Roots |-> {}]
    /\ calls = [t \in Servers |-> AtRest]
    /\ relisted = {} /\ asked = 0 /\ writes = 0
    /\ bound = {<<p, data[p]>> : p \in DataPaths}

--------------------------------------------------------------------------------
(***************************************************************************)
(* Phase 1.  known: the tokens the audit can resolve, from the request's   *)
(* included map or the content store.                                      *)
(***************************************************************************)
\* The chain of a token, as far as the audit goes: None beyond its root.
ChainAt(tok) ==
    LET link[k \in 0 .. MaxChain] ==
            IF k = 0 THEN tok ELSE IF link[k - 1] = None THEN None ELSE Parent[link[k - 1]]
    IN  link

\* CP1: the installer must be a granter somewhere in the chain, and the chain
\* be resolvable up to there.
EmbeddedCapability(tok, author, known) ==
    LET link == ChainAt(tok)
        InChain(k) == /\ \A j \in 0 .. k : link[j] \in known
                      /\ Granter[link[k]] = author
    IN  IF tok \notin known THEN "chain_unreachable"
        ELSE IF author = None THEN "embedded_cap_unauthorized"
        ELSE IF \E k \in 0 .. MaxChain : InChain(k) THEN "ok"
        ELSE IF \E k \in 0 .. MaxChain : link[k] \notin known \cup {None} THEN "chain_unreachable"
        ELSE "embedded_cap_unauthorized"

\* What the audit says of one node.
NodeVerdict(n, author, known) ==
    CASE n.kind = "builtin" /\ (n.cap # None \/ n.resource # None) -> "invalid_expression"
      [] n.kind = "call" /\ n.cap # None /\ n.resource = None -> "invalid_expression"
      [] n.kind = "call" /\ n.cap \in Tokens /\ n.resource # None ->
           EmbeddedCapability(n.cap, author, known)
      [] n.kind = "data" /\ n.hash = None -> "invalid_expression"
      [] OTHER -> "ok"

\* The first node that is refused decides.
Audit(program, author, known) ==
    LET bad == {i \in DOMAIN program : NodeVerdict(program[i], author, known) # "ok"}
    IN  IF bad = {} THEN "ok"
        ELSE NodeVerdict(program[CHOOSE i \in bad : \A j \in bad : i <= j], author, known)

Of(program, kind) == {n \in ToSet(program) : n.kind = kind}
ReadPaths(program) == {n.path : n \in Of(program, "read")}
Targets(program) == {n.target : n \in Of(program, "call")}
WritePaths(program) == {n.write : n \in Of(program, "builtin")} \ {None, Dynamic}
DataRefs(program) == {i \in DOMAIN program : program[i].kind = "data"}

(***************************************************************************)
(* Phase 2: the caller's capability covers reads, calls, result and writes.*)
(***************************************************************************)
ResultAt(r, requested) == IF requested = None THEN ResultPath[r] ELSE requested

Covered(program, cap, result) ==
    /\ ReadPaths(program) \subseteq MayGet[cap]
    /\ Targets(program) \subseteq MayCall[cap]
    /\ result \in MayPut[cap]
    /\ WritePaths(program) \subseteq MayPut[cap]

Reply(t) == calls' = [calls EXCEPT ![t] = AtRest]
To(t, phase) == calls' = [calls EXCEPT ![t].phase = phase]
In(t, phase) == calls[t].phase = phase

\* The request: its target, capability, author, the tokens it carries and where
\* it wants the result.
\* Without exactly one target, an expression there or a capability it is
\* refused outright.
Ask(t, r, cap, author, included, requested) ==
    /\ relisted = {} /\ In(t, "idle") /\ asked < MaxInstalls
    /\ asked' = asked + 1
    /\ IF r = None \/ cap = None THEN Reply(t)
       ELSE IF expression[r] = None THEN Reply(t)
       ELSE calls' = [calls EXCEPT ![t] =
               [phase |-> "audit", root |-> r, program |-> expression[r], cap |-> cap,
                author |-> author, known |-> included \cup {cap},
                result |-> ResultAt(r, requested), todo |-> DataRefs(expression[r]), sealed |-> {}]]
    /\ UNCHANGED <<data, expression, stored, installed, watched, relisted, writes, bound>>

\* Phases 1 and 2 read nothing that changes but the content store.
Authorize(t) ==
    LET c == calls[t]
    IN  /\ In(t, "audit")
        /\ IF /\ Audit(c.program, c.author, c.known \cup stored) = "ok"
              /\ Covered(c.program, c.cap, c.result)
           THEN To(t, "seal") ELSE Reply(t)
        /\ UNCHANGED <<data, expression, stored, installed, watched, relisted, asked, writes, bound>>

HintUnchecked(t) ==
    LET c == calls[t]
        d == c.program[Min(c.todo)]
    IN  /\ In(t, "seal") /\ c.todo # {}
        /\ IF d.hint # None /\ data[d.hint] # None /\ d.hint \in MayGet[c.cap]
           THEN calls' = [calls EXCEPT ![t].todo = @ \ {Min(@)}, ![t].sealed = @ \cup {d.hash}]
           ELSE Reply(t)
        /\ UNCHANGED <<data, expression, stored, installed, watched, relisted, asked, writes, bound>>

\* Phase 2b, one data hash: its hint names a path, what is bound there is what
\* the expression refers to, and the caller may read it.
Seal(t) ==
    LET c == calls[t]
        d == c.program[Min(c.todo)]
    IN  /\ In(t, "seal") /\ c.todo # {}
        /\ IF d.hint # None /\ data[d.hint] = d.hash /\ d.hint \in MayGet[c.cap]
           THEN calls' = [calls EXCEPT ![t].todo = @ \ {Min(@)}, ![t].sealed = @ \cup {d.hash}]
           ELSE Reply(t)
        /\ UNCHANGED <<data, expression, stored, installed, watched, relisted, asked, writes, bound>>

\* Phase 3: the capability goes into the content store first ...
Keep(t) ==
    /\ In(t, "seal") /\ calls[t].todo = {}
    /\ stored' = stored \cup {calls[t].cap}
    /\ To(t, "commit")
    /\ UNCHANGED <<data, expression, installed, watched, relisted, asked, writes, bound>>

\* ... and the metadata that names it after.
Commit(t) ==
    LET c == calls[t]
    IN  /\ In(t, "commit")
        /\ installed' = [installed EXCEPT ![c.root] = [program |-> c.program, grant |-> c.cap,
                        installed_by |-> c.author, result |-> c.result,
                        sealed |-> c.sealed]]
        /\ To(t, "register")
        /\ UNCHANGED <<data, expression, stored, watched, relisted, asked, writes, bound>>

\* Phase 4.
Watch(t) ==
    LET c == calls[t]
    IN  /\ In(t, "register")
        /\ watched' = [watched EXCEPT ![c.root] = ReadPaths(c.program)]
        /\ Reply(t)
        /\ UNCHANGED <<data, expression, stored, installed, relisted, asked, writes, bound>>

(***************************************************************************)
(* The others.                                                             *)
(***************************************************************************)
BindData(p, h) ==
    /\ relisted = {} /\ writes < MaxWrites /\ data[p] # h
    /\ data' = [data EXCEPT ![p] = h]
    /\ bound' = bound \cup {<<p, h>>}
    /\ writes' = writes + 1
    /\ UNCHANGED <<expression, stored, installed, watched, calls, relisted, asked>>

Rewrite(r, program) ==
    /\ relisted = {} /\ writes < MaxWrites /\ expression[r] # program
    /\ expression' = [expression EXCEPT ![r] = program]
    /\ writes' = writes + 1
    /\ UNCHANGED <<data, stored, installed, watched, calls, relisted, asked, bound>>

\* The process ends; rebuild lists system/compute/processes.
Reboot ==
    /\ relisted = {} /\ \E r \in Roots : installed[r] # None
    /\ relisted' = {r \in Roots : installed[r] # None}
    /\ calls' = [t \in Servers |-> AtRest]
    /\ watched' = [r \in Roots |-> {}]
    /\ UNCHANGED <<data, expression, stored, installed, asked, writes, bound>>

\* One row: the expression as it now is, audited with no installer and with
\* what the content store holds.
Reaudit(r) ==
    /\ r \in relisted
    /\ relisted' = relisted \ {r}
    /\ watched' = IF expression[r] # None /\ Audit(expression[r], None, stored) = "ok"
                  THEN [watched EXCEPT ![r] = ReadPaths(expression[r])] ELSE watched
    /\ UNCHANGED <<data, expression, stored, installed, calls, asked, writes, bound>>

InstallNext ==
    \/ \E t \in Servers :
         \/ \E r \in Roots \cup {None}, cap \in Tokens \cup {None}, author \in Authors,
               included \in SUBSET Tokens, requested \in Overrides \cup {None} :
               Ask(t, r, cap, author, included, requested)
         \/ Authorize(t) \/ Seal(t) \/ Keep(t) \/ Commit(t) \/ Watch(t)
    \/ \E p \in DataPaths, h \in Hashes \cup {None} : BindData(p, h)
    \/ \E r \in Roots, program \in Programs \cup {None} : Rewrite(r, program)
    \/ Reboot
    \/ \E r \in Roots : Reaudit(r)

InstallSpec == InstallInit /\ [][InstallNext]_installVars

--------------------------------------------------------------------------------
IsInstalled(r) == installed[r] # None

\* Whatever was installed, and however it was written to since, stays within the
\* grant that reactive evaluation runs under, which by then is in the content
\* store: where its result goes, what the graph reads, calls and writes as a literal is covered, an
\* embedded capability was handed down by the installer, and each sealed hash,
\* trusted from then on, was bound at a path that the grant covers.
InstalledIsAuthorized ==
    \A r \in Roots : IsInstalled(r) =>
        LET m == installed[r]
        IN  /\ m.grant \in stored
            /\ Covered(m.program, m.grant, m.result)
            /\ \A h \in m.sealed : \E p \in MayGet[m.grant] : <<p, h>> \in bound
            /\ \A n \in Of(m.program, "call") : n.cap \in Tokens =>
                  \E k \in 0 .. MaxChain : /\ ChainAt(n.cap)[k] # None
                                           /\ Granter[ChainAt(n.cap)[k]] = m.installed_by

\* A subgraph that is installed, and whose expression nobody has touched, is
\* woken after a restart as it was before.  The comments of rebuild say so.
RebuildFindsInstalled ==
    relisted = {} => \A r \in Roots :
        (IsInstalled(r) /\ expression[r] = installed[r].program /\ \A t \in Servers : In(t, "idle"))
            => watched[r] = ReadPaths(expression[r])
================================================================================
