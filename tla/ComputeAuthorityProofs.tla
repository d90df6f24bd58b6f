------------------------- MODULE ComputeAuthorityProofs -------------------------
(***************************************************************************)
(* Proofs about authority in the compute extension, for any number of      *)
(* servers, tokens, programs and paths: what an installation was allowed   *)
(* stays true of it however much is rebound, edited and restarted in       *)
(* between, and no evaluation, however deeply it is nested in others,      *)
(* reaches beyond the token it runs under or takes more steps than any     *)
(* ceiling that was set for it.                                            *)
(***************************************************************************)
EXTENDS ComputeAuthority, NaturalLemmas, TLAPS

--------------------------------------------------------------------------------
\* The least of natural numbers is one of them.
LEMMA LeastIs ==
    ASSUME NEW S \in SUBSET Nat, S # {}
    PROVE  Min(S) \in S /\ \A n \in S : Min(S) <= n
<1>1. \E n \in S : \A m \in S : n <= m
  BY LeastNatural
<1> QED
  BY <1>1 DEF Min

\* An audit that passes has found every node in order.
LEMMA AuditPasses ==
    ASSUME NEW X, NEW program \in Seq(X), NEW author, NEW known, Audit(program, author, known) = "ok",
           NEW i \in DOMAIN program
    PROVE  NodeVerdict(program[i], author, known) = "ok"
<1> DEFINE bad == {j \in DOMAIN program : NodeVerdict(program[j], author, known) # "ok"}
<1>1. bad \in SUBSET Nat
  OBVIOUS
<1>2. bad = {}
  <2> SUFFICES ASSUME bad # {} PROVE FALSE
    OBVIOUS
  <2> DEFINE least == CHOOSE j \in bad : \A m \in bad : j <= m
  <2>1. \E j \in bad : \A m \in bad : j <= m
    <3> HIDE DEF bad
    <3> QED
      BY <1>1, LeastNatural
  <2>2. least \in bad
    <3> HIDE DEF bad
    <3> QED
      BY <2>1
  <2>3. NodeVerdict(program[least], author, known) = "ok"
    BY DEF Audit
  <2> QED
    BY <2>2, <2>3
<1> QED
  BY <1>2

--------------------------------------------------------------------------------
(***************************************************************************)
(* What is known of a request after each phase, and of an installation for *)
(* good.  None of it is about what the tree holds now: a binding that was  *)
(* there stays remembered, and a token once stored stays stored.           *)
(***************************************************************************)
\* h was bound where tok may read.
Reachable(tok, h, bindings) == \E p \in DataPaths \cap MayGet[tok] : <<p, h>> \in bindings

\* The installer handed down each capability the program embeds.
HandedDown(program, author) ==
    \A n \in Of(program, "call") : n.cap \in Tokens =>
        \E k \in 0 .. MaxChain : /\ ChainAt(n.cap)[k] # None
                                 /\ Granter[ChainAt(n.cap)[k]] = author

CallFields == {"phase", "root", "program", "cap", "author", "known", "result", "todo", "sealed"}

Sound(c, tokens, bindings) ==
    /\ DOMAIN c = CallFields
    /\ c.root \in Roots /\ c.program \in Programs /\ c.cap \in Tokens
    /\ c.known \subseteq Tokens /\ c.todo \subseteq DataRefs(c.program)
    /\ c.phase # "audit" => Covered(c.program, c.cap, c.result) /\ HandedDown(c.program, c.author)
    /\ \A h \in c.sealed : Reachable(c.cap, h, bindings)
    /\ c.phase \in {"commit", "register"} => c.cap \in tokens

Authorized(m, r, tokens, bindings) ==
    /\ m.grant \in tokens
    /\ Covered(m.program, m.grant, m.result)
    /\ HandedDown(m.program, m.installed_by)
    /\ \A h \in m.sealed : Reachable(m.grant, h, bindings)

Typed ==
    /\ data \in [DataPaths -> Hashes \cup {None}]
    /\ expression \in [Roots -> Programs \cup {None}]
    /\ stored \subseteq Tokens
    /\ DOMAIN installed = Roots /\ DOMAIN calls = Servers
    /\ \A p \in DataPaths : <<p, data[p]>> \in bound

CallsSound == \A t \in Servers : calls[t].phase # "idle" => Sound(calls[t], stored, bound)
InstalledSound == \A r \in Roots : IsInstalled(r) => Authorized(installed[r], r, stored, bound)

InstallIInv == Typed /\ CallsSound /\ InstalledSound

\* What phase 1 lets through was handed down, whatever the store held for it.
LEMMA AuditHandsDown ==
    ASSUME NEW program \in Programs, NEW author, NEW known, known \subseteq Tokens,
           Audit(program, author, known) = "ok"
    PROVE  HandedDown(program, author)
<1> SUFFICES ASSUME NEW n \in Of(program, "call"), n.cap \in Tokens
             PROVE  \E k \in 0 .. MaxChain : /\ ChainAt(n.cap)[k] # None
                                             /\ Granter[ChainAt(n.cap)[k]] = author
  BY DEF HandedDown
<1>1. PICK i \in DOMAIN program : n = program[i]
  BY DEF Of, ToSet
<1>2. program \in Seq(ToSet(program))
  BY InstallAssumption
<1>3. NodeVerdict(n, author, known) = "ok"
  BY <1>1, <1>2, AuditPasses
<1>4. n.kind = "call" /\ None \notin Tokens
  BY InstallAssumption DEF Of
<1>5. EmbeddedCapability(n.cap, author, known) = "ok"
  BY <1>3, <1>4 DEF NodeVerdict
<1>6. PICK k \in 0 .. MaxChain : /\ \A j \in 0 .. k : ChainAt(n.cap)[j] \in known
                                 /\ Granter[ChainAt(n.cap)[k]] = author
  BY <1>5 DEF EmbeddedCapability
<1>7. ChainAt(n.cap)[k] \in known
  BY <1>6, InstallAssumption
<1> QED
  BY <1>4, <1>6, <1>7

\* What was found of one request, and recorded, survives what others do.
LEMMA OneCall ==
    ASSUME InstallIInv, Typed', NEW t \in Servers, stored \subseteq stored', bound \subseteq bound',
           \A u \in Servers \ {t} : calls'[u] = calls[u],
           calls'[t].phase # "idle" => Sound(calls'[t], stored', bound'),
           \A r \in Roots : installed'[r] = installed[r] \/ Authorized(installed'[r], r, stored', bound')
    PROVE  InstallIInv'
<1>1. \A c : Sound(c, stored, bound) => Sound(c, stored', bound')
  BY DEF Sound, Reachable
<1>2. \A m, r : Authorized(m, r, stored, bound) => Authorized(m, r, stored', bound')
  BY DEF Authorized, Reachable
<1>3. CallsSound'
  <2> SUFFICES ASSUME NEW u \in Servers, calls'[u].phase # "idle"
               PROVE  Sound(calls'[u], stored', bound')
    BY DEF CallsSound
  <2>1. CASE u = t
    BY <2>1
  <2>2. CASE u # t
    BY <2>2, <1>1 DEF InstallIInv, CallsSound
  <2> QED
    BY <2>1, <2>2
<1>4. InstalledSound'
  <2> SUFFICES ASSUME NEW r \in Roots, installed'[r] # None
               PROVE  Authorized(installed'[r], r, stored', bound')
    BY DEF InstalledSound, IsInstalled
  <2>1. CASE installed'[r] = installed[r]
    BY <2>1, <1>2 DEF InstallIInv, InstalledSound, IsInstalled
  <2> QED
    BY <2>1
<1> QED
  BY <1>3, <1>4 DEF InstallIInv

\* The same for those who ask for nothing.
LEMMA NoCall ==
    ASSUME InstallIInv, Typed', stored \subseteq stored', bound \subseteq bound',
           UNCHANGED <<calls, installed>>
    PROVE  InstallIInv'
<1>1. \A c : Sound(c, stored, bound) => Sound(c, stored', bound')
  BY DEF Sound, Reachable
<1>2. \A m, r : Authorized(m, r, stored, bound) => Authorized(m, r, stored', bound')
  BY DEF Authorized, Reachable
<1>3. CallsSound'
  BY <1>1 DEF InstallIInv, CallsSound
<1>4. InstalledSound'
  BY <1>2 DEF InstallIInv, InstalledSound, IsInstalled
<1> QED
  BY <1>3, <1>4 DEF InstallIInv

\* Every step of an installation, a writer or a restart keeps the invariant;
\* bindings that were and tokens that are stored are never forgotten.
LEMMA InstallStep ==
    ASSUME InstallIInv, InstallNext
    PROVE  InstallIInv' /\ bound \subseteq bound' /\ stored \subseteq stored'
<1> USE DEF installVars
<1>0. /\ DOMAIN calls = Servers /\ DOMAIN installed = Roots
      /\ stored \subseteq Tokens /\ Typed
      /\ \A t \in Servers : calls[t].phase # "idle" => Sound(calls[t], stored, bound)
  BY DEF InstallIInv, CallsSound, Typed
<1>1. ASSUME NEW t \in Servers, NEW r \in Roots \cup {None}, NEW cap \in Tokens \cup {None},
             NEW author \in Authors, NEW included \in SUBSET Tokens,
             NEW requested \in Overrides \cup {None}, Ask(t, r, cap, author, included, requested)
      PROVE  InstallIInv' /\ UNCHANGED <<bound, stored>>
  <2>1. UNCHANGED <<data, expression, stored, installed, bound>>
    BY <1>1 DEF Ask
  <2>2. DOMAIN calls' = Servers /\ \A u \in Servers \ {t} : calls'[u] = calls[u]
    BY <1>0, <1>1 DEF Ask, Reply
  <2>3. Typed'
    BY <1>0, <2>1, <2>2 DEF Typed
  <2>4. calls'[t].phase # "idle" => Sound(calls'[t], stored', bound')
    <3>1. CASE r = None \/ cap = None
      BY <1>0, <1>1, <3>1 DEF Ask, Reply, AtRest
    <3>2. CASE ~(r = None \/ cap = None) /\ expression[r] = None
      BY <1>0, <1>1, <3>2 DEF Ask, Reply, AtRest
    <3>3. CASE ~(r = None \/ cap = None) /\ expression[r] # None
      <4>1. r \in Roots /\ cap \in Tokens /\ expression[r] \in Programs
        BY <3>3, <1>0 DEF Typed
      <4>2. calls'[t] = [phase |-> "audit", root |-> r, program |-> expression[r], cap |-> cap,
                         author |-> author, known |-> included \cup {cap},
                         result |-> ResultAt(r, requested),
                         todo |-> DataRefs(expression[r]), sealed |-> {}]
        BY <1>0, <1>1, <3>3 DEF Ask
      <4> QED
        BY <4>1, <4>2 DEF Sound, CallFields
    <3> QED
      BY <3>1, <3>2, <3>3
  <2> QED
    BY <2>1, <2>2, <2>3, <2>4, OneCall
<1>2. ASSUME NEW t \in Servers, Authorize(t) PROVE InstallIInv' /\ UNCHANGED <<bound, stored>>
  <2> DEFINE c == calls[t]
  <2>1. UNCHANGED <<data, expression, stored, installed, bound>>
    BY <1>2 DEF Authorize
  <2>2. DOMAIN calls' = Servers /\ \A u \in Servers \ {t} : calls'[u] = calls[u]
    BY <1>0, <1>2 DEF Authorize, Reply, To
  <2>3. Typed'
    BY <1>0, <2>1, <2>2 DEF Typed
  <2>4. Sound(c, stored, bound) /\ c.phase = "audit"
    BY <1>0, <1>2 DEF Authorize, In
  <2>5. CASE ~(Audit(c.program, c.author, c.known \cup stored) = "ok" /\ Covered(c.program, c.cap, c.result))
    <3>1. calls'[t].phase = "idle"
      BY <1>0, <1>2, <2>5 DEF Authorize, Reply, AtRest
    <3> QED
      BY <2>1, <2>2, <2>3, <3>1, OneCall
  <2>6. CASE Audit(c.program, c.author, c.known \cup stored) = "ok" /\ Covered(c.program, c.cap, c.result)
    <3>1. calls'[t] = [c EXCEPT !.phase = "seal"]
      BY <1>0, <1>2, <2>6 DEF Authorize, To
    <3>2. HandedDown(c.program, c.author)
      BY <1>0, <2>4, <2>6, AuditHandsDown DEF Sound
    <3>3. Sound(calls'[t], stored, bound)
      BY <2>4, <2>6, <3>1, <3>2 DEF Sound, CallFields
    <3> QED
      BY <2>1, <2>2, <2>3, <3>3, OneCall
  <2> QED
    BY <2>1, <2>5, <2>6
<1>3. ASSUME NEW t \in Servers, Seal(t) PROVE InstallIInv' /\ UNCHANGED <<bound, stored>>
  <2> DEFINE c == calls[t]
             i == Min(c.todo)
             d == c.program[i]
  <2>1. UNCHANGED <<data, expression, stored, installed, bound>>
    BY <1>3 DEF Seal
  <2>2. DOMAIN calls' = Servers /\ \A u \in Servers \ {t} : calls'[u] = calls[u]
    BY <1>0, <1>3 DEF Seal, Reply
  <2>3. Typed'
    BY <1>0, <2>1, <2>2 DEF Typed
  <2>4. Sound(c, stored, bound) /\ c.phase = "seal" /\ c.todo # {}
    BY <1>0, <1>3 DEF Seal, In
  <2>5. CASE ~(d.hint # None /\ data[d.hint] = d.hash /\ d.hint \in MayGet[c.cap])
    <3>1. calls'[t].phase = "idle"
      BY <1>0, <1>3, <2>5 DEF Seal, Reply, AtRest
    <3> QED
      BY <2>1, <2>2, <2>3, <3>1, OneCall
  <2>6. CASE d.hint # None /\ data[d.hint] = d.hash /\ d.hint \in MayGet[c.cap]
    <3>1. calls'[t] = [[c EXCEPT !.todo = @ \ {Min(@)}] EXCEPT !.sealed = @ \cup {d.hash}]
      BY <1>0, <1>3, <2>6 DEF Seal
    <3>2. d.hint \in DataPaths
      <4>1. c.program \in Seq(ToSet(c.program)) /\ c.program \in Programs
        BY <2>4, InstallAssumption DEF Sound
      <4>2. c.todo \in SUBSET Nat
        BY <2>4, <4>1 DEF Sound, DataRefs
      <4>3. i \in DataRefs(c.program)
        BY <2>4, <4>2, LeastIs DEF Sound
      <4>4. d \in ToSet(c.program) /\ d.kind = "data"
        BY <4>3 DEF DataRefs, ToSet
      <4> QED
        BY <2>6, <4>1, <4>4, InstallAssumption
    <3>3. Reachable(c.cap, d.hash, bound)
      BY <1>0, <2>6, <3>2 DEF Typed, Reachable
    <3>4. /\ DOMAIN calls'[t] = CallFields /\ calls'[t].root = c.root
          /\ calls'[t].program = c.program /\ calls'[t].cap = c.cap /\ calls'[t].known = c.known
          /\ calls'[t].author = c.author /\ calls'[t].result = c.result /\ calls'[t].phase = "seal"
          /\ calls'[t].todo = c.todo \ {i} /\ calls'[t].sealed = c.sealed \cup {d.hash}
      BY <2>4, <3>1 DEF Sound, CallFields
    <3>5. Sound(calls'[t], stored, bound)
      BY <2>4, <3>3, <3>4 DEF Sound
    <3> QED
      BY <2>1, <2>2, <2>3, <3>5, OneCall
  <2> QED
    BY <2>1, <2>5, <2>6
<1>4. ASSUME NEW t \in Servers, Keep(t)
      PROVE  InstallIInv' /\ UNCHANGED bound /\ stored \subseteq stored'
  <2> DEFINE c == calls[t]
  <2>1. UNCHANGED <<data, expression, installed, bound>> /\ stored' = stored \cup {c.cap}
    BY <1>4 DEF Keep
  <2>2. DOMAIN calls' = Servers /\ \A u \in Servers \ {t} : calls'[u] = calls[u]
    BY <1>0, <1>4 DEF Keep, To
  <2>3. Sound(c, stored, bound) /\ c.phase = "seal"
    BY <1>0, <1>4 DEF Keep, In
  <2>4. Typed'
    BY <1>0, <2>1, <2>2, <2>3 DEF Typed, Sound
  <2>5. calls'[t] = [c EXCEPT !.phase = "commit"]
    BY <1>0, <1>4 DEF Keep, To
  <2>6. Sound(calls'[t], stored', bound')
    BY <2>1, <2>3, <2>5 DEF Sound, CallFields
  <2> QED
    BY <2>1, <2>2, <2>4, <2>6, OneCall
<1>5. ASSUME NEW t \in Servers, Commit(t) PROVE InstallIInv' /\ UNCHANGED <<bound, stored>>
  <2> DEFINE c == calls[t]
             m == [program |-> c.program, grant |-> c.cap, installed_by |-> c.author, result |-> c.result,
                  sealed |-> c.sealed]
  <2>1. UNCHANGED <<data, expression, stored, bound>> /\ installed' = [installed EXCEPT ![c.root] = m]
    BY <1>5 DEF Commit
  <2>2. DOMAIN calls' = Servers /\ \A u \in Servers \ {t} : calls'[u] = calls[u]
    BY <1>0, <1>5 DEF Commit, To
  <2>3. Sound(c, stored, bound) /\ c.phase = "commit"
    BY <1>0, <1>5 DEF Commit, In
  <2>4. Typed'
    BY <1>0, <2>1, <2>2 DEF Typed
  <2>5. calls'[t] = [c EXCEPT !.phase = "register"]
    BY <1>0, <1>5 DEF Commit, To
  <2>6. Sound(calls'[t], stored, bound)
    BY <2>3, <2>5 DEF Sound, CallFields
  <2>7. Authorized(m, c.root, stored, bound)
    BY <2>3 DEF Sound, Authorized
  <2>8. \A r \in Roots : installed'[r] = installed[r] \/ Authorized(installed'[r], r, stored, bound)
    <3> HIDE DEF m
    <3> QED
      BY <1>0, <2>1, <2>7
  <2> QED
    BY <2>1, <2>2, <2>4, <2>6, <2>8, OneCall
<1>6. ASSUME NEW t \in Servers, Watch(t) PROVE InstallIInv' /\ UNCHANGED <<bound, stored>>
  <2>1. UNCHANGED <<data, expression, stored, installed, bound>>
    BY <1>6 DEF Watch
  <2>2. DOMAIN calls' = Servers /\ \A u \in Servers \ {t} : calls'[u] = calls[u]
    BY <1>0, <1>6 DEF Watch, Reply
  <2>3. Typed'
    BY <1>0, <2>1, <2>2 DEF Typed
  <2>4. calls'[t].phase = "idle"
    BY <1>0, <1>6 DEF Watch, Reply, AtRest
  <2> QED
    BY <2>1, <2>2, <2>3, <2>4, OneCall
<1>7. ASSUME NEW p \in DataPaths, NEW h \in Hashes \cup {None}, BindData(p, h)
      PROVE  InstallIInv' /\ UNCHANGED stored /\ bound \subseteq bound'
  <2>1. /\ UNCHANGED <<expression, stored, installed, calls>> /\ bound' = bound \cup {<<p, h>>}
        /\ data' = [data EXCEPT ![p] = h]
    BY <1>7 DEF BindData
  <2>2. Typed'
    BY <1>0, <2>1 DEF Typed
  <2> QED
    BY <2>1, <2>2, NoCall
<1>8. ASSUME NEW r \in Roots, NEW program \in Programs \cup {None}, Rewrite(r, program)
      PROVE  InstallIInv' /\ UNCHANGED <<bound, stored>>
  <2>1. /\ UNCHANGED <<data, stored, installed, calls, bound>>
        /\ expression' = [expression EXCEPT ![r] = program]
    BY <1>8 DEF Rewrite
  <2>2. Typed'
    BY <1>0, <2>1 DEF Typed
  <2> QED
    BY <2>1, <2>2, NoCall
<1>9. ASSUME Reboot PROVE InstallIInv' /\ UNCHANGED <<bound, stored>>
  <2>1. UNCHANGED <<data, expression, stored, installed, bound>> /\ calls' = [t \in Servers |-> AtRest]
    BY <1>9 DEF Reboot
  <2>2. Typed'
    BY <1>0, <2>1 DEF Typed
  <2>3. CallsSound'
    BY <2>1 DEF CallsSound, AtRest
  <2>4. InstalledSound'
    BY <2>1 DEF InstallIInv, InstalledSound, IsInstalled
  <2> QED
    BY <2>1, <2>2, <2>3, <2>4 DEF InstallIInv
<1>10. ASSUME NEW r \in Roots, Reaudit(r) PROVE InstallIInv' /\ UNCHANGED <<bound, stored>>
  <2>1. UNCHANGED <<data, expression, stored, installed, calls, bound>>
    BY <1>10 DEF Reaudit
  <2>2. Typed'
    BY <1>0, <2>1 DEF Typed
  <2> QED
    BY <2>1, <2>2, NoCall
<1> QED
  BY <1>1, <1>2, <1>3, <1>4, <1>5, <1>6, <1>7, <1>8, <1>9, <1>10 DEF InstallNext

\* Nothing is installed and nothing is being installed.
LEMMA InstallInitially == InstallInit => InstallIInv
<1> SUFFICES ASSUME InstallInit PROVE InstallIInv
  OBVIOUS
<1>1. Typed
  BY DEF InstallInit, Typed
<1>2. CallsSound
  BY DEF InstallInit, CallsSound, AtRest
<1>3. InstalledSound
  BY DEF InstallInit, InstalledSound, IsInstalled
<1> QED
  BY <1>1, <1>2, <1>3 DEF InstallIInv

--------------------------------------------------------------------------------
(***************************************************************************)
(* Evaluations: what each has got hold of and written, and what is left of *)
(* its budget, whatever the others do.                                     *)
(***************************************************************************)
Nodes == UNION {ToSet(program) : program \in Programs}

EvaluationFields == {"entry", "result", "token", "ask", "operations", "sealed", "left", "steps",
                     "held", "wrote", "done"}

\* h was bound where tok lets an evaluation read, which without one is anywhere.
Gettable(tok, h, bindings) ==
    /\ h \in Hashes
    /\ \E p \in DataPaths : <<p, h>> \in bindings /\ (tok = None \/ p \in MayGet[tok])

Lawful(e, bindings) ==
    /\ DOMAIN e = EvaluationFields /\ e.left \in Seq(Nodes)
    /\ \A h \in e.sealed : Reachable(e.token, h, bindings)
    /\ \A h \in e.held : Gettable(e.token, h, bindings)
    /\ e.token # None => e.wrote \subseteq MayPut[e.token]
    /\ e.entry = "woken" => e.result \in MayPut[e.token]

\* The steps it took and those it has left are together within the ceiling.
Below(e, ceiling) == ceiling \in Nat /\ e.steps + e.operations <= ceiling

Budgeted(e) ==
    /\ e.operations \in Nat /\ e.steps \in Nat
    /\ e.steps = 0 \/ e.operations >= 1
    /\ Below(e, DefaultBudget)
    /\ e.ask # None => Below(e, e.ask)
    /\ e.entry = "woken" =>
         \A k \in DOMAIN Ceilings[e.token] :
            Ceilings[e.token][k] # None => Below(e, Ceilings[e.token][k])

Good(es, bindings) ==
    /\ \E X : es \in Seq(X)
    /\ \A i \in DOMAIN es : Lawful(es[i], bindings) /\ Budgeted(es[i])

AuthorityIInv == InstallIInv /\ Good(running, bound)

(* Sequences of evaluations *)

\* A sound evaluation may be woken inside sound ones.
LEMMA GoodPush ==
    ASSUME NEW b, NEW es, Good(es, b), NEW e, Lawful(e, b), Budgeted(e)
    PROVE  Good(<<e>> \o es, b)
<1>1. PICK X : es \in Seq(X)
  BY DEF Good
<1> DEFINE Y == X \cup {e}
           r == <<e>> \o es
<1>2. es \in Seq(Y) /\ <<e>> \in Seq(Y) /\ Len(<<e>>) = 1 /\ <<e>>[1] = e
  BY <1>1
<1>3. r \in Seq(Y) /\ Len(r) = 1 + Len(es)
  BY <1>2
<1>4. \A i \in 1 .. 1 + Len(es) : r[i] = IF i <= 1 THEN <<e>>[i] ELSE es[i - 1]
  BY <1>2
<1>5. \A i \in DOMAIN r : r[i] = e \/ \E j \in DOMAIN es : r[i] = es[j]
  <2> HIDE DEF Y, r
  <2> SUFFICES ASSUME NEW i \in DOMAIN r, i # 1 PROVE \E j \in DOMAIN es : r[i] = es[j]
    BY <1>2, <1>3, <1>4
  <2>1. i \in 2 .. 1 + Len(es) /\ Len(es) \in Nat
    BY <1>2, <1>3
  <2>2. r[i] = es[i - 1] /\ i - 1 \in DOMAIN es
    BY <1>2, <1>4, <2>1
  <2> QED
    BY <2>2
<1> HIDE DEF r, Y
<1>6. Good(r, b)
  BY <1>3, <1>5 DEF Good
<1> QED
  BY <1>6 DEF r

\* Taking the innermost evaluation off leaves sound ones.
LEMMA GoodTail ==
    ASSUME NEW b, NEW es, Good(es, b), es # <<>>
    PROVE  Good(Tail(es), b) /\ Lawful(Head(es), b) /\ Budgeted(Head(es))
<1>1. PICK X : es \in Seq(X)
  BY DEF Good
<1>2. /\ Tail(es) \in Seq(X) /\ Len(es) \in Nat \ {0} /\ Len(Tail(es)) = Len(es) - 1
      /\ Head(es) = es[1] /\ \A i \in 1 .. Len(es) - 1 : Tail(es)[i] = es[i + 1]
  BY <1>1
<1>3. \A i \in DOMAIN Tail(es) : Tail(es)[i] = es[i + 1] /\ i + 1 \in DOMAIN es
  BY <1>1, <1>2
<1>4. 1 \in DOMAIN es
  BY <1>1, <1>2
<1> QED
  BY <1>2, <1>3, <1>4 DEF Good

\* No evaluation, or one sound one.
LEMMA GoodAlone ==
    ASSUME NEW b
    PROVE  Good(<<>>, b) /\ \A e : Lawful(e, b) /\ Budgeted(e) => Good(<<e>>, b)
<1>1. Good(<<>>, b)
  <2>1. <<>> \in Seq({}) /\ DOMAIN <<>> = {}
    OBVIOUS
  <2> QED
    BY <2>1 DEF Good
<1>2. ASSUME NEW e, Lawful(e, b), Budgeted(e) PROVE Good(<<e>>, b)
  <2>1. <<e>> \in Seq({e}) /\ DOMAIN <<e>> = {1} /\ <<e>>[1] = e
    OBVIOUS
  <2> QED
    BY <1>2, <2>1 DEF Good
<1> QED
  BY <1>1, <1>2

\* Evaluations stay sound while the record of bindings grows.
LEMMA GoodStays ==
    ASSUME NEW b, NEW c, b \subseteq c
    PROVE  /\ \A e : Lawful(e, b) => Lawful(e, c)
           /\ \A es : Good(es, b) => Good(es, c)
<1>1. \A e : Lawful(e, b) => Lawful(e, c)
  BY DEF Lawful, Reachable, Gettable
<1> QED
  BY <1>1 DEF Good

--------------------------------------------------------------------------------
(* The doors *)

\* What an evaluation starts with is within every ceiling set for it.
LEMMA Budgets ==
    /\ DefaultBudget \in Nat
    /\ \A ask \in Asks \cup {None} :
          /\ RequestBudget(ask) \in Nat /\ RequestBudget(ask) <= DefaultBudget
          /\ ask # None => ask \in Nat /\ RequestBudget(ask) <= ask
    /\ \A tok \in Tokens :
          /\ ReactiveBudget(tok) \in Nat /\ ReactiveBudget(tok) <= DefaultBudget
          /\ \A k \in DOMAIN Ceilings[tok] : Ceilings[tok][k] # None =>
                Ceilings[tok][k] \in Nat /\ ReactiveBudget(tok) <= Ceilings[tok][k]
<1>0. DefaultBudget \in Nat
  BY AuthorityAssumption
<1>1. ASSUME NEW ask \in Asks \cup {None}
      PROVE  /\ RequestBudget(ask) \in Nat /\ RequestBudget(ask) <= DefaultBudget
             /\ ask # None => ask \in Nat /\ RequestBudget(ask) <= ask
  <2> DEFINE S == {DefaultBudget} \cup ({ask} \ {None})
  <2>1. S \in SUBSET Nat /\ S # {} /\ DefaultBudget \in S /\ (ask # None => ask \in S)
    BY AuthorityAssumption
  <2> HIDE DEF S
  <2>2. Min(S) \in S /\ \A n \in S : Min(S) <= n
    BY <2>1, LeastIs
  <2>3. RequestBudget(ask) = Min(S)
    BY DEF S, RequestBudget
  <2> QED
    BY <2>1, <2>2, <2>3
<1>2. ASSUME NEW tok \in Tokens
      PROVE  /\ ReactiveBudget(tok) \in Nat /\ ReactiveBudget(tok) <= DefaultBudget
             /\ \A k \in DOMAIN Ceilings[tok] : Ceilings[tok][k] # None =>
                   Ceilings[tok][k] \in Nat /\ ReactiveBudget(tok) <= Ceilings[tok][k]
  <2> DEFINE S == {DefaultBudget} \cup (ToSet(Ceilings[tok]) \ {None})
  <2>1. /\ S \in SUBSET Nat /\ S # {} /\ DefaultBudget \in S
        /\ \A k \in DOMAIN Ceilings[tok] : Ceilings[tok][k] # None => Ceilings[tok][k] \in S
    <3>1. Ceilings[tok] \in Seq(Nat \cup {None})
      BY AuthorityAssumption
    <3> QED
      BY <3>1, <1>0 DEF ToSet
  <2> HIDE DEF S
  <2>2. Min(S) \in S /\ \A n \in S : Min(S) <= n
    BY <2>1, LeastIs
  <2>3. ReactiveBudget(tok) = Min(S)
    BY DEF S, ReactiveBudget
  <2> QED
    BY <2>1, <2>2, <2>3
<1> QED
  BY <1>0, <1>1, <1>2

\* A program is a sequence of its nodes.
LEMMA ProgramNodes == \A program \in Programs : program \in Seq(Nodes)
<1> SUFFICES ASSUME NEW program \in Programs PROVE program \in Seq(Nodes)
  OBVIOUS
<1>1. program \in Seq(ToSet(program)) /\ ToSet(program) \subseteq Nodes
  BY InstallAssumption DEF Nodes
<1> QED
  BY <1>1

\* An evaluation begins with nothing and within every ceiling.
LEMMA Begins ==
    ASSUME NEW b, NEW r, expression[r] \in Programs, NEW entry, entry # "woken", NEW tok,
           NEW ask, NEW budget \in Nat, budget <= DefaultBudget,
           ask # None => ask \in Nat /\ budget <= ask
    PROVE  LET e == Evaluation(entry, r, None, tok, ask, budget, {}) IN Lawful(e, b) /\ Budgeted(e)
<1> DEFINE e == Evaluation(entry, r, None, tok, ask, budget, {})
<1>1. /\ DOMAIN e = EvaluationFields /\ e.left = expression[r] /\ e.sealed = {} /\ e.held = {}
      /\ e.wrote = {} /\ e.entry = entry /\ e.operations = budget /\ e.steps = 0 /\ e.ask = ask
  BY DEF Evaluation, EvaluationFields
<1> HIDE DEF e
<1>2. Lawful(e, b)
  BY <1>1, ProgramNodes DEF Lawful
<1>3. Budgeted(e)
  BY <1>1, Budgets DEF Budgeted, Below
<1> QED
  BY <1>2, <1>3 DEF e

\* An installed subgraph that is woken starts sound: this is where what was
\* audited at its installation is needed.
LEMMA WakesUp ==
    ASSUME InstallIInv, NEW r \in Roots, Wakes(r)
    PROVE  Lawful(Woken(r), bound) /\ Budgeted(Woken(r))
<1> DEFINE m == installed[r]
           e == Woken(r)
<1>1. /\ DOMAIN e = EvaluationFields /\ e.left = expression[r] /\ e.sealed = m.sealed
      /\ e.held = {} /\ e.wrote = {} /\ e.entry = "woken" /\ e.operations = ReactiveBudget(m.grant)
      /\ e.steps = 0 /\ e.ask = None /\ e.token = m.grant /\ e.result = m.result
  BY DEF Woken, Evaluation, EvaluationFields
<1>2. /\ m.grant \in Tokens /\ Covered(m.program, m.grant, m.result) /\ expression[r] \in Programs
      /\ \A h \in m.sealed : Reachable(m.grant, h, bound)
  BY DEF InstallIInv, Typed, InstalledSound, IsInstalled, Authorized, Wakes
<1> HIDE DEF e, m
<1>3. Lawful(e, bound)
  BY <1>1, <1>2, ProgramNodes DEF Lawful, Covered
<1>4. Budgeted(e)
  BY <1>1, <1>2, Budgets DEF Budgeted, Below
<1> QED
  BY <1>3, <1>4 DEF e

--------------------------------------------------------------------------------
(* What an evaluation does *)

\* f is e after some of its work: what is fixed when it begins stays.
SameEvaluation(e, f) ==
    /\ DOMAIN f = EvaluationFields
    /\ f.entry = e.entry /\ f.result = e.result /\ f.token = e.token /\ f.ask = e.ask
    /\ f.sealed = e.sealed

\* One node: a step of the budget, and at most something the token reaches.
LEMMA WalkIsLawful ==
    ASSUME NEW b, NEW e, Lawful(e, b), Budgeted(e), e.left # <<>>, e.operations > 1,
           NEW f, SameEvaluation(e, f),
           f.left = Tail(e.left), f.operations = e.operations - 1, f.steps = e.steps + 1,
           \A h \in f.held : h \in e.held \/ Gettable(e.token, h, b),
           \A p \in f.wrote : p \in e.wrote \/ (e.token # None => p \in MayPut[e.token])
    PROVE  Lawful(f, b) /\ Budgeted(f)
<1>1. Tail(e.left) \in Seq(Nodes)
  BY DEF Lawful
<1>2. Lawful(f, b)
  BY <1>1 DEF Lawful, SameEvaluation
<1>3. \A n : Below(e, n) => Below(f, n)
  BY DEF Below, Budgeted
<1>4. Budgeted(f)
  BY <1>3 DEF Budgeted, SameEvaluation
<1> QED
  BY <1>2, <1>4

\* The end, early or not: nothing is got hold of, and the result is written for
\* a subgraph that was woken.
LEMMA EndIsLawful ==
    ASSUME NEW b, NEW e, Lawful(e, b), Budgeted(e), NEW f, SameEvaluation(e, f),
           f.left \in {<<>>, e.left}, f.operations = e.operations, f.steps = e.steps, f.held = e.held,
           \A p \in f.wrote : p \in e.wrote \/ (e.entry = "woken" /\ p = e.result)
    PROVE  Lawful(f, b) /\ Budgeted(f)
<1>1. <<>> \in Seq(Nodes)
  OBVIOUS
<1>2. Lawful(f, b)
  BY <1>1 DEF Lawful, SameEvaluation
<1>3. \A n : Below(e, n) => Below(f, n)
  BY DEF Below, Budgeted
<1>4. Budgeted(f)
  BY <1>3 DEF Budgeted, SameEvaluation
<1> QED
  BY <1>2, <1>4

\* The innermost evaluation and those around it are sound.
LEMMA InnerIsGood ==
    ASSUME AuthorityIInv, running # <<>>
    PROVE  Good(Tail(running), bound) /\ Lawful(Inner, bound) /\ Budgeted(Inner)
BY GoodTail DEF AuthorityIInv, Inner

\* A failed evaluation has done no more than it had before.
LEMMA FailedIsGood ==
    ASSUME AuthorityIInv, running # <<>>
    PROVE  Good(Outer(Failed), bound)
<1>1. Good(Tail(running), bound) /\ Lawful(Inner, bound) /\ Budgeted(Inner)
  BY InnerIsGood
<1>2. /\ SameEvaluation(Inner, Failed) /\ Failed.left = <<>> /\ Failed.operations = Inner.operations
      /\ Failed.steps = Inner.steps /\ Failed.held = Inner.held /\ Failed.wrote = Inner.wrote
  BY <1>1 DEF Lawful, Failed, SameEvaluation, EvaluationFields
<1>3. Lawful(Failed, bound) /\ Budgeted(Failed)
  BY <1>1, <1>2, EndIsLawful
<1> QED
  BY <1>1, <1>3, GoodPush DEF Outer

\* A lookup gets hold of what the token may read, or fails.
LEMMA LookUpStep == ASSUME AuthorityIInv, LookUp PROVE Good(running', bound)
<1> DEFINE f == [Walked EXCEPT !.held = @ \cup {data[Node.path]}]
<1>1. /\ running # <<>> /\ Inner.left # <<>> /\ Inner.operations > 1 /\ Node.kind = "read"
      /\ Good(Tail(running), bound) /\ Lawful(Inner, bound) /\ Budgeted(Inner)
  BY InnerIsGood DEF LookUp, Facing
<1>2. CASE CanRead(Inner, Node.path) /\ data[Node.path] # None
  <2>1. running' = Outer(f)
    BY <1>2 DEF LookUp
  <2>2. /\ SameEvaluation(Inner, f) /\ f.left = Tail(Inner.left) /\ f.operations = Inner.operations - 1
        /\ f.steps = Inner.steps + 1 /\ f.held = Inner.held \cup {data[Node.path]}
        /\ f.wrote = Inner.wrote
    BY <1>1 DEF Lawful, Walked, SameEvaluation, EvaluationFields
  <2>3. Node.path \in DataPaths
    <3>1. Node \in Nodes
      BY <1>1 DEF Lawful, Node
    <3> QED
      BY <1>1, <3>1, InstallAssumption DEF Nodes
  <2>4. data[Node.path] \in Hashes /\ <<Node.path, data[Node.path]>> \in bound
    BY <1>2, <2>3 DEF AuthorityIInv, InstallIInv, Typed
  <2> HIDE DEF f
  <2>5. \A h \in f.held : h \in Inner.held \/ Gettable(Inner.token, h, bound)
    BY <1>2, <2>2, <2>3, <2>4 DEF CanRead, Gettable
  <2>6. \A q \in f.wrote : q \in Inner.wrote \/ (Inner.token # None => q \in MayPut[Inner.token])
    BY <2>2
  <2>7. Lawful(f, bound) /\ Budgeted(f)
    BY <1>1, <2>2, <2>5, <2>6, WalkIsLawful
  <2> QED
    BY <1>1, <2>1, <2>7, GoodPush DEF Outer
<1>3. CASE ~(CanRead(Inner, Node.path) /\ data[Node.path] # None)
  BY <1>1, <1>3, FailedIsGood DEF LookUp
<1> QED
  BY <1>2, <1>3

\* A hash is resolved if it was sealed or within reach, or fails.
LEMMA ResolveStep == ASSUME AuthorityIInv, Resolve PROVE Good(running', bound)
<1> DEFINE f == [Walked EXCEPT !.held = @ \cup {Node.hash}]
<1>1. /\ running # <<>> /\ Inner.left # <<>> /\ Inner.operations > 1 /\ Node.kind = "data"
      /\ Good(Tail(running), bound) /\ Lawful(Inner, bound) /\ Budgeted(Inner)
  BY InnerIsGood DEF Resolve, Facing
<1>2. CASE Node.hash # None /\ Admits(Inner, Node.hash)
  <2>1. running' = Outer(f)
    BY <1>2 DEF Resolve
  <2>2. /\ SameEvaluation(Inner, f) /\ f.left = Tail(Inner.left) /\ f.operations = Inner.operations - 1
        /\ f.steps = Inner.steps + 1 /\ f.held = Inner.held \cup {Node.hash}
        /\ f.wrote = Inner.wrote
    BY <1>1 DEF Lawful, Walked, SameEvaluation, EvaluationFields
  <2>3. Node.hash \in Hashes
    <3>1. Node \in Nodes
      BY <1>1 DEF Lawful, Node
    <3> QED
      BY <1>1, <1>2, <3>1, InstallAssumption DEF Nodes
  <2>4. Reachable(Inner.token, Node.hash, bound)
    BY <1>1, <1>2 DEF Lawful, Admits
  <2> HIDE DEF f
  <2>5. \A h \in f.held : h \in Inner.held \/ Gettable(Inner.token, h, bound)
    BY <2>2, <2>3, <2>4 DEF Reachable, Gettable
  <2>6. \A q \in f.wrote : q \in Inner.wrote \/ (Inner.token # None => q \in MayPut[Inner.token])
    BY <2>2
  <2>7. Lawful(f, bound) /\ Budgeted(f)
    BY <1>1, <2>2, <2>5, <2>6, WalkIsLawful
  <2> QED
    BY <1>1, <2>1, <2>7, GoodPush DEF Outer
<1>3. CASE ~(Node.hash # None /\ Admits(Inner, Node.hash))
  BY <1>1, <1>3, FailedIsGood DEF Resolve
<1> QED
  BY <1>2, <1>3

\* The result is written where the token may write, or not at all.
LEMMA WriteResultStep == ASSUME AuthorityIInv, WriteResult PROVE Good(running', bound)
<1> DEFINE wrote == IF Inner.entry = "woken" THEN Inner.wrote \cup {Inner.result} ELSE Inner.wrote
           f == [Inner EXCEPT !.done = TRUE,
                    !.wrote = IF Inner.entry = "woken" THEN @ \cup {Inner.result} ELSE @]
<1>1. /\ running # <<>> /\ running' = Outer(f)
      /\ Good(Tail(running), bound) /\ Lawful(Inner, bound) /\ Budgeted(Inner)
  BY InnerIsGood DEF WriteResult
<1>2. /\ SameEvaluation(Inner, f) /\ f.left = Inner.left /\ f.operations = Inner.operations
      /\ f.steps = Inner.steps /\ f.held = Inner.held /\ f.wrote = wrote
  BY <1>1 DEF Lawful, SameEvaluation, EvaluationFields
<1> HIDE DEF f
<1>3. Lawful(f, bound) /\ Budgeted(f)
  BY <1>1, <1>2, EndIsLawful
<1> QED
  BY <1>1, <1>3, GoodPush DEF Outer

\* A store wakes subgraphs, which are then evaluated inside it.
LEMMA StoreStep ==
    ASSUME AuthorityIInv, NEW p \in DataPaths, StoreAt(p)
    PROVE  AuthorityIInv'
<1> DEFINE f == [Walked EXCEPT !.wrote = @ \cup {p}]
<1>1. /\ running # <<>> /\ Inner.left # <<>> /\ Inner.operations > 1 /\ CanWrite(Inner, p)
      /\ Good(Tail(running), bound) /\ Lawful(Inner, bound) /\ Budgeted(Inner)
      /\ UNCHANGED <<expression, stored, installed, calls>>
  BY InnerIsGood DEF StoreAt, Facing
<1>2. PICK h \in Inner.held \cup {Computed} :
         /\ data' = [data EXCEPT ![p] = h] /\ bound' = bound \cup {<<p, h>>}
         /\ \/ running' = Outer(f)
            \/ \E r \in Roots : Wakes(r) /\ running' = <<Woken(r)>> \o Outer(f)
  BY DEF StoreAt
<1>3. h \in Hashes
  BY <1>1, <1>2, AuthorityAssumption DEF Lawful, Gettable
<1>4. Typed'
  BY <1>1, <1>2, <1>3 DEF AuthorityIInv, InstallIInv, Typed
<1>5. InstallIInv' /\ bound \subseteq bound'
  BY <1>1, <1>2, <1>4, NoCall DEF AuthorityIInv
<1>6. Good(Outer(f), bound)
  <2>1. /\ SameEvaluation(Inner, f) /\ f.left = Tail(Inner.left) /\ f.operations = Inner.operations - 1
        /\ f.steps = Inner.steps + 1 /\ f.held = Inner.held /\ f.wrote = Inner.wrote \cup {p}
    BY <1>1 DEF Lawful, Walked, SameEvaluation, EvaluationFields
  <2> HIDE DEF f
  <2>2. \A g \in f.held : g \in Inner.held \/ Gettable(Inner.token, g, bound)
    BY <2>1
  <2>3. \A q \in f.wrote : q \in Inner.wrote \/ (Inner.token # None => q \in MayPut[Inner.token])
    BY <1>1, <2>1 DEF CanWrite
  <2>4. Lawful(f, bound) /\ Budgeted(f)
    BY <1>1, <2>1, <2>2, <2>3, WalkIsLawful
  <2> QED
    BY <1>1, <2>4, GoodPush DEF Outer
<1> HIDE DEF f
<1>7. Good(running', bound)
  <2>1. CASE running' = Outer(f)
    BY <2>1, <1>6
  <2>2. ASSUME NEW r \in Roots, Wakes(r), running' = <<Woken(r)>> \o Outer(f)
        PROVE  Good(running', bound)
    BY <2>2, <1>6, WakesUp, GoodPush DEF AuthorityIInv
  <2> QED
    BY <1>2, <2>1, <2>2
<1> QED
  BY <1>5, <1>7, GoodStays DEF AuthorityIInv

--------------------------------------------------------------------------------
\* Every step keeps the invariant.
LEMMA AuthorityStep == AuthorityIInv /\ [AuthorityNext]_authorityVars => AuthorityIInv'
<1> SUFFICES ASSUME AuthorityIInv, [AuthorityNext]_authorityVars PROVE AuthorityIInv'
  OBVIOUS
<1>0. ASSUME UNCHANGED installVars, Good(running', bound) PROVE AuthorityIInv'
  <2>1. InstallIInv' /\ bound' = bound
    BY <1>0 DEF installVars, AuthorityIInv, InstallIInv, Typed, CallsSound, InstalledSound, IsInstalled
  <2> QED
    BY <1>0, <2>1 DEF AuthorityIInv
<1>1. CASE UNCHANGED authorityVars
  BY <1>0, <1>1 DEF authorityVars, installVars, AuthorityIInv
<1>2. CASE InstallNext /\ running' = IF relisted' # {} THEN <<>> ELSE running
  <2>1. InstallIInv' /\ bound \subseteq bound'
    BY <1>2, InstallStep DEF AuthorityIInv
  <2>2. Good(running', bound')
    BY <1>2, <2>1, GoodStays, GoodAlone DEF AuthorityIInv
  <2> QED
    BY <2>1, <2>2 DEF AuthorityIInv
<1>3. ASSUME NEW r \in Roots, NEW cap \in Tokens \cup {None}, NEW ask \in Asks, EvalRequest(r, cap, ask)
      PROVE  AuthorityIInv'
  <2> DEFINE e == Evaluation("request", r, None, cap, ask, RequestBudget(ask), {})
  <2>1. expression[r] \in Programs
    BY <1>3 DEF EvalRequest, AuthorityIInv, InstallIInv, Typed
  <2>2. Lawful(e, bound) /\ Budgeted(e)
    BY <2>1, Begins, Budgets
  <2>3. running' = <<e>> /\ UNCHANGED installVars
    BY <1>3 DEF EvalRequest, Enter
  <2> HIDE DEF e
  <2> QED
    BY <1>0, <2>2, <2>3, GoodAlone
<1>4. ASSUME NEW r \in Roots, NEW grant \in Tokens, DispatchNative(r, grant) PROVE AuthorityIInv'
  <2> DEFINE e == Evaluation("native", r, None, grant, None, DefaultBudget, {})
  <2>1. expression[r] \in Programs
    BY <1>4 DEF DispatchNative, AuthorityIInv, InstallIInv, Typed
  <2>2. Lawful(e, bound) /\ Budgeted(e)
    BY <2>1, Begins, Budgets
  <2>3. running' = <<e>> /\ UNCHANGED installVars
    BY <1>4 DEF DispatchNative, Enter
  <2> HIDE DEF e
  <2> QED
    BY <1>0, <2>2, <2>3, GoodAlone
<1>5. ASSUME NEW r \in Roots, WakeUp(r) PROVE AuthorityIInv'
  <2>1. Lawful(Woken(r), bound) /\ Budgeted(Woken(r))
    BY <1>5, WakesUp DEF WakeUp, AuthorityIInv
  <2>2. running' = <<Woken(r)>> /\ UNCHANGED installVars
    BY <1>5 DEF WakeUp, Enter
  <2> QED
    BY <1>0, <2>1, <2>2, GoodAlone
<1>6. CASE LookUp
  BY <1>0, <1>6, LookUpStep DEF LookUp
<1>7. CASE Resolve
  BY <1>0, <1>7, ResolveStep DEF Resolve
<1>8. CASE Apply
  BY <1>0, <1>8, FailedIsGood DEF Apply, Facing
<1>9. CASE Refused
  BY <1>0, <1>9, FailedIsGood DEF Refused, Facing
<1>10. CASE Exhausted
  BY <1>0, <1>10, FailedIsGood DEF Exhausted
<1>11. CASE WriteResult
  BY <1>0, <1>11, WriteResultStep DEF WriteResult
<1>12. CASE Leave
  BY <1>0, <1>12, InnerIsGood DEF Leave
<1>13. ASSUME NEW p \in DataPaths, StoreAt(p) PROVE AuthorityIInv'
  BY <1>13, StoreStep
<1>14. ASSUME NEW tok, Lapse(tok) PROVE AuthorityIInv'
  BY <1>0, <1>14 DEF Lapse, installVars, AuthorityIInv
<1> QED
  BY <1>1, <1>2, <1>3, <1>4, <1>5, <1>6, <1>7, <1>8, <1>9, <1>10, <1>11, <1>12, <1>13, <1>14
  DEF AuthorityNext

\* At first nothing runs.
LEMMA AuthorityInitially == AuthorityInit => AuthorityIInv
BY InstallInitially, GoodAlone DEF AuthorityInit, AuthorityIInv

\* The invariant holds in every reachable state.
LEMMA AuthorityInvariance == AuthoritySpec => []AuthorityIInv
BY AuthorityInitially, AuthorityStep, PTL DEF AuthoritySpec

\* What phases 1 to 2b found of a request is true of what it installed, for any
\* number of installs at once and whatever is rebound between two phases.
THEOREM InstallationsAreAuthorized == AuthoritySpec => []InstalledIsAuthorized
<1>1. AuthorityIInv => InstalledIsAuthorized
  BY DEF AuthorityIInv, InstallIInv, InstalledSound, Authorized, HandedDown, Reachable,
         InstalledIsAuthorized
<1> QED
  BY <1>1, AuthorityInvariance, PTL

\* Through any door, and however deep inside other evaluations, an evaluation
\* gets hold of and writes what its token lets it.
THEOREM AuthorityIsNeverExceeded == AuthoritySpec => []NothingBeyondItsToken
<1>1. AuthorityIInv => NothingBeyondItsToken
  <2> SUFFICES ASSUME AuthorityIInv, NEW i \in DOMAIN running
               PROVE  /\ running[i].held \subseteq WithinReach(running[i].token)
                      /\ running[i].token # None => running[i].wrote \subseteq MayPut[running[i].token]
    BY DEF NothingBeyondItsToken
  <2>1. Lawful(running[i], bound)
    BY DEF AuthorityIInv, Good
  <2> QED
    BY <2>1 DEF Lawful, WithinReach, Gettable
<1> QED
  BY <1>1, AuthorityInvariance, PTL

\* The budget an evaluation starts with is below each of its ceilings, and every
\* step it takes is one it no longer has.
THEOREM CeilingsAlwaysHold == AuthoritySpec => []CeilingsHold
<1>1. AuthorityIInv => CeilingsHold
  <2> SUFFICES ASSUME AuthorityIInv, NEW i \in DOMAIN running
               PROVE  /\ Within(running[i], DefaultBudget)
                      /\ running[i].ask # None => Within(running[i], running[i].ask)
                      /\ running[i].entry = "woken" =>
                           \A k \in DOMAIN Ceilings[running[i].token] :
                              Ceilings[running[i].token][k] # None =>
                                 Within(running[i], Ceilings[running[i].token][k])
    BY DEF CeilingsHold
  <2>1. Budgeted(running[i])
    BY DEF AuthorityIInv, Good
  <2>2. \A n : Below(running[i], n) => Within(running[i], n)
    BY <2>1 DEF Budgeted, Below, Within
  <2> QED
    BY <2>1, <2>2 DEF Budgeted
<1> QED
  BY <1>1, AuthorityInvariance, PTL
================================================================================
