------------------------------ MODULE Installation -----------------------------
(***************************************************************************)
(* A composition host installs its extensions into a peer before the peer  *)
(* listens: for each one the manifest, the interface, a grant signed by    *)
(* the peer, the type entities, the handler's body and, for extensions     *)
(* that follow tree changes, the consumer; compute hands the peer an       *)
(* expression evaluator.  The process may end at any point and be started  *)
(* again over the tree it left, or over a tree restored from elsewhere.    *)
(***************************************************************************)
EXTENDS Naturals, Sequences, FiniteSets, SequencesExt

CONSTANTS
    Plans,        \* install orders
    TypesOf,      \* of an extension: the types it publishes
    MaxProcesses, \* bound: starts of the host
    Nobody        \* no evaluator

Listeners == {"history", "compute"}
Seams == {"none", "stores", "swallows", "private"}

ASSUME InstallationAssumption ==
    /\ IsFiniteSet(DOMAIN TypesOf) /\ \A e \in DOMAIN TypesOf : IsFiniteSet(TypesOf[e])
    /\ "type" \notin DOMAIN TypesOf   \* the tag of the slots for types
    /\ Plans \subseteq UNION {[1 .. n -> DOMAIN TypesOf] : n \in 1 .. Cardinality(DOMAIN TypesOf)}
    /\ \A plan \in Plans : IsInjective(plan)
    /\ MaxProcesses \in Nat

Extensions == DOMAIN TypesOf
Types == UNION {TypesOf[e] : e \in Extensions}
\* Entities that are the same whenever they are written.
Slots == (Extensions \X {"manifest", "interface"}) \cup ({"type"} \X Types) \cup {<<"history", "policy">>}

VARIABLES
    order,      \* PLAN.json: install_order of this composition
    written,    \* slots the tree holds
    granted,    \* the process that wrote an extension's grant; 0: nobody
    signed,     \* processes whose grant has its signature in the tree
    handlers,   \* peer.handlers
    consumers,  \* registered tree consumers
    evaluator,  \* what the peer evaluates entity-native bodies with
    seam,       \* how the peer takes an evaluator
    face,       \* evaluator_face, as reported
    process,    \* starts so far
    steps,      \* what this process has still to do
    trail,      \* writes of this process's installers that were recorded
    ran         \* how the last entity-native body was run

hostVars == <<order, written, granted, signed, handlers, consumers, evaluator, seam, face,
              process, steps, trail, ran>>

Step(op, e, what) == [op |-> op, ext |-> e, what |-> what]
Publication(e) == [i \in 1 .. Cardinality(TypesOf[e]) |->
                  Step("bind", "type", SetToSeq(TypesOf[e])[i])]
Writes(e) == <<Step("bind", e, "manifest"), Step("bind", e, "interface"),
               Step("grant", e, ""), Step("sign", e, "")>>
Faces(e) == IF e = "compute" THEN <<Step("evaluator", e, "")>> ELSE <<>>
Consumer(e) == IF e \in Listeners THEN <<Step("consumer", e, "")>> ELSE <<>>
Body(e) == <<Step("handler", e, "")>>

ConsumerFirst(e) == Consumer(e) \o Writes(e) \o Publication(e) \o Body(e) \o Faces(e)
BodyBeforeTypes(e) == Writes(e) \o Body(e) \o Publication(e) \o Faces(e) \o Consumer(e)

\* install_content, install_history, install_compute.
Install(e) == Writes(e) \o Publication(e) \o Body(e) \o Faces(e) \o Consumer(e)

\* The steps for the first i extensions of the plan, for each i.
InstallUpTo(plan) ==
    LET upTo[i \in 0 .. Len(plan)] == IF i = 0 THEN <<>> ELSE upTo[i - 1] \o Install(plan[i])
    IN  upTo

\* configure: the extensions in the plan's order, then the history policy.
Configure(plan) ==
    InstallUpTo(plan)[Len(plan)]
    \o IF Contains(plan, "history") THEN <<Step("bind", "history", "policy")>> ELSE <<>>

InstallationInit ==
    /\ order \in Plans
    /\ written \in {{}, Slots}
    /\ granted = [e \in Extensions |-> 0]
    /\ signed = {}
    /\ handlers = {} /\ consumers = {}
    /\ seam \in Seams /\ evaluator = Nobody /\ face = "unknown"
    /\ process = 1
    /\ steps = Configure(order)
    /\ trail = {}
    /\ ran = "nothing"

--------------------------------------------------------------------------------
Performing(op) == steps # <<>> /\ Head(steps).op = op /\ steps' = Tail(steps)

\* Consumers hear of a change once it is in the tree; the recorder records what
\* its configuration, the policy, covers: everything.
Recorded(s) ==
    trail' = IF "history" \in consumers /\ <<"history", "policy">> \in written'
             THEN trail \cup {s} ELSE trail

\* Store.bind: an entity that is there already is not a change.
Bind(s) ==
    /\ Performing("bind") /\ s = <<Head(steps).ext, Head(steps).what>>
    /\ written' = written \cup {s}
    /\ IF s \in written THEN UNCHANGED trail ELSE Recorded(s)
    /\ UNCHANGED <<order, granted, signed, handlers, consumers, evaluator, seam, face, process, ran>>

\* mint_token: every grant is a new one, at the old path.
Grant(e) ==
    /\ Performing("grant") /\ e = Head(steps).ext
    /\ granted' = [granted EXCEPT ![e] = process]
    /\ UNCHANGED written /\ Recorded(<<e, "grant">>)
    /\ UNCHANGED <<order, signed, handlers, consumers, evaluator, seam, face, process, ran>>

\* Its signature goes to a path of its own.
Sign(e) ==
    /\ Performing("sign") /\ e = Head(steps).ext
    /\ signed' = signed \cup {<<e, process>>}
    /\ UNCHANGED written /\ Recorded(<<e, "signature">>)
    /\ UNCHANGED <<order, granted, handlers, consumers, evaluator, seam, face, process, ran>>

SetBody(e) ==
    /\ Performing("handler") /\ e = Head(steps).ext
    /\ handlers' = handlers \cup {e}
    /\ UNCHANGED <<order, written, granted, signed, consumers, evaluator, seam, face, process, trail, ran>>

\* _install_evaluator: set, then read back where the peer lets it.
InstallEvaluator ==
    /\ Performing("evaluator")
    /\ evaluator' = IF seam \in {"stores", "private"} THEN "compute" ELSE evaluator
    /\ face' = CASE seam = "none" -> "not-installable"
                 [] seam = "private" -> "unverifiable"
                 [] OTHER -> IF evaluator' = "compute" THEN "installed" ELSE "not-observed"
    /\ UNCHANGED <<order, written, granted, signed, handlers, consumers, seam, process, trail, ran>>

Listen(e) ==
    /\ Performing("consumer") /\ e = Head(steps).ext
    /\ consumers' = consumers \cup {e}
    /\ UNCHANGED <<order, written, granted, signed, handlers, evaluator, seam, face, process, trail, ran>>

\* Once the peer listens, an entity-native body is dispatched: a compute
\* expression or something else, of a handler with or without a grant, reading
\* a path that the grant covers or not.  The evaluator declines what is no
\* expression and runs the rest under the handler's grant alone.
EvaluateExpression(expression, grant, covered) ==
    /\ steps = <<>>
    /\ ran' = IF evaluator = Nobody \/ ~expression THEN "unsupported"
              ELSE IF ~grant THEN "refused"
              ELSE IF covered THEN "read" ELSE "denied"
    /\ UNCHANGED <<order, written, granted, signed, handlers, consumers, evaluator, seam, face,
                   process, steps, trail>>

\* The process ends and the host starts again over the same tree.
StartAgain ==
    /\ process < MaxProcesses
    /\ process' = process + 1
    /\ steps' = Configure(order)
    /\ handlers' = {} /\ consumers' = {} /\ evaluator' = Nobody /\ face' = "unknown"
    /\ trail' = {} /\ ran' = "nothing"
    /\ UNCHANGED <<order, written, granted, signed, seam>>

InstallationNext ==
    \/ \E s \in Slots : Bind(s)
    \/ \E e \in Extensions : Grant(e) \/ Sign(e) \/ SetBody(e) \/ Listen(e)
    \/ InstallEvaluator
    \/ \E expression, grant, covered \in BOOLEAN : EvaluateExpression(expression, grant, covered)
    \/ StartAgain

InstallationSpec == InstallationInit /\ [][InstallationNext]_hostVars

--------------------------------------------------------------------------------
\* What the hosts write for history itself, its handler, grants and types, is not in
\* the audit log, whatever the tree held when the host started and however often;
\* only its policy may be.  Of other extensions' installations nothing is said.
AuditStartsEmpty ==
    \A s \in trail \ {<<"history", "policy">>} :
        s[1] # "history" /\ s \notin {"type"} \X TypesOf["history"]

\* What dispatch can reach is completely installed.  Of a native body the
\* manifest and interface are there, its types are published, and the grant in
\* the tree is this process's, with its signature.  Of the evaluator the face
\* the installation reports is what dispatch then meets: behind installed or
\* unverifiable there is one, and behind not-installable or not-observed no
\* expression is ever evaluated.
ReachableIsWhole ==
    /\ \A e \in handlers :
          /\ {<<e, "manifest">>, <<e, "interface">>} \cup ({"type"} \X TypesOf[e]) \subseteq written
          /\ granted[e] = process /\ <<e, process>> \in signed
    /\ face \in {"installed", "unverifiable"} => evaluator = "compute"
    /\ face \in {"not-installable", "not-observed"} => ran \in {"nothing", "unsupported"}
================================================================================
