------------------------------- MODULE ExtChecks -------------------------------
(***************************************************************************)
(* `make ext-checks`: the checks authored for the extensions, run against  *)
(* every target that has an arm, once with the extensions composed and     *)
(* once without.  The make validates the corpus and emits it; it launches  *)
(* a host for each target and arm and points that target's client at it;   *)
(* the client writes a report; and the comparer reads the report files     *)
(* that are there and applies the arm rule: composed passes, bare does     *)
(* not.  A file of an earlier make is there until a client writes it anew. *)
(***************************************************************************)
EXTENDS Naturals, Sequences, FiniteSets

CONSTANTS
    Order,          \* the targets that have an arm, in the Makefile's order
    Compositions,   \* values of EXTCHECK_COMP
    Faces,          \* what a check can drive
    Corpora,        \* sets of check definitions the tree can hold
    Manners(_),     \* ways a host can answer a check
    Ordinary(_, _), \* how the host of an arm answers a check at first
    NoReport,       \* no report file
    MinChecks,      \* schema.MIN_CHECKS, and compare's --min-checks
    MaxMakes, MaxEdits,
    MaxMishaps       \* launches of one make whose client dies or finds no host

(* A check is [id, worded, steps, asserts, face]: worded says that its      *)
(* fields, verbs, types and declared arms pass the vocabulary rules; a step *)
(* is "connect" or the name its response is captured under; an assertion is *)
(* [capture, claim].  How a host answers a check is [dials, done, holds]:   *)
(* it can be dialled, so many steps succeed, those assertions hold of what  *)
(* it answers.                                                              *)
Checks == UNION Corpora
BothArms == {"composed", "bare"}
ArmTargets == {Order[i] : i \in 1 .. Len(Order)}

ASSUME DistinctIds ==
    \A c \in Corpora : \A j, k \in c : j.id = k.id => j = k
ASSUME SomeMinimum == MinChecks \in Nat \ {0}
ASSUME TypedArms ==
    /\ Order \in Seq(ArmTargets)
    /\ \A k \in Checks :
          /\ k.face \in Faces /\ Len(k.steps) \in Nat
          /\ \A m \in Manners(k) \cup {Ordinary(a, k) : a \in Compositions \cup {"bare"}} :
                m.done \in 0 .. Len(k.steps)

VARIABLES
    corpus,     \* extension-contracts/*/checks/*.toml
    declared,   \* [system.faces] of each target's composition
    host,       \* how each target's hosts answer
    files,      \* output/ext-checks/<target>-<arm>.cbor
    comp,       \* the composition of the make
    queue,      \* launches still to come
    phase,      \* "idle", "running", or "hung": a client that never returns
    dead,       \* launches of the make whose client wrote nothing
    unreached,  \* launches of the make whose client could not dial the host
    answer,     \* of the last make: "none", "ok", "failing", "refused", ...
    makes, edits

tree == <<corpus, declared, host>>
checkVars == <<corpus, declared, host, files, comp, queue, phase, dead,
               unreached, answer, makes, edits>>

--------------------------------------------------------------------------------
(* The corpus. *)

Captures(k) == {k.steps[i] : i \in 2 .. Len(k.steps)}

Valid(k) ==
    /\ k.worded
    /\ k.steps # <<>> /\ k.steps[1] = "connect"
    /\ k.asserts # {}
    /\ \A a \in k.asserts : a.capture \in Captures(k)

Emitted == (\A k \in corpus : Valid(k)) /\ Cardinality(corpus) >= MinChecks

--------------------------------------------------------------------------------
(* One check on one arm: the steps until one fails, then every assertion. *)

Passes(a, k, m) ==
    /\ \E i \in 2 .. m.done : k.steps[i] = a.capture
    /\ a \in m.holds

\* Mutant: a step that failed behind the last assertion goes unnoticed.
AssertionsDecide(k, m) ==
    IF m.dials /\ \A a \in k.asserts : Passes(a, k, m) THEN "pass" ELSE "fail"

Verdict(k, m) ==
    IF ~m.dials THEN "error"
    ELSE IF \E a \in k.asserts : ~Passes(a, k, m) THEN "fail"
    ELSE IF m.done < Len(k.steps) THEN "error" ELSE "pass"

Unreachable == [dials |-> FALSE, done |-> 0, holds |-> {}]

Answers(l) == host[l.target][IF l.arm = "bare" THEN "bare" ELSE comp]

Report(l, reached) ==
    [composition |-> comp,
     verdicts |-> [k \in corpus |->
        Verdict(k, IF reached THEN Answers(l)[k] ELSE Unreachable)]]

--------------------------------------------------------------------------------
(* The comparer. *)

FaceState(t, c, k) == declared[t][c][k.face]

Decide(composed, bare, face) ==
    IF face = "not-installable"
    THEN IF composed = "pass" THEN "contradiction" ELSE "not-applicable"
    ELSE IF composed # "pass" THEN "failed"
    ELSE IF bare # "pass" THEN "admitted" ELSE "vacuous"

Loaded == {l \in [target : ArmTargets, arm : BothArms] : files[l.target][l.arm] # NoReport}
Reported == {l.target : l \in Loaded}
MissingArms == ArmTargets \ Reported

Pairs == {<<l.target, files[l.target][l.arm].composition>> : l \in Loaded}
Ran(p, arm) ==
    /\ files[p[1]][arm] # NoReport
    /\ files[p[1]][arm].composition = p[2]
VerdictsOf(p, arm) == files[p[1]][arm].verdicts

\* Checks the report holds and the tree no longer does have no face to ask for.
PairRefused(p) ==
    \/ \E arm \in BothArms : ~Ran(p, arm)
    \/ LET c == DOMAIN VerdictsOf(p, "composed") IN
       \/ c # DOMAIN VerdictsOf(p, "bare")
       \/ Cardinality(c) < MinChecks
       \/ \E k \in c \cap corpus : FaceState(p[1], p[2], k) = "undeclared"

Decided(p, k) ==
    Decide(VerdictsOf(p, "composed")[k], VerdictsOf(p, "bare")[k],
           IF k \in corpus THEN FaceState(p[1], p[2], k) ELSE "undeclared")

\* A pattern of the recipe that matches no file is passed on as it stands.
Unmatched == \E arm \in BothArms : \A l \in Loaded : l.arm # arm

Answer ==
    IF Unmatched THEN "crashed"
    ELSE IF MissingArms # {} \/ \E p \in Pairs : PairRefused(p) THEN "refused"
    ELSE IF \E p \in Pairs : \E k \in DOMAIN VerdictsOf(p, "composed") :
                Decided(p, k) \notin {"admitted", "not-applicable"}
    THEN "failing" ELSE "ok"

--------------------------------------------------------------------------------
(* The recipe. *)

Launches ==
    [i \in 1 .. 2 * Len(Order) |->
        [target |-> Order[(i + 1) \div 2],
         arm |-> IF i % 2 = 1 THEN "composed" ELSE "bare"]]

CheckInit ==
    /\ corpus \in {c \in Corpora : \A k \in c : Valid(k)}
    /\ declared = [t \in ArmTargets |-> [c \in Compositions |->
                      [f \in Faces |-> "installed"]]]
    /\ host = [t \in ArmTargets |-> [a \in Compositions \cup {"bare"} |->
                  [k \in Checks |-> Ordinary(a, k)]]]
    /\ files = [t \in ArmTargets |-> [arm \in BothArms |-> NoReport]]
    /\ comp = CHOOSE c \in Compositions : TRUE
    /\ queue = <<>> /\ phase = "idle" /\ dead = {} /\ unreached = {}
    /\ answer = "none" /\ makes = 0 /\ edits = 0

Make(c) ==
    /\ phase = "idle" /\ makes < MaxMakes
    /\ makes' = makes + 1 /\ comp' = c
    /\ dead' = {} /\ unreached' = {}
    /\ IF Emitted
       THEN phase' = "running" /\ queue' = Launches /\ answer' = "none"
       ELSE answer' = "refused" /\ UNCHANGED <<phase, queue>>
    /\ UNCHANGED <<corpus, declared, host, files, edits>>

Launching == phase = "running" /\ queue # <<>>
Mishap == Cardinality(dead) + Cardinality(unreached) < MaxMishaps

ClientReports ==
    /\ Launching
    /\ \E reached \in BOOLEAN :
          LET l == Head(queue) IN
          /\ ~reached => Mishap
          /\ files' = [files EXCEPT ![l.target][l.arm] = Report(l, reached)]
          /\ unreached' = IF reached THEN unreached ELSE unreached \cup {l}
    /\ queue' = Tail(queue)
    /\ UNCHANGED <<corpus, declared, host, comp, phase, dead, answer, makes, edits>>

\* `"$CLIENT" "$@" || true`: the launch succeeds whatever its client does.
ClientDies ==
    /\ Launching /\ Mishap
    /\ dead' = dead \cup {Head(queue)} /\ queue' = Tail(queue)
    /\ UNCHANGED <<corpus, declared, host, files, comp, phase, unreached, answer,
                   makes, edits>>

Stop ==
    /\ phase' = "idle" /\ queue' = <<>> /\ answer' = "stopped"
    /\ UNCHANGED <<corpus, declared, host, files, comp, dead, unreached, makes, edits>>

\* The host exits before LISTENING, or prints no COMPOSED line.
BootFails == Launching /\ Stop

ClientHangs ==
    /\ Launching
    /\ phase' = "hung"
    /\ UNCHANGED <<corpus, declared, host, files, comp, queue, dead, unreached,
                   answer, makes, edits>>

\* Mutant: host-launch on its own.
NeverTimesOut == FALSE

\* podman's --timeout kills the container, and the recipe's loop exits.
TimesOut == phase = "hung" /\ Stop

Compare ==
    /\ phase = "running" /\ queue = <<>>
    /\ phase' = "idle" /\ answer' = Answer
    /\ UNCHANGED <<corpus, declared, host, files, comp, queue, dead, unreached,
                   makes, edits>>

--------------------------------------------------------------------------------
(* The tree and the peers change between two makes. *)

BetweenMakes ==
    /\ phase = "idle" /\ edits < MaxEdits
    /\ edits' = edits + 1 /\ answer' = "none"
    /\ UNCHANGED <<files, comp, queue, phase, dead, unreached, makes>>

Author ==
    /\ BetweenMakes
    /\ corpus' \in Corpora
    /\ UNCHANGED <<declared, host>>

Declare ==
    /\ BetweenMakes
    /\ \E t \in ArmTargets, c \in Compositions, f \in Faces,
          s \in {"undeclared", "installed", "not-installable"} :
          declared' = [declared EXCEPT ![t][c][f] = s]
    /\ UNCHANGED <<corpus, host>>

ChangeHost ==
    /\ BetweenMakes
    /\ \E t \in ArmTargets, a \in Compositions \cup {"bare"}, k \in corpus :
          \E m \in Manners(k) : host' = [host EXCEPT ![t][a][k] = m]
    /\ UNCHANGED <<corpus, declared>>

CheckNext ==
    \/ \E c \in Compositions : Make(c)
    \/ ClientReports \/ ClientDies \/ BootFails \/ ClientHangs \/ TimesOut \/ Compare
    \/ Author \/ Declare \/ ChangeHost

(* A launch ends or hangs, a hung one is killed by podman, and the comparer *)
(* reads files that are all there.                                          *)
CheckFairness ==
    /\ WF_checkVars(ClientReports \/ ClientDies \/ BootFails \/ ClientHangs)
    /\ WF_checkVars(TimesOut)
    /\ WF_checkVars(Compare)

CheckSpec == CheckInit /\ [][CheckNext]_checkVars /\ CheckFairness

--------------------------------------------------------------------------------

Satisfies(m, k) == m.dials /\ m.done = Len(k.steps) /\ k.asserts \subseteq m.holds

(* An OK of a make in which every client could be heard is earned: on every *)
(* target, of every check in the tree, the composed host answers each step  *)
(* and satisfies each assertion, and the bare host does not; and a face the *)
(* composition declares impossible is one the composed host does not have.  *)
(* compare.py's decide over run_check's verdicts.                           *)
GreenIsEarned ==
    (answer = "ok" /\ dead = {} /\ unreached = {}) =>
        \A t \in ArmTargets : \A k \in corpus :
            IF FaceState(t, comp, k) = "not-installable"
            THEN ~Satisfies(host[t][comp][k], k)
            ELSE /\ FaceState(t, comp, k) = "installed"
                 /\ Satisfies(host[t][comp][k], k)
                 /\ ~Satisfies(host[t]["bare"][k], k)

(* "An arm that died is not an arm that passed": an OK is over the arms of  *)
(* this make.  compare.py says so of --expect-arms; what it checks is that  *)
(* a file of the target exists.                                             *)
DeadArmsAreRefused == answer = "ok" => dead = {}

(* A make ends, also when a client never returns: host-launch has no bound  *)
(* of its own and podman's --timeout is the one there is.                   *)
MeasurementEnds == phase # "idle" ~> phase = "idle"

================================================================================
