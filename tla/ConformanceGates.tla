---------------------------- MODULE ConformanceGates ---------------------------
(***************************************************************************)
(* Both gates over one corpus of reports, through re-pins of the oracle,   *)
(* development, interrupted and repeated runs.  Two history variables say  *)
(* of which oracle and which peer the pasted blocks speak.                 *)
(***************************************************************************)
EXTENDS BaselineGate, CoverageGate

CONSTANT Tables   \* specification inventories: records [ids, rows]

VARIABLES
    blessedAt,    \* per stem, the runs its baseline was measured from
    keyedAt       \* the runs the obligation map was read from

gateVars == <<reportVars, baseline, obligation, blessedAt, keyedAt>>

\* The oracle and peer of every report of a stem on disk.
RanWith(s) == {r.of : r \in ToSet(reports[s]["bare"]) \cup ToSet(reports[s]["composed"])}

GatesInit ==
    /\ ReportsInit /\ BaselineInit /\ CoverageInit
    /\ blessedAt = [s \in Stems |-> {}]
    /\ keyedAt = {}

BlessBaseline ==
    /\ Bless
    /\ blessedAt' = [s \in Stems |-> RanWith(s)]
    /\ UNCHANGED <<reportVars, obligation, keyedAt>>

BlessMap ==
    /\ BlessObligations
    /\ keyedAt' = UNION {RanWith(s) : s \in Stems}
    /\ UNCHANGED <<reportVars, baseline, blessedAt>>

GatesNext ==
    \/ ReportsNext /\ UNCHANGED <<baseline, obligation, blessedAt, keyedAt>>
    \/ BlessBaseline
    \/ BlessMap

GatesSpec == GatesInit /\ [][GatesNext]_gateVars

--------------------------------------------------------------------------------
(***************************************************************************)
(* Properties.                                                             *)
(***************************************************************************)
Steady(x) == x \notin Noisy

\* Under oracle and peer w, assertion x passes better than on the bare peer.
Improves(w, x) ==
    /\ x \in DOMAIN w[1] /\ {Bare[x], w[2][x]} \subseteq Severities
    /\ Bare[x] # "PASS" /\ w[2][x] # Bare[x]

\* A stem whose reports were made by one oracle and one peer, and a baseline
\* made so: the one pair each.
OneEach(s) == baseline[s] # NoBaseline /\ Cardinality(blessedAt[s]) = 1 /\ Cardinality(RanWith(s)) = 1
Before(s) == CHOOSE w \in blessedAt[s] : TRUE
Now(s) == CHOOSE w \in RanWith(s) : TRUE

\* No other assertion has the name now that x had when the baseline was made.
NameNotReused(s, x) ==
    \A y \in DOMAIN Now(s)[1] : Now(s)[1][y] = Before(s)[1][x] => y = x

\* A clean verdict over a stem, of either tool.
Green(s) ==
    \/ Measured(s) /\ ExpectationCode = 0
    \/ ~DiffRefuses(s) /\ ~DiffFails(s)

\* What the bare peer passes and the composed one does not.
Broken(s) ==
    {x \in InStem[s] \cap DOMAIN Now(s)[1] :
        /\ Steady(x) /\ Now(s)[1][x] \notin Straddles
        /\ Bare[x] = "PASS" /\ Now(s)[2][x] # "PASS"}

NothingIsBroken ==
    \A s \in Stems : Green(s) /\ Cardinality(RanWith(s)) = 1 => Broken(s) = {}

\* As long as the oracle gives the check's name to no other assertion: a name
\* that stays is not compared with the obligation it was blessed for.
NothingIsForgotten ==
    ExpectationCode = 0 =>
        \A s \in Stems : Measured(s) /\ OneEach(s) =>
            \A x \in InStem[s] :
                /\ Steady(x) /\ Improves(Before(s), x)
                /\ Before(s)[1][x] \notin Straddles /\ NameNotReused(s, x)
                => Improves(Now(s), x)

\* AP-18: however the oracle renames, drops and adds checks, nothing that the
\* composition breaks is under a clean verdict of diff-arms or of the
\* expectation gate, and no capability that the baseline remembers is lost
\* under a clean verdict of the expectation gate.
LossIsNeverGreen == driver = Idle => NothingIsBroken /\ NothingIsForgotten

\* An oracle that only renames: the same assertions, in the same number, and no
\* name that passes to another obligation.
OnlyRenamed(s) ==
    /\ OneEach(s) /\ Before(s)[2] = Now(s)[2] /\ DOMAIN Before(s)[1] = DOMAIN Now(s)[1]
    /\ \A x, y \in DOMAIN Now(s)[1] : Before(s)[1][x] = Now(s)[1][y] => Ref[x] = Ref[y]

\* A rename is not a loss, in either gate: not of a capability, and not of the
\* measurement a requirement counts on, as long as the check stays in its category.
RenameIsNoLoss ==
    /\ \A s \in Stems :
          /\ Measured(s) /\ OnlyRenamed(s)
          /\ \A x \in InStem[s] : Steady(x)
          /\ \A b \in {Before(s)[1], Now(s)[1]} : \A x \in DOMAIN b : b[x] \notin Straddles
          => Evaluate(s, baseline[s]).lost = {} /\ Evaluate(s, baseline[s]).gained = {}
    /\ \A t \in Tables : \A s \in Stems :
          /\ keyedAt = blessedAt[s] /\ Measured(s) /\ OnlyRenamed(s)
          => \A x \in InStem[s] \cap DOMAIN Before(s)[1] :
                CategoryOf[Before(s)[1][x]] = CategoryOf[Now(s)[1][x]]
                => Before(s)[1][x] \notin MeasurementLost(t)

\* Nor does a join hide a loss: an assertion that was improved, and whose
\* obligation no other shares, is named as lost once it fails or is gone.
LonelyLossIsNamed ==
    \A s \in Stems : Measured(s) /\ OneEach(s) =>
        \A x \in InStem[s] :
            /\ Steady(x) /\ Improves(Before(s), x) /\ ~Improves(Now(s), x)
            /\ \A y \in Assertions : Ref[y] = Ref[x] => y = x
            /\ Before(s)[1][x] \notin Straddles
            /\ NameNotReused(s, x)
            => Before(s)[1][x] \in Evaluate(s, baseline[s]).lost

\* Neither is taken for the other, whatever the oracle names its checks: the
\* rename join of check-expectation.py and rule 3 of req-coverage.py.
RenamesAndLossesToldApart == driver = Idle => RenameIsNoLoss /\ LonelyLossIsNamed

\* "check(s) RENAMED by the oracle, NOT lost ... The obligation is unchanged
\* and the composition still satisfies it."
RenamedChecksAreGone ==
    driver = Idle => \A s \in Stems : Measured(s) /\ baseline[s] # NoBaseline =>
        \A p \in Evaluate(s, baseline[s]).renamed : p[1] \notin ChecksOf(reports[s]["composed"])

\* A green coverage verdict: every requirement the specification binds the
\* extension to is measured by checks that ran and still mean what they meant
\* when they were pinned, or somebody has said that it is not.
GreenCoversTheSpec ==
    driver = Idle => \A t \in Tables : CoverageCode(t) = 0 =>
        \A i \in DOMAIN t.rows :
            \/ t.rows[i].level \notin Binding
            \/ \E j \in DOMAIN Contract :
                  /\ Contract[j].text = t.rows[i].text /\ (t.ids => i = j)
                  /\ \A n \in Contract[j].oracle :
                        n \in Executed /\ Obligations(n) = {obligation[n]}
                  /\ Contract[j].oracle # {} \/ Contract[j].ours \/ Contract[j].note
================================================================================
