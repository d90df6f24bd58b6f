------------------------------ MODULE BaselineGate -----------------------------
(***************************************************************************)
(* tools/check-expectation.py and tools/diff-arms.py: the two arms of a    *)
(* stem are measured against one another, and the measurement against the  *)
(* baseline that --bless wrote into SYSTEM.toml.  The tools only read; the *)
(* one step is the pasting of what --bless prints.                         *)
(***************************************************************************)
EXTENDS ConformanceReports

CONSTANTS
    Straddles,   \* checks declared in [[gate.straddle]]
    Explained,   \* whether authors write why_nothing_moved where it is asked for
    NoBaseline   \* no baseline for a stem

VARIABLES
    baseline     \* [gate.baseline.<stem>] of SYSTEM.toml

--------------------------------------------------------------------------------
(***************************************************************************)
(* diff-arms.                                                              *)
(***************************************************************************)
\* collect: what a check reported, round by round.
ChecksOf(rounds) == UNION {DOMAIN rounds[i].sev : i \in DOMAIN rounds}
Values(rounds, n) ==
    [i \in DOMAIN rounds |-> IF n \in DOMAIN rounds[i].sev THEN rounds[i].sev[n] ELSE Absent]

Moved == "moved"
\* The one severity reported in every round.
Stable(v) == IF \A i \in DOMAIN v : v[i] = v[1] THEN v[1] ELSE Moved

\* provenance: rounds whose stamps decrease are not one run's.
NotOneRun(rounds) ==
    \E i \in 2 .. Len(rounds) : rounds[i].stamp < rounds[i - 1].stamp

\* load refuses a report that holds no check at all.
Unreadable(rounds) == \E i \in DOMAIN rounds : rounds[i].sev = <<>>

BetterThanBare(b, c) == Stable(b) # Moved /\ Stable(c) # Moved /\ Stable(b) # Stable(c)

DiffArms(s) ==
    LET bare == reports[s]["bare"]
        composed == reports[s]["composed"]
        both == ChecksOf(bare) \cap ChecksOf(composed)
        moves == {n \in both : BetterThanBare(Values(bare, n), Values(composed, n))}
        worse == {n \in moves : Values(bare, n)[1] = "PASS"}
    IN  [regressions |-> worse \ Straddles,
         lost |-> ChecksOf(bare) \ ChecksOf(composed)]

DiffRefuses(s) ==
    LET bare == reports[s]["bare"]
        composed == reports[s]["composed"]
    IN  \/ bare = <<>> \/ Len(bare) # Len(composed)
        \/ NotOneRun(bare) \/ NotOneRun(composed)
        \/ Unreadable(bare) \/ Unreadable(composed)

DiffFails(s) == DiffArms(s).regressions # {} \/ DiffArms(s).lost # {}

--------------------------------------------------------------------------------
(***************************************************************************)
(* check-expectation: measuring one stem.                                  *)
(***************************************************************************)
Tally(rounds, names) ==
    [v \in Severities \cup {Absent} |-> Cardinality({n \in names : Values(rounds, n)[1] = v})]

\* A declared straddle belongs to neither arm.
Measure(s) ==
    LET bare == reports[s]["bare"]
        composed == reports[s]["composed"]
        inBare == ChecksOf(bare) \ Straddles
        inComposed == ChecksOf(composed) \ Straddles
        moves == {n \in inBare \cap inComposed :
                    BetterThanBare(Values(bare, n), Values(composed, n))}
        worse == {n \in moves : Values(bare, n)[1] = "PASS"}
    IN  [total |-> Cardinality(inComposed),
         composed |-> Tally(composed, inComposed), bare |-> Tally(bare, inBare),
         improved |-> moves \ worse, regressed |-> worse,
         bare_only |-> inBare \ inComposed]

\* requirement_keys, of the composed arm: a later round overrides.
KeyOf(s) ==
    LET rounds == reports[s]["composed"]
        last(n) == CHOOSE i \in DOMAIN rounds :
                     /\ n \in DOMAIN rounds[i].ref
                     /\ \A j \in DOMAIN rounds : n \in DOMAIN rounds[j].ref => j <= i
    IN  [n \in ChecksOf(rounds) |-> rounds[last(n)].ref[n]]

FirstOf(S) == CHOOSE n \in S : \A m \in S : n <= m

JoinsAnything(lost, gained, declared, keys) ==
    IF lost = {} \/ gained = {} THEN [lost |-> lost, gained |-> gained, renamed |-> {}]
    ELSE [lost |-> lost \ {FirstOf(lost)}, gained |-> gained \ {FirstOf(gained)},
          renamed |-> {<<FirstOf(lost), FirstOf(gained)>>}]

\* A lost name takes the first gained name that carries its declared obligation.
TakeHeir(acc, l, declared, keys) ==
    LET heirs == {g \in acc.gained : l \in DOMAIN declared /\ keys[g] = declared[l]}
    IN  IF heirs = {} THEN acc
        ELSE [lost |-> acc.lost \ {l}, gained |-> acc.gained \ {FirstOf(heirs)},
              renamed |-> acc.renamed \cup {<<l, FirstOf(heirs)>>}]

\* The rename join over the lost names among the first k names.
JoinUpTo(lost, gained, declared, keys) ==
    LET joined[k \in 0 .. Cardinality(Names)] ==
            IF k = 0 THEN [lost |-> lost, gained |-> gained, renamed |-> {}]
            ELSE IF k \in lost THEN TakeHeir(joined[k - 1], k, declared, keys)
            ELSE joined[k - 1]
    IN  joined

Join(lost, gained, declared, keys) ==
    JoinUpTo(lost, gained, declared, keys)[Cardinality(Names)]

\* evaluate(): all it can say against a baseline d of stem s.
Evaluate(s, d) ==
    LET got == Measure(s)
        joined == Join(d.improved \ got.improved, got.improved \ d.improved,
                       d.requirement, KeyOf(s))
    IN  [checkSet |-> d.total # got.total,
         tallies |-> d.composed # got.composed \/ d.bare # got.bare,
         unexplained |-> /\ d.improved = {} /\ got.improved = {} /\ got.regressed = {}
                         /\ ~d.why_nothing_moved,
         unkeyed |-> d.improved # {} /\ ~(d.improved \subseteq DOMAIN d.requirement),
         renamed |-> joined.renamed, lost |-> joined.lost, gained |-> joined.gained,
         regressions |-> got.regressed, bare_only |-> got.bare_only]

RenamesPass(f) ==
    ~f.checkSet /\ ~f.tallies /\ ~f.unexplained /\ ~f.unkeyed
    /\ f.lost = {} /\ f.gained = {} /\ f.regressions = {} /\ f.bare_only = {}

Holds(f) ==
    /\ ~f.checkSet /\ ~f.tallies /\ ~f.unexplained /\ ~f.unkeyed
    /\ f.renamed = {} /\ f.lost = {} /\ f.gained = {}
    /\ f.regressions = {} /\ f.bare_only = {}

\* check_one
Unmeasured(s) == \A arm \in Arms : reports[s][arm] = <<>>
Refused(s) ==
    ~Unmeasured(s) /\ \E arm \in Arms :
        reports[s][arm] = <<>> \/ NotOneRun(reports[s][arm]) \/ Unreadable(reports[s][arm])
Measured(s) == ~Unmeasured(s) /\ ~Refused(s)

\* main: 3 refuses, 1 fails, 0 is the clean verdict.
ExpectationCode ==
    IF (\A s \in Stems : ~Measured(s)) \/ \E s \in Stems : Refused(s) THEN 3
    ELSE IF \E s \in Stems : /\ Measured(s)
                             /\ baseline[s] = NoBaseline \/ ~Holds(Evaluate(s, baseline[s]))
    THEN 1 ELSE 0

--------------------------------------------------------------------------------
(***************************************************************************)
(* bless, and the author who pastes its output over [gate.baseline].       *)
(***************************************************************************)
\* _inline spells the severities, and no count of what round 1 lacks.
Inline(tally) == [tally EXCEPT ![Absent] = 0]

\* The obligation of every improved check that publishes one.
Block(s) ==
    LET got == Measure(s)
    IN  [total |-> got.total, composed |-> Inline(got.composed), bare |-> Inline(got.bare),
         improved |-> got.improved,
         requirement |-> [n \in got.improved |-> KeyOf(s)[n]],
         why_nothing_moved |-> got.improved = {} /\ Explained]

BaselineInit == baseline = [s \in Stems |-> NoBaseline]

\* --bless prints a block for every measured stem, unless one is unmeasured.
\* It prints no why_nothing_moved: that is the author's.
Bless ==
    /\ driver = Idle
    /\ \A s \in Stems : ~Unmeasured(s)
    /\ baseline' = [s \in Stems |-> IF Measured(s) THEN Block(s) ELSE NoBaseline]
================================================================================
