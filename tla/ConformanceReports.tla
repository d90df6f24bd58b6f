-------------------------- MODULE ConformanceReports ---------------------------
(***************************************************************************)
(* The reports the gates read: the drivers of `make conformance` and       *)
(* `make regression` launch the peer with and without the composition, one *)
(* report per arm and round.  Between runs the oracle is re-pinned and the *)
(* extensions are developed further.                                       *)
(*                                                                         *)
(* The oracle's checks are assertions about one obligation each; a build   *)
(* of the oracle gives each assertion it makes a name.  Every check of a   *)
(* report carries its obligation, as --key-census counted.                 *)
(***************************************************************************)
EXTENDS Integers, Sequences, FiniteSets, SequencesExt

CONSTANTS
    Assertions,  \* what the oracle can assert
    Ref,         \* per assertion, the obligation it publishes (spec_ref)
    Names,       \* check names: 1, 2, ... in the order of their spelling
    Builds,      \* builds of the oracle: injections of assertions into Names
    Bodies,      \* severity of each assertion on the composed peer
    Bare,        \* and on the bare one
    Noisy,       \* assertions whose severity load may turn into "WARN"
    Stems,       \* the composition's categories and profiles
    InStem,      \* assertions a stem runs
    Rounds,      \* per stem, the numbers of rounds that are asked for
    MaxRuns,     \* bound: runs and relaunches
    MaxUpsets    \* bound: revisions, failed launches, launches spoilt by load

Severities == {"PASS", "WARN", "FAIL"}
Absent == "-"   \* a check that a report does not have
Arms == {"bare", "composed"}

ASSUME ReportsAssumption ==
    /\ IsFiniteSet(Names) /\ Names = 1 .. Cardinality(Names)
    /\ IsFiniteSet(Stems)
    /\ Bodies \subseteq [Assertions -> Severities \cup {Absent}]
    /\ Bare \in [Assertions -> Severities \cup {Absent}]
    /\ InStem \in [Stems -> SUBSET Assertions]
    /\ \A b \in Builds :
          /\ DOMAIN b \subseteq Assertions /\ b \in [DOMAIN b -> Names]
          /\ \A x, y \in DOMAIN b : b[x] = b[y] => x = y

VARIABLES
    build,     \* the oracle in use
    body,      \* the composed peer in use
    reports,   \* per stem and arm, the reports on disk by round
    driver,    \* the run in progress, or Idle
    runs, upsets

reportVars == <<build, body, reports, driver, runs, upsets>>

Idle == [stem |-> "none"]

NoReports == [s \in Stems |-> [arm \in Arms |-> <<>>]]

\* What a launch of the peer reports of stem s, severities and obligations,
\* when load spoils the assertions in slow.
ReportOf(s, arm, slow, stamp) ==
    LET base == IF arm = "bare" THEN Bare ELSE body
        there == {x \in InStem[s] \cap DOMAIN build : base[x] # Absent}
        by(n) == CHOOSE x \in there : build[x] = n
        names == {build[x] : x \in there}
    IN  [sev |-> [n \in names |-> IF by(n) \in slow THEN "WARN" ELSE base[by(n)]],
         ref |-> [n \in names |-> Ref[by(n)]],
         of |-> <<build, body>>, stamp |-> stamp]

\* Later than every report of the stem on disk.
NextStamp(s) ==
    1 + FoldSet(LAMBDA r, latest : IF r.stamp > latest THEN r.stamp ELSE latest, 0,
                ToSet(reports[s]["bare"]) \cup ToSet(reports[s]["composed"]))

\* One complete round of every stem.
AllRun ==
    [s \in Stems |-> [arm \in Arms |-> <<ReportOf(s, arm, {}, IF arm = "bare" THEN 1 ELSE 2)>>]]

\* A fresh checkout has no reports, output/ being under no version control; a
\* tree that has been worked in has some.
ReportsInit ==
    /\ build \in Builds /\ body \in Bodies
    /\ reports \in {NoReports, AllRun}
    /\ driver = Idle
    /\ runs = 0 /\ upsets = 0

\* `rm -f` of both arms' reports, then for every round both arms, in the order
\* of the target: conformance composed first, regression bare first.
StartRun(s, order, n) ==
    /\ driver = Idle /\ runs < MaxRuns
    /\ reports' = [reports EXCEPT ![s] = [arm \in Arms |-> <<>>]]
    /\ driver' = [stem |-> s, left |-> FlattenSeq([r \in 1 .. n |-> order])]
    /\ runs' = runs + 1
    /\ UNCHANGED <<build, body, upsets>>

Advance ==
    driver' = IF Len(driver.left) > 1 THEN [driver EXCEPT !.left = Tail(@)] ELSE Idle

Upset == upsets < MaxUpsets /\ upsets' = upsets + 1

\* A quiet machine, or one whose load spoils a noisy assertion.
Load == {{}} \cup (IF upsets < MaxUpsets THEN {{x} : x \in Noisy} ELSE {})

Launch ==
    /\ driver # Idle
    /\ \E slow \in Load :
          LET s == driver.stem
              arm == Head(driver.left)
          IN  /\ reports' = [reports EXCEPT ![s][arm] =
                               Append(@, ReportOf(s, arm, slow, NextStamp(s)))]
              /\ upsets' = upsets + Cardinality(slow)
    /\ Advance
    /\ UNCHANGED <<build, body, runs>>

\* The launch leaves no report.  host-launch fails where the host does not come
\* up, which stops conformance and not regression; an oracle that dies is a
\* result like any other (`|| true`), and the next round follows.
LaunchFails ==
    /\ driver # Idle /\ Upset
    /\ \/ Advance
       \/ driver.stem # "core" /\ driver' = Idle
    /\ UNCHANGED <<build, body, reports, runs>>

\* Somebody runs tools/host-launch on one report's path again.
Relaunch(s, arm, i) ==
    /\ driver = Idle
    /\ runs < MaxRuns /\ runs' = runs + 1
    /\ reports' = [reports EXCEPT ![s][arm][i] = ReportOf(s, arm, {}, NextStamp(s))]
    /\ UNCHANGED <<build, body, driver, upsets>>

\* Between two runs the oracle is re-pinned, the peer developed further, or both.
Revise(b, f) ==
    /\ driver = Idle /\ Upset
    /\ <<b, f>> # <<build, body>>
    /\ build' = b /\ body' = f
    /\ UNCHANGED <<reports, driver, runs>>

\* make conformance runs the categories, make regression the core profile.
RunStems ==
    \E s \in Stems : \E n \in Rounds[s] :
        \/ s # "core" /\ StartRun(s, <<"composed", "bare">>, n)
        \/ s = "core" /\ StartRun(s, <<"bare", "composed">>, n)

ReportsNext ==
    \/ RunStems
    \/ Launch
    \/ LaunchFails
    \/ \E s \in Stems, arm \in Arms : \E i \in DOMAIN reports[s][arm] : Relaunch(s, arm, i)
    \/ \E b \in Builds, f \in Bodies : Revise(b, f)
================================================================================
