------------------------------ MODULE CoverageGate -----------------------------
(***************************************************************************)
(* tools/req-coverage.py: an extension's contract maps every requirement   *)
(* of its specification to oracle checks, and the checks it names to the   *)
(* obligations the oracle published for them when the map was blessed.     *)
(***************************************************************************)
EXTENDS ConformanceReports

CONSTANTS
    Contract,         \* [[conformance.requirement]]: a sequence of rows
    CategoryOf,       \* the oracle category of each check name
    Category,         \* oracle_category of the extension
    MinRequirements   \* MIN_REQUIREMENTS

VARIABLES
    obligation        \* [conformance.obligation]: check name -> obligation

Levels == {"MUST", "MUST NOT", "SHOULD", "SHOULD NOT", "MAY", "IMPL-DEFINED"}
Binding == Levels \ {"MAY", "IMPL-DEFINED"}

ASSUME ContractAssumption ==
    /\ CategoryOf \in [Names -> STRING]
    /\ \A i \in DOMAIN Contract :
          Contract[i].oracle \subseteq Names /\ {Contract[i].ours, Contract[i].note} \subseteq BOOLEAN
    /\ \A i, j \in DOMAIN Contract : Contract[i].text = Contract[j].text => i = j

\* The parsers keep the rows whose level they know.  A table [ids, rows] is a
\* specification's inventory, with ids 1, 2, ... or without.
PositiveLevels(table) == {i \in DOMAIN table.rows : table.rows[i].level \in {"MUST", "SHOULD", "MAY"}}
Parsed(table) == {i \in DOMAIN table.rows : table.rows[i].level \in Levels}

\* assert_contiguous_ids: a hole is a row that the parser dropped.
Contiguous(ids) == ids = {} \/ ids = 1 .. Cardinality(ids)

\* The join key is the id where the specification has them, else the text.
RowKey(table, i) == IF table.ids THEN i ELSE table.rows[i].text
DeclaredKey(table, j) == IF table.ids THEN j ELSE Contract[j].text
Mapped(table) ==
    {p \in Parsed(table) \X DOMAIN Contract : RowKey(table, p[1]) = DeclaredKey(table, p[2])}

\* load_corpus: the union of every report in the tree.
Corpus == UNION {ToSet(reports[s][arm]) : s \in Stems, arm \in Arms}
Executed == UNION {DOMAIN r.sev : r \in Corpus}
Obligations(n) == {r.ref[n] : r \in {q \in Corpus : n \in DOMAIN q.ref}}

\* _obligation_of: none where the reports disagree.
Published(n) == Cardinality(Obligations(n)) = 1
ObligationOf(n) == CHOOSE o \in Obligations(n) : TRUE

\* _carriers, of the category of the check that is gone.
Carriers(n, o) == {m \in Executed : CategoryOf[m] = CategoryOf[n] /\ o \in Obligations(m)}

Pinned == UNION {Contract[i].oracle : i \in DOMAIN Contract}
Keyed == DOMAIN obligation

\* load_requirements raises SystemExit with its message: exit status 1.
LoadRefuses(table) == table.ids /\ ~Contiguous(Parsed(table))

\* What the tool refuses to give a verdict over.
Vacuous(table) ==
    \/ Executed = {}
    \/ Parsed(table) = {} \/ Cardinality(Parsed(table)) < MinRequirements
    \/ \A n \in Executed : CategoryOf[n] # Category
    \/ /\ Pinned # {}
       /\ \A n \in Executed : CategoryOf[n] = Category => Obligations(n) = {}

\* Rules 0 to 2: the mapping and the specification name the same requirements.
Reworded(table) ==
    {p \in Mapped(table) : table.ids /\ Contract[p[2]].text # table.rows[p[1]].text}
Undeclared(table) == {i \in Parsed(table) : \A p \in Mapped(table) : p[1] # i}
Stale(table) == {j \in DOMAIN Contract : \A p \in Mapped(table) : p[2] # j}

\* Rules 5 to 7: every pinned name has the obligation it was pinned for.
Unkeyed == Pinned \ Keyed
ObligationMoved ==
    {n \in Pinned \cap Keyed : Published(n) /\ ObligationOf(n) # obligation[n]}
Ambiguous == {n \in Pinned \cap Keyed : Cardinality(Obligations(n)) > 1}
StaleEntries == Keyed \ Pinned

\* Rule 3: a pinned name that no longer runs was renamed, or its measurement
\* is lost, or nobody can tell.
Gone(table) == (UNION {Contract[p[2]].oracle : p \in Mapped(table)}) \ Executed
Repinned(table) == {n \in Gone(table) \cap Keyed : Carriers(n, obligation[n]) # {}}
MeasurementLost(table) == {n \in Gone(table) \cap Keyed : Carriers(n, obligation[n]) = {}}
Undiagnosed(table) == Gone(table) \ Keyed

\* Rule 4: a binding requirement without an instrument has a note.
Omissions(table) ==
    {p \in Mapped(table) :
        LET row == Contract[p[2]]
        IN  row.oracle = {} /\ ~row.ours /\ table.rows[p[1]].level \in Binding /\ ~row.note}

\* main: 3 refuses, 1 fails, 0 is the clean verdict.
CoverageCode(table) ==
    IF Executed # {} /\ LoadRefuses(table) THEN 1
    ELSE IF Vacuous(table) THEN 3
    ELSE IF /\ Reworded(table) \cup Omissions(table) = {}
            /\ Undeclared(table) \cup Stale(table) = {}
            /\ Unkeyed \cup ObligationMoved \cup Ambiguous \cup StaleEntries = {}
            /\ Gone(table) = {}
    THEN 0 ELSE 1

CoverageInit == obligation = <<>>

\* --bless-obligations, pasted: all pinned names or none.
BlessObligations ==
    /\ driver = Idle
    /\ Pinned # {} /\ \A n \in Pinned : Published(n)
    /\ obligation' = [n \in Pinned |-> ObligationOf(n)]
================================================================================
