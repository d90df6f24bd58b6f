---------------------------- MODULE EvaluatorBudgets ---------------------------
(***************************************************************************)
(* One expression evaluated twice over the same tree: first under ample     *)
(* limits, to see what it takes, then again under any others, or as the     *)
(* operator it is an alias of.  Budgets are part of what two peers must     *)
(* agree on: the same expression, inputs and budget end at the same step.   *)
(***************************************************************************)
EXTENDS Evaluator

CONSTANT Ample      \* the limits of the first evaluation

ASSUME AmpleIsMost ==
    /\ Ample \in Limits /\ Ample.depth > 0
    /\ \A l \in Limits : l.operations <= Ample.operations /\ l.depth <= Ample.depth

\* There are builtins of five operators, each with the operands of its operator
\* behind the text; ample limits let an operand be evaluated.
ASSUME AliasesAreOperators ==
    /\ Ample.depth > 1
    /\ \A r \in Roots : r.kind = "alias" =>
         /\ r.args \in Seq(Range(r.args))
         /\ r.of \in {"arithmetic", "compare", "logic", "field", "construct"}
         /\ r.of = "field" => Len(r.args) <= 2

VARIABLES
    deepest,    \* the most frames the first evaluation had on the stack
    first       \* what it came to; its answer is None while it runs

Unmeasured == [root |-> None, answer |-> None, writes |-> <<>>, cost |-> 0]

budgetVars == <<vars, deepest, first>>

BudgetInit == Init /\ limits = Ample /\ deepest = 0 /\ first = Unmeasured

Run ==
    /\ Step
    /\ deepest' = IF first.answer = None /\ Len(stack') > deepest THEN Len(stack') ELSE deepest
    /\ UNCHANGED first

Again ==
    /\ answer # None /\ first.answer = None
    /\ first' = [root |-> root, answer |-> answer, writes |-> writes,
                 cost |-> Ample.operations - operations]
    /\ \/ limits' \in Limits /\ UNCHANGED root
       \/ /\ UNCHANGED limits
          /\ root.kind = "alias" /\ root.args[1].kind = "literal" /\ root.args[1].value.kind = "text"
          /\ Len(root.args) > LeastOperands(root.of)
          /\ root' = Inline(root, root.args[1].value.text)
    /\ operations' = limits'.operations /\ depth' = limits'.depth
    /\ answer' = None /\ reads' = {} /\ writes' = <<>>
    /\ UNCHANGED <<stack, deepest>>

Answered == Rest /\ first.answer # None /\ UNCHANGED <<deepest, first>>

BudgetNext == Run \/ Again \/ Answered

\* The evaluator runs on the thread that asked, and nothing suspends it.
BudgetSpec == BudgetInit /\ [][BudgetNext]_budgetVars /\ WF_budgetVars(BudgetNext)

--------------------------------------------------------------------------------
\* Where depth suffices, an evaluation comes to the same answer in the same
\* number of steps under every budget that is larger than that number, and to
\* budget_exhausted under every other, whatever contains errors on the way.
BudgetIsExact ==
    answer # None /\ first.answer # None /\ root = first.root /\ limits.depth >= deepest =>
        IF limits.operations > first.cost
        THEN answer = first.answer /\ operations = limits.operations - first.cost
        ELSE answer = Minted("budget_exhausted")

\* An evaluation that runs out on the way has written a part of what it would
\* have written, and nothing else: no error of its own making is left in the tree
\* where a value was meant to go.
WritesArePrefix ==
    first.answer # None /\ root = first.root /\ limits.depth >= deepest => IsPrefix(writes, first.writes)

SameValue(v, w) == v = w \/ (IsError(v) /\ IsError(w) /\ v.code = w.code)

\* The builtin of an operator and the operator itself are two ways to write one
\* thing: they come to the same value, and differ by the step the text costs; and
\* by one more for an error that only the builtin evaluates before it takes it.
AliasIsInline ==
    answer # None /\ first.answer # None /\ root # first.root /\ first.cost < Ample.operations =>
        /\ SameValue(answer, first.answer)
        /\ writes = first.writes
        /\ first.cost - (Ample.operations - operations) \in
             (IF root.kind = "field" /\ IsStoredError(root.args[1]) THEN {2} ELSE {1})

\* Every evaluation ends, also one that goes round through the tree.
EvaluationEnds == <>(answer # None /\ first.answer # None)
================================================================================
