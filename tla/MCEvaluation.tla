------------------------------ MODULE MCEvaluation -----------------------------
(***************************************************************************)
(* The evaluator in one run: expressions under budgets, with arithmetic on  *)
(* small integers, and arithmetic itself at the edges of its width.  Each   *)
(* behaviour exercises one and leaves the other at rest.                    *)
(***************************************************************************)
EXTENDS MCEvaluator, Arithmetic

VARIABLE side   \* "evaluator" or "arithmetic"

\* Eight patterns; floats beyond the width, next to zero and at its ends.
MCLiterals == -H .. 2 * H - 1
MCFloats == {-9, -1, 0, 15}

ArithmeticAtRest == acc = Other /\ verdict = FALSE /\ request = Idle
EvaluatorAtRest == root = (CHOOSE r \in Roots : TRUE) /\ MCEvaluatorInit

MCEvaluationInit ==
    \/ side = "evaluator" /\ MCEvaluatorInit /\ ArithmeticAtRest
    \/ side = "arithmetic" /\ ArithmeticInit /\ EvaluatorAtRest

MCEvaluationNext ==
    \/ side = "evaluator" /\ MCEvaluatorNext /\ UNCHANGED <<side, arithmeticVars>>
    \/ side = "arithmetic" /\ ArithmeticNext /\ UNCHANGED <<side, budgetVars, auditVars>>

MCEvaluationSpec ==
    /\ MCEvaluationInit
    /\ [][MCEvaluationNext]_<<side, budgetVars, auditVars, arithmeticVars>>
    /\ WF_<<budgetVars, auditVars>>(MCEvaluatorNext)
================================================================================
