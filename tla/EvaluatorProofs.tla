---------------------------- MODULE EvaluatorProofs ----------------------------
(***************************************************************************)
(* What holds of every evaluation, of any expression over any tree, under   *)
(* any budget: depth is given back however a frame ends, an exhausted       *)
(* budget is what the evaluation answers, two evaluations of one expression *)
(* differ by nothing but where their budgets run out, the builtin of an     *)
(* operator comes to what the operator comes to, and what is read is what   *)
(* the walk of the installation has found.                                  *)
(***************************************************************************)
EXTENDS EvaluatorBudgets, SubgraphAudit, Arithmetic, NaturalLemmas, TLAPS

Frames(E, C, V) == [expr : E, scope : C, vals : Seq(V), charged : BOOLEAN]

\* A stack is a sequence of frames.  Expressions and values are no fixed set:
\* each step brings its own.
Stacked(s) == \E E, C, V : s \in Seq(Frames(E, C, V))

\* A frame that has been charged in an exhausted evaluation has just been handed
\* the budget's error, so nothing but ShortCircuit is left for it.
HandedExhaustion ==
    stack # <<>> /\ Top.charged /\ operations <= 0 =>
        Top.vals # <<>> /\ Last(Top.vals) = Minted("budget_exhausted")

IInv ==
    /\ limits \in Limits
    /\ operations \in Int /\ depth \in Nat
    /\ Stacked(stack)
    /\ \A i \in 2 .. Len(stack) : stack[i].charged
    /\ DepthBalanced
    /\ answer # None => stack = <<>>
    /\ HandedExhaustion
    /\ ExhaustionDecides

Move == \E v, n, s : Give(v) \/ Return(v) \/ Call(n, s) \/ Become(n, s)

Arm ==
    \/ Literal \/ LookupScope \/ LookupTree \/ LookupHash \/ If \/ Let \/ Lambda
    \/ Operate \/ Alias \/ Malformed \/ Apply
    \/ Argument \/ Element \/ Collect \/ Store \/ Value

--------------------------------------------------------------------------------
(* Stacks *)

\* A stack may be taken over sets with room for one more expression, scope and value.
LEMMA Room ==
    ASSUME NEW s, Stacked(s), NEW e, NEW c, NEW v
    PROVE  \E E, C, V : s \in Seq(Frames(E, C, V)) /\ e \in E /\ c \in C /\ v \in V
<1>1. PICK E, C, V : s \in Seq(Frames(E, C, V))
  BY DEF Stacked
<1> DEFINE E2 == E \cup {e}
           C2 == C \cup {c}
           V2 == V \cup {v}
<1>2. \A w \in Seq(V) : w \in Seq(V2)
  OBVIOUS
<1>3. \A f \in Frames(E, C, V) : f \in Frames(E2, C2, V2)
  BY <1>2 DEF Frames
<1>4. s \in Seq(Frames(E2, C2, V2))
  <2> HIDE DEF E2, C2, V2
  <2> QED BY <1>1, <1>3
<1> QED
  BY <1>4

\* What is left of a stack under its innermost frame.
LEMMA Below ==
    ASSUME NEW S, NEW s \in Seq(S), s # <<>>
    PROVE  /\ Head(s) \in S
           /\ Head(s) = s[1]
           /\ Tail(s) \in Seq(S)
           /\ Len(s) \in Nat \ {0}
           /\ Len(Tail(s)) = Len(s) - 1
           /\ \A i \in 1 .. Len(s) - 1 : Tail(s)[i] = s[i + 1]
  OBVIOUS

\* What putting a frame on a stack does to its length and its frames.
LEMMA Pushed ==
    ASSUME NEW S, NEW s \in Seq(S), NEW f \in S
    PROVE  /\ <<f>> \o s \in Seq(S)
           /\ <<f>> \o s # <<>>
           /\ Len(<<f>> \o s) = Len(s) + 1
           /\ Head(<<f>> \o s) = f
           /\ \A i \in 2 .. Len(s) + 1 : (<<f>> \o s)[i] = s[i - 1]
  OBVIOUS

\* What putting one in the place of the innermost does.
LEMMA Replaced ==
    ASSUME NEW S, NEW s \in Seq(S), s # <<>>, NEW f \in S
    PROVE  /\ <<f>> \o Tail(s) \in Seq(S)
           /\ <<f>> \o Tail(s) # <<>>
           /\ Len(<<f>> \o Tail(s)) = Len(s)
           /\ Head(<<f>> \o Tail(s)) = f
           /\ \A i \in 2 .. Len(s) : (<<f>> \o Tail(s))[i] = s[i]
<1>1. Tail(s) \in Seq(S) /\ Len(s) \in Nat \ {0} /\ Len(Tail(s)) = Len(s) - 1
  BY Below
<1>2. /\ <<f>> \o Tail(s) \in Seq(S) /\ <<f>> \o Tail(s) # <<>>
      /\ Len(<<f>> \o Tail(s)) = Len(s) /\ Head(<<f>> \o Tail(s)) = f
  BY <1>1, Pushed
<1>3. ASSUME NEW i \in 2 .. Len(s) PROVE (<<f>> \o Tail(s))[i] = s[i]
  <2>1. (<<f>> \o Tail(s))[i] = Tail(s)[i - 1]
    BY <1>1, Pushed
  <2>2. Tail(s)[i - 1] = s[i]
    BY <1>1, Below
  <2> QED
    BY <2>1, <2>2
<1> QED
  BY <1>2, <1>3

\* A frame that is handed a value has that value as its last.
LEMMA Handed ==
    ASSUME NEW E, NEW C, NEW V, NEW f \in Frames(E, C, V), NEW v \in V
    PROVE  /\ With(f, v) \in Frames(E, C, V)
           /\ With(f, v).charged = f.charged
           /\ With(f, v).vals # <<>>
           /\ Last(With(f, v).vals) = v
<1>1. f.vals \in Seq(V)
  BY DEF Frames
<1>2. Append(f.vals, v) \in Seq(V) /\ Append(f.vals, v) # <<>>
      /\ Append(f.vals, v)[Len(Append(f.vals, v))] = v
  BY <1>1
<1> QED
  BY <1>2 DEF Frames, With, Last

--------------------------------------------------------------------------------
(* Moves *)

\* Handing the innermost frame a value leaves the frames under it alone.
LEMMA GivePreserves ==
    ASSUME IInv, stack # <<>>, operations > 0, limits' = limits, NEW v, Give(v)
    PROVE  IInv'
<1>1. PICK E, C, V : stack \in Seq(Frames(E, C, V)) /\ v \in V
  BY Room DEF IInv
<1>2. With(Head(stack), v) \in Frames(E, C, V)
  BY <1>1, Below, Handed
<1>3. /\ stack' \in Seq(Frames(E, C, V)) /\ stack' # <<>>
      /\ Len(stack') = Len(stack)
      /\ \A i \in 2 .. Len(stack) : stack'[i] = stack[i]
  BY <1>1, <1>2, Replaced DEF Give
<1>4. /\ operations' = operations /\ depth' = depth /\ answer' = answer
  BY DEF Give
<1>5. Stacked(stack)'
  BY <1>3 DEF Stacked
<1>6. answer' = None
  BY <1>4 DEF IInv
<1>7. (\A i \in 2 .. Len(stack) : stack[i].charged)'
  BY <1>3 DEF IInv
<1>8. DepthBalanced' /\ HandedExhaustion' /\ ExhaustionDecides'
  BY <1>3, <1>4, <1>6 DEF IInv, DepthBalanced, HandedExhaustion, ExhaustionDecides
<1> QED
  BY <1>4, <1>5, <1>6, <1>7, <1>8 DEF IInv

\* A frame that ends gives its depth back.  If the budget is exhausted it hands
\* exactly that on, to a frame that has been charged or as the answer.
LEMMA LeavePreserves ==
    ASSUME IInv, stack # <<>>, limits' = limits, NEW v, Leave(v),
           operations' \in Int,
           operations' <= 0 => v = Minted("budget_exhausted")
    PROVE  IInv'
<1>1. PICK E, C, V : stack \in Seq(Frames(E, C, V)) /\ v \in V
  BY Room DEF IInv
<1>2. /\ Tail(stack) \in Seq(Frames(E, C, V))
      /\ Len(stack) \in Nat \ {0} /\ Len(Tail(stack)) = Len(stack) - 1
      /\ \A i \in 1 .. Len(stack) - 1 : Tail(stack)[i] = stack[i + 1]
  BY <1>1, Below
<1>3. depth' = depth + 1 /\ depth' \in Nat
  BY DEF Leave, IInv
<1>4. limits.depth # 0
  BY <1>2 DEF IInv, DepthBalanced
<1>5. CASE Len(stack) = 1
  <2>1. stack' = <<>> /\ answer' = v
    BY <1>5 DEF Leave, Pop
  <2>2. Stacked(stack)'
    <3>1. <<>> \in Seq(Frames(E, C, V))
      OBVIOUS
    <3> QED
      BY <2>1, <3>1 DEF Stacked
  <2>3. Len(stack') = 0
    BY <2>1
  <2>4. DepthBalanced'
    BY <1>3, <1>5, <2>3 DEF IInv, DepthBalanced
  <2>5. HandedExhaustion'
    BY <2>1 DEF HandedExhaustion
  <2>6. ExhaustionDecides'
    BY <1>4, <2>1 DEF ExhaustionDecides
  <2> QED
    BY <1>3, <2>1, <2>2, <2>3, <2>4, <2>5, <2>6 DEF IInv
<1>6. CASE Len(stack) # 1
  <2>1. PICK t \in Seq(Frames(E, C, V)) : t = Tail(stack)
    BY <1>2
  <2>2. PICK h : h = Head(t)
    OBVIOUS
  <2>3. t # <<>> /\ h \in Frames(E, C, V)
    <3>1. Len(t) # 0
      BY <1>2, <1>6, <2>1
    <3>2. t # <<>>
      BY <3>1
    <3> QED
      BY <2>2, <3>2, Below
  <2>4. h.charged
    <3>1. h = stack[2] /\ 2 \in 2 .. Len(stack)
      BY <1>2, <1>6, <2>1, <2>2, <2>3, Below
    <3> QED
      BY <3>1 DEF IInv
  <2>5. stack' = <<With(h, v)>> \o Tail(t) /\ answer' = None
    BY <1>6, <2>1, <2>2 DEF Leave, Pop
  <2>6. /\ With(h, v) \in Frames(E, C, V)
        /\ With(h, v).charged
        /\ With(h, v).vals # <<>>
        /\ Last(With(h, v).vals) = v
    BY <1>1, <2>3, <2>4, Handed
  <2>7. /\ stack' \in Seq(Frames(E, C, V)) /\ stack' # <<>>
        /\ Len(stack') = Len(t)
        /\ Head(stack') = With(h, v)
        /\ \A i \in 2 .. Len(t) : stack'[i] = t[i]
    BY <2>3, <2>5, <2>6, Replaced
  <2>8. (\A i \in 2 .. Len(stack) : stack[i].charged)'
    <3>1. ASSUME NEW i \in 2 .. Len(stack') PROVE stack'[i].charged
      <4>1. stack'[i] = stack[i + 1] /\ i + 1 \in 2 .. Len(stack)
        BY <1>2, <2>1, <2>7
      <4> QED
        BY <4>1 DEF IInv
    <3> QED
      BY <3>1
  <2>9. Stacked(stack)'
    BY <2>7 DEF Stacked
  <2>10. DepthBalanced'
    BY <1>2, <1>3, <2>1, <2>7 DEF IInv, DepthBalanced
  <2>11. HandedExhaustion' /\ ExhaustionDecides'
    BY <2>5, <2>6, <2>7 DEF HandedExhaustion, ExhaustionDecides, Top
  <2> QED
    BY <1>3, <2>5, <2>8, <2>9, <2>10, <2>11 DEF IInv
<1> QED
  BY <1>5, <1>6

\* A call takes one unit of depth for the frame it puts on a charged one, or is
\* answered in place when none is left.
LEMMA CallPreserves ==
    ASSUME IInv, stack # <<>>, Top.charged, operations > 0, limits' = limits,
           NEW n, NEW s, Call(n, s)
    PROVE  IInv'
<1>1. CASE depth <= 0
  BY <1>1, GivePreserves DEF Call, IInv
<1>2. CASE depth > 0
  <2>1. PICK E, C, V : stack \in Seq(Frames(E, C, V)) /\ n \in E /\ s \in C /\ n \in V
    BY Room DEF IInv
  <2>2. Frame(n, s) \in Frames(E, C, V) /\ Frame(n, s).charged = FALSE
    BY <2>1 DEF Frame, Frames
  <2>3. /\ stack' = <<Frame(n, s)>> \o stack /\ depth' = depth - 1
        /\ operations' = operations /\ answer' = None
    BY <1>2 DEF Call, IInv
  <2>4. /\ stack' \in Seq(Frames(E, C, V)) /\ stack' # <<>>
        /\ Len(stack') = Len(stack) + 1
        /\ \A i \in 2 .. Len(stack) + 1 : stack'[i] = stack[i - 1]
    BY <2>1, <2>2, <2>3, Pushed
  <2>5. Len(stack) \in Nat \ {0} /\ Head(stack) = stack[1]
    BY <2>1, Below
  <2>6. (\A i \in 2 .. Len(stack) : stack[i].charged)'
    <3>1. ASSUME NEW i \in 2 .. Len(stack') PROVE stack'[i].charged
      <4>1. stack'[i] = stack[i - 1] /\ (i - 1 = 1 \/ i - 1 \in 2 .. Len(stack))
        BY <2>4, <2>5
      <4> QED
        BY <2>5, <4>1 DEF IInv, Top
    <3> QED
      BY <3>1
  <2>7. Stacked(stack)'
    BY <2>4 DEF Stacked
  <2>8. DepthBalanced' /\ depth' \in Nat
    BY <1>2, <2>3, <2>4, <2>5 DEF IInv, DepthBalanced
  <2>9. HandedExhaustion' /\ ExhaustionDecides'
    BY <2>3 DEF IInv, HandedExhaustion, ExhaustionDecides
  <2> QED
    BY <2>3, <2>6, <2>7, <2>8, <2>9 DEF IInv
<1> QED
  BY <1>1, <1>2 DEF IInv

\* A tail call puts one frame in another's place, and so does the charge of a step.
LEMMA ReplacePreserves ==
    ASSUME IInv, stack # <<>>, limits' = limits, NEW E, NEW C, NEW V,
           stack \in Seq(Frames(E, C, V)), NEW f \in Frames(E, C, V),
           stack' = <<f>> \o Tail(stack),
           operations' \in Int, operations' > 0, UNCHANGED <<depth, answer>>
    PROVE  IInv'
<1>1. /\ stack' \in Seq(Frames(E, C, V)) /\ stack' # <<>>
      /\ Len(stack') = Len(stack)
      /\ \A i \in 2 .. Len(stack) : stack'[i] = stack[i]
  BY Replaced
<1>2. Stacked(stack)'
  BY <1>1 DEF Stacked
<1>3. answer' = None
  BY DEF IInv
<1>4. DepthBalanced' /\ HandedExhaustion' /\ ExhaustionDecides'
  BY <1>1, <1>3 DEF IInv, DepthBalanced, HandedExhaustion, ExhaustionDecides
<1> QED
  BY <1>1, <1>2, <1>3, <1>4 DEF IInv

\* A frame that goes on as another expression keeps the depth.
LEMMA BecomePreserves ==
    ASSUME IInv, stack # <<>>, operations > 0, limits' = limits,
           NEW n, NEW s, Become(n, s)
    PROVE  IInv'
<1>1. PICK E, C, V : stack \in Seq(Frames(E, C, V)) /\ n \in E /\ s \in C /\ n \in V
  BY Room DEF IInv
<1>2. Frame(n, s) \in Frames(E, C, V)
  BY <1>1 DEF Frame, Frames
<1>3. stack' = <<Frame(n, s)>> \o Tail(stack) /\ UNCHANGED <<operations, depth, answer>>
  BY DEF Become
<1>4. operations' \in Int /\ operations' > 0
  BY <1>3 DEF IInv
<1> QED
  BY <1>1, <1>2, <1>3, <1>4, ReplacePreserves

\* A step that is charged keeps the invariant.
LEMMA ChargePreserves ==
    ASSUME IInv, Charge
    PROVE  IInv'
<1>1. PICK E, C, V : stack \in Seq(Frames(E, C, V))
  BY DEF IInv, Stacked
<1>2. /\ stack # <<>> /\ limits' = limits /\ UNCHANGED <<depth, answer>>
      /\ stack' = <<[Top EXCEPT !.charged = TRUE]>> \o Tail(stack)
      /\ operations' \in Int /\ operations' > 0
  BY DEF Charge, IInv
<1>3. Top \in Frames(E, C, V)
  BY <1>1, <1>2, Below DEF Top
<1>4. [Top EXCEPT !.charged = TRUE] \in Frames(E, C, V)
  BY <1>3 DEF Frames
<1> QED
  BY <1>1, <1>2, <1>4, ReplacePreserves

--------------------------------------------------------------------------------
(* Arms *)

\* Whatever a reference leads to, following it is one of the moves.
LEMMA ReferencesMove ==
    ASSUME NEW n, NEW s
    PROVE  Fetch(n, s) \/ Ask(n, s) \/ Continue(n, s) => Move
<1>1. Fetch(n, s) => Move
  BY DEF Fetch, Move
<1>2. Ask(n, s) => Move
  BY <1>1 DEF Ask, Move
<1>3. Continue(n, s) => Move
  BY DEF Continue, Move
<1> QED
  BY <1>1, <1>2, <1>3

\* An arm works on a charged frame that nothing short-circuits, and does to it
\* one of the moves.
LEMMA ArmsMove ==
    ASSUME Arm
    PROVE  /\ stack # <<>> /\ Top.charged /\ ~ShortCircuits(Top) /\ limits' = limits
           /\ Move
<1> USE DEF Working
<1>1. CASE Literal
  BY <1>1 DEF Literal, Move
<1>2. CASE LookupScope
  BY <1>2 DEF LookupScope, Move
<1>3. CASE LookupTree
  BY <1>3 DEF LookupTree, Move
<1>4. CASE LookupHash
  BY <1>4 DEF LookupHash, Move
<1>5. CASE If
  BY <1>5, ReferencesMove DEF If, Move
<1>6. CASE Let
  BY <1>6, ReferencesMove DEF Let
<1>7. CASE Lambda
  BY <1>7 DEF Lambda, Move
<1>8. CASE Operate
  BY <1>8, ReferencesMove DEF Operate, Move
<1>9. CASE Apply
  BY <1>9, ReferencesMove DEF Apply, Move
<1>10. CASE Argument
  BY <1>10, ReferencesMove DEF Argument, Move
<1>11. CASE Element
  BY <1>11, ReferencesMove DEF Element, ApplyToValues, Move
<1>12. CASE Collect
  BY <1>12 DEF Collect, Move
<1>13. CASE Value
  BY <1>13 DEF Value, Move
<1>14. CASE Alias
  BY <1>14, ReferencesMove DEF Alias, Move
<1>15. CASE Malformed
  BY <1>15 DEF Malformed, Move
<1>16. CASE Store
  BY <1>16, ReferencesMove DEF Store, Move
<1> QED
  BY <1>1, <1>2, <1>3, <1>4, <1>5, <1>6, <1>7, <1>8, <1>9, <1>10, <1>11, <1>12, <1>13,
     <1>14, <1>15, <1>16 DEF Arm

\* No arm runs in an exhausted evaluation, for the innermost frame short-circuits.
LEMMA ArmsHaveBudget == ASSUME IInv, Arm PROVE operations > 0
<1>1. stack # <<>> /\ Top.charged /\ ~ShortCircuits(Top)
  BY ArmsMove
<1>2. SUFFICES ASSUME operations <= 0 PROVE FALSE
  BY DEF IInv
<1>3. Top.vals # <<>> /\ Last(Top.vals) = Minted("budget_exhausted")
  BY <1>1, <1>2 DEF IInv, HandedExhaustion
<1> QED
  BY <1>1, <1>3 DEF ShortCircuits, Halting, IsError, Minted

\* Whatever an arm does, it keeps the invariant.
LEMMA ArmPreserves ==
    ASSUME IInv, Arm
    PROVE  IInv'
<1>1. /\ stack # <<>> /\ Top.charged /\ ~ShortCircuits(Top) /\ limits' = limits
      /\ Move
  BY ArmsMove
<1>2. operations > 0
  BY ArmsHaveBudget
<1>3. PICK v, n, s : Give(v) \/ Return(v) \/ Call(n, s) \/ Become(n, s)
  BY <1>1 DEF Move
<1>4. CASE Give(v)
  BY <1>1, <1>2, <1>4, GivePreserves
<1>5. CASE Return(v)
  <2>1. Leave(v) /\ operations' \in Int /\ ~(operations' <= 0)
    BY <1>2, <1>5 DEF Return, IInv
  <2> QED
    BY <1>1, <2>1, LeavePreserves
<1>6. CASE Call(n, s)
  BY <1>1, <1>2, <1>6, CallPreserves
<1>7. CASE Become(n, s)
  BY <1>1, <1>2, <1>7, BecomePreserves
<1> QED
  BY <1>3, <1>4, <1>5, <1>6, <1>7

--------------------------------------------------------------------------------
(* The evaluation *)

\* Before the evaluation there is no frame.
LEMMA InitIInv == Init => IInv
<1> SUFFICES ASSUME Init PROVE IInv
  OBVIOUS
<1>1. /\ limits \in Limits /\ operations \in Nat /\ depth \in Nat
      /\ stack = <<>> /\ answer = None /\ depth = limits.depth
  BY BudgetsAreNatural DEF Init
<1>2. Stacked(stack)
  <2>1. <<>> \in Seq(Frames({}, {}, {}))
    OBVIOUS
  <2> QED
    BY <1>1, <2>1 DEF Stacked
<1>3. Len(stack) = 0
  BY <1>1
<1> QED
  BY <1>1, <1>2, <1>3 DEF IInv, DepthBalanced, HandedExhaustion, ExhaustionDecides

\* The first frame takes one unit of depth.
LEMMA StartPreserves ==
    ASSUME IInv, Start
    PROVE  IInv'
<1>1. /\ stack = <<>> /\ answer = None /\ Len(stack) = 0
      /\ limits' = limits /\ operations' = operations
  BY DEF Start
<1>2. CASE depth > 0 /\ stack' = <<Frame(root, Empty)>> /\ depth' = depth - 1 /\ UNCHANGED answer
  <2>1. Frame(root, Empty) \in Frames({root}, {Empty}, {}) /\ Frame(root, Empty).charged = FALSE
    BY DEF Frame, Frames
  <2>2. stack' \in Seq(Frames({root}, {Empty}, {})) /\ Len(stack') = 1 /\ Head(stack') = Frame(root, Empty)
    BY <1>2, <2>1
  <2>3. Stacked(stack')
    BY <2>2 DEF Stacked
  <2>4. ~(Top.charged)'
    BY <2>1, <2>2 DEF Top
  <2>5. HandedExhaustion'
    BY <2>4 DEF HandedExhaustion
  <2>6. DepthBalanced' /\ depth' \in Nat /\ ExhaustionDecides' /\ answer' = None
    BY <1>1, <1>2, <2>2 DEF IInv, DepthBalanced, ExhaustionDecides
  <2> QED
    BY <1>1, <2>2, <2>3, <2>5, <2>6 DEF IInv
<1>3. CASE depth <= 0 /\ answer' = Minted("depth_exceeded") /\ UNCHANGED <<stack, depth>>
  <2>1. limits.depth = 0
    BY <1>1, <1>3 DEF IInv, DepthBalanced
  <2> QED
    BY <1>1, <1>3, <2>1 DEF IInv, DepthBalanced, HandedExhaustion, ExhaustionDecides
<1> QED
  BY <1>2, <1>3 DEF Start

\* ShortCircuit hands on what it was handed, and an exhausted budget as such.
LEMMA ShortCircuitPreserves ==
    ASSUME IInv, ShortCircuit
    PROVE  IInv'
<1>1. /\ stack # <<>> /\ Top.charged /\ limits' = limits /\ operations' = operations
      /\ Leave(Reported(Top, Last(Vals)))
  BY DEF ShortCircuit, Return
<1>2. operations <= 0 => Reported(Top, Last(Vals)) = Minted("budget_exhausted")
  <2>1. operations <= 0 => Last(Vals) = Minted("budget_exhausted")
    BY <1>1 DEF IInv, HandedExhaustion, Vals
  <2>2. Minted("budget_exhausted").code = "budget_exhausted"
    BY DEF Minted
  <2> QED
    BY <2>1, <2>2 DEF Reported
<1>3. PICK v : v = Reported(Top, Last(Vals))
  OBVIOUS
<1>4. Leave(v) /\ operations' \in Int /\ (operations' <= 0 => v = Minted("budget_exhausted"))
  BY <1>1, <1>2, <1>3 DEF IInv
<1> QED
  BY <1>1, <1>4, LeavePreserves

\* Running out of budget makes the answer budget_exhausted.
LEMMA ExhaustPreserves ==
    ASSUME IInv, Exhaust
    PROVE  IInv'
<1>1. /\ stack # <<>> /\ limits' = limits /\ operations' \in Int
      /\ Leave(Minted("budget_exhausted"))
  BY DEF Exhaust, IInv
<1> QED
  BY <1>1, LeavePreserves

\* Every step keeps the invariant.
LEMMA NextIInv == IInv /\ [Next]_vars => IInv'
<1> SUFFICES ASSUME IInv, [Next]_vars PROVE IInv'
  OBVIOUS
<1>1. CASE Start
  BY <1>1, StartPreserves
<1>2. CASE Charge
  BY <1>2, ChargePreserves
<1>3. CASE Exhaust
  BY <1>3, ExhaustPreserves
<1>4. CASE ShortCircuit
  BY <1>4, ShortCircuitPreserves
<1>5. CASE Arm
  BY <1>5, ArmPreserves
<1>6. CASE UNCHANGED vars
  BY <1>6 DEF vars, IInv, Stacked, DepthBalanced, HandedExhaustion, ExhaustionDecides, Top
<1> QED
  BY <1>1, <1>2, <1>3, <1>4, <1>5, <1>6 DEF Next, Step, Rest, Arm

\* The invariant holds in every reachable state.
LEMMA Invariance == Spec => []IInv
  BY InitIInv, NextIInv, PTL DEF Spec

\* Every frame of evaluate() gives its unit of depth back, by whatever of its
\* exits it ends: at every moment the depth left and the frames entered add up to
\* the depth the evaluation was given.
THEOREM DepthIsBalanced == Spec => []DepthBalanced
<1>1. IInv => DepthBalanced
  BY DEF IInv
<1> QED
  BY <1>1, Invariance, PTL

\* An evaluation whose operations have run out answers budget_exhausted: no
\* operator, branch or collection builtin on the way makes it anything else.
THEOREM ExhaustionIsTheAnswer == Spec => []ExhaustionDecides
<1>1. IInv => ExhaustionDecides
  BY DEF IInv
<1> QED
  BY <1>1, Invariance, PTL
--------------------------------------------------------------------------------
(***************************************************************************)
(* Evaluating twice.  What the innermost frame does next is a function of   *)
(* the frame and of what has been written, and so is the whole evaluation   *)
(* of its expression: decisions stand for the moves the arms make.          *)
(***************************************************************************)
Giving(v) == [move |-> "give", value |-> v]
Returning(v) == [move |-> "return", value |-> v]
Calling(n, s) == [move |-> "call", expr |-> n, scope |-> s]
Becoming(n, s) == [move |-> "become", expr |-> n, scope |-> s]

Fetching(n, s) == IF Resolves(n) THEN Calling(n, s) ELSE Giving(Minted("not_found"))
Asking(n, s) == IF IsStoredError(n) THEN Giving(n.value) ELSE Fetching(n, s)
Continuing(n, s) ==
    IF ~Resolves(n) THEN Returning(Minted("not_found"))
    ELSE IF IsStoredError(n) THEN Returning(n.value) ELSE Becoming(n, s)

Looking(path, scope, ws) ==
    IF path \notin Readable THEN Returning(Minted("permission_denied"))
    ELSE IF Bound(ws, path) = None THEN Returning(Minted("not_found"))
    ELSE IF Bound(ws, path).kind \in Expressions THEN Becoming(Bound(ws, path), scope)
    ELSE Returning(Bound(ws, path).value)

Following(n, s) ==
    IF ~Resolves(n) THEN Returning(Minted("not_found"))
    ELSE IF n.kind = "stored" THEN Returning(n.value) ELSE Becoming(n, s)

Branching(f) ==
    IF f.vals = <<>> THEN Asking(f.expr.args[1], f.scope)
    ELSE IF Truthy(f.vals[1]) THEN Continuing(f.expr.args[2], f.scope)
    ELSE IF Len(f.expr.args) = 3 THEN Continuing(f.expr.args[3], f.scope)
    ELSE Returning(Null)

Binding(f) ==
    LET inner == Bind(f.scope, f.expr.names, f.vals) IN
    IF Len(f.vals) < Len(f.expr.names) THEN Asking(f.expr.args[Len(f.vals) + 1], inner)
                                       ELSE Continuing(Last(f.expr.args), inner)

\* The next operand of e, or the end with its result.
Operand(e, f) ==
    LET n == Len(f.vals) + 1 IN
    IF TakesStoredErrors(e, n) THEN Asking(e.args[n], f.scope) ELSE Fetching(e.args[n], f.scope)

Operating(f) ==
    IF Len(f.vals) < Arity(f.expr) THEN Operand(f.expr, f) ELSE Returning(Result(f.expr, f.vals))

StandingFor(f) ==
    LET operator == Inline(f.expr, f.vals[1].text) IN
    IF f.vals = <<>> THEN Fetching(f.expr.args[1], f.scope)
    ELSE IF f.vals[1].kind # "text" THEN Returning(Minted("type_mismatch"))
    ELSE IF LacksOperands(f.expr) THEN Returning(Minted("missing_argument"))
    ELSE IF Len(f.vals) > Arity(operator) THEN Returning(Result(operator, Tail(f.vals)))
    ELSE Operand(f.expr, f)

Applying(f) ==
    LET given == {i \in DOMAIN f.expr.names : f.expr.names[i] = f.vals[1].params[Len(f.vals)]} IN
    IF f.vals = <<>> THEN Asking(f.expr.args[1], f.scope)
    ELSE IF f.vals[1].kind # "closure" THEN Returning(Minted("type_mismatch"))
    ELSE IF f.vals[1].broken # None THEN Returning(Minted(f.vals[1].broken))
    ELSE IF Saturated(f)
         THEN Continuing(f.vals[1].body, Bind(f.vals[1].env, f.vals[1].params, Tail(f.vals)))
    ELSE IF given = {} THEN Returning(Minted("missing_argument"))
    ELSE Asking(f.expr.args[1 + CHOOSE i \in given : TRUE], f.scope)

ApplyingTo(c, values) ==
    IF c.broken # None THEN Giving(Minted(c.broken))
    ELSE IF Len(c.params) > Len(values) THEN Giving(Minted("missing_argument"))
    ELSE Fetching(c.body, Bind(c.env, c.params, values))

Collecting(f) ==
    IF Unfit(f) # None THEN Returning(Minted(Unfit(f)))
    ELSE IF MoreArguments(f) THEN Fetching(f.expr.args[Len(f.vals) + 1], f.scope)
    ELSE IF MoreElements(f) THEN ApplyingTo(f.vals[2], NextElement(f))
    ELSE Returning(Collected(f))

Storing(f) ==
    IF f.vals = <<>> THEN Fetching(f.expr.args[1], f.scope)
    ELSE IF Len(f.vals) = 2 THEN Returning(Written(f.vals[2]))
    ELSE IF f.vals[1].kind # "text" THEN Returning(Minted("type_mismatch"))
    ELSE IF f.vals[1].text \notin DOMAIN Tree THEN Returning(Minted("invalid_expression"))
    ELSE IF f.vals[1].text \notin Writable THEN Returning(Minted("permission_denied"))
    ELSE Fetching(f.expr.args[2], f.scope)

Decision(f, ws) ==
    LET is(kinds) == f.expr.kind \in kinds IN
    IF ShortCircuits(f) THEN Returning(Reported(f, Last(f.vals)))
    ELSE IF is({"literal"}) THEN Returning(f.expr.value)
    ELSE IF is({"scope"})
         THEN Returning(IF f.expr.name \in DOMAIN f.scope THEN f.scope[f.expr.name]
                                                          ELSE Minted("not_found"))
    ELSE IF is({"tree"}) THEN Looking(f.expr.path, f.scope, ws)
    ELSE IF is({"hash"}) THEN Following(f.expr.args[1], f.scope)
    ELSE IF is({"if"}) THEN Branching(f)
    ELSE IF is({"let"}) THEN Binding(f)
    ELSE IF is({"lambda"})
         THEN Returning(Closure(f.expr.names, f.expr.args[1], Captured(f.scope), None))
    ELSE IF is(Operators) THEN Operating(f)
    ELSE IF is({"alias"}) THEN StandingFor(f)
    ELSE IF is({"malformed"}) THEN Returning(Minted("invalid_expression"))
    ELSE IF is({"apply"}) THEN Applying(f)
    ELSE IF is(Collections) THEN Collecting(f)
    ELSE IF is({"store"}) THEN Storing(f)
    ELSE Returning(IF f.expr.value.kind = "entity" THEN Minted("unknown_type") ELSE f.expr.value)

\* What it writes on the way.
WrittenBy(f, ws) ==
    IF ~ShortCircuits(f) /\ f.expr.kind = "store" /\ Len(f.vals) = 2
    THEN Append(ws, [path |-> f.vals[1].text, value |-> Written(f.vals[2])]) ELSE ws

\* A decision, carried out.
Makes(d) ==
    \/ d.move = "give" /\ Give(d.value)
    \/ d.move = "return" /\ Return(d.value)
    \/ d.move = "call" /\ Call(d.expr, d.scope)
    \/ d.move = "become" /\ Become(d.expr, d.scope)

\* References are followed as decided.
LEMMA ReferencesDecided ==
    ASSUME NEW n, NEW s
    PROVE  /\ Fetch(n, s) => Makes(Fetching(n, s))
           /\ Ask(n, s) => Makes(Asking(n, s))
           /\ Continue(n, s) => Makes(Continuing(n, s))
<1>1. Fetch(n, s) => Makes(Fetching(n, s))
  BY DEF Fetch, Fetching, Makes, Calling, Giving
<1>2. Ask(n, s) => Makes(Asking(n, s))
  BY <1>1 DEF Ask, Asking, Makes, Giving
<1>3. Continue(n, s) => Makes(Continuing(n, s))
  BY DEF Continue, Continuing, Makes, Returning, Becoming
<1> QED
  BY <1>1, <1>2, <1>3

\* Returning is making the decision to return.
LEMMA ReturnsDecided == ASSUME NEW v, Return(v) PROVE Makes(Returning(v))
  BY DEF Makes, Returning

\* A step as decided.
Decided == Makes(Decision(Top, writes)) /\ writes' = WrittenBy(Top, writes)

\* The values of a frame are a sequence.
LEMMA FrameValues ==
    ASSUME Stacked(stack), stack # <<>>
    PROVE  Len(Vals) \in Nat /\ (Vals = <<>> <=> Len(Vals) = 0)
<1>1. PICK E, C, V : stack \in Seq(Frames(E, C, V))
  BY DEF Stacked
<1>2. Top \in Frames(E, C, V)
  BY <1>1, Below DEF Top
<1>3. Vals \in Seq(V)
  BY <1>2 DEF Frames, Vals
<1> QED
  BY <1>3

\* Every arm makes the decision of its kind.
LEMMA ArmsDecided ==
    ASSUME Arm, Stacked(stack)
    PROVE  Decided
<1> USE DEF Working, Vals, Decided
<1>0. Len(Vals) \in Nat /\ (Vals = <<>> <=> Len(Vals) = 0)
  BY FrameValues, ArmsMove
<1>1. ASSUME Literal PROVE Decided
  BY <1>1, ReturnsDecided DEF Literal, Decision, WrittenBy, effects
<1>2. ASSUME LookupScope PROVE Decided
  BY <1>2, ReturnsDecided DEF LookupScope, Decision, WrittenBy, effects
<1>3. ASSUME LookupTree PROVE Decided
  BY <1>3, ReturnsDecided DEF LookupTree, Decision, WrittenBy, effects, Looking, Makes, Becoming
<1>4. ASSUME LookupHash PROVE Decided
  BY <1>4, ReturnsDecided DEF LookupHash, Decision, WrittenBy, effects, Following, Makes, Becoming
<1>5. ASSUME If PROVE Decided
  BY <1>5, ReturnsDecided, ReferencesDecided DEF If, Decision, WrittenBy, effects, Branching
<1>6. ASSUME Let PROVE Decided
  BY <1>6, ReturnsDecided, ReferencesDecided DEF Let, Decision, WrittenBy, effects, Binding
<1>7. ASSUME Lambda PROVE Decided
  BY <1>7, ReturnsDecided DEF Lambda, Decision, WrittenBy, effects
<1>8. ASSUME Operate PROVE Decided
  <2>1. Top.expr.kind \in Operators /\ ~ShortCircuits(Top) /\ writes' = writes
    BY <1>8 DEF Operate, effects
  <2>2. Decision(Top, writes) = Operating(Top) /\ WrittenBy(Top, writes) = writes
    BY <2>1 DEF Operators, Decision, WrittenBy
  <2>3. Makes(Operating(Top))
    BY <1>8, ReturnsDecided, ReferencesDecided DEF Operate, Operating, Operand
  <2> QED
    BY <2>1, <2>2, <2>3
<1>9. ASSUME Apply PROVE Decided
  <2>1. Top.expr.kind = "apply" /\ ~ShortCircuits(Top) /\ writes' = writes
    BY <1>9 DEF Apply, effects
  <2>2. Decision(Top, writes) = Applying(Top) /\ WrittenBy(Top, writes) = writes
    BY <2>1 DEF Operators, Decision, WrittenBy
  <2>3. Makes(Applying(Top))
    BY <1>9, ReturnsDecided, ReferencesDecided DEF Apply, Applying
  <2> QED
    BY <2>1, <2>2, <2>3
<1>10. ASSUME Alias PROVE Decided
  <2>1. Top.expr.kind = "alias" /\ ~ShortCircuits(Top) /\ writes' = writes
    BY <1>10 DEF Alias, effects
  <2>2. Decision(Top, writes) = StandingFor(Top) /\ WrittenBy(Top, writes) = writes
    BY <2>1 DEF Operators, Decision, WrittenBy
  <2>3. Makes(StandingFor(Top))
    BY <1>10, ReturnsDecided, ReferencesDecided DEF Alias, StandingFor, Operand
  <2> QED
    BY <2>1, <2>2, <2>3
<1>11. ASSUME Argument \/ Element \/ Collect PROVE Decided
  <2>1. Top.expr.kind \in Collections /\ ~ShortCircuits(Top) /\ writes' = writes
    BY <1>11 DEF Argument, Element, Collect, effects
  <2>2. Decision(Top, writes) = Collecting(Top) /\ WrittenBy(Top, writes) = writes
    BY <2>1 DEF Collections, Operators, Decision, WrittenBy
  <2>3. ASSUME Argument PROVE Makes(Collecting(Top))
    BY <2>3, ReturnsDecided, ReferencesDecided DEF Argument, Collecting
  <2>4. ASSUME Element PROVE Makes(Collecting(Top))
    <3>1. Collecting(Top) = ApplyingTo(Vals[2], NextElement(Top))
      BY <2>4 DEF Element, Collecting
    <3>2. PICK c, values : c = Vals[2] /\ values = NextElement(Top)
      OBVIOUS
    <3>3. ApplyToValues(c, values)
      BY <2>4, <3>2 DEF Element
    <3>4. Makes(ApplyingTo(c, values))
      BY <3>3, ReferencesDecided DEF ApplyToValues, ApplyingTo, Makes, Giving
    <3> QED
      BY <3>1, <3>2, <3>4
  <2>5. ASSUME Collect PROVE Makes(Collecting(Top))
    BY <2>5, ReturnsDecided DEF Collect, Collecting
  <2> QED
    BY <1>11, <2>1, <2>2, <2>3, <2>4, <2>5
<1>12. ASSUME Store PROVE Decided
  <2>1. Top.expr.kind = "store" /\ ~ShortCircuits(Top)
    BY <1>12 DEF Store
  <2>2. Decision(Top, writes) = Storing(Top)
    BY <2>1 DEF Collections, Operators, Decision
  <2>3. CASE Vals = <<>>
    <3>1. Fetch(Top.expr.args[1], Top.scope) /\ writes' = writes
      BY <1>0, <1>12, <2>3 DEF Store
    <3> QED
      BY <1>0, <2>1, <2>2, <2>3, <3>1, ReferencesDecided DEF Storing, WrittenBy
  <2>4. CASE Vals # <<>> /\ Len(Vals) = 1
    <3>1. /\ writes' = writes
          /\ CASE Vals[1].kind # "text" -> Return(Minted("type_mismatch"))
               [] Vals[1].kind = "text" /\ Vals[1].text \notin DOMAIN Tree ->
                    Return(Minted("invalid_expression"))
               [] Vals[1].kind = "text" /\ Vals[1].text \in DOMAIN Tree \ Writable ->
                    Return(Minted("permission_denied"))
               [] OTHER -> Fetch(Top.expr.args[2], Top.scope)
      BY <1>12, <2>4 DEF Store
    <3>2. Makes(Storing(Top))
      BY <2>4, <3>1, ReturnsDecided, ReferencesDecided DEF Storing
    <3> QED
      BY <2>1, <2>2, <2>4, <3>1, <3>2 DEF WrittenBy
  <2>5. CASE Vals # <<>> /\ Len(Vals) = 2
    BY <1>12, <2>1, <2>2, <2>5, ReturnsDecided DEF Store, Storing, WrittenBy
  <2> QED
    BY <1>12, <2>3, <2>4, <2>5 DEF Store
<1>13. ASSUME Malformed PROVE Decided
  BY <1>13, ReturnsDecided DEF Malformed, Decision, WrittenBy, effects, Operators
<1>14. ASSUME Value PROVE Decided
  <2>1. Top.expr.kind = "stored" /\ ~ShortCircuits(Top) /\ writes' = writes
    BY <1>14 DEF Value, effects
  <2>2. Decision(Top, writes) = Returning(IF Top.expr.value.kind = "entity" THEN Minted("unknown_type") ELSE Top.expr.value)
    BY <2>1 DEF Operators, Collections, Decision
  <2> QED
    BY <1>14, <2>1, <2>2, ReturnsDecided DEF Value, WrittenBy
<1> QED
  BY <1>1, <1>2, <1>3, <1>4, <1>5, <1>6, <1>7, <1>8, <1>9, <1>10, <1>11, <1>12, <1>13, <1>14
     DEF Arm

--------------------------------------------------------------------------------
(* The step function.  A state of an evaluation is its stack, its writes, the *)
(* steps spent and the answer; r is the root, D the depth.                   *)

State(s, ws, n, a) == [stack |-> s, writes |-> ws, spent |-> n, answer |-> a]
Here == State(stack, writes, limits.operations - operations, answer)

StackAfter(D, s, d) ==
    IF d.move = "give" THEN <<With(Head(s), d.value)>> \o Tail(s)
    ELSE IF d.move = "return"
         THEN IF Len(s) = 1 THEN <<>> ELSE <<With(Head(Tail(s)), d.value)>> \o Tail(Tail(s))
    ELSE IF d.move = "become" THEN <<Frame(d.expr, d.scope)>> \o Tail(s)
    ELSE IF Len(s) < D THEN <<Frame(d.expr, d.scope)>> \o s
    ELSE <<With(Head(s), Minted("depth_exceeded"))>> \o Tail(s)

AnswerAfter(s, d) == IF d.move = "return" /\ Len(s) = 1 THEN d.value ELSE None

Begun(r, D, c) ==
    IF D > 0 THEN State(<<Frame(r, Empty)>>, c.writes, c.spent, None)
             ELSE State(<<>>, c.writes, c.spent, Minted("depth_exceeded"))

Charged(c) ==
    State(<<[Head(c.stack) EXCEPT !.charged = TRUE]>> \o Tail(c.stack), c.writes, c.spent + 1, None)

Worked(D, c) ==
    LET d == Decision(Head(c.stack), c.writes) IN
    State(StackAfter(D, c.stack, d), WrittenBy(Head(c.stack), c.writes), c.spent, AnswerAfter(c.stack, d))

After(r, D, c) ==
    IF c.stack = <<>> THEN Begun(r, D, c)
    ELSE IF Head(c.stack).charged THEN Worked(D, c) ELSE Charged(c)

\* What a decision makes of the stack and the answer.
LEMMA DecisionsAct ==
    ASSUME IInv, stack # <<>>, limits' = limits, NEW d, Makes(d)
    PROVE  /\ stack' = StackAfter(limits.depth, stack, d)
           /\ answer' = AnswerAfter(stack, d)
           /\ operations' = operations
<1>1. answer = None
  BY DEF IInv
<1>2. ASSUME d.move = "give", Give(d.value)
      PROVE  /\ stack' = StackAfter(limits.depth, stack, d)
             /\ answer' = AnswerAfter(stack, d) /\ operations' = operations
  BY <1>1, <1>2 DEF Give, StackAfter, AnswerAfter
<1>3. ASSUME d.move = "return", Return(d.value)
      PROVE  /\ stack' = StackAfter(limits.depth, stack, d)
             /\ answer' = AnswerAfter(stack, d) /\ operations' = operations
  BY <1>3 DEF Return, Leave, Pop, StackAfter, AnswerAfter
<1>4. ASSUME d.move = "call", Call(d.expr, d.scope)
      PROVE  /\ stack' = StackAfter(limits.depth, stack, d)
             /\ answer' = AnswerAfter(stack, d) /\ operations' = operations
  <2>1. PICK E, C, V : stack \in Seq(Frames(E, C, V))
    BY DEF IInv, Stacked
  <2>2. Len(stack) \in Nat
    BY <2>1
  <2>3. limits.depth = depth + Len(stack) /\ depth \in Nat
    BY DEF IInv, DepthBalanced
  <2>4. depth > 0 <=> Len(stack) < limits.depth
    BY <2>2, <2>3
  <2> QED
    BY <1>1, <1>4, <2>4 DEF Call, Give, StackAfter, AnswerAfter
<1>5. ASSUME d.move = "become", Become(d.expr, d.scope)
      PROVE  /\ stack' = StackAfter(limits.depth, stack, d)
             /\ answer' = AnswerAfter(stack, d) /\ operations' = operations
  BY <1>1, <1>5 DEF Become, StackAfter, AnswerAfter
<1> QED
  BY <1>2, <1>3, <1>4, <1>5 DEF Makes

\* A step that does not run out of budget is the one step there is.
LEMMA StepsAreDetermined ==
    ASSUME IInv, Step, ~Exhaust
    PROVE  Here' = After(root, limits.depth, Here)
<1>1. limits' = limits /\ limits.operations \in Nat /\ operations \in Int
  <2>1. Start \/ Charge \/ ShortCircuit \/ Arm
    BY DEF Step, Arm
  <2>2. limits' = limits
    BY <2>1, ArmsMove DEF Start, Charge, ShortCircuit
  <2> QED
    BY <2>2, BudgetsAreNatural DEF IInv
<1>2. /\ Here.stack = stack /\ Here.writes = writes /\ Here.answer = answer
      /\ Here.spent = limits.operations - operations
  BY DEF Here, State
<1>3. CASE Start
  <2>1. Here' = Begun(root, limits.depth, Here)
    <3>1. stack = <<>> /\ Len(stack) = 0 /\ depth = limits.depth /\ depth \in Nat
      BY <1>3 DEF Start, IInv, DepthBalanced
    <3>2. CASE depth > 0
      BY <1>1, <1>2, <1>3, <3>1, <3>2 DEF Start, Here, Begun, State, effects
    <3>3. CASE depth <= 0
      BY <1>1, <1>2, <1>3, <3>1, <3>3 DEF Start, Here, Begun, State, effects
    <3> QED
      BY <3>1, <3>2, <3>3
  <2> QED
    BY <1>2, <1>3, <2>1 DEF Start, After
<1>4. CASE Charge
  <2>1. answer = None
    BY <1>4 DEF Charge, IInv
  <2>2. (limits.operations - operations) + 1 = limits.operations - (operations - 1)
    BY <1>1
  <2>3. Here' = Charged(Here)
    BY <1>1, <1>2, <1>4, <2>1, <2>2 DEF Charge, Here, Charged, State, effects, Top
  <2> QED
    BY <1>2, <1>4, <2>3 DEF Charge, After, Top
<1>5. CASE ShortCircuit \/ Arm
  <2>1. stack # <<>> /\ Top.charged /\ Decided
    <3>1. CASE Arm
      BY <3>1, ArmsMove, ArmsDecided DEF IInv
    <3>2. CASE ShortCircuit
      <4>1. PICK v : v = Reported(Top, Last(Vals))
        OBVIOUS
      <4>2. /\ stack # <<>> /\ Top.charged /\ ShortCircuits(Top) /\ writes' = writes
            /\ Return(v)
        BY <3>2, <4>1 DEF ShortCircuit, effects
      <4>3. Decision(Top, writes) = Returning(v) /\ WrittenBy(Top, writes) = writes
        BY <4>1, <4>2 DEF Decision, WrittenBy, Vals
      <4> QED
        BY <4>2, <4>3, ReturnsDecided DEF Decided
    <3> QED
      BY <1>5, <3>1, <3>2
  <2>2. PICK d : d = Decision(Top, writes)
    OBVIOUS
  <2>3. /\ stack' = StackAfter(limits.depth, stack, d)
        /\ answer' = AnswerAfter(stack, d)
        /\ operations' = operations
        /\ writes' = WrittenBy(Top, writes)
    BY <1>1, <2>1, <2>2, DecisionsAct DEF Decided
  <2>4. Here' = Worked(limits.depth, Here)
    BY <1>1, <1>2, <2>2, <2>3 DEF Here, Worked, State, Top
  <2> QED
    BY <1>2, <2>1, <2>4 DEF After, Top
<1> QED
  BY <1>3, <1>4, <1>5 DEF Step, Arm

\* A call makes the stack longer by one frame.
LEMMA FrameOnTop ==
    ASSUME NEW k, Stacked(k), NEW n, NEW s
    PROVE  Len(k) \in Nat /\ Len(<<Frame(n, s)>> \o k) = Len(k) + 1
<1>1. PICK E, C, V : k \in Seq(Frames(E, C, V)) /\ n \in E /\ s \in C /\ n \in V
  BY Room
<1>2. Frame(n, s) \in Frames(E, C, V)
  BY <1>1 DEF Frame, Frames
<1> QED
  BY <1>1, <1>2, Pushed

\* Depth tells two evaluations apart only at a call that one of them is denied.
LEMMA DepthSuffices ==
    ASSUME NEW r, NEW c, Stacked(c.stack), NEW D \in Nat, NEW L \in Nat, L <= D,
           Len(After(r, D, c).stack) <= L
    PROVE  After(r, L, c) = After(r, D, c)
<1>1. CASE c.stack = <<>>
  <2>1. D > 0 => L > 0
    <3>1. SUFFICES ASSUME D > 0 PROVE L > 0
      OBVIOUS
    <3>2. After(r, D, c).stack = <<Frame(r, Empty)>>
      BY <1>1, <3>1 DEF After, Begun, State
    <3>3. Len(<<Frame(r, Empty)>>) = 1
      OBVIOUS
    <3> QED
      BY <3>2, <3>3
  <2>2. D > 0 <=> L > 0
    BY <2>1
  <2> QED
    BY <1>1, <2>2 DEF After, Begun
<1>2. CASE c.stack # <<>> /\ ~Head(c.stack).charged
  BY <1>2 DEF After
<1>3. CASE c.stack # <<>> /\ Head(c.stack).charged
  <2> DEFINE d == Decision(Head(c.stack), c.writes)
  <2>1. After(r, D, c) = Worked(D, c) /\ After(r, L, c) = Worked(L, c)
    BY <1>3 DEF After
  <2>2. StackAfter(L, c.stack, d) = StackAfter(D, c.stack, d)
    <3>1. After(r, D, c).stack = StackAfter(D, c.stack, d)
      BY <2>1 DEF Worked, State
    <3> HIDE DEF d
    <3>2. CASE d.move \in {"give", "return", "become"}
      BY <3>2 DEF StackAfter
    <3>3. CASE d.move \notin {"give", "return", "become"}
      <4>3. Len(c.stack) \in Nat /\ Len(<<Frame(d.expr, d.scope)>> \o c.stack) = Len(c.stack) + 1
        BY FrameOnTop
      <4>4. Len(c.stack) < D => Len(c.stack) < L
        BY <3>1, <3>3, <4>3 DEF StackAfter
      <4>5. Len(c.stack) < L <=> Len(c.stack) < D
        BY <4>3, <4>4
      <4> QED
        BY <3>3, <4>5 DEF StackAfter
    <3> QED
      BY <3>2, <3>3
  <2> QED
    BY <2>1, <2>2 DEF Worked
<1> QED
  BY <1>1, <1>2, <1>3

--------------------------------------------------------------------------------
(* Steps and what they spend and write.                                      *)

\* An arm spends no operation: only entering a frame does.
LEMMA ArmsSpendNothing == ASSUME Arm PROVE operations' = operations /\ UNCHANGED <<root, limits>>
<1>1. UNCHANGED <<root, limits>>
  BY DEF Arm, Literal, LookupScope, LookupTree, LookupHash, If, Let, Lambda, Operate, Alias,
         Malformed, Apply, Argument, Element, Collect, Store, Value, Working
<1>2. operations' = operations
  BY ArmsMove DEF Move, Give, Return, Call, Become
<1> QED
  BY <1>1, <1>2

\* Only a step that is charged spends, and only one that is not runs out.
LEMMA StepSpends ==
    ASSUME IInv, Step
    PROVE  /\ answer = None
           /\ UNCHANGED <<root, limits>>
           /\ \/ operations' = operations /\ ~Exhaust
              \/ operations' = operations - 1 /\ operations > 1 /\ ~Exhaust
              \/ Exhaust /\ operations' = operations - 1 /\ operations <= 1
<1>1. operations \in Int
  BY DEF IInv
<1>2. Exhaust => operations' = operations - 1 /\ operations <= 1
  BY DEF Exhaust
<1>3. CASE Start
  <2>1. ~Exhaust
    BY <1>3 DEF Start, Exhaust
  <2> QED
    BY <1>3, <2>1 DEF Start
<1>4. CASE Charge
  <2>1. ~Exhaust /\ answer = None
    BY <1>1, <1>4 DEF Charge, Exhaust, IInv
  <2> QED
    BY <1>4, <2>1 DEF Charge
<1>5. CASE Exhaust
  BY <1>2, <1>5 DEF Exhaust, IInv
<1>6. CASE ShortCircuit
  <2>1. ~Exhaust /\ answer = None
    BY <1>6 DEF ShortCircuit, Exhaust, IInv
  <2> QED
    BY <1>6, <2>1 DEF ShortCircuit, Return
<1>7. CASE Arm
  <2>1. ~Exhaust /\ answer = None
    BY <1>7, ArmsMove DEF Exhaust, IInv
  <2> QED
    BY <1>7, <2>1, ArmsSpendNothing
<1> QED
  BY <1>3, <1>4, <1>5, <1>6, <1>7 DEF Step, Arm

Sequence(ws) == \E W : ws \in Seq(W)
Starts(u, w) == Len(u) <= Len(w) /\ \A i \in 1 .. Len(u) : u[i] = w[i]

\* What is appended to still begins as it did.
LEMMA AppendExtends ==
    ASSUME NEW ws, Sequence(ws), NEW x
    PROVE  /\ Sequence(Append(ws, x)) /\ Starts(ws, Append(ws, x)) /\ Starts(ws, ws)
<1>1. PICK W : ws \in Seq(W)
  BY DEF Sequence
<1> DEFINE W2 == W \cup {x}
<1>2. ws \in Seq(W2) /\ x \in W2
  BY <1>1
<1> HIDE DEF W2
<1>3. /\ Append(ws, x) \in Seq(W2) /\ Len(Append(ws, x)) = Len(ws) + 1 /\ Len(ws) \in Nat
      /\ \A i \in 1 .. Len(ws) : Append(ws, x)[i] = ws[i]
  BY <1>2
<1> QED
  BY <1>3 DEF Sequence, Starts

\* Writes are only ever appended to.
LEMMA WritesGrow ==
    ASSUME IInv, Step, Sequence(writes)
    PROVE  Sequence(writes') /\ Starts(writes, writes')
<1>1. CASE Arm
  <2>1. writes' = WrittenBy(Top, writes)
    BY <1>1, ArmsDecided DEF IInv, Decided
  <2>2. PICK x : x = [path |-> Top.vals[1].text, value |-> Written(Top.vals[2])]
    OBVIOUS
  <2>3. writes' = writes \/ writes' = Append(writes, x)
    BY <2>1, <2>2 DEF WrittenBy
  <2> QED
    BY <2>3, AppendExtends
<1>2. CASE Start \/ Charge \/ Exhaust \/ ShortCircuit
  <2>1. writes' = writes
    BY <1>2 DEF Start, Charge, Exhaust, ShortCircuit, effects
  <2> QED
    BY <2>1, AppendExtends
<1> QED
  BY <1>1, <1>2 DEF Step, Arm

\* The budget has run out.
Out == limits.operations - operations > 0 /\ operations <= 0

\* Where it does so.
RanOut(c) == c.stack # <<>> /\ ~Head(c.stack).charged /\ c.spent >= Ample.operations - 1

\* An evaluation that has run out stays so, and writes nothing more.
LEMMA OutStays ==
    ASSUME IInv, Step, Out
    PROVE  Out' /\ writes' = writes
<1>1. limits.operations \in Nat /\ operations \in Int /\ limits' = limits
  BY StepSpends, BudgetsAreNatural DEF IInv
<1>2. Out'
  BY <1>1, StepSpends DEF Out
<1>3. ~Arm /\ ~Charge
  BY <1>1, ArmsHaveBudget DEF Out, Charge
<1>4. writes' = writes
  BY <1>3 DEF Step, Arm, Start, Exhaust, ShortCircuit, effects
<1> QED
  BY <1>2, <1>4

\* It runs out before it charges a frame, with no operation left to pay for it.
LEMMA OutBegins ==
    ASSUME IInv, Exhaust, ~Out, operations <= limits.operations
    PROVE  /\ Out' /\ writes' = writes
           /\ stack # <<>> /\ ~Top.charged
           /\ Here.spent >= limits.operations - 1
<1>1. limits.operations \in Nat /\ operations \in Int
  BY BudgetsAreNatural DEF IInv
<1>2. /\ limits' = limits /\ operations' = operations - 1 /\ operations <= 1
      /\ stack # <<>> /\ ~Top.charged /\ writes' = writes
  BY DEF Exhaust, effects
<1>3. Out'
  BY <1>1, <1>2 DEF Out
<1>4. Here.spent = limits.operations - operations
  BY DEF Here, State
<1> QED
  BY <1>1, <1>2, <1>3, <1>4

\* Nothing else runs out of budget.
LEMMA OutOnlyByExhaust ==
    ASSUME IInv, Step, ~Exhaust, ~Out, operations <= limits.operations
    PROVE  ~Out'
<1>1. limits.operations \in Nat /\ operations \in Int /\ limits' = limits
  BY StepSpends, BudgetsAreNatural DEF IInv
<1> QED
  BY <1>1, StepSpends DEF Out

--------------------------------------------------------------------------------
(* What the first evaluation went through, state by state, as long as it had *)
(* budget; the second goes through the same states.                          *)

Trace(T, m, r, deep) ==
    /\ m \in Nat
    /\ T[0] = State(<<>>, <<>>, 0, None)
    /\ \A i \in 0 .. m :
         /\ Len(T[i].stack) \in Nat /\ Len(T[i].stack) <= deep
         /\ T[i].spent \in Nat /\ T[i].spent <= T[m].spent
         /\ Sequence(T[i].writes) /\ Starts(T[i].writes, T[m].writes)
    /\ \A i \in 0 .. m - 1 :
         /\ T[i].answer = None /\ T[i + 1] = After(r, Ample.depth, T[i])
         /\ T[i].stack = <<>> => T[i].spent = 0

\* Beginnings of beginnings are beginnings.
LEMMA StartsOver ==
    ASSUME NEW u, NEW v, NEW w, Sequence(u), Sequence(v), Sequence(w), Starts(u, v), Starts(v, w)
    PROVE  Starts(u, w)
<1>1. Len(u) \in Nat /\ Len(v) \in Nat /\ Len(w) \in Nat
  BY DEF Sequence
<1> QED
  BY <1>1 DEF Starts

\* The trace of an evaluation that has not begun.
LEMMA TraceBegins ==
    ASSUME NEW T, T[0] = State(<<>>, <<>>, 0, None), NEW r
    PROVE  Trace(T, 0, r, 0)
<1>1. /\ T[0].stack = <<>> /\ T[0].writes = <<>> /\ T[0].spent = 0 /\ T[0].answer = None
  BY DEF State
<1>2. Len(<<>>) = 0
  OBVIOUS
<1>3. Sequence(<<>>) /\ Starts(<<>>, <<>>)
  <2>1. <<>> \in Seq({})
    OBVIOUS
  <2> QED
    BY <1>2, <2>1 DEF Sequence, Starts
<1>4. \A i \in 0 .. 0 : i = 0
  OBVIOUS
<1>5. Len(T[0].stack) = 0 /\ Sequence(T[0].writes) /\ Starts(T[0].writes, T[0].writes)
  BY <1>1, <1>2, <1>3
<1>6. \A i \in 0 .. 0 :
         /\ Len(T[i].stack) \in Nat /\ Len(T[i].stack) <= 0
         /\ T[i].spent \in Nat /\ T[i].spent <= T[0].spent
         /\ Sequence(T[i].writes) /\ Starts(T[i].writes, T[0].writes)
  BY <1>1, <1>4, <1>5
<1> QED
  BY <1>6 DEF Trace

\* A trace stays one when more frames are allowed for.
LEMMA TraceDeepens ==
    ASSUME NEW T, NEW m, NEW r, NEW deep \in Nat, NEW deep2 \in Nat, deep <= deep2, Trace(T, m, r, deep)
    PROVE  Trace(T, m, r, deep2)
BY DEF Trace

\* One step makes a trace one state longer.
LEMMA TraceGoesOn ==
    ASSUME NEW T, NEW m, NEW r, NEW deep \in Nat, NEW deep2 \in Nat, deep <= deep2, Trace(T, m, r, deep),
           NEW c, c = After(r, Ample.depth, T[m]), T[m].answer = None,
           T[m].stack = <<>> => T[m].spent = 0,
           Len(c.stack) \in Nat, Len(c.stack) <= deep2,
           c.spent \in Nat, T[m].spent <= c.spent,
           Sequence(c.writes), Starts(T[m].writes, c.writes)
    PROVE  \E T2 : Trace(T2, m + 1, r, deep2) /\ T2[m + 1] = c
<1>1. PICK T2 : T2 = [i \in 0 .. m + 1 |-> IF i = m + 1 THEN c ELSE T[i]]
  OBVIOUS
<1>2. m \in Nat
  BY DEF Trace
<1>3. T2[m + 1] = c /\ \A i \in 0 .. m : T2[i] = T[i]
  BY <1>1, <1>2
<1>4. T2[0] = State(<<>>, <<>>, 0, None)
  BY <1>2, <1>3 DEF Trace
<1>5. ASSUME NEW i \in 0 .. m + 1
      PROVE  /\ Len(T2[i].stack) \in Nat /\ Len(T2[i].stack) <= deep2
             /\ T2[i].spent \in Nat /\ T2[i].spent <= c.spent
             /\ Sequence(T2[i].writes) /\ Starts(T2[i].writes, c.writes)
  <2>1. CASE i = m + 1
    <3>1. Starts(c.writes, c.writes)
      BY AppendExtends
    <3> QED
      BY <1>3, <2>1, <3>1
  <2>2. CASE i # m + 1
    <3>1. i \in 0 .. m /\ m \in 0 .. m
      BY <1>2, <2>2
    <3>2. T2[i] = T[i]
      BY <1>3, <3>1
    <3>3. /\ Len(T[i].stack) \in Nat /\ Len(T[i].stack) <= deep
          /\ T[i].spent \in Nat /\ T[m].spent \in Nat /\ T[i].spent <= T[m].spent
      BY <3>1 DEF Trace
    <3>4. Sequence(T[i].writes) /\ Sequence(T[m].writes) /\ Starts(T[i].writes, T[m].writes)
      BY <3>1 DEF Trace
    <3>5. Starts(T[i].writes, c.writes)
      BY <3>4, StartsOver
    <3>6. Len(T[i].stack) <= deep2 /\ T[i].spent <= c.spent
      BY <3>3
    <3> QED
      BY <3>2, <3>3, <3>4, <3>5, <3>6
  <2> QED
    BY <2>1, <2>2
<1>6. ASSUME NEW i \in 0 .. m
      PROVE  /\ T2[i].answer = None /\ T2[i + 1] = After(r, Ample.depth, T2[i])
             /\ T2[i].stack = <<>> => T2[i].spent = 0
  <2>1. CASE i = m
    BY <1>2, <1>3, <2>1
  <2>2. CASE i # m
    <3>1. i \in 0 .. m - 1 /\ i + 1 \in 0 .. m
      BY <1>2, <2>2
    <3> QED
      BY <1>3, <3>1 DEF Trace
  <2> QED
    BY <2>1, <2>2
<1>7. Trace(T2, m + 1, r, deep2)
  <2>1. m + 1 \in Nat /\ (m + 1) - 1 = m
    BY <1>2
  <2> QED
    BY <1>3, <1>4, <1>5, <1>6, <2>1 DEF Trace
<1> QED
  BY <1>3, <1>7

\* While the first evaluation goes on, it is at the end of its trace.
FirstRun ==
    first.answer = None =>
        /\ limits = Ample
        /\ \E m, T :
             /\ Trace(T, m, root, deepest)
             /\ ~Out => Here = T[m]
             /\ Out => RanOut(T[m]) /\ writes = T[m].writes

\* The trace ends with the answer or where the budget ran out.
Ended(c) ==
    \/ c.answer # None /\ first.answer = c.answer /\ first.cost = c.spent
    \/ RanOut(c) /\ first.cost >= Ample.operations

\* The second is at a state of the trace of the first, until its budget runs out,
\* which it does only when the first took as many operations as the second is given.
SecondRun ==
    first.answer # None /\ root = first.root /\ limits.depth >= deepest =>
        \E m, T :
            /\ Trace(T, m, root, deepest)
            /\ m > 0 /\ Ended(T[m]) /\ first.writes = T[m].writes
            /\ ~Out => \E j \in 0 .. m : Here = T[j]
            /\ Out => first.cost >= limits.operations /\ \E j \in 0 .. m : writes = T[j].writes

\* The invariant of the two evaluations.
TwiceIInv ==
    /\ IInv
    /\ operations <= limits.operations
    /\ deepest \in Nat /\ (first.answer # None => first.cost \in Int)
    /\ FirstRun
    /\ SecondRun

\* What the limits are, and that none is above the ample ones.
LEMMA BudgetsCompare ==
    ASSUME IInv
    PROVE  /\ Ample.operations \in Nat /\ Ample.depth \in Nat /\ Ample.depth > 0
           /\ limits.operations \in Nat /\ limits.depth \in Nat /\ operations \in Int
           /\ limits.operations <= Ample.operations /\ limits.depth <= Ample.depth
BY AmpleIsMost, BudgetsAreNatural DEF IInv

\* What is in a state.
LEMMA HereIs ==
    /\ Here.stack = stack /\ Here.writes = writes /\ Here.answer = answer
    /\ Here.spent = limits.operations - operations
BY DEF Here, State

\* A step of the first evaluation prolongs its trace, until it runs out.
LEMMA RunKeepsFirst ==
    ASSUME TwiceIInv, Run, IInv', first.answer = None
    PROVE  FirstRun'
<1>1. IInv /\ Step /\ first' = first
  BY DEF TwiceIInv, Run
<1>2. UNCHANGED <<root, limits>> /\ answer = None
  BY <1>1, StepSpends
<1>3. limits = Ample
  BY DEF TwiceIInv, FirstRun
<1>4. PICK m, T : /\ Trace(T, m, root, deepest)
                  /\ ~Out => Here = T[m]
                  /\ Out => RanOut(T[m]) /\ writes = T[m].writes
  BY DEF TwiceIInv, FirstRun
<1>5. PICK E, C, V : stack' \in Seq(Frames(E, C, V))
  BY DEF IInv, Stacked
<1>6. Len(stack') \in Nat
  BY <1>5
<1>7. deepest \in Nat /\ deepest' \in Nat /\ deepest <= deepest' /\ Len(stack') <= deepest'
  BY <1>6 DEF TwiceIInv, Run
<1>8. Trace(T, m, root, deepest')
  BY <1>4, <1>7, TraceDeepens
<1>9. m \in Nat /\ m \in 0 .. m
  BY <1>4 DEF Trace
<1>10. CASE Out
  <2>1. Out' /\ writes' = writes
    BY <1>1, <1>10, OutStays
  <2> QED
    BY <1>1, <1>2, <1>3, <1>4, <1>8, <1>10, <2>1 DEF FirstRun
<1>11. CASE ~Out /\ Exhaust
  <2>1. /\ Out' /\ writes' = writes
        /\ stack # <<>> /\ ~Top.charged
        /\ Here.spent >= limits.operations - 1
    BY <1>1, <1>11, OutBegins DEF TwiceIInv
  <2>2. RanOut(T[m]) /\ writes' = T[m].writes
    BY <1>3, <1>4, <1>11, <2>1, HereIs DEF RanOut, Top
  <2> QED
    BY <1>1, <1>2, <1>3, <1>8, <2>1, <2>2 DEF FirstRun
<1>12. CASE ~Out /\ ~Exhaust
  <2>1. ~Out'
    BY <1>1, <1>12, OutOnlyByExhaust DEF TwiceIInv
  <2>2. T[m] = Here
    BY <1>4, <1>12
  <2>3. PICK c : c = Here'
    OBVIOUS
  <2>4. c = After(root, Ample.depth, T[m])
    BY <1>1, <1>3, <1>12, <2>2, <2>3, StepsAreDetermined
  <2>5. /\ c.stack = stack' /\ c.writes = writes'
        /\ c.spent = limits.operations - operations'
    BY <1>2, <2>3 DEF Here, State
  <2>6. T[m].answer = None /\ T[m].writes = writes /\ T[m].spent = limits.operations - operations
    BY <1>2, <2>2, HereIs
  <2>7. c.spent \in Nat /\ T[m].spent <= c.spent
    <3>1. operations' \in Int /\ operations' <= operations /\ operations <= limits.operations
      BY <1>1, BudgetsCompare, StepSpends DEF TwiceIInv
    <3> QED
      BY <1>1, <2>5, <2>6, <3>1, BudgetsCompare
  <2>8. Sequence(T[m].writes)
    BY <1>4, <1>9 DEF Trace
  <2>9. Sequence(c.writes) /\ Starts(T[m].writes, c.writes)
    BY <1>1, <2>5, <2>6, <2>8, WritesGrow
  <2>10. stack = <<>> => limits.operations - operations = 0
    <3>1. limits.operations \in Nat
      BY <1>1, BudgetsCompare
    <3>2. stack = <<>> => Start
      BY <1>1, ArmsMove DEF Step, Arm, Charge, Exhaust, ShortCircuit
    <3> QED
      BY <3>1, <3>2 DEF Start
  <2>11. T[m].stack = <<>> => T[m].spent = 0
    BY <2>2, <2>10, HereIs
  <2>12. PICK T2 : Trace(T2, m + 1, root, deepest') /\ T2[m + 1] = c
    BY <1>4, <1>6, <1>7, <2>4, <2>5, <2>6, <2>7, <2>9, <2>11, TraceGoesOn
  <2>13. \E n, X : Trace(X, n, root, deepest') /\ X[n] = c
    BY <2>12
  <2> QED
    BY <1>1, <1>2, <1>3, <2>1, <2>3, <2>13 DEF FirstRun
<1> QED
  BY <1>10, <1>11, <1>12

\* A step of the second evaluation is the next one of the first, until it runs out.
LEMMA RunKeepsSecond ==
    ASSUME TwiceIInv, Run, first.answer # None
    PROVE  SecondRun'
<1>1. /\ IInv /\ Step /\ first' = first /\ deepest' = deepest
  BY DEF TwiceIInv, Run
<1>2. UNCHANGED <<root, limits>> /\ answer = None
  BY <1>1, StepSpends
<1>3. SUFFICES ASSUME root = first.root, limits.depth >= deepest
      PROVE  \E m, T :
                /\ Trace(T, m, root, deepest)
                /\ m > 0 /\ Ended(T[m]) /\ first.writes = T[m].writes
                /\ ~Out' => \E j \in 0 .. m : Here' = T[j]
                /\ Out' => first.cost >= limits.operations /\ \E j \in 0 .. m : writes' = T[j].writes
  BY <1>1, <1>2 DEF SecondRun, Ended, Trace
<1>4. PICK m, T :
            /\ Trace(T, m, root, deepest)
            /\ m > 0 /\ Ended(T[m]) /\ first.writes = T[m].writes
            /\ ~Out => \E j \in 0 .. m : Here = T[j]
            /\ Out => first.cost >= limits.operations /\ \E j \in 0 .. m : writes = T[j].writes
  BY <1>3 DEF TwiceIInv, SecondRun
<1>5. m \in Nat
  BY <1>4 DEF Trace
<1>6. CASE Out
  <2>1. Out' /\ writes' = writes
    BY <1>1, <1>6, OutStays
  <2> QED
    BY <1>4, <1>6, <2>1
<1>7. CASE ~Out /\ Exhaust
  <2>1. PICK j \in 0 .. m : Here = T[j]
    BY <1>4, <1>7
  <2>2. /\ Out' /\ writes' = writes
        /\ stack # <<>> /\ ~Top.charged
        /\ Here.spent >= limits.operations - 1
    BY <1>1, <1>7, OutBegins DEF TwiceIInv
  <2>3. first.cost >= limits.operations
    <3>1. CASE T[m].answer # None /\ first.cost = T[m].spent
      <4>1. j \in 0 .. m - 1 /\ j + 1 \in 0 .. m
        BY <1>2, <1>5, <2>1, <3>1, HereIs
      <4>2. T[j + 1] = After(root, Ample.depth, T[j])
        BY <1>4, <4>1 DEF Trace
      <4>3. T[j + 1].spent = T[j].spent + 1
        BY <2>1, <2>2, <4>2, HereIs DEF After, Charged, State, Top
      <4>4. T[j + 1].spent <= T[m].spent
        BY <1>4, <4>1 DEF Trace
      <4>5. T[j].spent >= limits.operations - 1 /\ T[j].spent \in Nat /\ T[m].spent \in Nat
        BY <1>4, <1>5, <2>1, <2>2 DEF Trace
      <4> QED
        BY <1>1, <3>1, <4>3, <4>4, <4>5, BudgetsCompare
    <3>2. CASE first.cost >= Ample.operations
      <4>1. first.cost \in Int
        BY DEF TwiceIInv
      <4> QED
        BY <1>1, <3>2, <4>1, BudgetsCompare
    <3> QED
      BY <1>4, <3>1, <3>2 DEF Ended
  <2> QED
    BY <1>4, <2>1, <2>2, <2>3, HereIs
<1>8. CASE ~Out /\ ~Exhaust
  <2>1. PICK j \in 0 .. m : Here = T[j]
    BY <1>4, <1>8
  <2>2. ~Out'
    BY <1>1, <1>8, OutOnlyByExhaust DEF TwiceIInv
  <2>3. Here' = After(root, limits.depth, Here)
    BY <1>1, <1>8, StepsAreDetermined
  <2>4. j # m
    <3>1. SUFFICES ASSUME j = m PROVE FALSE
      OBVIOUS
    <3>2. RanOut(T[m])
      BY <1>2, <1>4, <2>1, <3>1, HereIs DEF Ended
    <3>3. stack # <<>> /\ ~Top.charged /\ limits.operations - operations >= Ample.operations - 1
      BY <2>1, <3>1, <3>2, HereIs DEF RanOut, Top
    <3>4. operations <= 1
      BY <1>1, <3>3, BudgetsCompare
    <3>5. Charge
      BY <1>1, <1>8, <3>3, ArmsMove DEF Step, Arm, Start, ShortCircuit
    <3> QED
      BY <1>1, <3>4, <3>5, BudgetsCompare DEF Charge
  <2>5. j \in 0 .. m - 1 /\ j + 1 \in 0 .. m
    BY <1>5, <2>4
  <2>6. T[j + 1] = After(root, Ample.depth, T[j])
    BY <1>4, <2>5 DEF Trace
  <2>7. Len(T[j + 1].stack) \in Nat /\ Len(T[j + 1].stack) <= deepest /\ deepest \in Nat
    BY <1>4, <2>5 DEF Trace, TwiceIInv
  <2>8. Stacked(T[j].stack)
    BY <1>1, <2>1, HereIs DEF IInv
  <2>9. Len(After(root, Ample.depth, T[j]).stack) <= limits.depth
    BY <1>1, <1>3, <2>6, <2>7, BudgetsCompare
  <2>10. After(root, limits.depth, T[j]) = After(root, Ample.depth, T[j])
    BY <1>1, <2>8, <2>9, BudgetsCompare, DepthSuffices
  <2>11. Here' = T[j + 1]
    BY <2>1, <2>3, <2>6, <2>10
  <2> QED
    BY <1>4, <2>2, <2>5, <2>11
<1> QED
  BY <1>6, <1>7, <1>8

\* The second evaluation begins as every evaluation does.
LEMMA AgainKeepsType ==
    ASSUME TwiceIInv, Again
    PROVE  IInv' /\ operations' <= limits'.operations /\ deepest' \in Nat
           /\ stack' = <<>> /\ writes' = <<>> /\ answer' = None /\ operations' = limits'.operations
<1>1. /\ IInv /\ answer # None /\ stack = <<>> /\ stack' = <<>>
      /\ answer' = None /\ writes' = <<>> /\ deepest' = deepest
      /\ operations' = limits'.operations /\ depth' = limits'.depth
  BY DEF Again, TwiceIInv, IInv
<1>2. limits' \in Limits
  BY <1>1 DEF Again, IInv
<1>3. operations' \in Nat /\ depth' \in Nat
  BY <1>1, <1>2, BudgetsAreNatural
<1>4. Stacked(stack)'
  <2>1. <<>> \in Seq(Frames({}, {}, {}))
    OBVIOUS
  <2> QED
    BY <1>1, <2>1 DEF Stacked
<1>5. Len(stack') = 0
  BY <1>1
<1>6. DepthBalanced' /\ HandedExhaustion' /\ ExhaustionDecides'
  BY <1>1, <1>3, <1>5 DEF DepthBalanced, HandedExhaustion, ExhaustionDecides
<1>7. (\A i \in 2 .. Len(stack) : stack[i].charged)'
  BY <1>5
<1>8. IInv'
  BY <1>1, <1>2, <1>3, <1>4, <1>6, <1>7 DEF IInv
<1> QED
  BY <1>1, <1>3, <1>8 DEF TwiceIInv

\* It begins where the first began, whose trace is complete.
LEMMA AgainKeepsTwice ==
    ASSUME TwiceIInv, Again
    PROVE  TwiceIInv'
<1>1. /\ IInv' /\ operations' <= limits'.operations /\ deepest' \in Nat
      /\ stack' = <<>> /\ writes' = <<>> /\ answer' = None /\ operations' = limits'.operations
  BY AgainKeepsType
<1>2. /\ answer # None /\ first.answer = None /\ deepest' = deepest /\ stack = <<>>
      /\ first' = [root |-> root, answer |-> answer, writes |-> writes,
                   cost |-> Ample.operations - operations]
  BY DEF Again, TwiceIInv, IInv
<1>3. /\ first'.root = root /\ first'.answer = answer /\ first'.writes = writes
      /\ first'.cost = Ample.operations - operations
  BY <1>2
<1>4. /\ limits = Ample /\ operations \in Int /\ Ample.operations \in Nat
      /\ limits'.operations \in Nat /\ limits'.operations <= Ample.operations
  <2>1. limits = Ample /\ operations \in Int /\ Ample.operations \in Nat
    BY <1>2, BudgetsCompare DEF TwiceIInv, FirstRun
  <2>2. limits' \in Limits
    BY <1>1 DEF IInv
  <2> QED
    BY <2>1, <2>2, AmpleIsMost, BudgetsAreNatural
<1>5. first'.cost \in Int
  BY <1>3, <1>4
<1>6. FirstRun'
  BY <1>2, <1>3 DEF FirstRun
<1>7. SecondRun'
  <2>1. SUFFICES ASSUME root' = root
                 PROVE  \E m, T :
                           /\ Trace(T, m, root', deepest')
                           /\ m > 0 /\ Ended(T[m])' /\ first'.writes = T[m].writes
                           /\ ~Out' /\ \E j \in 0 .. m : Here' = T[j]
    BY <1>3 DEF SecondRun
  <2>2. PICK m, T : /\ Trace(T, m, root, deepest)
                    /\ ~Out => Here = T[m]
                    /\ Out => RanOut(T[m]) /\ writes = T[m].writes
    BY <1>2 DEF TwiceIInv, FirstRun
  <2>3. m \in Nat /\ T[0] = State(<<>>, <<>>, 0, None)
    BY <2>2 DEF Trace
  <2>4. T[0].stack = <<>> /\ T[0].answer = None
    BY <2>3 DEF State
  <2>5. m # 0
    BY <1>2, <2>2, <2>4, HereIs DEF RanOut
  <2>6. Ended(T[m])' /\ first'.writes = T[m].writes
    <3>1. CASE Out
      <4>1. first'.cost >= Ample.operations
        BY <1>3, <1>4, <3>1 DEF Out
      <4> QED
        BY <1>3, <2>2, <3>1, <4>1 DEF Ended, RanOut
    <3>2. CASE ~Out
      BY <1>2, <1>3, <1>4, <2>2, <3>2, HereIs DEF Ended
    <3> QED
      BY <3>1, <3>2
  <2>7. limits'.operations - operations' = 0
    BY <1>1, <1>4
  <2>8. Here' = T[0] /\ ~Out'
    BY <1>1, <2>3, <2>7 DEF Here, Out
  <2>9. m > 0 /\ 0 \in 0 .. m
    BY <2>3, <2>5
  <2>10. Trace(T, m, root', deepest')
    BY <1>2, <2>1, <2>2
  <2> QED
    BY <2>6, <2>8, <2>9, <2>10
<1> QED
  BY <1>1, <1>5, <1>6, <1>7 DEF TwiceIInv

\* Every step of either evaluation preserves the invariant.
LEMMA RunKeepsTwice ==
    ASSUME TwiceIInv, Run
    PROVE  TwiceIInv'
<1>1. IInv /\ Step /\ first' = first
  BY DEF TwiceIInv, Run
<1>2. IInv'
  BY <1>1, NextIInv DEF Next
<1>3. operations' <= limits'.operations
  BY <1>1, StepSpends, BudgetsCompare DEF TwiceIInv
<1>4. deepest' \in Nat
  <2>1. PICK E, C, V : stack' \in Seq(Frames(E, C, V))
    BY <1>2 DEF IInv, Stacked
  <2>2. Len(stack') \in Nat
    BY <2>1
  <2> QED
    BY <2>2 DEF TwiceIInv, Run
<1>5. CASE first.answer = None
  BY <1>1, <1>2, <1>3, <1>4, <1>5, RunKeepsFirst DEF TwiceIInv, SecondRun
<1>6. CASE first.answer # None
  BY <1>1, <1>2, <1>3, <1>4, <1>6, RunKeepsSecond DEF TwiceIInv, FirstRun
<1> QED
  BY <1>5, <1>6

\* The first evaluation begins with an empty trace.
LEMMA TwiceInitially == BudgetInit => TwiceIInv
<1> SUFFICES ASSUME BudgetInit PROVE TwiceIInv
  OBVIOUS
<1>1. /\ Init /\ limits = Ample /\ deepest = 0 /\ first.answer = None
  BY DEF BudgetInit, Unmeasured
<1>2. IInv
  BY <1>1, InitIInv
<1>3. /\ operations = limits.operations /\ stack = <<>> /\ writes = <<>> /\ answer = None
  BY <1>1 DEF Init
<1>4. operations \in Int /\ limits.operations - operations = 0
  BY <1>2, <1>3, BudgetsCompare
<1>5. PICK T : T = [i \in {0} |-> State(<<>>, <<>>, 0, None)]
  OBVIOUS
<1>6. T[0] = State(<<>>, <<>>, 0, None)
  BY <1>5
<1>7. Trace(T, 0, root, deepest)
  BY <1>1, <1>6, TraceBegins
<1>8. Here = T[0] /\ ~Out
  BY <1>3, <1>4, <1>6 DEF Here, Out
<1>9. FirstRun /\ SecondRun
  BY <1>1, <1>7, <1>8 DEF FirstRun, SecondRun
<1> QED
  BY <1>1, <1>2, <1>3, <1>4, <1>9 DEF TwiceIInv

\* Every step of the two evaluations preserves the invariant.
LEMMA TwiceStep == TwiceIInv /\ [BudgetNext]_budgetVars => TwiceIInv'
<1> SUFFICES ASSUME TwiceIInv, [BudgetNext]_budgetVars PROVE TwiceIInv'
  OBVIOUS
<1>1. CASE UNCHANGED budgetVars
  <2>1. UNCHANGED vars /\ UNCHANGED <<deepest, first>>
    BY <1>1 DEF budgetVars
  <2>2. IInv'
    BY <2>1, NextIInv DEF TwiceIInv
  <2>3. UNCHANGED <<root, limits, stack, operations, writes, answer>>
    BY <2>1 DEF vars, effects
  <2>4. Here' = Here /\ (Out' <=> Out)
    BY <2>3 DEF Here, Out
  <2>5. FirstRun'
    BY <2>1, <2>3, <2>4 DEF TwiceIInv, FirstRun
  <2>6. SecondRun'
    BY <2>1, <2>3, <2>4 DEF TwiceIInv, SecondRun, Ended
  <2> QED
    BY <2>1, <2>2, <2>3, <2>5, <2>6 DEF TwiceIInv
<1>2. CASE Run
  BY <1>2, RunKeepsTwice
<1>3. CASE Again
  BY <1>3, AgainKeepsTwice
<1>4. CASE Answered
  BY <1>1, <1>4 DEF Answered, Rest, budgetVars
<1> QED
  BY <1>1, <1>2, <1>3, <1>4 DEF BudgetNext

\* The invariant holds in every reachable state of the two evaluations.
LEMMA TwiceInvariance == BudgetSpec => []TwiceIInv
  BY TwiceInitially, TwiceStep, PTL DEF BudgetSpec

\* The second answer is that of the trace's last state, unless it ran out before.
LEMMA TwiceIsExact == TwiceIInv => BudgetIsExact
<1> SUFFICES ASSUME TwiceIInv, answer # None, first.answer # None, root = first.root, limits.depth >= deepest
             PROVE  IF limits.operations > first.cost
                    THEN answer = first.answer /\ operations = limits.operations - first.cost
                    ELSE answer = Minted("budget_exhausted")
  BY DEF BudgetIsExact
<1>1. PICK m, T :
            /\ Trace(T, m, root, deepest)
            /\ m > 0 /\ Ended(T[m]) /\ first.writes = T[m].writes
            /\ ~Out => \E j \in 0 .. m : Here = T[j]
            /\ Out => first.cost >= limits.operations
  BY DEF TwiceIInv, SecondRun
<1>2. /\ m \in Nat /\ IInv /\ first.cost \in Int /\ deepest \in Nat
      /\ operations <= limits.operations /\ stack = <<>>
  BY <1>1 DEF TwiceIInv, IInv, Trace
<1>3. limits.depth # 0
  <2>1. 0 \in 0 .. m - 1 /\ 1 \in 0 .. m
    BY <1>1, <1>2
  <2>2. T[1] = After(root, Ample.depth, T[0]) /\ Len(T[1].stack) <= deepest
    BY <1>1, <2>1 DEF Trace
  <2>3. T[0].stack = <<>>
    BY <1>1 DEF Trace, State
  <2>4. T[1].stack = <<Frame(root, Empty)>>
    BY <1>2, <2>2, <2>3, BudgetsCompare DEF After, Begun, State
  <2>5. Len(<<Frame(root, Empty)>>) = 1
    OBVIOUS
  <2> QED
    BY <1>2, <2>2, <2>4, <2>5, BudgetsCompare
<1>4. operations <= 0 => answer = Minted("budget_exhausted")
  BY <1>2, <1>3 DEF IInv, ExhaustionDecides
<1>5. CASE Out
  BY <1>1, <1>2, <1>4, <1>5, BudgetsCompare DEF Out
<1>6. CASE ~Out
  <2>1. PICK j \in 0 .. m : Here = T[j]
    BY <1>1, <1>6
  <2>2. j = m
    <3>1. SUFFICES ASSUME j # m PROVE FALSE
      OBVIOUS
    <3>2. j \in 0 .. m - 1
      BY <1>2, <3>1
    <3> QED
      BY <1>1, <2>1, <3>2, HereIs DEF Trace
  <2>3. answer = first.answer /\ first.cost = limits.operations - operations
    BY <1>1, <1>2, <2>1, <2>2, HereIs DEF Ended, RanOut
  <2> QED
    BY <1>2, <1>4, <2>3, BudgetsCompare
<1> QED
  BY <1>5, <1>6

\* The prefixes of the run's property.
LEMMA StartsIsPrefix ==
    ASSUME NEW u, NEW w, Sequence(u), Sequence(w), Starts(u, w)
    PROVE  IsPrefix(u, w)
<1>1. PICK C, D : u \in Seq(C) /\ w \in Seq(D)
  BY DEF Sequence
<1> DEFINE X == C \cup D
<1>2. u \in Seq(X) /\ w \in Seq(X)
  BY <1>1
<1> HIDE DEF X
<1>3. Len(u) \in Nat /\ Len(w) \in Nat /\ Len(u) <= Len(w)
  BY <1>2 DEF Starts
<1>4. \A i \in 1 .. Len(u) : u[i] = w[i]
  BY DEF Starts
<1>5. SubSeq(u, 1, Len(u)) = SubSeq(w, 1, Len(u))
  BY <1>2, <1>3, <1>4
<1> QED
  BY <1>3, <1>5 DEF IsPrefix

\* What the second has written is what was written at a state of the trace.
LEMMA TwiceIsPrefix == TwiceIInv => WritesArePrefix
<1> SUFFICES ASSUME TwiceIInv, first.answer # None, root = first.root, limits.depth >= deepest
             PROVE  IsPrefix(writes, first.writes)
  BY DEF WritesArePrefix
<1>1. PICK m, T :
            /\ Trace(T, m, root, deepest)
            /\ first.writes = T[m].writes
            /\ ~Out => \E j \in 0 .. m : Here = T[j]
            /\ Out => \E j \in 0 .. m : writes = T[j].writes
  BY DEF TwiceIInv, SecondRun
<1>2. PICK j \in 0 .. m : writes = T[j].writes
  BY <1>1, HereIs
<1>3. m \in 0 .. m
  BY <1>1 DEF Trace
<1>4. Sequence(writes) /\ Sequence(first.writes) /\ Starts(writes, first.writes)
  BY <1>1, <1>2, <1>3 DEF Trace
<1> QED
  BY <1>4, StartsIsPrefix

\* Two evaluations of one expression over one tree agree on the budget: the answer
\* of the first, after the very operations it took, is what every larger budget
\* gives, and every other budget gives budget_exhausted, as long as depth suffices.
THEOREM BudgetsAreExact == BudgetSpec => []BudgetIsExact
BY TwiceInvariance, TwiceIsExact, PTL

\* At every moment an evaluation has written, entry by entry, the beginning of what
\* the store builtin writes when the budget is ample: a budget that runs out cuts
\* the writes short, and changes and adds none.
THEOREM WritesStayPrefix == BudgetSpec => []WritesArePrefix
BY TwiceInvariance, TwiceIsPrefix, PTL

--------------------------------------------------------------------------------
(***************************************************************************)
(* Evaluating an alias, and then what it stands for.  A state of the second *)
(* run is a state of the first in which the operator stands in the place of *)
(* its builtin, at the bottom of the stack, and the text is gone.           *)
(***************************************************************************)

TextOf(a) == a.args[1].value
Operator(a) == Inline(a, TextOf(a).text)

\* An alias that is evaluated again as its operator.
Standing(a) ==
    /\ a.kind = "alias" /\ a.args \in Seq(Range(a.args))
    /\ a.of \in {"arithmetic", "compare", "logic", "field", "construct"}
    /\ a.of = "field" => Len(a.args) <= 2
    /\ a.args[1].kind = "literal" /\ TextOf(a).kind = "text"
    /\ Len(a.args) > LeastOperands(a.of)

\* The operator's operand is an error that the builtin evaluates before it takes it.
ErrorField(r) == r.kind = "field" /\ IsStoredError(r.args[1])

AsAlias(a, g) == [expr |-> a, scope |-> g.scope, vals |-> <<TextOf(a)>> \o g.vals, charged |-> g.charged]
Rebased(s, b) == [s EXCEPT ![Len(s)] = b]
Under(a, s) == Rebased(s, AsAlias(a, s[Len(s)]))

\* At the bottom of a stack is the frame of r.
Rooted(s, r) == s # <<>> /\ s[Len(s)].expr = r /\ s[Len(s)].charged

\* What the builtin has spent more than its operator when the stack is s.
Ahead(r, s) == IF ErrorField(r) /\ s[Len(s)].vals # <<>> THEN 2 ELSE 1

\* The builtin has its text, and evaluates operands next.
Ready(a) == State(<<AsAlias(a, [Frame(Operator(a), Empty) EXCEPT !.charged = TRUE])>>, <<>>, 2, None)

\* Every evaluation begins with nothing on the stack, and then with its root.
Beginning == State(<<>>, <<>>, 0, None)
Entered(e) == State(<<Frame(e, Empty)>>, <<>>, 0, None)
Paid(e) == State(<<[Frame(e, Empty) EXCEPT !.charged = TRUE]>>, <<>>, 1, None)

\* State c of the builtin's evaluation, and state d of its operator's.
NotBegun(a, c, d) ==
    /\ c = Ready(a)
    /\ d \in {Beginning, Entered(Operator(a))}

Abreast(a, c, d) ==
    LET r == Operator(a) IN
    /\ Rooted(d.stack, r) /\ d.answer = None /\ d.spent > 0
    /\ c = State(Under(a, d.stack), d.writes, d.spent + Ahead(r, d.stack), None)
    /\ ErrorField(r) => /\ Len(d.stack) = 1
                        /\ d.stack[1].vals = <<>> \/ IsError(Last(d.stack[1].vals))

BothEnded(a, c, d) ==
    /\ d.stack = <<>> /\ d.spent > 0 /\ c.stack = <<>> /\ c.writes = d.writes
    /\ c.answer = d.answer \/ (IsError(d.answer) /\ c.answer = Minted(d.answer.code))
    /\ c.spent = d.spent + (IF ErrorField(Operator(a)) THEN 2 ELSE 1)

Beside(a, c, d) == NotBegun(a, c, d) \/ Abreast(a, c, d) \/ BothEnded(a, c, d)

\* What is under the bottom of a stack, and above it.
LEMMA Bottom ==
    ASSUME NEW S, NEW s \in Seq(S), s # <<>>
    PROVE  /\ Len(s) = 1 => Tail(s) = <<>>
           /\ Len(s) # 1 => Tail(s) # <<>> /\ Len(Tail(s)) = Len(s) - 1 /\ Tail(s)[Len(s) - 1] = s[Len(s)]
<1> DEFINE t == Tail(s)
<1>1. /\ t \in Seq(S) /\ Len(s) \in Nat \ {0} /\ Len(t) = Len(s) - 1
      /\ \A i \in 1 .. Len(s) - 1 : t[i] = s[i + 1]
  BY Below
<1> HIDE DEF t
<1>2. Len(s) = 1 => t = <<>>
  BY <1>1
<1>3. Len(s) # 1 => t # <<>>
  BY <1>1
<1>4. Len(s) # 1 => t[Len(s) - 1] = s[(Len(s) - 1) + 1]
  BY <1>1
<1> QED
  BY <1>1, <1>2, <1>3, <1>4 DEF t

\* Sequences are what their elements are.
LEMMA SameElements ==
    ASSUME NEW S, NEW u \in Seq(S), NEW v \in Seq(S), Len(u) = Len(v), \A i \in 1 .. Len(u) : u[i] = v[i]
    PROVE  u = v
OBVIOUS

\* A sequence with another element at one place.
LEMMA OtherElement ==
    ASSUME NEW S, NEW s \in Seq(S), NEW n \in 1 .. Len(s), NEW b \in S
    PROVE  /\ [s EXCEPT ![n] = b] \in Seq(S) /\ Len([s EXCEPT ![n] = b]) = Len(s)
           /\ \A i \in 1 .. Len(s) : [s EXCEPT ![n] = b][i] = IF i = n THEN b ELSE s[i]
OBVIOUS

\* Another frame at the bottom of a stack.
LEMMA NewBottom ==
    ASSUME NEW S, NEW s \in Seq(S), s # <<>>, NEW b \in S
    PROVE  /\ Rebased(s, b) # <<>> /\ Len(Rebased(s, b)) = Len(s)
           /\ Head(Rebased(s, b)) = IF Len(s) = 1 THEN b ELSE Head(s)
           /\ Tail(Rebased(s, b)) = IF Len(s) = 1 THEN <<>> ELSE Rebased(Tail(s), b)
<1>0. PICK u : u = Rebased(s, b)
  OBVIOUS
<1>1. Len(s) \in Nat \ {0} /\ Head(s) = s[1] /\ Tail(s) \in Seq(S) /\ Len(Tail(s)) = Len(s) - 1
      /\ \A i \in 1 .. Len(s) - 1 : Tail(s)[i] = s[i + 1]
  BY Below
<1>2. /\ u \in Seq(S) /\ Len(u) = Len(s)
      /\ \A i \in 1 .. Len(s) : u[i] = IF i = Len(s) THEN b ELSE s[i]
  BY <1>0, <1>1 DEF Rebased
<1>3. u # <<>>
  BY <1>1, <1>2
<1>4. Head(u) = u[1] /\ Tail(u) \in Seq(S) /\ Len(Tail(u)) = Len(s) - 1
      /\ \A i \in 1 .. Len(s) - 1 : Tail(u)[i] = u[i + 1]
  BY <1>2, <1>3, Below
<1>5. Len(s) = 1 => Tail(u) = <<>>
  BY <1>2, <1>3, Bottom
<1>6. ASSUME Len(s) # 1 PROVE Tail(u) = Rebased(Tail(s), b)
  <2> DEFINE t == Tail(s)
             v == Tail(u)
  <2>1. /\ t \in Seq(S) /\ v \in Seq(S) /\ Len(t) = Len(s) - 1 /\ Len(v) = Len(s) - 1
    BY <1>1, <1>4
  <2>2. \A i \in 1 .. Len(s) - 1 : v[i] = u[i + 1] /\ t[i] = s[i + 1]
    BY <1>1, <1>4
  <2> HIDE DEF t, v
  <2>3. ASSUME NEW i \in 1 .. Len(s) - 1 PROVE v[i] = IF i = Len(t) THEN b ELSE t[i]
    <3>1. i + 1 \in 1 .. Len(s) /\ (i + 1 = Len(s) <=> i = Len(t))
      BY <1>1, <2>1
    <3> QED
      BY <1>2, <2>2, <3>1
  <2> DEFINE w == [t EXCEPT ![Len(t)] = b]
  <2>4. w \in Seq(S) /\ Len(w) = Len(t) /\ \A i \in 1 .. Len(t) : w[i] = IF i = Len(t) THEN b ELSE t[i]
    <3>1. Len(t) \in 1 .. Len(t)
      BY <1>1, <1>6, <2>1
    <3> QED
      BY <2>1, <3>1, OtherElement
  <2> HIDE DEF w
  <2>5. v = w
    <3>1. \A i \in 1 .. Len(v) : v[i] = w[i]
      BY <2>1, <2>3, <2>4
    <3> QED
      BY <2>1, <2>4, <3>1, SameElements
  <2> QED
    BY <2>5 DEF w, v, t, Rebased
<1>7. Head(u) = IF Len(s) = 1 THEN b ELSE Head(s)
  <2>1. 1 \in 1 .. Len(s)
    BY <1>1
  <2> QED
    BY <1>1, <1>2, <1>4, <2>1
<1> QED
  BY <1>0, <1>2, <1>3, <1>5, <1>6, <1>7

\* The bottom does not mind what is on top.
LEMMA PushedOver ==
    ASSUME NEW S, NEW s \in Seq(S), s # <<>>, NEW b \in S, NEW f \in S
    PROVE  /\ Len(<<f>> \o s) = Len(s) + 1 /\ <<f>> \o s # <<>> /\ (<<f>> \o s)[Len(s) + 1] = s[Len(s)]
           /\ Rebased(<<f>> \o s, b) = <<f>> \o Rebased(s, b)
<1> DEFINE u == [s EXCEPT ![Len(s)] = b]
           p == <<f>> \o s
           q == <<f>> \o u
           w == [p EXCEPT ![Len(p)] = b]
<1>1. Len(s) \in Nat \ {0}
  BY Below
<1>2. u \in Seq(S) /\ Len(u) = Len(s) /\ \A i \in 1 .. Len(s) : u[i] = IF i = Len(s) THEN b ELSE s[i]
  BY <1>1
<1>3. p \in Seq(S) /\ Len(p) = Len(s) + 1 /\ p # <<>> /\ p[1] = f /\ \A i \in 2 .. Len(s) + 1 : p[i] = s[i - 1]
  BY <1>1
<1> HIDE DEF u, p
<1>4. q \in Seq(S) /\ Len(q) = Len(s) + 1 /\ q[1] = f /\ \A i \in 2 .. Len(s) + 1 : q[i] = u[i - 1]
  BY <1>1, <1>2
<1>5. w \in Seq(S) /\ Len(w) = Len(s) + 1 /\ \A i \in 1 .. Len(s) + 1 : w[i] = IF i = Len(s) + 1 THEN b ELSE p[i]
  BY <1>1, <1>3
<1> HIDE DEF q, w
<1>6. ASSUME NEW i \in 1 .. Len(s) + 1 PROVE w[i] = q[i]
  <2>1. CASE i = 1
    BY <1>1, <1>3, <1>4, <1>5, <2>1
  <2>2. CASE i # 1
    <3>1. i \in 2 .. Len(s) + 1 /\ i - 1 \in 1 .. Len(s) /\ (i - 1 = Len(s) <=> i = Len(s) + 1)
      BY <1>1, <2>2
    <3>2. q[i] = u[i - 1] /\ p[i] = s[i - 1]
      BY <1>3, <1>4, <3>1
    <3>3. u[i - 1] = IF i - 1 = Len(s) THEN b ELSE s[i - 1]
      BY <1>2, <3>1
    <3>4. w[i] = IF i = Len(s) + 1 THEN b ELSE p[i]
      BY <1>5
    <3> QED
      BY <3>1, <3>2, <3>3, <3>4
  <2> QED
    BY <2>1, <2>2
<1>7. w = q
  BY <1>4, <1>5, <1>6, SameElements
<1>8. p[Len(s) + 1] = s[Len(s)]
  BY <1>1, <1>3
<1> QED
  BY <1>3, <1>7, <1>8 DEF u, p, q, w, Rebased

--------------------------------------------------------------------------------
\* The stack of the builtin, by its parts.
LEMMA UnderParts ==
    ASSUME NEW a, NEW S, NEW s \in Seq(S), s # <<>>
    PROVE  /\ Under(a, s) # <<>> /\ Len(Under(a, s)) = Len(s) /\ Len(s) \in Nat \ {0}
           /\ Head(Under(a, s)) = IF Len(s) = 1 THEN AsAlias(a, Head(s)) ELSE Head(s)
           /\ Tail(Under(a, s)) = IF Len(s) = 1 THEN <<>> ELSE Under(a, Tail(s))
<1>1. PICK b : b = AsAlias(a, s[Len(s)])
  OBVIOUS
<1>2. Under(a, s) = Rebased(s, b)
  BY <1>1 DEF Under
<1> DEFINE S2 == S \cup {b}
<1>4. s \in Seq(S2) /\ b \in S2
  OBVIOUS
<1> HIDE DEF S2
<1>5. /\ Rebased(s, b) # <<>> /\ Len(Rebased(s, b)) = Len(s)
      /\ Head(Rebased(s, b)) = IF Len(s) = 1 THEN b ELSE Head(s)
      /\ Tail(Rebased(s, b)) = IF Len(s) = 1 THEN <<>> ELSE Rebased(Tail(s), b)
  BY <1>4, NewBottom
<1>6. Head(s) = s[1] /\ Len(s) \in Nat \ {0}
  BY Below
<1>7. ASSUME Len(s) # 1 PROVE Rebased(Tail(s), b) = Under(a, Tail(s))
  <2>1. Tail(s)[Len(Tail(s))] = s[Len(s)]
    BY <1>7, Bottom
  <2> QED
    BY <1>1, <2>1 DEF Under
<1> QED
  BY <1>1, <1>2, <1>5, <1>6, <1>7

\* A frame put on the operator's stack is a frame put on its builtin's.
LEMMA UnderPush ==
    ASSUME NEW a, NEW S, NEW s \in Seq(S), s # <<>>, NEW f
    PROVE  Under(a, <<f>> \o s) = <<f>> \o Under(a, s)
<1>1. PICK b : b = AsAlias(a, s[Len(s)])
  OBVIOUS
<1> DEFINE S2 == S \cup {b, f}
<1>2. s \in Seq(S2) /\ b \in S2 /\ f \in S2
  OBVIOUS
<1> HIDE DEF S2
<1>3. /\ Len(<<f>> \o s) = Len(s) + 1 /\ (<<f>> \o s)[Len(s) + 1] = s[Len(s)]
      /\ Rebased(<<f>> \o s, b) = <<f>> \o Rebased(s, b)
  BY <1>2, PushedOver
<1>4. (<<f>> \o s)[Len(<<f>> \o s)] = s[Len(s)]
  BY <1>3
<1> QED
  BY <1>1, <1>3, <1>4 DEF Under

\* A stack of one frame is a sequence of one.
LEMMA OneFrame == \A f : Len(<<f>>) = 1 /\ <<f>>[1] = f /\ <<f>> # <<>> /\ <<f>> \o <<>> = <<f>>
  OBVIOUS

\* Under one frame there is the builtin's alone.
LEMMA UnderOne == ASSUME NEW a, NEW g PROVE Under(a, <<g>>) = <<AsAlias(a, g)>>
<1>1. PICK b : b = AsAlias(a, g)
  OBVIOUS
<1>2. Rebased(<<g>>, b) = <<b>>
  BY OneFrame DEF Rebased
<1> QED
  BY <1>1, <1>2, OneFrame DEF Under

\* Handed a value, the operator's frame is its builtin's handed that value.
LEMMA AliasHanded ==
    ASSUME NEW a, NEW E, NEW C, NEW V, NEW g \in Frames(E, C, V), NEW v \in V
    PROVE  With(AsAlias(a, g), v) = AsAlias(a, With(g, v))
<1>1. PICK t : t = TextOf(a)
  OBVIOUS
<1>2. PICK vs \in Seq(V) : vs = g.vals
  BY DEF Frames
<1> DEFINE V2 == V \cup {t}
<1>3. vs \in Seq(V2) /\ v \in V2 /\ t \in V2
  OBVIOUS
<1> HIDE DEF V2
<1>4. Append(<<t>> \o vs, v) = <<t>> \o Append(vs, v)
  BY <1>3
<1>5. /\ With(g, v).scope = g.scope /\ With(g, v).charged = g.charged
      /\ With(g, v).vals = Append(vs, v)
  BY <1>2 DEF Frames, With
<1>6. AsAlias(a, With(g, v)) = [expr |-> a, scope |-> g.scope, vals |-> <<t>> \o Append(vs, v), charged |-> g.charged]
  BY <1>1, <1>5 DEF AsAlias
<1>7. AsAlias(a, g) = [expr |-> a, scope |-> g.scope, vals |-> <<t>> \o vs, charged |-> g.charged]
  BY <1>1, <1>2 DEF AsAlias
<1>8. With(AsAlias(a, g), v) = [expr |-> a, scope |-> g.scope, vals |-> Append(<<t>> \o vs, v), charged |-> g.charged]
  <2>1. PICK f : f = [expr |-> a, scope |-> g.scope, vals |-> <<t>> \o vs, charged |-> g.charged]
    OBVIOUS
  <2>2. PICK w : w = Append(<<t>> \o vs, v)
    OBVIOUS
  <2>3. f.vals = <<t>> \o vs
    BY <2>1
  <2>4. [f EXCEPT !.vals = w] = [expr |-> a, scope |-> g.scope, vals |-> w, charged |-> g.charged]
    BY <2>1
  <2> QED
    BY <1>7, <2>1, <2>2, <2>3, <2>4 DEF With
<1> QED
  BY <1>4, <1>6, <1>8

\* So does any frame of the stack.
LEMMA UnderHand ==
    ASSUME NEW a, NEW E, NEW C, NEW V, NEW s \in Seq(Frames(E, C, V)), s # <<>>, NEW v \in V
    PROVE  <<With(Head(Under(a, s)), v)>> \o Tail(Under(a, s)) = Under(a, <<With(Head(s), v)>> \o Tail(s))
<1>1. Head(s) \in Frames(E, C, V) /\ Tail(s) \in Seq(Frames(E, C, V))
  BY Below
<1>2. /\ Head(Under(a, s)) = IF Len(s) = 1 THEN AsAlias(a, Head(s)) ELSE Head(s)
      /\ Tail(Under(a, s)) = IF Len(s) = 1 THEN <<>> ELSE Under(a, Tail(s))
  BY UnderParts
<1>3. CASE Len(s) = 1
  <2>1. Tail(s) = <<>>
    BY <1>3, Bottom
  <2>2. With(AsAlias(a, Head(s)), v) = AsAlias(a, With(Head(s), v))
    BY <1>1, AliasHanded
  <2>3. PICK h : h = With(Head(s), v)
    OBVIOUS
  <2>4. <<With(Head(Under(a, s)), v)>> \o Tail(Under(a, s)) = <<AsAlias(a, h)>>
    BY <1>2, <1>3, <2>2, <2>3, OneFrame
  <2>5. <<With(Head(s), v)>> \o Tail(s) = <<h>>
    BY <2>1, <2>3, OneFrame
  <2> QED
    BY <2>4, <2>5, UnderOne
<1>4. CASE Len(s) # 1
  <2>1. Tail(s) # <<>>
    BY <1>4, Bottom
  <2>2. Under(a, <<With(Head(s), v)>> \o Tail(s)) = <<With(Head(s), v)>> \o Under(a, Tail(s))
    BY <1>1, <2>1, UnderPush
  <2> QED
    BY <1>2, <1>4, <2>2
<1> QED
  BY <1>3, <1>4

\* The bottom of a stack stays its bottom.
LEMMA RootedPush ==
    ASSUME NEW r, NEW S, NEW s \in Seq(S), Rooted(s, r), NEW f
    PROVE  Rooted(<<f>> \o s, r) /\ Len(<<f>> \o s) = Len(s) + 1
<1> DEFINE T == S \cup {f}
<1>1. s \in Seq(T) /\ f \in T /\ s # <<>>
  BY DEF Rooted
<1> HIDE DEF T
<1>2. /\ <<f>> \o s # <<>> /\ Len(<<f>> \o s) = Len(s) + 1
      /\ (<<f>> \o s)[Len(s) + 1] = s[Len(s)]
  BY <1>1, PushedOver
<1> QED
  BY <1>2 DEF Rooted

\* So it does when a frame above it ends,
LEMMA RootedTail ==
    ASSUME NEW r, NEW S, NEW s \in Seq(S), Rooted(s, r), Len(s) # 1
    PROVE  Rooted(Tail(s), r)
<1>1. Tail(s) # <<>> /\ Len(Tail(s)) = Len(s) - 1 /\ Tail(s)[Len(s) - 1] = s[Len(s)]
  BY Bottom DEF Rooted
<1> QED
  BY <1>1 DEF Rooted

\* and when the innermost frame is handed a value, be it the bottom itself.
LEMMA RootedHand ==
    ASSUME NEW r, NEW E, NEW C, NEW V, NEW s \in Seq(Frames(E, C, V)), Rooted(s, r), NEW v \in V
    PROVE  Rooted(<<With(Head(s), v)>> \o Tail(s), r)
<1>1. /\ Head(s) \in Frames(E, C, V) /\ Head(s) = s[1] /\ Tail(s) \in Seq(Frames(E, C, V))
      /\ s # <<>>
  BY Below DEF Rooted
<1>2. With(Head(s), v).expr = Head(s).expr /\ With(Head(s), v).charged = Head(s).charged
  BY <1>1 DEF With, Frames
<1>3. CASE Len(s) = 1
  <2>1. Tail(s) = <<>>
    BY <1>1, <1>3, Bottom
  <2>2. <<With(Head(s), v)>> \o Tail(s) = <<With(Head(s), v)>>
    BY <2>1, OneFrame
  <2>3. Head(s).expr = r /\ Head(s).charged
    BY <1>1, <1>3 DEF Rooted
  <2> QED
    BY <1>2, <2>2, <2>3, OneFrame DEF Rooted
<1>4. CASE Len(s) # 1
  <2>1. Rooted(Tail(s), r)
    BY <1>4, RootedTail
  <2> QED
    BY <1>1, <2>1, RootedPush
<1> QED
  BY <1>3, <1>4

--------------------------------------------------------------------------------
\* Handed a value, the operator's stack stays one, and its builtin's with it.
LEMMA HandUnder ==
    ASSUME NEW a, NEW r, NEW s, Stacked(s), Rooted(s, r), NEW v
    PROVE  /\ <<With(Head(Under(a, s)), v)>> \o Tail(Under(a, s)) = Under(a, <<With(Head(s), v)>> \o Tail(s))
           /\ Rooted(<<With(Head(s), v)>> \o Tail(s), r)
<1>1. PICK E, C, V : s \in Seq(Frames(E, C, V)) /\ v \in V
  BY Room
<1>2. s # <<>>
  BY DEF Rooted
<1> QED
  BY <1>1, <1>2, UnderHand, RootedHand

\* What a decision does to the operator's stack it does to its builtin's, as long as
\* it does not end the frame at the bottom.
LEMMA UnderActs ==
    ASSUME NEW a, NEW r, NEW s, Stacked(s), Rooted(s, r), NEW D \in Nat, NEW d,
           d.move \in {"return", "become"} => Len(s) # 1
    PROVE  /\ StackAfter(D, Under(a, s), d) = Under(a, StackAfter(D, s, d))
           /\ AnswerAfter(Under(a, s), d) = None /\ AnswerAfter(s, d) = None
           /\ Rooted(StackAfter(D, s, d), r)
<1>1. PICK E, C, V : s \in Seq(Frames(E, C, V))
  BY DEF Stacked
<1>2. s # <<>>
  BY DEF Rooted
<1>3. /\ Len(Under(a, s)) = Len(s) /\ Len(s) \in Nat \ {0}
      /\ Tail(Under(a, s)) = IF Len(s) = 1 THEN <<>> ELSE Under(a, Tail(s))
  BY <1>1, <1>2, UnderParts
<1>4. AnswerAfter(Under(a, s), d) = None /\ AnswerAfter(s, d) = None
  BY <1>3 DEF AnswerAfter
<1>5. Tail(s) \in Seq(Frames(E, C, V))
  BY <1>1, <1>2, Below
<1>6. CASE d.move = "give"
  BY <1>4, <1>6, HandUnder DEF StackAfter
<1>7. CASE d.move = "return"
  <2>1. Rooted(Tail(s), r) /\ Stacked(Tail(s))
    BY <1>1, <1>5, <1>7, RootedTail DEF Stacked
  <2>2. PICK v : v = d.value
    OBVIOUS
  <2>3. \A k : Len(k) # 1 => StackAfter(D, k, d) = <<With(Head(Tail(k)), v)>> \o Tail(Tail(k))
    BY <1>7, <2>2 DEF StackAfter
  <2>4. PICK t : t = Tail(s)
    OBVIOUS
  <2>5. /\ <<With(Head(Under(a, t)), v)>> \o Tail(Under(a, t)) = Under(a, <<With(Head(t), v)>> \o Tail(t))
        /\ Rooted(<<With(Head(t), v)>> \o Tail(t), r)
    BY <2>1, <2>4, HandUnder
  <2> QED
    BY <1>3, <1>4, <1>7, <2>3, <2>4, <2>5
<1>8. CASE d.move = "become"
  <2>1. Rooted(Tail(s), r) /\ Tail(s) # <<>>
    BY <1>1, <1>8, RootedTail DEF Rooted
  <2>2. PICK f : f = Frame(d.expr, d.scope)
    OBVIOUS
  <2>3. Under(a, <<f>> \o Tail(s)) = <<f>> \o Under(a, Tail(s))
    BY <1>5, <2>1, UnderPush
  <2>4. Rooted(<<f>> \o Tail(s), r)
    BY <1>5, <2>1, RootedPush
  <2>5. \A k : StackAfter(D, k, d) = <<f>> \o Tail(k)
    BY <1>8, <2>2 DEF StackAfter
  <2> QED
    BY <1>3, <1>4, <1>8, <2>3, <2>4, <2>5
<1>9. CASE d.move \notin {"give", "return", "become"}
  <2>1. CASE Len(s) < D
    <3>1. PICK f : f = Frame(d.expr, d.scope)
      OBVIOUS
    <3>2. Under(a, <<f>> \o s) = <<f>> \o Under(a, s)
      BY <1>1, <1>2, UnderPush
    <3>3. Rooted(<<f>> \o s, r)
      BY <1>1, RootedPush
    <3>4. \A k : Len(k) < D => StackAfter(D, k, d) = <<f>> \o k
      BY <1>9, <3>1 DEF StackAfter
    <3> QED
      BY <1>3, <1>4, <2>1, <3>2, <3>3, <3>4
  <2>2. CASE ~(Len(s) < D)
    BY <1>3, <1>4, <1>9, <2>2, HandUnder DEF StackAfter
  <2> QED
    BY <2>1, <2>2
<1> QED
  BY <1>6, <1>7, <1>8, <1>9

\* The operands of an alias behind its text are its operator's.
LEMMA OperandsBehind ==
    ASSUME NEW a, Standing(a)
    PROVE  LET r == Operator(a) IN
           /\ Len(a.args) \in Nat /\ r.kind = a.of /\ r.names = a.names /\ r.op = TextOf(a).text
           /\ r.args = Tail(a.args) /\ Len(r.args) = Len(a.args) - 1
           /\ \A i \in 1 .. Len(a.args) - 1 : r.args[i] = a.args[i + 1]
           /\ Arity(r) <= Len(r.args) /\ Arity(r) \in Nat
           /\ r.kind = "field" => Arity(r) = 1
<1>1. a.args \in Seq(Range(a.args)) /\ Len(a.args) \in Nat /\ LeastOperands(a.of) \in Nat
      /\ LeastOperands("logic") = 1 /\ LeastOperands("field") = 1
  BY DEF Standing, LeastOperands
<1>2. a.args # <<>>
  BY <1>1 DEF Standing
<1>3. /\ Operator(a).kind = a.of /\ Operator(a).args = Tail(a.args) /\ Operator(a).names = a.names
      /\ Operator(a).op = TextOf(a).text
  BY DEF Operator, Inline
<1>4. Len(Tail(a.args)) = Len(a.args) - 1 /\ \A i \in 1 .. Len(a.args) - 1 : Tail(a.args)[i] = a.args[i + 1]
  BY <1>1, <1>2, Below
<1>5. Len(a.args) > LeastOperands(a.of)
  BY DEF Standing
<1>6. a.of = "logic" \/ a.of = "field" => Len(a.args) > 1
  BY <1>1, <1>5
<1>7. a.of = "field" => Len(a.args) = 2
  <2>1. PICK n \in Nat : n = Len(a.args)
    BY <1>1
  <2>2. a.of = "field" => n <= 2 /\ n > 1
    BY <1>6, <2>1 DEF Standing
  <2>3. n <= 2 /\ n > 1 => n = 2
    OBVIOUS
  <2> QED
    BY <2>1, <2>2, <2>3
<1>8. Arity(Operator(a)) <= Len(Tail(a.args)) /\ Arity(Operator(a)) \in Nat
  BY <1>1, <1>2, <1>3, <1>4, <1>6 DEF Arity
<1>9. a.of = "field" => Arity(Operator(a)) = 1
  BY <1>3, <1>4, <1>7 DEF Arity
<1> QED
  BY <1>1, <1>3, <1>4, <1>8, <1>9

\* An alias takes stored errors where its operator does, but for that of a field.
LEMMA ErrorsTakenAlike ==
    ASSUME NEW a, Standing(a), NEW n \in Nat \ {0}
    PROVE  LET r == Operator(a) IN
           /\ r.kind # "field" => (TakesStoredErrors(a, n + 1) <=> TakesStoredErrors(r, n))
           /\ r.kind = "field" => ~TakesStoredErrors(a, n + 1) /\ TakesStoredErrors(r, n)
BY OperandsBehind DEF Standing, TakesStoredErrors, Collections

\* The frame of the builtin and the one of its operator.
LEMMA AliasFrame ==
    ASSUME NEW a, NEW g, Sequence(g.vals), NEW f, f = AsAlias(a, g)
    PROVE  /\ f.expr = a /\ f.scope = g.scope /\ f.charged = g.charged
           /\ Len(g.vals) \in Nat /\ Len(f.vals) = Len(g.vals) + 1
           /\ f.vals # <<>> /\ f.vals[1] = TextOf(a) /\ Tail(f.vals) = g.vals
           /\ g.vals = <<>> => Last(f.vals) = TextOf(a)
           /\ g.vals # <<>> => Last(f.vals) = Last(g.vals)
<1>1. PICK t : t = TextOf(a)
  OBVIOUS
<1>2. PICK vs : vs = g.vals
  OBVIOUS
<1>0. PICK V : vs \in Seq(V)
  BY <1>2 DEF Sequence
<1> DEFINE V2 == V \cup {t}
           w == <<t>> \o vs
<1>3. vs \in Seq(V2) /\ t \in V2
  BY <1>0
<1> HIDE DEF V2
<1>4. /\ Len(vs) \in Nat /\ w # <<>> /\ Len(w) = Len(vs) + 1 /\ w[1] = t /\ Tail(w) = vs
      /\ \A i \in 2 .. Len(vs) + 1 : w[i] = vs[i - 1]
      /\ vs # <<>> => Len(vs) > 0
  BY <1>3
<1> HIDE DEF w
<1>5. vs # <<>> => w[Len(w)] = vs[Len(vs)]
  BY <1>4
<1>6. vs = <<>> => w[Len(w)] = t
  BY <1>4
<1>7. AsAlias(a, g) = [expr |-> a, scope |-> g.scope, vals |-> w, charged |-> g.charged]
  BY <1>1, <1>2 DEF AsAlias, w
<1> QED
  BY <1>1, <1>2, <1>4, <1>5, <1>6, <1>7 DEF Last

--------------------------------------------------------------------------------
\* The operator's frame g at the bottom, and f of its builtin.
AtBottom(a, g) == g.expr = Operator(a) /\ Sequence(g.vals)

\* Both end by an error that they got, or neither does.
LEMMA AliasEndsAlike ==
    ASSUME NEW a, Standing(a), NEW g, AtBottom(a, g)
    PROVE  /\ ShortCircuits(AsAlias(a, g)) <=> ShortCircuits(g)
           /\ \A ws : WrittenBy(AsAlias(a, g), ws) = ws /\ WrittenBy(g, ws) = ws
<1>1. PICK V : g.vals \in Seq(V)
  BY DEF AtBottom, Sequence
<1>2. PICK f : f = AsAlias(a, g)
  OBVIOUS
<1>3. /\ f.expr = a /\ f.vals # <<>>
      /\ g.vals = <<>> => Last(f.vals) = TextOf(a)
      /\ g.vals # <<>> => Last(f.vals) = Last(g.vals)
  BY <1>2, AliasFrame DEF AtBottom
<1>4. /\ a.kind = "alias" /\ g.expr.kind \in {"arithmetic", "compare", "logic", "field", "construct"}
      /\ ~IsError(TextOf(a))
  BY OperandsBehind DEF AtBottom, Standing, IsError
<1>5. ~InContainedPosition(f) /\ ~InContainedPosition(g)
  BY <1>3, <1>4 DEF InContainedPosition
<1>6. ShortCircuits(f) <=> ShortCircuits(g)
  BY <1>3, <1>4, <1>5 DEF ShortCircuits
<1>7. \A ws : WrittenBy(f, ws) = ws /\ WrittenBy(g, ws) = ws
  BY <1>3, <1>4 DEF WrittenBy
<1> QED
  BY <1>2, <1>6, <1>7

\* Where they do, they report it alike, but for the form of the error of a field.
LEMMA AliasReports ==
    ASSUME NEW a, Standing(a), NEW g, AtBottom(a, g), ShortCircuits(g)
    PROVE  \E v, w :
             /\ \A ws : Decision(AsAlias(a, g), ws) = Returning(v) /\ Decision(g, ws) = Returning(w)
             /\ v = w \/ (IsError(w) /\ v = Minted(w.code))
<1>1. PICK V : g.vals \in Seq(V)
  BY DEF AtBottom, Sequence
<1>2. PICK f : f = AsAlias(a, g)
  OBVIOUS
<1>3. g.vals # <<>> /\ IsError(Last(g.vals))
  BY DEF ShortCircuits
<1>4. f.expr = a /\ Last(f.vals) = Last(g.vals) /\ Len(f.vals) = Len(g.vals) + 1 /\ Len(g.vals) \in Nat
  BY <1>2, <1>3, AliasFrame DEF AtBottom
<1>5. ShortCircuits(f)
  BY <1>2, AliasEndsAlike
<1>6. PICK err : err = Last(g.vals)
  OBVIOUS
<1>7. PICK n : n = Len(g.vals)
  OBVIOUS
<1>8. n \in Nat \ {0}
  BY <1>1, <1>3, <1>7
<1>9. PICK v, w : v = Reported(f, err) /\ w = Reported(g, err)
  OBVIOUS
<1>10. v = w \/ (IsError(w) /\ v = Minted(w.code))
  <2>1. /\ Operator(a).kind # "field" => (TakesStoredErrors(a, n + 1) <=> TakesStoredErrors(Operator(a), n))
        /\ Operator(a).kind = "field" => ~TakesStoredErrors(a, n + 1) /\ TakesStoredErrors(Operator(a), n)
    BY <1>8, ErrorsTakenAlike
  <2>2. /\ v = IF TakesStoredErrors(a, n + 1) THEN err ELSE Minted(err.code)
        /\ w = IF TakesStoredErrors(Operator(a), n) THEN err ELSE Minted(err.code)
    BY <1>4, <1>7, <1>9 DEF Reported, AtBottom
  <2> QED
    BY <1>3, <1>6, <2>1, <2>2
<1>11. \A ws : Decision(f, ws) = Returning(v) /\ Decision(g, ws) = Returning(w)
  BY <1>4, <1>5, <1>6, <1>9 DEF Decision
<1> QED
  BY <1>2, <1>10, <1>11

\* Otherwise an alias stands for its operator, which operates.
LEMMA AliasStands ==
    ASSUME NEW a, Standing(a), NEW g, AtBottom(a, g), ~ShortCircuits(g)
    PROVE  \A ws : Decision(AsAlias(a, g), ws) = StandingFor(AsAlias(a, g)) /\ Decision(g, ws) = Operating(g)
<1>1. PICK V : g.vals \in Seq(V)
  BY DEF AtBottom, Sequence
<1>2. PICK f : f = AsAlias(a, g)
  OBVIOUS
<1>3. f.expr = a /\ ~ShortCircuits(f)
  BY <1>2, AliasFrame, AliasEndsAlike DEF AtBottom
<1>4. a.kind = "alias" /\ g.expr.kind \in {"arithmetic", "compare", "logic", "field", "construct"}
  BY OperandsBehind DEF AtBottom, Standing
<1>5. \A ws : Decision(f, ws) = StandingFor(f)
  BY <1>3, <1>4 DEF Decision, Operators
<1>6. \A ws : Decision(g, ws) = Operating(g)
  BY <1>4 DEF Decision, Operators
<1> QED
  BY <1>2, <1>5, <1>6

\* With its text an alias takes the operand that its operator takes, or has the same result.
LEMMA AliasOperates ==
    ASSUME NEW a, Standing(a), NEW g, AtBottom(a, g)
    PROVE  LET f == AsAlias(a, g)
               r == Operator(a)
               n == Len(g.vals) + 1
           IN
           /\ n \in Nat \ {0}
           /\ n > Arity(r) => Operating(g) = Returning(Result(r, g.vals)) /\ StandingFor(f) = Operating(g)
           /\ n <= Arity(r) =>
                /\ r.args[n] = a.args[n + 1]
                /\ r.kind = "field" => g.vals = <<>> /\ n = 1
                /\ Operating(g) = IF TakesStoredErrors(r, n) THEN Asking(r.args[n], g.scope)
                                                             ELSE Fetching(r.args[n], g.scope)
                /\ StandingFor(f) = IF TakesStoredErrors(a, n + 1) THEN Asking(r.args[n], g.scope)
                                                                   ELSE Fetching(r.args[n], g.scope)
<1>1. PICK V : g.vals \in Seq(V)
  BY DEF AtBottom, Sequence
<1>2. PICK f : f = AsAlias(a, g)
  OBVIOUS
<1>3. PICK r : r = Operator(a)
  OBVIOUS
<1>4. PICK n : n = Len(g.vals) + 1
  OBVIOUS
<1>5. /\ f.expr = a /\ f.scope = g.scope /\ Len(g.vals) \in Nat /\ Len(f.vals) = n
      /\ f.vals # <<>> /\ f.vals[1] = TextOf(a) /\ Tail(f.vals) = g.vals
  BY <1>2, <1>4, AliasFrame DEF AtBottom
<1>6. n \in Nat \ {0} /\ (n = 1 => g.vals = <<>>) /\ (n > Arity(r) <=> ~(Len(g.vals) < Arity(r)))
  <2>1. Arity(r) \in Nat
    BY <1>3, OperandsBehind
  <2> QED
    BY <1>1, <1>4, <1>5, <2>1
<1>7. /\ r = Inline(a, f.vals[1].text) /\ f.vals[1].kind = "text" /\ ~LacksOperands(a)
  <2>1. ~LacksOperands(a)
    <3>1. LeastOperands(a.of) \in Nat /\ Len(a.args) \in Nat
      BY OperandsBehind DEF LeastOperands
    <3> QED
      BY <3>1 DEF Standing, LacksOperands
  <2> QED
    BY <1>3, <1>5, <2>1 DEF Standing, Operator
<1>8. /\ n > Arity(r) => Operating(g) = Returning(Result(r, g.vals))
      /\ n <= Arity(r) => Operating(g) = Operand(r, g)
  <2>1. Arity(r) \in Nat
    BY <1>3, OperandsBehind
  <2> QED
    BY <1>3, <1>6, <2>1 DEF Operating, AtBottom
<1>9. /\ n > Arity(r) => StandingFor(f) = Returning(Result(r, g.vals))
      /\ n <= Arity(r) => StandingFor(f) = Operand(a, f)
  <2>1. Arity(r) \in Nat
    BY <1>3, OperandsBehind
  <2> QED
    BY <1>5, <1>6, <1>7, <2>1 DEF StandingFor
<1>10. n <= Arity(r) => r.args[n] = a.args[n + 1] /\ (r.kind = "field" => n = 1)
  <2>1. /\ Len(r.args) = Len(a.args) - 1 /\ Arity(r) <= Len(r.args) /\ Arity(r) \in Nat /\ Len(a.args) \in Nat
        /\ \A i \in 1 .. Len(a.args) - 1 : r.args[i] = a.args[i + 1]
        /\ r.kind = "field" => Arity(r) = 1
    BY <1>3, OperandsBehind
  <2>2. n <= Arity(r) => n \in 1 .. Len(a.args) - 1
    BY <1>6, <2>1
  <2> QED
    BY <1>6, <2>1, <2>2
<1>11. Operand(r, g) = IF TakesStoredErrors(r, n) THEN Asking(r.args[n], g.scope) ELSE Fetching(r.args[n], g.scope)
  BY <1>4 DEF Operand
<1>12. Operand(a, f) = IF TakesStoredErrors(a, n + 1) THEN Asking(a.args[n + 1], g.scope)
                                                      ELSE Fetching(a.args[n + 1], g.scope)
  BY <1>5 DEF Operand
<1> QED
  BY <1>2, <1>3, <1>4, <1>6, <1>8, <1>9, <1>10, <1>11, <1>12

--------------------------------------------------------------------------------
\* What is in the states of two evaluations that are abreast.
LEMMA AbreastParts ==
    ASSUME NEW a, NEW c, NEW d, Abreast(a, c, d), Stacked(d.stack)
    PROVE  /\ c.stack = Under(a, d.stack) /\ c.writes = d.writes /\ c.answer = None
           /\ c.spent = d.spent + Ahead(Operator(a), d.stack)
           /\ Rooted(d.stack, Operator(a)) /\ d.stack # <<>> /\ d.answer = None /\ d.spent > 0
           /\ c.stack # <<>> /\ Len(c.stack) = Len(d.stack) /\ Len(d.stack) \in Nat \ {0}
           /\ Len(d.stack) # 1 =>
                /\ ~ErrorField(Operator(a)) /\ Ahead(Operator(a), d.stack) = 1
                /\ Head(c.stack) = Head(d.stack) /\ Tail(c.stack) = Under(a, Tail(d.stack))
           /\ Len(d.stack) = 1 =>
                /\ Tail(c.stack) = <<>> /\ Tail(d.stack) = <<>>
                /\ Head(c.stack) = AsAlias(a, Head(d.stack)) /\ Head(d.stack) = d.stack[1]
                /\ AtBottom(a, Head(d.stack)) /\ Head(d.stack).charged /\ Head(c.stack).charged
<1>1. PICK E, C, V : d.stack \in Seq(Frames(E, C, V))
  BY DEF Stacked
<1>2. PICK s : s = d.stack
  OBVIOUS
<1>3. Rooted(s, Operator(a)) /\ s # <<>> /\ s \in Seq(Frames(E, C, V))
  BY <1>1, <1>2 DEF Abreast, Rooted
<1>4. c.stack = Under(a, s) /\ c.writes = d.writes /\ c.answer = None
      /\ c.spent = d.spent + Ahead(Operator(a), s)
  BY <1>2 DEF Abreast, State
<1>5. /\ Under(a, s) # <<>> /\ Len(Under(a, s)) = Len(s) /\ Len(s) \in Nat \ {0}
      /\ Head(Under(a, s)) = IF Len(s) = 1 THEN AsAlias(a, Head(s)) ELSE Head(s)
      /\ Tail(Under(a, s)) = IF Len(s) = 1 THEN <<>> ELSE Under(a, Tail(s))
  BY <1>3, UnderParts
<1>6. Len(s) # 1 => ~ErrorField(Operator(a)) /\ Ahead(Operator(a), s) = 1
  BY <1>2 DEF Abreast, Ahead
<1>7. ASSUME Len(s) = 1
      PROVE  /\ Tail(s) = <<>> /\ Head(s) = s[1]
             /\ AtBottom(a, Head(s)) /\ Head(s).charged /\ AsAlias(a, Head(s)).charged
  <2>1. Tail(s) = <<>> /\ Head(s) = s[1] /\ Head(s) \in Frames(E, C, V)
    BY <1>3, <1>7, Bottom, Below
  <2>2. Head(s).expr = Operator(a) /\ Head(s).charged
    BY <1>3, <1>7, <2>1 DEF Rooted
  <2>3. Sequence(Head(s).vals)
    BY <2>1 DEF Frames, Sequence
  <2>4. AsAlias(a, Head(s)).charged = Head(s).charged
    BY <2>3, AliasFrame
  <2> QED
    BY <2>1, <2>2, <2>3, <2>4 DEF AtBottom
<1> QED
  BY <1>2, <1>3, <1>4, <1>5, <1>6, <1>7 DEF Abreast

\* Above the frame at the bottom the two evaluations do the same.
LEMMA AbreastAbove ==
    ASSUME NEW a, NEW c, NEW d, Abreast(a, c, d), Stacked(d.stack), d.spent \in Nat,
           NEW D \in Nat, Len(d.stack) # 1
    PROVE  Abreast(a, After(a, D, c), After(Operator(a), D, d))
<1>1. PICK E, C, V : d.stack \in Seq(Frames(E, C, V))
  BY DEF Stacked
<1>2. PICK s, r, top : s = d.stack /\ r = Operator(a) /\ top = Head(s)
  OBVIOUS
<1>3. /\ c.stack = Under(a, s) /\ c.writes = d.writes /\ c.spent = d.spent + 1
      /\ Rooted(s, r) /\ s # <<>> /\ d.spent > 0 /\ c.stack # <<>> /\ ~ErrorField(r)
      /\ Head(c.stack) = top /\ Tail(c.stack) = Under(a, Tail(s))
  BY <1>2, AbreastParts
<1>4. Tail(s) \in Seq(Frames(E, C, V)) /\ Rooted(Tail(s), r) /\ Tail(s) # <<>>
  BY <1>1, <1>2, <1>3, RootedTail, Below DEF Rooted
<1>5. \A k : Ahead(r, k) = 1
  BY <1>3 DEF Ahead
<1>6. CASE ~top.charged
  <2>1. PICK x : x = [top EXCEPT !.charged = TRUE]
    OBVIOUS
  <2>2. After(a, D, c) = State(<<x>> \o Under(a, Tail(s)), d.writes, d.spent + 1 + 1, None)
    BY <1>3, <1>6, <2>1 DEF After, Charged
  <2>3. After(r, D, d) = State(<<x>> \o Tail(s), d.writes, d.spent + 1, None)
    BY <1>2, <1>3, <1>6, <2>1 DEF After, Charged
  <2>4. Under(a, <<x>> \o Tail(s)) = <<x>> \o Under(a, Tail(s)) /\ Rooted(<<x>> \o Tail(s), r)
    BY <1>4, UnderPush, RootedPush
  <2>5. PICK k, e : k = <<x>> \o Tail(s) /\ e = State(k, d.writes, d.spent + 1, None)
    OBVIOUS
  <2>6. e.stack = k /\ e.writes = d.writes /\ e.spent = d.spent + 1 /\ e.answer = None
    BY <2>5 DEF State
  <2>7. After(a, D, c) = State(Under(a, k), e.writes, e.spent + Ahead(r, k), None)
    BY <1>5, <2>2, <2>4, <2>5, <2>6
  <2>8. e.spent > 0
    BY <2>6
  <2> QED
    BY <1>2, <1>3, <2>3, <2>4, <2>5, <2>6, <2>7, <2>8 DEF Abreast
<1>7. CASE top.charged
  <2>1. PICK y : y = Decision(top, d.writes)
    OBVIOUS
  <2>2. PICK k, ws : k = StackAfter(D, s, y) /\ ws = WrittenBy(top, d.writes)
    OBVIOUS
  <2>3. /\ StackAfter(D, Under(a, s), y) = Under(a, k)
        /\ AnswerAfter(Under(a, s), y) = None /\ AnswerAfter(s, y) = None /\ Rooted(k, r)
    BY <1>2, <1>3, <2>2, UnderActs
  <2>4. After(a, D, c) = State(Under(a, k), ws, d.spent + 1, None)
    BY <1>3, <1>7, <2>1, <2>2, <2>3 DEF After, Worked
  <2>5. PICK e : e = State(k, ws, d.spent, None)
    OBVIOUS
  <2>6. After(r, D, d) = e
    BY <1>2, <1>3, <1>7, <2>1, <2>2, <2>3, <2>5 DEF After, Worked
  <2>7. e.stack = k /\ e.writes = ws /\ e.spent = d.spent /\ e.answer = None
    BY <2>5 DEF State
  <2> QED
    BY <1>2, <1>3, <1>5, <2>3, <2>4, <2>6, <2>7 DEF Abreast
<1> QED
  BY <1>6, <1>7

\* At the bottom both end, with the same value or an error of two forms.
LEMMA AbreastEnds ==
    ASSUME NEW a, NEW c, NEW d, Abreast(a, c, d), Stacked(d.stack), d.spent \in Nat,
           NEW D \in Nat, Len(d.stack) = 1, NEW v, NEW w, v = w \/ (IsError(w) /\ v = Minted(w.code)),
           Decision(AsAlias(a, Head(d.stack)), d.writes) = Returning(v),
           Decision(Head(d.stack), d.writes) = Returning(w), Standing(a),
           ErrorField(Operator(a)) => Head(d.stack).vals # <<>>
    PROVE  BothEnded(a, After(a, D, c), After(Operator(a), D, d))
<1>1. PICK s, r, g, f : s = d.stack /\ r = Operator(a) /\ g = Head(s) /\ f = AsAlias(a, g)
  OBVIOUS
<1>2. /\ c.writes = d.writes /\ c.spent = d.spent + Ahead(r, s) /\ d.spent > 0
      /\ c.stack # <<>> /\ Len(c.stack) = 1 /\ s # <<>> /\ Len(s) = 1
      /\ Head(c.stack) = f /\ g = s[1] /\ g.charged /\ f.charged /\ AtBottom(a, g)
  BY <1>1, AbreastParts
<1>3. WrittenBy(f, d.writes) = d.writes /\ WrittenBy(g, d.writes) = d.writes
  BY <1>1, <1>2, AliasEndsAlike
<1>4. Ahead(r, s) = IF ErrorField(r) THEN 2 ELSE 1
  BY <1>1, <1>2 DEF Ahead
<1>5. \A k, z : Len(k) = 1 => StackAfter(D, k, Returning(z)) = <<>> /\ AnswerAfter(k, Returning(z)) = z
  BY DEF StackAfter, AnswerAfter, Returning
<1>6. After(a, D, c) = State(<<>>, d.writes, c.spent, v)
  BY <1>1, <1>2, <1>3, <1>5 DEF After, Worked
<1>7. After(r, D, d) = State(<<>>, d.writes, d.spent, w)
  BY <1>1, <1>2, <1>3, <1>5 DEF After, Worked
<1>8. PICK b, e : b = After(a, D, c) /\ e = After(r, D, d)
  OBVIOUS
<1>9. /\ b.stack = <<>> /\ b.writes = d.writes /\ b.spent = c.spent /\ b.answer = v
      /\ e.stack = <<>> /\ e.writes = d.writes /\ e.spent = d.spent /\ e.answer = w
  BY <1>6, <1>7, <1>8 DEF State
<1>10. b.spent = e.spent + (IF ErrorField(r) THEN 2 ELSE 1) /\ e.spent > 0
  BY <1>2, <1>4, <1>9
<1> QED
  BY <1>1, <1>8, <1>9, <1>10 DEF BothEnded

\* Or both take the same operand.
LEMMA AbreastTakes ==
    ASSUME NEW a, NEW c, NEW d, Abreast(a, c, d), Stacked(d.stack), d.spent \in Nat,
           NEW D \in Nat, Len(d.stack) = 1, NEW y, y.move \in {"give", "call"},
           Decision(AsAlias(a, Head(d.stack)), d.writes) = y, Standing(a),
           Decision(Head(d.stack), d.writes) = y, ~ErrorField(Operator(a))
    PROVE  Abreast(a, After(a, D, c), After(Operator(a), D, d))
<1>1. PICK s, r, g, f : s = d.stack /\ r = Operator(a) /\ g = Head(s) /\ f = AsAlias(a, g)
  OBVIOUS
<1>2. /\ c.writes = d.writes /\ c.spent = d.spent + 1 /\ d.spent > 0 /\ c.stack = Under(a, s)
      /\ c.stack # <<>> /\ s # <<>> /\ Rooted(s, r)
      /\ Head(c.stack) = f /\ g.charged /\ f.charged /\ AtBottom(a, g)
  BY <1>1, AbreastParts DEF Ahead
<1>3. WrittenBy(f, d.writes) = d.writes /\ WrittenBy(g, d.writes) = d.writes
  BY <1>1, <1>2, AliasEndsAlike
<1>4. PICK k : k = StackAfter(D, s, y)
  OBVIOUS
<1>5. /\ StackAfter(D, Under(a, s), y) = Under(a, k)
      /\ AnswerAfter(Under(a, s), y) = None /\ AnswerAfter(s, y) = None /\ Rooted(k, r)
  BY <1>1, <1>2, <1>4, UnderActs
<1>6. After(a, D, c) = State(Under(a, k), d.writes, d.spent + 1, None)
  BY <1>1, <1>2, <1>3, <1>5 DEF After, Worked
<1>7. PICK e : e = State(k, d.writes, d.spent, None)
  OBVIOUS
<1>8. After(r, D, d) = e
  BY <1>1, <1>2, <1>3, <1>4, <1>5, <1>7 DEF After, Worked
<1>9. e.stack = k /\ e.writes = d.writes /\ e.spent = d.spent /\ e.answer = None
  BY <1>7 DEF State
<1>10. Ahead(r, k) = 1
  BY <1>1 DEF Ahead
<1> QED
  BY <1>1, <1>2, <1>5, <1>6, <1>8, <1>9, <1>10 DEF Abreast

\* A stack as long as one frame is that frame.
LEMMA OneOnly == ASSUME NEW s, Stacked(s), Len(s) = 1 PROVE s = <<Head(s)>>
<1>1. PICK E, C, V : s \in Seq(Frames(E, C, V))
  BY DEF Stacked
<1> DEFINE S == Frames(E, C, V)
           u == <<Head(s)>>
<1>2. s \in Seq(S) /\ s # <<>>
  BY <1>1
<1> HIDE DEF S
<1>3. Head(s) \in S /\ Head(s) = s[1]
  BY <1>2, Below
<1>4. u \in Seq(S) /\ Len(u) = 1 /\ u[1] = Head(s)
  BY <1>3
<1> HIDE DEF u
<1>5. s = u
  BY <1>2, <1>3, <1>4, SameElements
<1> QED
  BY <1>5 DEF u

\* A stack of two frames is one on top of another.
LEMMA TwoFrames ==
    ASSUME NEW h, NEW f
    PROVE  /\ <<h>> \o <<f>> # <<>> /\ Len(<<h>> \o <<f>>) = 2
           /\ Head(<<h>> \o <<f>>) = h /\ Tail(<<h>> \o <<f>>) = <<f>> /\ Tail(<<f>>) = <<>> /\ Head(<<f>>) = f
<1> DEFINE S == {h, f}
           t == <<f>>
           s == <<h>> \o t
<1>1. t \in Seq(S) /\ Len(t) = 1 /\ t # <<>> /\ t[1] = f /\ h \in S
  OBVIOUS
<1> HIDE DEF S, t
<1>2. s \in Seq(S) /\ s # <<>> /\ Len(s) = 2 /\ Head(s) = h /\ s[2] = f
  <2>1. 2 \in 2 .. Len(t) + 1
    BY <1>1
  <2> QED
    BY <1>1, <2>1, Pushed
<1> HIDE DEF s
<1>3. Tail(s) \in Seq(S) /\ Len(Tail(s)) = 1 /\ Tail(s)[1] = f
  BY <1>2, Below
<1>4. Tail(s) = t
  <2>1. PICK w : w = Tail(s)
    OBVIOUS
  <2>2. \A i \in 1 .. Len(w) : w[i] = t[i]
    BY <1>1, <1>3, <2>1
  <2>3. w = t
    BY <1>1, <1>3, <2>1, <2>2, SameElements
  <2> QED
    BY <2>1, <2>3
<1>5. Tail(t) = <<>> /\ Head(t) = f
  BY <1>1, Bottom, Below
<1> QED
  BY <1>2, <1>4, <1>5 DEF s, t

\* An error that is a value evaluates to itself.
LEMMA StoredErrorsStay ==
    ASSUME NEW e, IsStoredError(e), NEW s
    PROVE  /\ Resolves(e)
           /\ \A f, ws : f.expr = e /\ f.vals = <<>> =>
                /\ Decision(f, ws) = Returning(e.value) /\ WrittenBy(f, ws) = ws
<1>1. e.kind = "stored" /\ e.value.kind = "error"
  BY DEF IsStoredError, IsError
<1>2. Resolves(e)
  BY <1>1 DEF Resolves
<1>3. ASSUME NEW f, NEW ws, f.expr = e, f.vals = <<>>
      PROVE  Decision(f, ws) = Returning(e.value) /\ WrittenBy(f, ws) = ws
  <2>1. ~ShortCircuits(f)
    BY <1>3 DEF ShortCircuits
  <2>2. WrittenBy(f, ws) = ws
    BY <1>1, <1>3 DEF WrittenBy
  <2> QED
    BY <1>1, <1>3, <2>1, <2>2 DEF Decision, Operators, Collections
<1> QED
  BY <1>2, <1>3

\* Where an operator takes a stored error its builtin needs three steps: it evaluates the
\* error, pays for that, and is handed it.
LEMMA AbreastDelays ==
    ASSUME NEW a, NEW c, NEW d, Abreast(a, c, d), Stacked(d.stack), d.spent \in Nat, Standing(a),
           NEW D \in Nat, D > 1, Len(d.stack) = 1, ErrorField(Operator(a)), Head(d.stack).vals = <<>>
    PROVE  LET b == After(a, D, c) IN
           /\ b.answer = None /\ After(a, D, b).answer = None
           /\ Abreast(a, After(a, D, After(a, D, b)), After(Operator(a), D, d))
<1>1. PICK s, r, g, f : s = d.stack /\ r = Operator(a) /\ g = Head(s) /\ f = AsAlias(a, g)
  OBVIOUS
<1>2. PICK e, v, sc : e = r.args[1] /\ v = e.value /\ sc = g.scope
  OBVIOUS
<1>3. /\ c.writes = d.writes /\ c.spent = d.spent + Ahead(r, s) /\ d.spent > 0 /\ c.stack = Under(a, s)
      /\ c.stack # <<>> /\ s # <<>> /\ Len(c.stack) = 1 /\ Len(s) = 1 /\ Rooted(s, r)
      /\ Head(c.stack) = f /\ Tail(c.stack) = <<>> /\ Tail(s) = <<>> /\ g = s[1]
      /\ g.charged /\ f.charged /\ AtBottom(a, g)
  BY <1>1, AbreastParts
<1>4. Ahead(r, s) = 1
  BY <1>1, <1>3 DEF Ahead
<1>5. ~ShortCircuits(g) /\ IsStoredError(e) /\ IsError(v) /\ r.kind = "field"
  BY <1>1, <1>2 DEF ShortCircuits, ErrorField, IsStoredError
<1>6. Operating(g) = Giving(v) /\ StandingFor(f) = Calling(e, sc)
  <2>1. Len(<<>>) = 0 /\ 0 + 1 = 1 /\ 1 <= 1 /\ 1 + 1 = 2
    OBVIOUS
  <2>2. PICK n : n = Len(g.vals) + 1
    OBVIOUS
  <2>3. n = 1 /\ Arity(r) = 1 /\ n <= Arity(r)
    BY <1>1, <1>5, <2>1, <2>2, OperandsBehind
  <2>4. TakesStoredErrors(r, 1) /\ ~TakesStoredErrors(a, 2)
    BY <1>1, <1>5, <2>1, ErrorsTakenAlike
  <2>5. /\ Operating(g) = IF TakesStoredErrors(r, n) THEN Asking(r.args[n], g.scope)
                                                     ELSE Fetching(r.args[n], g.scope)
        /\ StandingFor(f) = IF TakesStoredErrors(a, n + 1) THEN Asking(r.args[n], g.scope)
                                                           ELSE Fetching(r.args[n], g.scope)
    BY <1>1, <1>3, <2>2, <2>3, AliasOperates
  <2>6. Operating(g) = Asking(e, sc) /\ StandingFor(f) = Fetching(e, sc)
    BY <1>2, <2>1, <2>3, <2>4, <2>5
  <2>7. Resolves(e)
    BY <1>5, StoredErrorsStay
  <2> QED
    BY <1>2, <1>5, <2>6, <2>7 DEF Asking, Fetching
<1>7. /\ Decision(g, d.writes) = Giving(v) /\ Decision(f, d.writes) = Calling(e, sc)
      /\ WrittenBy(f, d.writes) = d.writes /\ WrittenBy(g, d.writes) = d.writes
  BY <1>1, <1>3, <1>5, <1>6, AliasStands, AliasEndsAlike
<1>8. PICK w : w = With(g, v)
  OBVIOUS
<1>9. PICK x : x = State(<<w>>, d.writes, d.spent, None)
  OBVIOUS
<1>10. After(r, D, d) = x
  <2>1. StackAfter(D, s, Giving(v)) = <<With(Head(s), v)>> \o Tail(s) /\ AnswerAfter(s, Giving(v)) = None
    BY DEF StackAfter, AnswerAfter, Giving
  <2>2. StackAfter(D, s, Giving(v)) = <<w>>
    BY <1>1, <1>3, <1>8, <2>1, OneFrame
  <2> QED
    BY <1>1, <1>3, <1>7, <1>9, <2>1, <2>2 DEF After, Worked
<1>11. PICK h : h = Frame(e, sc)
  OBVIOUS
<1>12. PICK hc : hc = [h EXCEPT !.charged = TRUE]
  OBVIOUS
<1>13. h.charged = FALSE /\ hc.charged = TRUE /\ hc.expr = e /\ hc.vals = <<>>
  BY <1>11, <1>12 DEF Frame
<1>14. PICK b : b = State(<<h>> \o <<f>>, d.writes, d.spent + 1, None)
  OBVIOUS
<1>15. After(a, D, c) = b
  <2>1. PICK k : k = c.stack
    OBVIOUS
  <2>2. /\ StackAfter(D, k, Calling(e, sc)) = IF Len(k) < D THEN <<Frame(e, sc)>> \o k
                                              ELSE <<With(Head(k), Minted("depth_exceeded"))>> \o Tail(k)
        /\ AnswerAfter(k, Calling(e, sc)) = None
    BY DEF StackAfter, AnswerAfter, Calling
  <2>3. k = <<f>>
    <3>1. s = <<g>>
      BY <1>1, <1>3, OneOnly
    <3> QED
      BY <1>1, <1>3, <2>1, <3>1, UnderOne
  <2>4. StackAfter(D, k, Calling(e, sc)) = <<h>> \o <<f>>
    BY <1>3, <1>11, <2>1, <2>2, <2>3
  <2> QED
    BY <1>1, <1>3, <1>4, <1>7, <1>14, <2>1, <2>2, <2>4 DEF After, Worked
<1>16. b.stack = <<h>> \o <<f>> /\ b.writes = d.writes /\ b.spent = d.spent + 1 /\ b.answer = None
  BY <1>14 DEF State
<1>17. /\ <<h>> \o <<f>> # <<>> /\ Head(<<h>> \o <<f>>) = h /\ Tail(<<h>> \o <<f>>) = <<f>>
       /\ <<hc>> \o <<f>> # <<>> /\ Head(<<hc>> \o <<f>>) = hc /\ Tail(<<hc>> \o <<f>>) = <<f>> /\ Len(<<hc>> \o <<f>>) = 2
       /\ Head(<<f>>) = f /\ Tail(<<f>>) = <<>>
  BY TwoFrames
<1>18. PICK b2 : b2 = State(<<hc>> \o <<f>>, d.writes, d.spent + 2, None)
  OBVIOUS
<1>19. After(a, D, b) = b2
  <2>1. (d.spent + 1) + 1 = d.spent + 2
    OBVIOUS
  <2> QED
    BY <1>12, <1>13, <1>16, <1>17, <1>18, <2>1 DEF After, Charged
<1>20. b2.stack = <<hc>> \o <<f>> /\ b2.writes = d.writes /\ b2.spent = d.spent + 2 /\ b2.answer = None
  BY <1>18 DEF State
<1>21. After(a, D, b2) = State(<<With(f, v)>>, d.writes, d.spent + 2, None)
  <2>1. Decision(hc, d.writes) = Returning(v) /\ WrittenBy(hc, d.writes) = d.writes
    BY <1>2, <1>5, <1>13, StoredErrorsStay
  <2>2. PICK k : k = b2.stack
    OBVIOUS
  <2>3. Len(k) = 2 /\ Head(Tail(k)) = f /\ Tail(Tail(k)) = <<>>
    BY <1>17, <1>20, <2>2
  <2>4. PICK y : y = Returning(v)
    OBVIOUS
  <2>5. y.move = "return" /\ y.value = v
    BY <2>4 DEF Returning
  <2>6. Len(k) # 1
    BY <2>3
  <2>7. StackAfter(D, k, y) = <<With(f, v)>> \o <<>> /\ AnswerAfter(k, y) = None
    BY <2>3, <2>5, <2>6 DEF StackAfter, AnswerAfter
  <2> QED
    BY <1>13, <1>17, <1>20, <2>1, <2>2, <2>4, <2>7, OneFrame DEF After, Worked
<1>22. With(f, v) = AsAlias(a, w) /\ w.vals = <<v>> /\ Rooted(<<w>>, r)
  <2>1. PICK E, C, V : s \in Seq(Frames(E, C, V)) /\ v \in V
    BY <1>1, Room
  <2>2. g \in Frames(E, C, V)
    BY <1>1, <1>3, <2>1, Below
  <2>3. With(f, v) = AsAlias(a, w)
    BY <1>1, <1>8, <2>1, <2>2, AliasHanded
  <2>4. w.vals = Append(g.vals, v)
    BY <1>8, <2>2 DEF With, Frames
  <2>5. Append(<<>>, v) = <<v>>
    OBVIOUS
  <2>6. Rooted(<<With(Head(s), v)>> \o Tail(s), r)
    BY <1>3, <2>1, RootedHand
  <2> QED
    BY <1>1, <1>3, <1>8, <2>3, <2>4, <2>5, <2>6, OneFrame
<1>23. Abreast(a, State(<<AsAlias(a, w)>>, d.writes, d.spent + 2, None), x)
  <2>1. x.stack = <<w>> /\ x.writes = d.writes /\ x.spent = d.spent /\ x.answer = None
    BY <1>9 DEF State
  <2>2. <<v>> # <<>> /\ Last(<<v>>) = v
    BY DEF Last
  <2>3. Ahead(r, <<w>>) = 2
    BY <1>1, <1>22, <2>2, OneFrame DEF Ahead
  <2>4. Under(a, <<w>>) = <<AsAlias(a, w)>>
    BY UnderOne
  <2> QED
    BY <1>1, <1>3, <1>5, <1>22, <2>1, <2>2, <2>3, <2>4, OneFrame DEF Abreast
<1> QED
  BY <1>1, <1>10, <1>15, <1>16, <1>19, <1>20, <1>21, <1>22, <1>23

\* The operand that is next is the same, but for an error that the operator takes.
LEMMA SameOperand ==
    ASSUME NEW a, Standing(a), NEW g, AtBottom(a, g), Len(g.vals) + 1 <= Arity(Operator(a)), ~ErrorField(Operator(a))
    PROVE  StandingFor(AsAlias(a, g)) = Operating(g) /\ Operating(g).move \in {"give", "call"}
<1>1. PICK n, r, f : n = Len(g.vals) + 1 /\ r = Operator(a) /\ f = AsAlias(a, g)
  OBVIOUS
<1>2. PICK e, sc : e = r.args[n] /\ sc = g.scope
  OBVIOUS
<1>3. /\ n \in Nat \ {0} /\ (r.kind = "field" => n = 1)
      /\ Operating(g) = IF TakesStoredErrors(r, n) THEN Asking(e, sc) ELSE Fetching(e, sc)
      /\ StandingFor(f) = IF TakesStoredErrors(a, n + 1) THEN Asking(e, sc) ELSE Fetching(e, sc)
  BY <1>1, <1>2, AliasOperates
<1>4. /\ r.kind # "field" => (TakesStoredErrors(a, n + 1) <=> TakesStoredErrors(r, n))
      /\ r.kind = "field" => ~TakesStoredErrors(a, n + 1) /\ TakesStoredErrors(r, n)
  BY <1>1, <1>3, ErrorsTakenAlike
<1>5. r.kind = "field" => ~IsStoredError(e)
  BY <1>1, <1>2, <1>3 DEF ErrorField
<1>6. ~IsStoredError(e) => Asking(e, sc) = Fetching(e, sc)
  BY DEF Asking
<1>7. Fetching(e, sc).move \in {"give", "call"} /\ Asking(e, sc).move \in {"give", "call"}
  BY DEF Asking, Fetching, Giving, Calling
<1> QED
  BY <1>1, <1>3, <1>4, <1>5, <1>6, <1>7

\* Abreast, the operator makes one step where its builtin makes one, or three.
LEMMA AbreastGoesOn ==
    ASSUME NEW a, NEW c, NEW d, Abreast(a, c, d), Stacked(d.stack), d.spent \in Nat, Standing(a),
           NEW D \in Nat, D > 1
    PROVE  LET b == After(a, D, c)
               e == After(Operator(a), D, d)
           IN  \/ Beside(a, b, e)
               \/ /\ b.answer = None /\ After(a, D, b).answer = None
                  /\ Beside(a, After(a, D, After(a, D, b)), e)
<1>1. PICK g : g = Head(d.stack)
  OBVIOUS
<1>2. PICK r : r = Operator(a)
  OBVIOUS
<1>3. CASE Len(d.stack) # 1
  BY <1>3, AbreastAbove DEF Beside
<1>4. CASE Len(d.stack) = 1
  <2>1. AtBottom(a, g) /\ g = d.stack[1]
    BY <1>1, <1>4, AbreastParts
  <2>2. CASE ShortCircuits(g)
    <3>1. PICK v, w : /\ \A ws : Decision(AsAlias(a, g), ws) = Returning(v) /\ Decision(g, ws) = Returning(w)
                      /\ v = w \/ (IsError(w) /\ v = Minted(w.code))
      BY <2>1, <2>2, AliasReports
    <3>2. g.vals # <<>>
      BY <2>2 DEF ShortCircuits
    <3>3. BothEnded(a, After(a, D, c), After(Operator(a), D, d))
      BY <1>1, <1>4, <3>1, <3>2, AbreastEnds
    <3> QED
      BY <3>3 DEF Beside
  <2>3. CASE ~ShortCircuits(g) /\ ErrorField(r)
    <3>1. g.vals = <<>>
      <4>1. g.vals = <<>> \/ IsError(Last(g.vals))
        BY <1>2, <2>1, <2>3 DEF Abreast
      <4>2. g.expr.kind = "field"
        BY <1>2, <2>1, <2>3 DEF ErrorField, AtBottom
      <4> QED
        BY <2>3, <4>1, <4>2 DEF ShortCircuits, InContainedPosition
    <3> QED
      BY <1>1, <1>2, <1>4, <2>3, <3>1, AbreastDelays DEF Beside
  <2>4. CASE ~ShortCircuits(g) /\ ~ErrorField(r)
    <3>1. /\ Decision(AsAlias(a, g), d.writes) = StandingFor(AsAlias(a, g))
          /\ Decision(g, d.writes) = Operating(g)
      BY <2>1, <2>4, AliasStands
    <3>2. Arity(r) \in Nat /\ Len(g.vals) + 1 \in Nat
      BY <1>2, <2>1, OperandsBehind, AliasOperates
    <3>3. CASE Len(g.vals) + 1 > Arity(r)
      <4>1. PICK v : v = Result(r, g.vals)
        OBVIOUS
      <4>2. Operating(g) = Returning(v) /\ StandingFor(AsAlias(a, g)) = Returning(v)
        BY <1>2, <2>1, <3>3, <4>1, AliasOperates
      <4>3. BothEnded(a, After(a, D, c), After(Operator(a), D, d))
        BY <1>1, <1>2, <1>4, <2>4, <3>1, <4>2, AbreastEnds
      <4> QED
        BY <4>3 DEF Beside
    <3>4. CASE Len(g.vals) + 1 <= Arity(r)
      <4>1. PICK y : y = Operating(g)
        OBVIOUS
      <4>2. StandingFor(AsAlias(a, g)) = y /\ y.move \in {"give", "call"}
        BY <1>2, <2>1, <2>4, <3>4, <4>1, SameOperand
      <4>3. Abreast(a, After(a, D, c), After(Operator(a), D, d))
        BY <1>1, <1>2, <1>4, <2>4, <3>1, <4>1, <4>2, AbreastTakes
      <4> QED
        BY <4>3 DEF Beside
    <3> QED
      BY <3>2, <3>3, <3>4
  <2> QED
    BY <2>2, <2>3, <2>4
<1> QED
  BY <1>3, <1>4

--------------------------------------------------------------------------------
\* The builtin evaluates its text first.
Asks(a) == State(<<Frame(a.args[1], Empty)>> \o Paid(a).stack, <<>>, 1, None)
Reads(a) == State(<<[Frame(a.args[1], Empty) EXCEPT !.charged = TRUE]>> \o Paid(a).stack, <<>>, 2, None)

\* Any evaluation is begun and paid for.
LEMMA AnyBegins ==
    ASSUME NEW e, NEW D \in Nat, D > 1
    PROVE  After(e, D, Beginning) = Entered(e) /\ After(e, D, Entered(e)) = Paid(e)
<1>1. PICK f, x : f = Frame(e, Empty) /\ x = [f EXCEPT !.charged = TRUE]
  OBVIOUS
<1>2. After(e, D, Beginning) = Entered(e)
  BY DEF After, Begun, Beginning, Entered, State
<1>3. PICK c : c = Entered(e)
  OBVIOUS
<1>4. c.stack = <<f>> /\ c.writes = <<>> /\ c.spent = 0 /\ ~f.charged
  BY <1>1, <1>3 DEF Entered, State, Frame
<1>5. After(e, D, c) = State(<<x>> \o <<>>, <<>>, 1, None)
  <2>1. 0 + 1 = 1
    OBVIOUS
  <2> QED
    BY <1>1, <1>4, <2>1, TwoFrames, OneFrame DEF After, Charged
<1> QED
  BY <1>1, <1>2, <1>3, <1>5, OneFrame DEF Paid

\* Five steps bring the builtin of an operator to where it has its text.
LEMMA AliasReads ==
    ASSUME NEW a, Standing(a), NEW D \in Nat, D > 1
    PROVE  /\ After(a, D, Paid(a)) = Asks(a) /\ After(a, D, Asks(a)) = Reads(a)
           /\ After(a, D, Reads(a)) = Ready(a)
<1>1. PICK f, e, t : f = [Frame(a, Empty) EXCEPT !.charged = TRUE] /\ e = a.args[1] /\ t = TextOf(a)
  OBVIOUS
<1>2. PICK h : h = Frame(e, Empty)
  OBVIOUS
<1>3. PICK x : x = [h EXCEPT !.charged = TRUE]
  OBVIOUS
<1>4. /\ f = [expr |-> a, scope |-> Empty, vals |-> <<>>, charged |-> TRUE]
      /\ ~h.charged /\ x.charged /\ x.expr = e /\ x.vals = <<>>
  BY <1>1, <1>2, <1>3 DEF Frame
<1>5. a.kind = "alias" /\ e.kind = "literal" /\ e.value = t /\ Resolves(e)
  BY <1>1 DEF Standing, TextOf, Resolves
<1>6. PICK c1, c2, c3 : c1 = Paid(a) /\ c2 = Asks(a) /\ c3 = Reads(a)
  OBVIOUS
<1>7. /\ c1.stack = <<f>> /\ c1.writes = <<>> /\ c1.spent = 1
      /\ c2.stack = <<h>> \o <<f>> /\ c2.writes = <<>> /\ c2.spent = 1
      /\ c3.stack = <<x>> \o <<f>> /\ c3.writes = <<>> /\ c3.spent = 2
      /\ c2 = State(<<h>> \o <<f>>, <<>>, 1, None) /\ c3 = State(<<x>> \o <<f>>, <<>>, 2, None)
  BY <1>1, <1>2, <1>3, <1>6 DEF Paid, Asks, Reads, State
<1>8. After(a, D, c1) = c2
  <2>1. ~ShortCircuits(f) /\ f.charged /\ f.vals = <<>> /\ f.expr = a /\ f.scope = Empty
    BY <1>4 DEF ShortCircuits
  <2>2. PICK y : y = Calling(e, Empty)
    OBVIOUS
  <2>3. StandingFor(f) = y
    BY <1>1, <1>5, <2>1, <2>2 DEF StandingFor, Fetching
  <2>4. Decision(f, <<>>) = y /\ WrittenBy(f, <<>>) = <<>>
    BY <1>5, <2>1, <2>3 DEF Decision, WrittenBy, Operators
  <2>5. y.move = "call" /\ Frame(y.expr, y.scope) = h
    BY <1>2, <2>2 DEF Calling
  <2>6. StackAfter(D, <<f>>, y) = <<h>> \o <<f>> /\ AnswerAfter(<<f>>, y) = None
    BY <2>5, OneFrame DEF StackAfter, AnswerAfter
  <2> QED
    BY <1>7, <2>1, <2>4, <2>6, OneFrame, TwoFrames DEF After, Worked
<1>9. After(a, D, c2) = c3
  <2>1. 1 + 1 = 2
    OBVIOUS
  <2>2. PICK k : k = <<h>> \o <<f>>
    OBVIOUS
  <2>3. k # <<>> /\ Head(k) = h /\ Tail(k) = <<f>>
    BY <2>2, TwoFrames
  <2> QED
    BY <1>3, <1>4, <1>7, <2>1, <2>2, <2>3 DEF After, Charged
<1>10. PICK g : g = [Frame(Operator(a), Empty) EXCEPT !.charged = TRUE]
  OBVIOUS
<1>11. g.scope = Empty /\ g.vals = <<>> /\ g.charged = TRUE
  BY <1>10 DEF Frame
<1>12. After(a, D, c3) = State(<<With(f, t)>>, <<>>, 2, None)
  <2>1. ~ShortCircuits(x)
    BY <1>4 DEF ShortCircuits
  <2>2. PICK y : y = Returning(t)
    OBVIOUS
  <2>3. Decision(x, <<>>) = y /\ WrittenBy(x, <<>>) = <<>>
    BY <1>4, <1>5, <2>1, <2>2 DEF Decision, WrittenBy
  <2>4. y.move = "return" /\ y.value = t
    BY <2>2 DEF Returning
  <2>5. PICK k : k = <<x>> \o <<f>>
    OBVIOUS
  <2>6. Len(k) = 2 /\ Head(Tail(k)) = f /\ Tail(Tail(k)) = <<>> /\ Head(k) = x /\ k # <<>>
    BY <2>5, TwoFrames
  <2>7. Len(k) # 1
    BY <2>6
  <2>8. StackAfter(D, k, y) = <<With(f, t)>> \o <<>> /\ AnswerAfter(k, y) = None
    BY <2>4, <2>6, <2>7 DEF StackAfter, AnswerAfter
  <2> QED
    BY <1>4, <1>7, <2>3, <2>5, <2>6, <2>8, OneFrame DEF After, Worked
<1>13. With(f, t) = AsAlias(a, g)
  <2>1. PICK vs : vs = <<t>>
    OBVIOUS
  <2>2. Append(<<>>, t) = vs /\ <<t>> \o <<>> = vs
    BY <2>1
  <2>3. [f EXCEPT !.vals = vs] = [expr |-> a, scope |-> Empty, vals |-> vs, charged |-> TRUE]
    <3>1. PICK s, none, paid : s = Empty /\ none = <<>> /\ paid = TRUE
      OBVIOUS
    <3>2. PICK z : z = [expr |-> a, scope |-> s, vals |-> none, charged |-> paid]
      OBVIOUS
    <3>3. [z EXCEPT !.vals = vs] = [expr |-> a, scope |-> s, vals |-> vs, charged |-> paid]
      BY <3>2
    <3> QED
      BY <1>4, <3>1, <3>2, <3>3
  <2>4. With(f, t) = [f EXCEPT !.vals = vs]
    <3>1. f.vals = <<>>
      BY <1>4
    <3> QED
      BY <2>2, <3>1 DEF With
  <2>5. AsAlias(a, g) = [expr |-> a, scope |-> Empty, vals |-> vs, charged |-> TRUE]
    BY <1>1, <1>11, <2>2 DEF AsAlias
  <2> QED
    BY <2>3, <2>4, <2>5
<1> QED
  BY <1>6, <1>8, <1>9, <1>10, <1>12, <1>13 DEF Ready

\* Both have paid for themselves, and the builtin for its text.
LEMMA AbreastFirst ==
    ASSUME NEW a, Standing(a)
    PROVE  Abreast(a, Ready(a), Paid(Operator(a)))
<1>1. PICK r, g : r = Operator(a) /\ g = [Frame(r, Empty) EXCEPT !.charged = TRUE]
  OBVIOUS
<1>2. g.expr = r /\ g.charged /\ g.vals = <<>>
  BY <1>1 DEF Frame
<1>3. PICK d : d = Paid(r)
  OBVIOUS
<1>4. d.stack = <<g>> /\ d.writes = <<>> /\ d.spent = 1 /\ d.answer = None
  BY <1>1, <1>3 DEF Paid, State
<1>5. Ahead(r, <<g>>) = 1 /\ 1 + 1 = 2 /\ 1 > 0
  BY <1>2, OneFrame DEF Ahead
<1>6. Ready(a) = State(Under(a, <<g>>), <<>>, 1 + 1, None)
  BY <1>1, <1>5, UnderOne DEF Ready
<1>7. Rooted(<<g>>, r)
  BY <1>2, OneFrame DEF Rooted
<1>8. PICK s : s = <<g>>
  OBVIOUS
<1>9. Len(s) = 1 /\ s[1].vals = <<>>
  BY <1>2, <1>8, OneFrame
<1>10. Ready(a) = State(Under(a, d.stack), d.writes, d.spent + Ahead(r, d.stack), None)
  BY <1>4, <1>5, <1>6
<1> QED
  BY <1>1, <1>3, <1>4, <1>5, <1>7, <1>8, <1>9, <1>10 DEF Abreast

--------------------------------------------------------------------------------
\* The first evaluation was the one of an alias that had budget enough, and has a state
\* beside the one the evaluation of its operator is in.
AliasRun ==
    first.answer # None /\ root # first.root /\ first.cost < Ample.operations =>
        /\ limits = Ample /\ Standing(first.root) /\ root = Operator(first.root)
        /\ \E m, T :
             /\ Trace(T, m, first.root, deepest)
             /\ T[m].answer = first.answer /\ T[m].spent = first.cost /\ T[m].writes = first.writes
             /\ \E j \in 0 .. m : Beside(first.root, T[j], Here)

AliasIInv ==
    /\ TwiceIInv
    /\ first.answer = None => root \in Roots
    /\ AliasRun

\* What a trace says of the operations: the operator has spent less than its builtin.
LEMMA OperatorSpendsLess ==
    ASSUME NEW a, NEW c, Beside(a, c, Here), c.spent \in Nat, IInv, stack # <<>>
    PROVE  Here.spent + 1 <= c.spent
<1>1. Here.stack = stack /\ Here.spent \in Int
  BY HereIs, BudgetsCompare
<1>2. CASE NotBegun(a, c, Here)
  <2>1. c.spent = 2
    BY <1>2 DEF NotBegun, Ready, State
  <2>2. Here.spent = 0
    BY <1>2 DEF NotBegun, Beginning, Entered, State
  <2> QED
    BY <2>1, <2>2
<1>3. CASE Abreast(a, c, Here)
  <2>1. c.spent = Here.spent + Ahead(Operator(a), stack)
    BY <1>1, <1>3 DEF Abreast, State
  <2>2. Ahead(Operator(a), stack) = 1 \/ Ahead(Operator(a), stack) = 2
    BY DEF Ahead
  <2> QED
    BY <1>1, <2>1, <2>2
<1> QED
  BY <1>1, <1>2, <1>3 DEF Beside, BothEnded

\* A trace that has no answer yet goes on.
LEMMA TraceContinues ==
    ASSUME NEW T, NEW m, NEW r, NEW deep, Trace(T, m, r, deep), T[m].answer # None,
           NEW j \in 0 .. m, T[j].answer = None
    PROVE  j \in Nat /\ j + 1 \in 0 .. m /\ T[j + 1] = After(r, Ample.depth, T[j])
<1>1. m \in Nat
  BY DEF Trace
<1>2. j \in 0 .. m - 1 /\ j + 1 \in 0 .. m /\ j \in Nat
  BY <1>1
<1> QED
  BY <1>2 DEF Trace

\* A step of the operator's evaluation, and the steps of its builtin's for it.
LEMMA RunKeepsAlias ==
    ASSUME AliasIInv, Run, TwiceIInv'
    PROVE  AliasRun'
<1>1. /\ IInv /\ Step /\ first' = first
  BY DEF AliasIInv, TwiceIInv, Run
<1>2. UNCHANGED <<root, limits>> /\ answer = None
  BY <1>1, StepSpends
<1>3. SUFFICES ASSUME first.answer # None, root # first.root, first.cost < Ample.operations
      PROVE  /\ limits = Ample /\ Standing(first.root) /\ root = Operator(first.root)
             /\ \E m, T :
                  /\ Trace(T, m, first.root, deepest)
                  /\ T[m].answer = first.answer /\ T[m].spent = first.cost /\ T[m].writes = first.writes
                  /\ \E j \in 0 .. m : Beside(first.root, T[j], Here')
  <2>1. first.answer # None => deepest' = deepest
    BY DEF Run
  <2> QED
    BY <1>1, <1>2, <2>1 DEF AliasRun
<1>4. limits = Ample /\ Standing(first.root) /\ root = Operator(first.root)
  BY <1>3 DEF AliasIInv, AliasRun
<1>5. PICK m, T :
        /\ Trace(T, m, first.root, deepest)
        /\ T[m].answer = first.answer /\ T[m].spent = first.cost /\ T[m].writes = first.writes
        /\ \E j \in 0 .. m : Beside(first.root, T[j], Here)
  BY <1>3 DEF AliasIInv, AliasRun
<1>6. PICK j \in 0 .. m : Beside(first.root, T[j], Here)
  BY <1>5
<1>7. PICK a, D : a = first.root /\ D = Ample.depth
  OBVIOUS
<1>8. D \in Nat /\ D > 1 /\ limits.operations = Ample.operations /\ Ample.operations \in Nat
      /\ operations \in Int /\ first.cost \in Int
  BY <1>1, <1>3, <1>4, <1>7, BudgetsCompare, AliasesAreOperators DEF AliasIInv, TwiceIInv
<1>9. T[j].spent \in Nat /\ T[j].spent <= first.cost
  BY <1>5, <1>6 DEF Trace
<1>10. ~Exhaust
  <2>1. SUFFICES ASSUME Exhaust PROVE FALSE
    OBVIOUS
  <2>2. stack # <<>> /\ operations <= 1
    BY <2>1 DEF Exhaust
  <2>3. Here.spent + 1 <= T[j].spent
    BY <1>1, <1>6, <1>9, <2>2, OperatorSpendsLess
  <2> QED
    BY <1>3, <1>8, <1>9, <2>2, <2>3, HereIs
<1>11. Here' = After(Operator(a), D, Here)
  BY <1>1, <1>4, <1>7, <1>10, StepsAreDetermined
<1>12. CASE NotBegun(a, T[j], Here)
  <2>1. CASE Here = Beginning
    <3>1. Here' = Entered(Operator(a))
      BY <1>8, <1>11, <2>1, AnyBegins
    <3>2. NotBegun(a, T[j], Here')
      BY <1>12, <3>1 DEF NotBegun
    <3> QED
      BY <1>4, <1>5, <1>7, <3>2 DEF Beside
  <2>2. CASE Here = Entered(Operator(a))
    <3>1. Here' = Paid(Operator(a))
      BY <1>8, <1>11, <2>2, AnyBegins
    <3>2. Abreast(a, T[j], Here')
      BY <1>4, <1>7, <1>12, <3>1, AbreastFirst DEF NotBegun
    <3> QED
      BY <1>4, <1>5, <1>7, <3>2 DEF Beside
  <2> QED
    BY <1>12, <2>1, <2>2 DEF NotBegun
<1>13. CASE Abreast(a, T[j], Here)
  <2>1. PICK d : d = Here
    OBVIOUS
  <2>2. Stacked(d.stack) /\ d.spent \in Nat
    <3>1. operations <= limits.operations
      BY DEF AliasIInv, TwiceIInv
    <3> QED
      BY <1>1, <1>8, <2>1, <3>1, HereIs DEF IInv
  <2>3. T[j].answer = None
    BY <1>13, <2>1, <2>2, AbreastParts
  <2>4. j + 1 \in 0 .. m /\ T[j + 1] = After(a, D, T[j])
    BY <1>3, <1>5, <1>7, <2>3, TraceContinues
  <2>5. \/ Beside(a, After(a, D, T[j]), Here')
        \/ /\ After(a, D, T[j]).answer = None /\ After(a, D, After(a, D, T[j])).answer = None
           /\ Beside(a, After(a, D, After(a, D, After(a, D, T[j]))), Here')
    BY <1>4, <1>7, <1>8, <1>11, <1>13, <2>1, <2>2, AbreastGoesOn
  <2>6. CASE Beside(a, After(a, D, T[j]), Here')
    BY <1>4, <1>5, <1>7, <2>4, <2>6
  <2>7. CASE /\ T[j + 1].answer = None /\ After(a, D, T[j + 1]).answer = None
             /\ Beside(a, After(a, D, After(a, D, T[j + 1])), Here')
    <3>1. (j + 1) + 1 \in 0 .. m /\ T[(j + 1) + 1] = After(a, D, T[j + 1])
      BY <1>3, <1>5, <1>7, <2>4, <2>7, TraceContinues
    <3>2. ((j + 1) + 1) + 1 \in 0 .. m /\ T[((j + 1) + 1) + 1] = After(a, D, T[(j + 1) + 1])
      BY <1>3, <1>5, <1>7, <2>7, <3>1, TraceContinues
    <3>3. Beside(a, T[((j + 1) + 1) + 1], Here')
      BY <2>7, <3>1, <3>2
    <3> QED
      BY <1>4, <1>5, <1>7, <3>2, <3>3
  <2> QED
    BY <2>4, <2>5, <2>6, <2>7
<1>14. ~BothEnded(a, T[j], Here)
  <2>1. stack = <<>> => Start
    BY <1>1, ArmsMove DEF Step, Arm, Charge, Exhaust, ShortCircuit
  <2>2. stack = <<>> => limits.operations - operations = 0
    BY <1>8, <2>1 DEF Start
  <2> QED
    BY <2>2, HereIs DEF BothEnded
<1> QED
  BY <1>6, <1>7, <1>12, <1>13, <1>14 DEF Beside

\* A complete trace of an alias comes to where the alias has its text.
LEMMA TraceReads ==
    ASSUME NEW T, NEW m, NEW a, NEW deep, Trace(T, m, a, deep), T[m].answer # None, Standing(a), Ample.depth \in Nat
    PROVE  \E j \in 0 .. m : T[j] = Ready(a)
<1>1. PICK D : D = Ample.depth
  OBVIOUS
<1>2. D \in Nat /\ D > 1
  BY <1>1, AliasesAreOperators
<1>3. 0 \in 0 .. m /\ T[0] = Beginning
  BY DEF Trace, Beginning
<1>4. /\ Beginning.answer = None /\ Entered(a).answer = None /\ Paid(a).answer = None
      /\ Asks(a).answer = None /\ Reads(a).answer = None
  BY DEF Beginning, Entered, Paid, Asks, Reads, State
<1>5. 1 \in 0 .. m /\ T[1] = Entered(a)
  <2>1. 0 + 1 \in 0 .. m /\ T[0 + 1] = After(a, D, T[0])
    BY <1>1, <1>3, <1>4, TraceContinues
  <2> QED
    BY <1>2, <1>3, <2>1, AnyBegins
<1>6. 2 \in 0 .. m /\ T[2] = Paid(a)
  <2>1. 1 + 1 \in 0 .. m /\ T[1 + 1] = After(a, D, T[1])
    BY <1>1, <1>5, <1>4, TraceContinues
  <2> QED
    BY <1>2, <1>5, <2>1, AnyBegins
<1>7. 3 \in 0 .. m /\ T[3] = Asks(a)
  <2>1. 2 + 1 \in 0 .. m /\ T[2 + 1] = After(a, D, T[2])
    BY <1>1, <1>6, <1>4, TraceContinues
  <2> QED
    BY <1>2, <1>6, <2>1, AliasReads
<1>8. 4 \in 0 .. m /\ T[4] = Reads(a)
  <2>1. 3 + 1 \in 0 .. m /\ T[3 + 1] = After(a, D, T[3])
    BY <1>1, <1>7, <1>4, TraceContinues
  <2> QED
    BY <1>2, <1>7, <2>1, AliasReads
<1>9. 5 \in 0 .. m /\ T[5] = Ready(a)
  <2>1. 4 + 1 \in 0 .. m /\ T[4 + 1] = After(a, D, T[4])
    BY <1>1, <1>8, <1>4, TraceContinues
  <2> QED
    BY <1>2, <1>8, <2>1, AliasReads
<1> QED
  BY <1>9

\* The operator's evaluation begins beside the state in which its builtin has its text.
LEMMA AgainKeepsAlias ==
    ASSUME AliasIInv, Again, TwiceIInv'
    PROVE  AliasRun'
<1>1. /\ stack' = <<>> /\ writes' = <<>> /\ answer' = None /\ operations' = limits'.operations
  BY AgainKeepsType DEF AliasIInv
<1>2. /\ answer # None /\ first.answer = None /\ deepest' = deepest
      /\ first' = [root |-> root, answer |-> answer, writes |-> writes,
                   cost |-> Ample.operations - operations]
  BY DEF Again
<1>3. /\ first'.root = root /\ first'.answer = answer /\ first'.writes = writes
      /\ first'.cost = Ample.operations - operations
  BY <1>2
<1>4. /\ limits = Ample /\ operations \in Int /\ Ample.operations \in Nat /\ Ample.depth \in Nat
      /\ limits'.operations \in Nat
  <2>1. limits = Ample /\ operations \in Int /\ Ample.operations \in Nat /\ Ample.depth \in Nat
    BY <1>2, BudgetsCompare DEF AliasIInv, TwiceIInv, FirstRun
  <2>2. limits' \in Limits
    BY DEF TwiceIInv, IInv
  <2> QED
    BY <2>1, <2>2, BudgetsAreNatural
<1>5. SUFFICES ASSUME root' # root, Ample.operations - operations < Ample.operations
      PROVE  /\ limits' = Ample /\ Standing(root) /\ root' = Operator(root)
             /\ \E m, T :
                  /\ Trace(T, m, root, deepest)
                  /\ T[m].answer = answer /\ T[m].spent = Ample.operations - operations /\ T[m].writes = writes
                  /\ \E j \in 0 .. m : Beside(root, T[j], Here')
  BY <1>2, <1>3 DEF AliasRun
<1>6. PICK m, T : /\ Trace(T, m, root, deepest)
                  /\ ~Out => Here = T[m]
  BY <1>2 DEF AliasIInv, TwiceIInv, FirstRun
<1>7. Here = T[m]
  BY <1>4, <1>5, <1>6 DEF Out
<1>8. T[m].answer = answer /\ T[m].spent = Ample.operations - operations /\ T[m].writes = writes
  BY <1>4, <1>7, HereIs
<1>9. /\ limits' = limits /\ root.kind = "alias"
      /\ root.args[1].kind = "literal" /\ root.args[1].value.kind = "text"
      /\ Len(root.args) > LeastOperands(root.of)
      /\ root' = Inline(root, root.args[1].value.text)
  BY <1>5 DEF Again
<1>10. Standing(root) /\ root' = Operator(root)
  <2>1. root \in Roots
    BY <1>2 DEF AliasIInv
  <2> QED
    BY <1>9, <2>1, AliasesAreOperators DEF Standing, Operator, TextOf
<1>11. PICK j \in 0 .. m : T[j] = Ready(root)
  BY <1>2, <1>4, <1>6, <1>8, <1>10, TraceReads
<1>12. Here' = Beginning
  BY <1>1, <1>4 DEF Here, Beginning
<1>13. Beside(root, T[j], Here')
  BY <1>11, <1>12 DEF Beside, NotBegun
<1> QED
  BY <1>4, <1>6, <1>8, <1>9, <1>10, <1>13

\* The invariant of an alias and its operator.
LEMMA AliasInitially == BudgetInit => AliasIInv
<1> SUFFICES ASSUME BudgetInit PROVE AliasIInv
  OBVIOUS
<1>1. root \in Roots /\ first.answer = None
  BY DEF BudgetInit, Init, Unmeasured
<1> QED
  BY <1>1, TwiceInitially DEF AliasIInv, AliasRun

\* Every step of the two evaluations preserves it.
LEMMA AliasStep == AliasIInv /\ [BudgetNext]_budgetVars => AliasIInv'
<1> SUFFICES ASSUME AliasIInv, [BudgetNext]_budgetVars PROVE AliasIInv'
  OBVIOUS
<1>1. TwiceIInv'
  BY TwiceStep DEF AliasIInv
<1>2. CASE UNCHANGED budgetVars \/ Answered
  <2>1. UNCHANGED vars /\ UNCHANGED <<deepest, first>>
    BY <1>2 DEF budgetVars, Answered, Rest
  <2>2. UNCHANGED <<root, limits, stack, operations, writes, answer>>
    BY <2>1 DEF vars, effects
  <2>3. Here' = Here
    BY <2>2 DEF Here
  <2>4. AliasRun'
    BY <2>1, <2>2, <2>3 DEF AliasIInv, AliasRun
  <2> QED
    BY <1>1, <2>1, <2>2, <2>4 DEF AliasIInv
<1>3. CASE Run
  <2>1. root' = root /\ first' = first
    BY <1>3, StepSpends DEF AliasIInv, TwiceIInv, Run
  <2> QED
    BY <1>1, <1>3, <2>1, RunKeepsAlias DEF AliasIInv
<1>4. CASE Again
  <2>1. first'.answer # None
    BY <1>4 DEF Again
  <2> QED
    BY <1>1, <1>4, <2>1, AgainKeepsAlias DEF AliasIInv
<1> QED
  BY <1>2, <1>3, <1>4 DEF BudgetNext

\* It holds in every reachable state of the two evaluations.
LEMMA AliasInvariance == BudgetSpec => []AliasIInv
  BY AliasInitially, AliasStep, PTL DEF BudgetSpec

\* Two evaluations that have both ended did so at the end of the trace.
LEMMA BesideIsInline == AliasIInv => AliasIsInline
<1> SUFFICES ASSUME AliasIInv, answer # None, first.answer # None, root # first.root, first.cost < Ample.operations
             PROVE  /\ SameValue(answer, first.answer) /\ writes = first.writes
                    /\ first.cost - (Ample.operations - operations) \in
                         (IF root.kind = "field" /\ IsStoredError(root.args[1]) THEN {2} ELSE {1})
  BY DEF AliasIsInline
<1>1. limits = Ample /\ Standing(first.root) /\ root = Operator(first.root)
  BY DEF AliasIInv, AliasRun
<1>2. PICK m, T :
        /\ Trace(T, m, first.root, deepest)
        /\ T[m].answer = first.answer /\ T[m].spent = first.cost /\ T[m].writes = first.writes
        /\ \E j \in 0 .. m : Beside(first.root, T[j], Here)
  BY DEF AliasIInv, AliasRun
<1>3. PICK j \in 0 .. m : Beside(first.root, T[j], Here)
  BY <1>2
<1>4. BothEnded(first.root, T[j], Here)
  <2>1. ~NotBegun(first.root, T[j], Here)
    BY HereIs DEF NotBegun, Beginning, Entered, State
  <2>2. ~Abreast(first.root, T[j], Here)
    BY HereIs DEF Abreast
  <2> QED
    BY <1>3, <2>1, <2>2 DEF Beside
<1>5. Ample.operations \in Nat /\ operations \in Int /\ Here.spent = Ample.operations - operations
  BY <1>1, BudgetsCompare, HereIs DEF AliasIInv, TwiceIInv
<1>6. j = m
  <2>1. SUFFICES ASSUME j # m PROVE FALSE
    OBVIOUS
  <2>2. j \in 0 .. m - 1
    <3>1. m \in Nat
      BY <1>2 DEF Trace
    <3> QED
      BY <2>1, <3>1
  <2>3. T[j].stack = <<>> => T[j].spent = 0
    BY <1>2, <2>2 DEF Trace
  <2> QED
    BY <1>4, <1>5, <2>3 DEF BothEnded
<1>7. SameValue(answer, first.answer)
  <2>1. first.answer = answer \/ (IsError(answer) /\ first.answer = Minted(answer.code))
    BY <1>2, <1>4, <1>6, HereIs DEF BothEnded
  <2> QED
    BY <2>1 DEF SameValue, IsError, Minted
<1>8. writes = first.writes
  BY <1>2, <1>4, <1>6, HereIs DEF BothEnded
<1>9. first.cost = (Ample.operations - operations) + (IF ErrorField(root) THEN 2 ELSE 1)
  BY <1>1, <1>2, <1>4, <1>5, <1>6 DEF BothEnded
<1>10. first.cost - (Ample.operations - operations) \in (IF ErrorField(root) THEN {2} ELSE {1})
  BY <1>5, <1>9
<1> QED
  BY <1>7, <1>8, <1>10 DEF ErrorField

\* The builtin of an operator and the operator come to the same value or error, write the
\* same, and differ by one operation for the text, and one more for an error that only the
\* builtin evaluates: an expression may be written either way without another result.
THEOREM AliasesAreInline == BudgetSpec => []AliasIsInline
BY AliasInvariance, BesideIsInline, PTL

--------------------------------------------------------------------------------
(***************************************************************************)
(* Arithmetic.  The evaluator's integers, signed and unsigned, with their   *)
(* casts, implement one register of 2 * H patterns, for every H.           *)
(***************************************************************************)

\* A multiple of m within m of zero is zero.
LEMMA SmallMultiple ==
    ASSUME NEW m \in Nat \ {0}, NEW d \in Int, -m < d * m, d * m < m
    PROVE  d = 0
<1>1. CASE d >= 1
  <2>1. (d - 1) * m >= 0
    BY <1>1, SMT
  <2>2. d * m = (d - 1) * m + m
    BY SMT
  <2> QED
    BY <2>1, <2>2
<1>2. CASE d <= -1
  <2>1. (-d - 1) * m >= 0
    BY <1>2
  <2>2. d * m = -((-d - 1) * m) - m
    BY SMT
  <2> QED
    BY <2>1, <2>2
<1> QED
  BY <1>1, <1>2

\* Integer division leaves a remainder below the divisor, in the same way each time.
LEMMA Division ==
    ASSUME NEW m \in Nat \ {0}, NEW i \in Int
    PROVE  /\ i % m \in 0 .. m - 1 /\ i \div m \in Int
           /\ i = ((i \div m) * m) + (i % m)
OBVIOUS

\* The remainder is the one number below the divisor that differs by a multiple.
LEMMA Remainder ==
    ASSUME NEW m \in Nat \ {0}, NEW i \in Int, NEW q \in Int, NEW r \in 0 .. m - 1, i = q * m + r
    PROVE  i % m = r /\ i \div m = q
<1>1. i % m \in 0 .. m - 1 /\ i \div m \in Int /\ i = ((i \div m) * m) + (i % m)
  BY Division
<1> DEFINE d == q - (i \div m)
<1>2. d * m = (i % m) - r
  BY <1>1
<1>3. -m < d * m /\ d * m < m
  BY <1>1, <1>2
<1>4. d = 0
  BY <1>1, <1>3, SmallMultiple
<1> QED
  BY <1>1, <1>4
\* No product of naturals is negative.
LEMMA NaturalProduct == ASSUME NEW x \in Nat, NEW y \in Nat PROVE x * y \in Nat
OBVIOUS

\* Numbers that differ by a multiple leave the same remainder.
LEMMA SameRemainder ==
    ASSUME NEW m \in Nat \ {0}, NEW i \in Int, NEW j \in Int, NEW k \in Int, i = j + k * m
    PROVE  i % m = j % m
<1> DEFINE q == j \div m
           r == j % m
           n == q + k
<1>1. r \in 0 .. m - 1 /\ q \in Int /\ j = (q * m) + r
  BY Division
<1>2. n \in Int /\ i = (n * m) + r
  <2> HIDE DEF q, r
  <2>1. n * m = (q * m) + (k * m)
    BY <1>1
  <2> QED
    BY <1>1, <2>1
<1> HIDE DEF n, r
<1>3. i % m = r
  BY <1>1, <1>2, Remainder
<1> QED
  BY <1>3 DEF r

\* So the register may take remainders before it operates.
LEMMA RemaindersOperate ==
    ASSUME NEW m \in Nat \ {0}, NEW i \in Int, NEW j \in Int
    PROVE  /\ (i % m) % m = i % m
           /\ (i + j) % m = ((i % m) + (j % m)) % m
           /\ (i - j) % m = ((i % m) - (j % m)) % m
           /\ (i * j) % m = ((i % m) * (j % m)) % m
<1> DEFINE a == i \div m
           b == j \div m
           p == i % m
           q == j % m
<1>1. /\ a \in Int /\ p \in Int /\ i = (a * m) + p
      /\ b \in Int /\ q \in Int /\ j = (b * m) + q
  BY Division
<1> HIDE DEF a, b, p, q
<1>2. p % m = i % m
  <2>1. i = p + a * m
    BY <1>1
  <2> QED
    BY <1>1, <2>1, SameRemainder
<1>3. i + j = (p + q) + (a + b) * m /\ i - j = (p - q) + (a - b) * m
  BY <1>1
<1>4. i * j = (p * q) + ((a * b * m) + (a * q) + (b * p)) * m
  BY <1>1
<1>5. (i + j) % m = (p + q) % m /\ (i - j) % m = (p - q) % m
  <2> DEFINE c == a + b
             d == a - b
             x == i + j
             y == i - j
             u == p + q
             v == p - q
  <2>1. c \in Int /\ d \in Int /\ x \in Int /\ y \in Int /\ u \in Int /\ v \in Int
    BY <1>1
  <2>2. x = u + c * m /\ y = v + d * m
    BY <1>3
  <2> HIDE DEF c, d, x, y, u, v
  <2>3. x % m = u % m
    BY <2>1, <2>2, SameRemainder
  <2>4. y % m = v % m
    BY <2>1, <2>2, SameRemainder
  <2> QED
    BY <2>3, <2>4 DEF x, y, u, v
<1>6. (i * j) % m = (p * q) % m
  <2> DEFINE c == (a * b * m) + (a * q) + (b * p)
  <2>1. c \in Int /\ p * q \in Int /\ i * j \in Int
    BY <1>1
  <2>2. i * j = (p * q) + c * m
    BY <1>4
  <2> HIDE DEF c
  <2> QED
    BY <2>1, <2>2, SameRemainder
<1> QED
  BY <1>2, <1>5, <1>6 DEF p, q

\* The conversions leave the pattern alone.
LEMMA ConversionsKeepPatterns ==
    ASSUME NEW i \in Int
    PROVE  /\ U \in Nat \ {0} /\ i % U \in 0 .. U - 1
           /\ ToSigned(i) \in -H .. H - 1 /\ ToSigned(i) % U = i % U
           /\ AsUnsigned(i) \in 0 .. U - 1 /\ AsUnsigned(i) % U = i % U
           /\ Wrap(i) \in -H .. U - 1 /\ Wrap(i) % U = i % U
<1>1. U \in Nat \ {0} /\ H \in Nat \ {0} /\ U = 2 * H
  BY ArithmeticAssumption DEF U
<1> DEFINE p == i % U
<1>2. p \in 0 .. U - 1
  BY <1>1, Division
<1>3. p % U = p
  BY <1>1, RemaindersOperate
<1>4. ToSigned(i) = IF p >= H THEN p - U ELSE p
  BY DEF ToSigned
<1> HIDE DEF p
<1>5. (p - U) % U = p % U
  <2> DEFINE k == -1
             n == p - U
  <2>1. k \in Int /\ n \in Int /\ p \in Int /\ n = p + k * U
    BY <1>1, <1>2
  <2> HIDE DEF k, n
  <2>2. n % U = p % U
    BY <1>1, <2>1, SameRemainder
  <2> QED
    BY <2>2 DEF n
<1>6. ToSigned(i) \in -H .. H - 1 /\ ToSigned(i) % U = p
  BY <1>1, <1>2, <1>3, <1>4, <1>5
<1>7. AsUnsigned(i) = p
  BY DEF AsUnsigned, p
<1>8. Wrap(i) = IF i >= 0 THEN p ELSE ToSigned(i)
  BY DEF Wrap, p
<1>9. Wrap(i) \in -H .. U - 1 /\ Wrap(i) % U = p
  BY <1>1, <1>2, <1>3, <1>6, <1>8
<1> QED
  BY <1>1, <1>2, <1>3, <1>6, <1>7, <1>9 DEF p

\* What truncated division leaves: the sign of the dividend, and less than the
\* divisor; and the quotient is exact if it leaves nothing.
LEMMA TruncatedDivision ==
    ASSUME NEW i \in Int, NEW j \in Int, j # 0
    PROVE  /\ TruncatedRemainder(i, j) \in Int /\ TruncatedQuotient(i, j) \in Int
           /\ i = (TruncatedQuotient(i, j) * j) + TruncatedRemainder(i, j)
           /\ Abs(TruncatedRemainder(i, j)) < Abs(j)
           /\ IF i < 0 THEN TruncatedRemainder(i, j) <= 0 ELSE TruncatedRemainder(i, j) >= 0
           /\ Abs(TruncatedQuotient(i, j)) <= Abs(i)
<1> DEFINE a == Abs(i)
           b == Abs(j)
           q == a \div b
           r == a % b
<1>1. a \in Nat /\ b \in Nat \ {0} /\ (a = i \/ a = -i) /\ (b = j \/ b = -j)
  BY DEF Abs
<1>2. r \in 0 .. b - 1 /\ q \in Int /\ a = (q * b) + r
  <2> HIDE DEF a, b
  <2> QED
    BY <1>1, Division
<1>3. q >= 0 /\ q <= a
  <2> HIDE DEF a, b, q, r
  <2>1. q >= 0
    <3> SUFFICES ASSUME q <= -1 PROVE FALSE
      BY <1>2
    <3> DEFINE k == -q - 1
    <3>1. k \in Nat /\ q = -k - 1
      BY <1>2
    <3> HIDE DEF k
    <3>2. k * b \in Nat
      BY <1>1, <3>1, NaturalProduct
    <3>3. q * b = -(k * b) - b
      BY <1>1, <3>1
    <3> QED
      BY <1>1, <1>2, <3>2, <3>3
  <2> DEFINE c == b - 1
  <2>2. q \in Nat /\ c \in Nat /\ b = c + 1
    BY <1>1, <1>2, <2>1
  <2> HIDE DEF c
  <2>3. q * c \in Nat
    BY <2>2, NaturalProduct
  <2>4. q * b = (q * c) + q
    BY <2>2
  <2> QED
    BY <1>1, <1>2, <2>1, <2>3, <2>4
<1>4. TruncatedRemainder(i, j) = IF i < 0 THEN -r ELSE r
  BY DEF TruncatedRemainder
<1>5. TruncatedQuotient(i, j) = IF (i < 0) # (j < 0) THEN -q ELSE q
  BY DEF TruncatedQuotient
<1> HIDE DEF q, r
<1>6. i = (TruncatedQuotient(i, j) * j) + TruncatedRemainder(i, j)
  <2>1. CASE i < 0 /\ j < 0
    BY <1>1, <1>2, <1>4, <1>5, <2>1 DEF Abs
  <2>2. CASE i < 0 /\ ~(j < 0)
    BY <1>1, <1>2, <1>4, <1>5, <2>2 DEF Abs
  <2>3. CASE ~(i < 0) /\ j < 0
    BY <1>1, <1>2, <1>4, <1>5, <2>3 DEF Abs
  <2>4. CASE ~(i < 0) /\ ~(j < 0)
    BY <1>1, <1>2, <1>4, <1>5, <2>4 DEF Abs
  <2> QED
    BY <2>1, <2>2, <2>3, <2>4
<1> QED
  BY <1>1, <1>2, <1>3, <1>4, <1>5, <1>6 DEF Abs

Kinds == {"int", "float", "nan", "inf", "bool", "error", "raised"}

\* What an expression can come to: an integer is between the least int and the
\* largest uint.
NumberValues ==
    {v \in [kind : Kinds, n : Int] :
        (v.kind = "int" => v.n \in -H .. U - 1) /\ (v.kind = "error" => v = Fault)}

ArithmeticTypeOK ==
    /\ acc \in NumberValues /\ verdict \in BOOLEAN
    /\ request \in Requests \cup {Idle}
    /\ request # Idle /\ acc.kind \in {"error", "raised"} => request.op = "literal"

\* The values the rules make.
LEMMA MadeValues ==
    /\ \A i \in -H .. U - 1 : Whole(i) \in NumberValues /\ IsWhole(Whole(i)) /\ Whole(i).n = i
    /\ \A h \in Int : Float(h) \in NumberValues /\ ~IsWhole(Float(h))
    /\ NaN \in NumberValues /\ Infinite(1) \in NumberValues /\ Infinite(-1) \in NumberValues
    /\ Other \in NumberValues /\ Fault \in NumberValues /\ Raised \in NumberValues
    /\ ~IsWhole(NaN) /\ ~IsWhole(Infinite(1)) /\ ~IsWhole(Infinite(-1))
    /\ ~IsWhole(Other) /\ ~IsWhole(Fault) /\ ~IsWhole(Raised)
<1>1. H \in Nat \ {0} /\ U = 2 * H
  BY ArithmeticAssumption DEF U
<1>2. \A i \in -H .. U - 1 : Whole(i) \in NumberValues /\ IsWhole(Whole(i)) /\ Whole(i).n = i
  BY <1>1 DEF Whole, NumberValues, Kinds, IsWhole
<1>3. \A h \in Int : Float(h) \in NumberValues /\ ~IsWhole(Float(h))
  BY DEF Float, NumberValues, Kinds, IsWhole
<1>4. /\ NaN \in NumberValues /\ Infinite(1) \in NumberValues /\ Infinite(-1) \in NumberValues
      /\ ~IsWhole(NaN) /\ ~IsWhole(Infinite(1)) /\ ~IsWhole(Infinite(-1))
  BY DEF NaN, Infinite, NumberValues, Kinds, IsWhole
<1>5. /\ Other \in NumberValues /\ Fault \in NumberValues /\ Raised \in NumberValues
      /\ ~IsWhole(Other) /\ ~IsWhole(Fault) /\ ~IsWhole(Raised)
  BY DEF Other, Fault, Raised, NumberValues, Kinds, IsWhole
<1> QED
  BY <1>2, <1>3, <1>4, <1>5

\* All three conversions make integer values.
LEMMA ConversionsMakeValues ==
    ASSUME NEW i \in Int
    PROVE  /\ ToSigned(i) \in -H .. U - 1 /\ AsUnsigned(i) \in -H .. U - 1 /\ Wrap(i) \in -H .. U - 1
           /\ ToSigned(i) % U = i % U /\ AsUnsigned(i) % U = i % U /\ Wrap(i) % U = i % U
<1>1. H \in Nat \ {0} /\ U = 2 * H
  BY ArithmeticAssumption DEF U
<1>2. \A x : (x \in -H .. H - 1 \/ x \in 0 .. U - 1) => x \in -H .. U - 1
  BY <1>1
<1> QED
  BY <1>2, ConversionsKeepPatterns

\* The register's constants.
LEMMA RegisterConstants ==
    /\ R!M = U /\ R!Off = -1 /\ R!Patterns = 0 .. U - 1 /\ R!Words = (0 .. U - 1) \cup {-1}
    /\ U \in Nat \ {0} /\ H \in Nat \ {0} /\ U = 2 * H
BY ArithmeticAssumption DEF R!M, R!Off, R!Patterns, R!Words, U

\* Every value has a word: its pattern, or none.
LEMMA PatternsAreWords ==
    ASSUME NEW v \in NumberValues
    PROVE  /\ Pattern(v) \in R!Words
           /\ IsWhole(v) => Pattern(v) \in 0 .. U - 1 /\ Pattern(v) = v.n % U /\ v.n \in Int
           /\ ~IsWhole(v) => Pattern(v) = -1
<1>1. IsWhole(v) => v.n \in Int /\ v.n % U \in 0 .. U - 1
  <2> SUFFICES ASSUME IsWhole(v) PROVE v.n \in Int /\ v.n % U \in 0 .. U - 1
    OBVIOUS
  <2>1. v.n \in Int
    BY DEF NumberValues
  <2> QED
    BY <2>1, ConversionsKeepPatterns
<1> QED
  BY <1>1, RegisterConstants DEF Pattern

\* An operand's own cast leaves the pattern of an integer alone.
LEMMA CastsAreSeen ==
    ASSUME NEW v \in NumberValues, NEW to \in Casts
    PROVE  Cast(v, to) \in NumberValues /\ Pattern(Cast(v, to)) \in R!Seen(Pattern(v), to)
<1> DEFINE c == Cast(v, to)
           n == IF IsWhole(v) THEN v.n ELSE Truncated(v.n)
<1>0. v.n \in Int /\ n \in Int
  BY DEF NumberValues, Truncated
<1>1. CASE to = "none"
  <2>1. c = v /\ R!Seen(Pattern(v), to) = {Pattern(v)}
    BY <1>1 DEF Cast, R!Seen
  <2> QED
    BY <2>1
<1>2. CASE to # "none" /\ ~Numeric(v)
  <2>1. c = Fault /\ ~IsWhole(v)
    BY <1>2 DEF Cast, Numeric
  <2>2. c \in NumberValues /\ Pattern(c) = -1 /\ Pattern(v) = -1
    BY <2>1, MadeValues, PatternsAreWords
  <2>3. -1 \in R!Seen(-1, to)
    BY <1>2, RegisterConstants DEF R!Seen
  <2> QED
    BY <2>2, <2>3
<1>3. CASE to = "float" /\ Numeric(v)
  <2>1. c = IF v.kind \in {"nan", "inf"} THEN v ELSE Float(Halves(v))
    BY <1>3 DEF Cast
  <2>2. Halves(v) \in Int
    BY <1>0 DEF Halves
  <2>5. v.kind \in {"nan", "inf"} => ~IsWhole(v)
    BY DEF IsWhole
  <2>3. c \in NumberValues /\ Pattern(c) = -1
    BY <2>1, <2>2, <2>5, MadeValues, PatternsAreWords
  <2>4. R!Seen(Pattern(v), to) = {-1}
    BY <1>3, RegisterConstants DEF R!Seen
  <2> QED
    BY <2>3, <2>4
<1>4. CASE to \in {"int", "uint"} /\ Numeric(v)
  <2>1. c = Fault \/ c = Whole(AsUnsigned(n)) \/ c = Whole(ToSigned(n))
    BY <1>4 DEF Cast
  <2>2. c = Fault => ~IsWhole(v)
    <3>1. IsWhole(v) => Representable(v, to)
      BY DEF Representable
    <3>2. AsUnsigned(n) \in -H .. U - 1 /\ ToSigned(n) \in -H .. U - 1
      BY <1>0, ConversionsMakeValues
    <3>3. Whole(AsUnsigned(n)) # Fault /\ Whole(ToSigned(n)) # Fault
      BY <3>2, MadeValues
    <3>4. IsWhole(v) => c = Whole(AsUnsigned(n)) \/ c = Whole(ToSigned(n))
      BY <1>4, <3>1 DEF Cast
    <3> QED
      BY <3>3, <3>4
  <2>3. ASSUME NEW i \in {AsUnsigned(n), ToSigned(n)}
        PROVE  Whole(i) \in NumberValues /\ Pattern(Whole(i)) = n % U
    <3>1. i \in -H .. U - 1 /\ i % U = n % U
      BY <1>0, ConversionsMakeValues
    <3> QED
      BY <3>1, MadeValues, PatternsAreWords
  <2>4. c \in NumberValues
    BY <2>1, <2>3, MadeValues
  <2>5. CASE IsWhole(v)
    <3>1. Pattern(c) = v.n % U
      BY <2>1, <2>2, <2>3, <2>5
    <3>2. Pattern(v) = v.n % U
      BY <2>5, PatternsAreWords
    <3>3. Pattern(v) # R!Off
      BY <2>5, PatternsAreWords, RegisterConstants
    <3>4. R!Seen(Pattern(v), to) = {Pattern(v)}
      BY <1>4, <3>3 DEF R!Seen
    <3> QED
      BY <2>4, <3>1, <3>2, <3>4
  <2>6. CASE ~IsWhole(v)
    <3>1. Pattern(v) = R!Off
      BY <2>6, PatternsAreWords, RegisterConstants
    <3>2. R!Seen(Pattern(v), to) = R!Words
      BY <1>4, <3>1 DEF R!Seen
    <3> QED
      BY <2>4, <3>2, PatternsAreWords
  <2> QED
    BY <2>5, <2>6
<1> QED
  BY <1>1, <1>2, <1>3, <1>4 DEF Casts

\* Signed or unsigned, the register reads what the evaluator reads.
LEMMA ReadsAgree ==
    ASSUME NEW v \in NumberValues, IsWhole(v), NEW unsigned \in BOOLEAN
    PROVE  Read(v, unsigned) = R!Read(Pattern(v), unsigned) /\ Read(v, unsigned) \in -H .. U - 1
<1>1. v.n \in Int /\ Pattern(v) = v.n % U /\ v.n % U \in 0 .. U - 1
  BY PatternsAreWords
<1>2. ToSigned(v.n) \in -H .. U - 1 /\ AsUnsigned(v.n) \in -H .. U - 1
  BY <1>1, ConversionsMakeValues
<1>3. R!Read(v.n % U, unsigned) = Read(v, unsigned)
  BY <1>1, RegisterConstants DEF R!Read, R!Signed, Read, ToSigned, AsUnsigned
<1> QED
  BY <1>1, <1>2, <1>3 DEF Read

\* A wrapped integer is a value, with the pattern of the integer.
LEMMA WrappedValues ==
    ASSUME NEW i \in Int
    PROVE  /\ Whole(Wrap(i)) \in NumberValues /\ IsWhole(Whole(Wrap(i)))
           /\ Pattern(Whole(Wrap(i))) = i % U
<1>1. Wrap(i) \in -H .. U - 1 /\ Wrap(i) % U = i % U
  BY ConversionsMakeValues
<1>2. Whole(Wrap(i)) \in NumberValues /\ IsWhole(Whole(Wrap(i))) /\ Whole(Wrap(i)).n = Wrap(i)
  BY <1>1, MadeValues
<1> QED
  BY <1>1, <1>2, PatternsAreWords

\* Sums, differences and products go round as the register's do.
LEMMA WrapsAgree ==
    ASSUME NEW l \in NumberValues, IsWhole(l), NEW r \in NumberValues, IsWhole(r)
    PROVE  /\ Pattern(Whole(Wrap(l.n + r.n))) = (Pattern(l) + Pattern(r)) % R!M
           /\ Pattern(Whole(Wrap(l.n - r.n))) = (Pattern(l) - Pattern(r)) % R!M
           /\ Pattern(Whole(Wrap(l.n * r.n))) = (Pattern(l) * Pattern(r)) % R!M
           /\ Whole(Wrap(l.n + r.n)) \in NumberValues
           /\ Whole(Wrap(l.n - r.n)) \in NumberValues
           /\ Whole(Wrap(l.n * r.n)) \in NumberValues
<1> DEFINE i == l.n
           j == r.n
<1>1. i \in Int /\ j \in Int /\ Pattern(l) = i % U /\ Pattern(r) = j % U
  BY PatternsAreWords
<1>2. R!M = U /\ U \in Nat \ {0}
  BY RegisterConstants
<1> HIDE DEF i, j
<1>3. i + j \in Int /\ i - j \in Int /\ i * j \in Int
  BY <1>1
<1>4. /\ (i + j) % U = ((i % U) + (j % U)) % U
      /\ (i - j) % U = ((i % U) - (j % U)) % U
      /\ (i * j) % U = ((i % U) * (j % U)) % U
  BY <1>1, <1>2, RemaindersOperate
<1>5. /\ Pattern(Whole(Wrap(i + j))) = (i + j) % U /\ Whole(Wrap(i + j)) \in NumberValues
      /\ Pattern(Whole(Wrap(i - j))) = (i - j) % U /\ Whole(Wrap(i - j)) \in NumberValues
      /\ Pattern(Whole(Wrap(i * j))) = (i * j) % U /\ Whole(Wrap(i * j)) \in NumberValues
  BY <1>3, WrappedValues
<1> QED
  BY <1>1, <1>2, <1>4, <1>5 DEF i, j

\* What division leaves is what the register leaves, and nothing else is.
LEMMA RemaindersAgree ==
    ASSUME NEW i \in -H .. U - 1, NEW j \in -H .. U - 1, j # 0
    PROVE  /\ TruncatedRemainder(i, j) \in -U .. U /\ TruncatedQuotient(i, j) \in -U .. U
           /\ R!Leaves(i, j, TruncatedRemainder(i, j))
           /\ R!Leaves(i, j, 0) => TruncatedRemainder(i, j) = 0
           /\ TruncatedRemainder(i, j) = 0 => i = TruncatedQuotient(i, j) * j
<1> DEFINE x == TruncatedRemainder(i, j)
           q == TruncatedQuotient(i, j)
<1>1. /\ U \in Nat \ {0} /\ H \in Nat \ {0} /\ U = 2 * H /\ R!M = U
      /\ i \in Int /\ j \in Int /\ -U <= i /\ i <= U /\ -U <= j /\ j <= U
  BY RegisterConstants
<1>2. /\ x \in Int /\ q \in Int /\ i = (q * j) + x
      /\ Abs(x) < Abs(j) /\ Abs(q) <= Abs(i)
      /\ IF i < 0 THEN x <= 0 ELSE x >= 0
  BY <1>1, TruncatedDivision
<1> HIDE DEF x, q
<1>3. x \in -U .. U /\ q \in -U .. U
  BY <1>1, <1>2 DEF Abs
<1>4. (-j < x /\ x < j) \/ (j < x /\ x < -j)
  BY <1>1, <1>2 DEF Abs
<1>5. R!Leaves(i, j, x)
  BY <1>1, <1>2, <1>3, <1>4 DEF R!Leaves
<1>6. R!Leaves(i, j, 0) => x = 0
  <2> SUFFICES ASSUME R!Leaves(i, j, 0) PROVE x = 0
    OBVIOUS
  <2>1. PICK p \in -U .. U : i = p * j + 0
    BY <1>1 DEF R!Leaves
  <2> DEFINE d == p - q
             e == q - p
             m == Abs(j)
  <2>2. m \in Nat \ {0} /\ d \in Int /\ e \in Int /\ e = -d /\ -m < x /\ x < m
    BY <1>1, <1>2, <2>1 DEF Abs
  <2>3. x = d * j
    BY <1>1, <1>2, <2>1
  <2>4. x = d * m \/ x = e * m
    <3>1. m = j \/ m = -j
      BY DEF Abs
    <3> HIDE DEF m, d
    <3> QED
      BY <1>1, <2>2, <2>3, <3>1
  <2> HIDE DEF d, e, m
  <2>5. d = 0 \/ e = 0
    BY <2>2, <2>4, SmallMultiple
  <2>6. d = 0
    BY <2>2, <2>5
  <2> QED
    BY <1>1, <2>3, <2>6
<1>7. x = 0 => i = q * j
  BY <1>1, <1>2
<1> QED
  BY <1>3, <1>5, <1>6, <1>7 DEF x, q

\* A float, infinite or not, or NaN is off the register.
LEMMA SomeFloatIsOff ==
    ASSUME SomeFloat
    PROVE  acc' \in NumberValues /\ acc'.kind # "error" /\ Pattern(acc)' = -1 /\ verdict' = verdict
<1>1. PICK v \in FloatValues : acc' = v /\ verdict' = verdict
  BY DEF SomeFloat, Is
<1>2. v \in NumberValues /\ ~IsWhole(v) /\ v.kind # "error"
  <2>1. Floats \subseteq Int
    BY ArithmeticAssumption
  <2> QED
    BY <2>1, MadeValues DEF FloatValues, Float, NaN, Infinite
<1>3. Pattern(v) = -1
  BY <1>2, PatternsAreWords
<1> QED
  BY <1>1, <1>2, <1>3

\* Quotients and remainders.
LEMMA DivisionsAgree ==
    ASSUME NEW op \in {"div", "mod"}, NEW i \in -H .. U - 1, NEW j \in -H .. U - 1, Divide(op, i, j)
    PROVE  acc' \in NumberValues /\ verdict' = verdict /\ R!Divides(op, i, j)
<1> DEFINE x == TruncatedRemainder(i, j)
           q == TruncatedQuotient(i, j)
<1>0. R!M = U /\ R!Off = -1 /\ U \in Nat \ {0}
  BY RegisterConstants
<1>1. CASE j = 0 /\ Is(Fault)
  <2>1. acc' = Fault /\ verdict' = verdict
    BY <1>1 DEF Is
  <2>2. Fault \in NumberValues /\ Pattern(Fault) = -1
    BY MadeValues, PatternsAreWords
  <2> QED
    BY <1>0, <1>1, <2>1, <2>2 DEF R!Divides
<1>2. CASE j # 0 /\ op = "mod" /\ Is(Whole(Wrap(x)))
  <2>1. acc' = Whole(Wrap(x)) /\ verdict' = verdict
    BY <1>2 DEF Is
  <2>2. x \in -U .. U /\ R!Leaves(i, j, x)
    BY <1>2, RemaindersAgree
  <2>3. Whole(Wrap(x)) \in NumberValues /\ Pattern(Whole(Wrap(x))) = x % U
    BY <1>0, <2>2, WrappedValues
  <2> HIDE DEF x
  <2> QED
    BY <1>0, <1>2, <2>1, <2>2, <2>3 DEF R!Divides
<1>3. CASE j # 0 /\ op = "div" /\ x = 0 /\ Is(Whole(Wrap(q)))
  <2>1. acc' = Whole(Wrap(q)) /\ verdict' = verdict
    BY <1>3 DEF Is
  <2>2. q \in -U .. U /\ i = q * j
    BY <1>3, RemaindersAgree
  <2>3. Whole(Wrap(q)) \in NumberValues /\ Pattern(Whole(Wrap(q))) = q % U
    BY <1>0, <2>2, WrappedValues
  <2> HIDE DEF q
  <2> QED
    BY <1>0, <1>3, <2>1, <2>2, <2>3 DEF R!Divides
<1>4. CASE j # 0 /\ op = "div" /\ x # 0 /\ SomeFloat
  <2>1. acc' \in NumberValues /\ Pattern(acc)' = -1 /\ verdict' = verdict
    BY <1>4, SomeFloatIsOff
  <2>2. ~R!Leaves(i, j, 0)
    BY <1>4, RemaindersAgree
  <2> QED
    BY <1>0, <1>4, <2>1, <2>2 DEF R!Divides
<1> QED
  BY <1>1, <1>2, <1>3, <1>4 DEF Divide

\* What the register may answer to an operation.
Answers(op, l, r, unsigned) ==
    IF R!Off \in {Pattern(l), Pattern(r)} THEN R!OffRegister
    ELSE R!Operate(op, Pattern(l), Pattern(r), unsigned)

\* Off the register anything that is no integer.
LEMMA OffIsAnswered ==
    ASSUME NEW op, NEW l \in NumberValues, NEW r \in NumberValues, NEW unsigned,
           ~IsWhole(l) \/ ~IsWhole(r), Pattern(acc)' = -1, verdict' \in BOOLEAN
    PROVE  Answers(op, l, r, unsigned)
<1>1. Pattern(l) = -1 \/ Pattern(r) = -1
  BY PatternsAreWords
<1> QED
  BY <1>1, RegisterConstants DEF Answers, R!OffRegister

\* Integers are on it.
LEMMA WholeIsAnswered ==
    ASSUME NEW op, NEW l \in NumberValues, NEW r \in NumberValues, NEW unsigned,
           IsWhole(l), IsWhole(r), R!Operate(op, Pattern(l), Pattern(r), unsigned)
    PROVE  Answers(op, l, r, unsigned)
<1>1. Pattern(l) # -1 /\ Pattern(r) # -1
  BY PatternsAreWords, RegisterConstants
<1> QED
  BY <1>1, RegisterConstants DEF Answers

\* Arithmetic is the register's arithmetic, or off the register.
LEMMA ArithmeticIsAnswered ==
    ASSUME verdict \in BOOLEAN, NEW op \in ArithmeticOps, NEW l \in NumberValues, NEW r \in NumberValues,
           NEW unsigned \in BOOLEAN, ApplyArithmetic(op, l, r, unsigned)
    PROVE  acc' \in NumberValues /\ verdict' \in BOOLEAN /\ Answers(op, l, r, unsigned)
<1>1. CASE ~(Numeric(l) /\ Numeric(r)) /\ Is(Fault)
  <2>1. acc' = Fault /\ verdict' = verdict /\ (~IsWhole(l) \/ ~IsWhole(r))
    BY <1>1 DEF Is, Numeric
  <2>2. acc' \in NumberValues /\ Pattern(acc)' = -1
    BY <2>1, MadeValues, PatternsAreWords
  <2> QED
    BY <2>1, <2>2, OffIsAnswered
<1>2. CASE /\ Numeric(l) /\ Numeric(r) /\ (IsFloat(l) \/ IsFloat(r))
           /\ IF op = "mod" THEN FloatRemainder(l, r) ELSE SomeFloat
  <2>1. ~IsWhole(l) \/ ~IsWhole(r)
    BY <1>2 DEF IsFloat, IsWhole
  <2>2. Is(Fault) \/ Is(Raised) \/ SomeFloat
    BY <1>2 DEF FloatRemainder
  <2>3. Is(Fault) \/ Is(Raised) => acc' \in NumberValues /\ Pattern(acc)' = -1 /\ verdict' = verdict
    BY MadeValues, PatternsAreWords DEF Is
  <2>4. acc' \in NumberValues /\ Pattern(acc)' = -1 /\ verdict' = verdict
    BY <2>2, <2>3, SomeFloatIsOff
  <2> QED
    BY <2>1, <2>4, OffIsAnswered
<1>3. CASE IsWhole(l) /\ IsWhole(r)
  <2>0. R!M = U
    BY RegisterConstants
  <2>1. ASSUME NEW v \in NumberValues, Is(v) PROVE acc' \in NumberValues /\ verdict' = verdict /\ Pattern(acc)' = Pattern(v)
    BY <2>1 DEF Is
  <2>2. CASE op = "add" /\ Is(Whole(Wrap(l.n + r.n)))
    <3>1. /\ Pattern(Whole(Wrap(l.n + r.n))) = (Pattern(l) + Pattern(r)) % R!M
          /\ Whole(Wrap(l.n + r.n)) \in NumberValues
      BY <1>3, WrapsAgree
    <3>2. acc' \in NumberValues /\ verdict' = verdict /\ Pattern(acc)' = (Pattern(l) + Pattern(r)) % R!M
      BY <2>1, <2>2, <3>1
    <3>3. R!Operate(op, Pattern(l), Pattern(r), unsigned)
      BY <2>2, <3>2 DEF R!Operate, R!Wraps
    <3> QED
      BY <1>3, <3>2, <3>3, WholeIsAnswered
  <2>3. CASE op = "sub" /\ Is(Whole(Wrap(l.n - r.n)))
    <3>1. /\ Pattern(Whole(Wrap(l.n - r.n))) = (Pattern(l) - Pattern(r)) % R!M
          /\ Whole(Wrap(l.n - r.n)) \in NumberValues
      BY <1>3, WrapsAgree
    <3>2. acc' \in NumberValues /\ verdict' = verdict /\ Pattern(acc)' = (Pattern(l) - Pattern(r)) % R!M
      BY <2>1, <2>3, <3>1
    <3>3. R!Operate(op, Pattern(l), Pattern(r), unsigned)
      BY <2>3, <3>2 DEF R!Operate, R!Wraps
    <3> QED
      BY <1>3, <3>2, <3>3, WholeIsAnswered
  <2>4. CASE op = "mul" /\ Is(Whole(Wrap(l.n * r.n)))
    <3>1. /\ Pattern(Whole(Wrap(l.n * r.n))) = (Pattern(l) * Pattern(r)) % R!M
          /\ Whole(Wrap(l.n * r.n)) \in NumberValues
      BY <1>3, WrapsAgree
    <3>2. acc' \in NumberValues /\ verdict' = verdict /\ Pattern(acc)' = (Pattern(l) * Pattern(r)) % R!M
      BY <2>1, <2>4, <3>1
    <3>3. R!Operate(op, Pattern(l), Pattern(r), unsigned)
      BY <2>4, <3>2 DEF R!Operate, R!Wraps
    <3> QED
      BY <1>3, <3>2, <3>3, WholeIsAnswered
  <2>5. CASE op \in {"div", "mod"} /\ Divide(op, Read(l, unsigned), Read(r, unsigned))
    <3>1. /\ Read(l, unsigned) = R!Read(Pattern(l), unsigned) /\ Read(l, unsigned) \in -H .. U - 1
          /\ Read(r, unsigned) = R!Read(Pattern(r), unsigned) /\ Read(r, unsigned) \in -H .. U - 1
      BY <1>3, ReadsAgree
    <3>2. acc' \in NumberValues /\ verdict' = verdict /\ R!Divides(op, Read(l, unsigned), Read(r, unsigned))
      BY <2>5, <3>1, DivisionsAgree
    <3>3. R!Operate(op, Pattern(l), Pattern(r), unsigned)
      BY <2>5, <3>1, <3>2 DEF R!Operate
    <3> QED
      BY <1>3, <3>2, <3>3, WholeIsAnswered
  <2>6. ~IsFloat(l) /\ ~IsFloat(r)
    BY <1>3 DEF IsFloat, IsWhole
  <2>7. Numeric(l) /\ Numeric(r)
    BY <1>3 DEF Numeric
  <2> QED
    BY <2>2, <2>3, <2>4, <2>5, <2>6, <2>7 DEF ApplyArithmetic
<1> QED
  BY <1>1, <1>2, <1>3 DEF ApplyArithmetic

\* A comparison by order sees the casts of the patterns.
LEMMA OrderIsAnswered ==
    ASSUME verdict \in BOOLEAN, NEW op \in OrderOps, NEW l \in NumberValues, NEW r \in NumberValues,
           NEW unsigned \in BOOLEAN, ApplyOrder(op, l, r, unsigned)
    PROVE  acc' \in NumberValues /\ verdict' \in BOOLEAN /\ Answers(op, l, r, unsigned)
<1>1. CASE ~(Numeric(l) /\ Numeric(r)) /\ Is(Fault)
  <2>1. acc' = Fault /\ verdict' = verdict /\ (~IsWhole(l) \/ ~IsWhole(r))
    BY <1>1 DEF Is, Numeric
  <2>2. acc' \in NumberValues /\ Pattern(acc)' = -1
    BY <2>1, MadeValues, PatternsAreWords
  <2> QED
    BY <2>1, <2>2, OffIsAnswered
<1>2. Other \in NumberValues /\ Pattern(Other) = -1
  BY MadeValues, PatternsAreWords
<1>3. CASE /\ IsFloat(l) \/ IsFloat(r)
           /\ Says(l.kind # "nan" /\ r.kind # "nan" /\ FloatOrder(op, l, r))
  <2>1. acc' = Other /\ verdict' \in BOOLEAN /\ (~IsWhole(l) \/ ~IsWhole(r))
    BY <1>3 DEF Says, IsFloat, IsWhole
  <2> QED
    BY <1>2, <2>1, OffIsAnswered
<1>4. CASE IsWhole(l) /\ IsWhole(r) /\ Says(Order(op, Read(l, unsigned), Read(r, unsigned)))
  <2> DEFINE i == Read(l, unsigned)
             j == Read(r, unsigned)
  <2>1. /\ i = R!Read(Pattern(l), unsigned) /\ i \in -H .. U - 1
        /\ j = R!Read(Pattern(r), unsigned) /\ j \in -H .. U - 1
    BY <1>4, ReadsAgree
  <2>2. acc' = Other /\ verdict' = Order(op, i, j)
    BY <1>4 DEF Says
  <2> HIDE DEF i, j
  <2>3. R!Orders(op, i, j) /\ verdict' \in BOOLEAN
    <3>1. Pattern(acc)' = R!Off
      BY <1>2, <2>2, RegisterConstants
    <3>2. verdict' = CASE op = "lt" -> i < j [] op = "gt" -> j < i [] op = "lte" -> i <= j [] op = "gte" -> j <= i
      BY <2>2 DEF Order
    <3>3. op \in {"lt", "gt", "lte", "gte"}
      BY DEF OrderOps
    <3>4. i \in Int /\ j \in Int
      BY <2>1, RegisterConstants
    <3>5. CASE op = "lt"
      BY <3>1, <3>2, <3>4, <3>5 DEF R!Orders
    <3>6. CASE op = "gt"
      BY <3>1, <3>2, <3>4, <3>6 DEF R!Orders
    <3>7. CASE op = "lte"
      BY <3>1, <3>2, <3>4, <3>7 DEF R!Orders
    <3>8. CASE op = "gte"
      BY <3>1, <3>2, <3>4, <3>8 DEF R!Orders
    <3> QED
      BY <3>3, <3>5, <3>6, <3>7, <3>8
  <2>4. R!Operate(op, Pattern(l), Pattern(r), unsigned)
    BY <2>1, <2>3 DEF R!Operate
  <2> QED
    BY <1>2, <1>4, <2>2, <2>3, <2>4, WholeIsAnswered
<1> QED
  BY <1>1, <1>3, <1>4 DEF ApplyOrder

\* Equality of two integers is equality by their casts.
LEMMA EqualityIsAnswered ==
    ASSUME verdict \in BOOLEAN, NEW op \in EqualityOps, NEW l \in NumberValues, NEW r \in NumberValues,
           NEW unsigned \in BOOLEAN, ApplyEquality(op, l, r)
    PROVE  acc' \in NumberValues /\ verdict' \in BOOLEAN /\ Answers(op, l, r, unsigned)
<1>1. Other \in NumberValues /\ Pattern(Other) = -1
  BY MadeValues, PatternsAreWords
<1>2. CASE l.kind = "bool" /\ r.kind = "bool" /\ \E b \in BOOLEAN : Says(b)
  <2>1. acc' = Other /\ verdict' \in BOOLEAN /\ ~IsWhole(l)
    BY <1>2 DEF Says, IsWhole
  <2> QED
    BY <1>1, <2>1, OffIsAnswered
<1>3. CASE Says(ValueEquals(l, r) = (op = "eq"))
  <2>1. acc' = Other /\ verdict' = (ValueEquals(l, r) = (op = "eq"))
    BY <1>3 DEF Says
  <2>2. verdict' \in BOOLEAN
    BY <2>1
  <2>3. Pattern(acc)' = -1 /\ acc' \in NumberValues
    BY <1>1, <2>1
  <2>4. CASE ~IsWhole(l) \/ ~IsWhole(r)
    BY <2>2, <2>3, <2>4, OffIsAnswered
  <2>5. CASE IsWhole(l) /\ IsWhole(r)
    <3>1. l.n \in Int /\ r.n \in Int /\ Pattern(l) = l.n % U /\ Pattern(r) = r.n % U
      BY <2>5, PatternsAreWords
    <3>2. ValueEquals(l, r) => l.n = r.n
      BY <2>5, <3>1 DEF ValueEquals, Halves, IsWhole
    <3>3. ValueEquals(l, r) => Pattern(l) = Pattern(r)
      BY <3>1, <3>2
    <3>4. R!Equates(op, Pattern(l), Pattern(r))
      <4>1. op \in {"eq", "neq"} /\ R!Off = -1
        BY RegisterConstants DEF EqualityOps
      <4>2. op = "eq" => (verdict' => Pattern(l) = Pattern(r))
        BY <2>1, <3>3
      <4>3. op = "neq" => (~verdict' => Pattern(l) = Pattern(r))
        <5>1. ValueEquals(l, r) \in BOOLEAN
          BY DEF ValueEquals
        <5>2. op = "neq" => (op = "eq") = FALSE
          OBVIOUS
        <5>3. op = "neq" /\ ~verdict' => ValueEquals(l, r)
          BY <2>1, <5>1, <5>2
        <5> QED
          BY <3>3, <5>3
      <4> QED
        BY <2>2, <2>3, <4>1, <4>2, <4>3 DEF R!Equates
    <3>5. R!Operate(op, Pattern(l), Pattern(r), unsigned)
      BY <3>4 DEF R!Operate
    <3> QED
      BY <2>2, <2>3, <2>5, <3>5, WholeIsAnswered
  <2> QED
    BY <2>4, <2>5
<1> QED
  BY <1>2, <1>3 DEF ApplyEquality

\* An operation on operands, with the casts that are its operands themselves.
LEMMA OperationIsAnswered ==
    ASSUME verdict \in BOOLEAN, NEW op \in BinaryOps, NEW left \in Casts, NEW right \in Casts,
           acc \in NumberValues, acc.kind # "error", NEW other \in Operands, Binary(op, left, right, other)
    PROVE  /\ acc' \in NumberValues /\ verdict' \in BOOLEAN
           /\ R!Computes(op, left, right, Pattern(other))
<1> DEFINE l == Cast(acc, left)
           r == Cast(other, right)
           unsigned == IsDirectUintCast(acc, left) \/ IsDirectUintCast(other, right)
<1>1. other \in NumberValues
  <2>1. Literals \subseteq -H .. U - 1 /\ Floats \subseteq Int
    BY ArithmeticAssumption DEF U
  <2> QED
    BY <2>1, MadeValues DEF Operands, FloatValues
<1>2. /\ l \in NumberValues /\ Pattern(l) \in R!Seen(Pattern(acc), left)
      /\ r \in NumberValues /\ Pattern(r) \in R!Seen(Pattern(other), right)
  BY <1>1, CastsAreSeen
<1>3. unsigned \in BOOLEAN /\ unsigned = ("uint" \in {left, right})
  BY DEF IsDirectUintCast
<1>4. acc' \in NumberValues /\ verdict' \in BOOLEAN /\ Answers(op, l, r, unsigned)
  <2>1. CASE Fault \in {l, r} /\ Is(Fault)
    <3>1. acc' = Fault /\ verdict' = verdict /\ (~IsWhole(l) \/ ~IsWhole(r))
      BY <2>1, MadeValues DEF Is
    <3>2. acc' \in NumberValues /\ Pattern(acc)' = -1
      BY <3>1, MadeValues, PatternsAreWords
    <3> HIDE DEF l, r, unsigned
    <3> QED
      BY <1>2, <3>1, <3>2, OffIsAnswered
  <2>2. CASE op \in ArithmeticOps /\ ApplyArithmetic(op, l, r, unsigned)
    <3> HIDE DEF l, r, unsigned
    <3> QED
      BY <1>2, <1>3, <2>2, ArithmeticIsAnswered
  <2>3. CASE op \in OrderOps /\ ApplyOrder(op, l, r, unsigned)
    <3> HIDE DEF l, r, unsigned
    <3> QED
      BY <1>2, <1>3, <2>3, OrderIsAnswered
  <2>4. CASE op \in EqualityOps /\ ApplyEquality(op, l, r)
    <3> HIDE DEF l, r, unsigned
    <3> QED
      BY <1>2, <1>3, <2>4, EqualityIsAnswered
  <2> QED
    BY <2>1, <2>2, <2>3, <2>4 DEF Binary
<1> HIDE DEF l, r, unsigned
<1>5. R!Computes(op, left, right, Pattern(other))
  BY <1>2, <1>3, <1>4 DEF R!Computes, Answers
<1> QED
  BY <1>4, <1>5

\* The register's request is the evaluator's, with the word of its literal.
LEMMA RequestsAgree ==
    ASSUME NEW q \in Requests
    PROVE  /\ q # Idle /\ q.op # "idle" /\ q.other \in Operands
           /\ [q EXCEPT !.other = Pattern(@)] \in R!Requests
           /\ [q EXCEPT !.other = Pattern(@)] # R!Idle
<1>1. Operands \subseteq NumberValues /\ Other \in Operands
  <2>1. Literals \subseteq -H .. U - 1 /\ Floats \subseteq Int
    BY ArithmeticAssumption DEF U
  <2> QED
    BY <2>1, MadeValues DEF Operands, FloatValues
<1>2. q.op \in {"literal", "cast"} \cup BinaryOps /\ q.op # "idle"
  BY DEF Requests, BinaryOps, ArithmeticOps, OrderOps, EqualityOps
<1>3. q.left \in Casts /\ q.right \in Casts /\ q.other \in Operands
  BY <1>1 DEF Requests, Casts
<1>4. q = [op |-> q.op, left |-> q.left, right |-> q.right, other |-> q.other]
  BY DEF Requests
<1>5. [q EXCEPT !.other = Pattern(@)] =
          [op |-> q.op, left |-> q.left, right |-> q.right, other |-> Pattern(q.other)]
  BY <1>4
<1>6. Pattern(q.other) \in R!Words
  BY <1>1, <1>3, PatternsAreWords
<1>7. BinaryOps = R!Binary /\ Casts = R!Casts
  BY DEF BinaryOps, ArithmeticOps, OrderOps, EqualityOps, R!Binary, Casts, R!Casts
<1>8. q # Idle
  BY <1>2 DEF Idle
<1>9. [q EXCEPT !.other = Pattern(@)] \in R!Requests
  BY <1>2, <1>3, <1>5, <1>6, <1>7 DEF R!Requests
<1>10. [q EXCEPT !.other = Pattern(@)] # R!Idle
  <2>1. [q EXCEPT !.other = Pattern(@)].op = q.op /\ R!Idle.op = "idle"
    BY <1>5 DEF R!Idle
  <2> QED
    BY <1>2, <2>1
<1> QED
  BY <1>2, <1>3, <1>8, <1>9, <1>10

\* The evaluator starts where the register may.
LEMMA ArithmeticStartsOnRegister == ArithmeticInit => ArithmeticTypeOK /\ R!Init
<1> SUFFICES ASSUME ArithmeticInit PROVE ArithmeticTypeOK /\ R!Init
  OBVIOUS
<1>1. acc \in Operands /\ verdict = FALSE /\ request = Idle
  BY DEF ArithmeticInit
<1>2. acc \in NumberValues
  <2>1. Literals \subseteq -H .. U - 1 /\ Floats \subseteq Int
    BY ArithmeticAssumption DEF U
  <2> QED
    BY <1>1, <2>1, MadeValues DEF Operands, FloatValues
<1>3. Pattern(acc) \in R!Words
  BY <1>2, PatternsAreWords
<1> QED
  BY <1>1, <1>2, <1>3 DEF ArithmeticTypeOK, R!Init, R!Idle, Idle

\* Whatever the evaluator does, the register may do.
LEMMA ArithmeticStepsOnRegister ==
    ArithmeticTypeOK /\ [ArithmeticNext]_arithmeticVars =>
        /\ ArithmeticTypeOK'
        /\ [R!Next]_<<Pattern(acc), verdict,
                      IF request = Idle THEN Idle ELSE [request EXCEPT !.other = Pattern(@)]>>
<1> SUFFICES ASSUME ArithmeticTypeOK, [ArithmeticNext]_arithmeticVars
             PROVE  /\ ArithmeticTypeOK'
                    /\ [R!Next]_<<Pattern(acc), verdict,
                                  IF request = Idle THEN Idle ELSE [request EXCEPT !.other = Pattern(@)]>>
  OBVIOUS
<1>0. R!Idle = Idle
  BY DEF R!Idle, Idle
<1>1. CASE Request
  <2>1. /\ request = Idle /\ request' \in Requests /\ UNCHANGED <<acc, verdict>>
        /\ acc.kind \in {"error", "raised"} => request'.op = "literal"
    BY <1>1 DEF Request
  <2>2. ArithmeticTypeOK'
    BY <2>1 DEF ArithmeticTypeOK
  <2>3. /\ request' # Idle
        /\ [request' EXCEPT !.other = Pattern(@)] \in R!Requests
    BY <2>1, RequestsAgree
  <2>4. R!Ask
    BY <1>0, <2>1, <2>3 DEF R!Ask, Pattern, IsWhole
  <2> QED
    BY <2>2, <2>4 DEF R!Next
<1>2. CASE Evaluate
  <2>1. request \in Requests /\ request' = Idle /\ acc \in NumberValues /\ verdict \in BOOLEAN
    BY <1>2 DEF Evaluate, ArithmeticTypeOK
  <2> DEFINE asked == [request EXCEPT !.other = Pattern(@)]
  <2>2. /\ asked \in R!Requests /\ asked # R!Idle /\ request # Idle /\ request.other \in Operands
        /\ asked.op = request.op /\ asked.left = request.left /\ asked.right = request.right
        /\ asked.other = Pattern(request.other)
    <3>1. DOMAIN request = {"op", "left", "right", "other"}
      BY <2>1 DEF Requests
    <3> QED
      BY <2>1, <3>1, RequestsAgree
  <2>3. request.op \in BinaryOps => request.left \in Casts /\ request.right \in Casts
    BY <2>1 DEF Requests, BinaryOps, ArithmeticOps, OrderOps, EqualityOps
  <2>4. request.op = "cast" => request.left \in Casts
    BY <2>1 DEF Requests, BinaryOps, ArithmeticOps, OrderOps, EqualityOps, Casts
  <2>5. CASE request.op = "literal" /\ Is(request.other)
    <3>1. acc' = request.other /\ verdict' = verdict
      BY <2>5 DEF Is
    <3>2. request.other \in NumberValues
      <4>1. Literals \subseteq -H .. U - 1 /\ Floats \subseteq Int
        BY ArithmeticAssumption DEF U
      <4> QED
        BY <2>2, <4>1, MadeValues DEF Operands, FloatValues
    <3>3. acc' \in NumberValues /\ verdict' \in BOOLEAN
      BY <2>1, <3>1, <3>2
    <3>4. Pattern(acc)' = asked.other
      BY <2>2, <3>1
    <3> HIDE DEF asked
    <3> QED
      BY <1>0, <2>1, <2>2, <2>5, <3>1, <3>3, <3>4 DEF ArithmeticTypeOK, R!Next, R!Answer, asked
  <2>6. CASE request.op = "cast" /\ Is(Cast(acc, request.left))
    <3>1. acc' = Cast(acc, request.left) /\ verdict' = verdict
      BY <2>6 DEF Is
    <3>2. Cast(acc, request.left) \in NumberValues /\ Pattern(Cast(acc, request.left)) \in R!Seen(Pattern(acc), request.left)
      BY <2>1, <2>4, <2>6, CastsAreSeen
    <3>3. acc' \in NumberValues /\ verdict' \in BOOLEAN /\ Pattern(acc)' \in R!Seen(Pattern(acc), asked.left)
      BY <2>1, <2>2, <3>1, <3>2
    <3> HIDE DEF asked
    <3> QED
      BY <1>0, <2>1, <2>2, <2>6, <3>1, <3>3 DEF ArithmeticTypeOK, R!Next, R!Answer, asked
  <2>7. CASE request.op \in BinaryOps /\ Binary(request.op, request.left, request.right, request.other)
    <3>1. acc.kind \notin {"error", "raised"}
      <4>1. request.op # "literal"
        BY <2>7 DEF BinaryOps, ArithmeticOps, OrderOps, EqualityOps
      <4> QED
        BY <2>2, <4>1 DEF ArithmeticTypeOK
    <3>2. acc' \in NumberValues /\ verdict' \in BOOLEAN
          /\ R!Computes(request.op, request.left, request.right, Pattern(request.other))
      BY <2>1, <2>2, <2>3, <2>7, <3>1, OperationIsAnswered
    <3>3. asked.op \in R!Binary /\ R!Computes(asked.op, asked.left, asked.right, asked.other)
      BY <2>2, <2>7, <3>2 DEF BinaryOps, ArithmeticOps, OrderOps, EqualityOps, R!Binary
    <3> HIDE DEF asked
    <3> QED
      BY <1>0, <2>1, <2>2, <3>2, <3>3 DEF ArithmeticTypeOK, R!Next, R!Answer, asked
  <2> QED
    BY <1>2, <2>5, <2>6, <2>7 DEF Evaluate
<1>3. CASE UNCHANGED arithmeticVars
  BY <1>3 DEF arithmeticVars, ArithmeticTypeOK, Pattern, IsWhole
<1> QED
  BY <1>1, <1>2, <1>3 DEF ArithmeticNext

\* For any width, any literals and floats, and any sequence of operations and
\* casts: integers behave as a register in which int and uint are two ways to
\* read one pattern.
THEOREM ArithmeticImplementsRegister == ArithmeticSpec => ImplementsRegister
<1>1. ArithmeticInit => ArithmeticTypeOK /\ R!Init
  BY ArithmeticStartsOnRegister
<1> QED
  BY <1>1, ArithmeticStepsOnRegister, PTL DEF ArithmeticSpec, ImplementsRegister, R!Spec

--------------------------------------------------------------------------------
(***************************************************************************)
(* The audit.  W stands for the entities the walk has been at, G for a set  *)
(* of values whose functions all come from there.                           *)
(***************************************************************************)

\* Arithmetic answers with a number, a truth value or an error.
Flat(v) ==
    /\ v.kind \notin {"closure", "array", "construct", "entity", "code"}
    /\ v.kind = "int" => v.int \in Int

CombinesFlat ==
    \A op, values :
        /\ 1 \in DOMAIN values
        /\ \A i \in DOMAIN values : values[i].kind = "int" => values[i].int \in Int
        => Flat(Combine(op, values))

Over(s, G) == \A n \in DOMAIN s : s[n] \in G

\* Functions in G have their bodies in W, and nothing in G is made of anything else.
Sound(G, W) ==
    \A v \in G :
        /\ v.kind = "closure" => v.body \in W /\ Over(v.env, G) /\ Sequence(v.params)
        /\ v.kind = "int" => v.int \in Int
        /\ v.kind = "array" => v.items \in Seq(G)
        /\ v.kind \in {"construct", "entity"} => Over(v.fields, G)
        /\ v.kind = "construct" => v.entity \in G
        /\ v.kind # "code"

\* G has room for v.
Grows(G, W, v) == \E More : G \subseteq More /\ Sound(More, W) /\ v \in More

\* A scope over some values is one over more of them.
LEMMA OverMore == ASSUME NEW s, NEW G, NEW More, G \subseteq More, Over(s, G) PROVE Over(s, More)
  BY DEF Over

\* So is a sequence.
LEMMA SequencesOverMore == ASSUME NEW G, NEW More, G \subseteq More, NEW s \in Seq(G) PROVE s \in Seq(More)
  OBVIOUS

\* A sound set stays so when values are added that are flat or made of its values.
LEMMA Added ==
    ASSUME NEW G, NEW W, Sound(G, W), NEW S,
           \A v \in S :
               /\ v.kind = "closure" => v.body \in W /\ Over(v.env, G) /\ Sequence(v.params)
               /\ v.kind = "int" => v.int \in Int
               /\ v.kind = "array" => v.items \in Seq(G)
               /\ v.kind \in {"construct", "entity"} => Over(v.fields, G)
               /\ v.kind = "construct" => v.entity \in G
               /\ v.kind # "code"
    PROVE  G \subseteq G \cup S /\ Sound(G \cup S, W)
<1> DEFINE More == G \cup S
<1>1. G \subseteq More
  OBVIOUS
<1>2. \A v \in More : v \in G \/ v \in S
  OBVIOUS
<1> HIDE DEF More
<1>3. ASSUME NEW v \in More
      PROVE  /\ v.kind = "closure" => v.body \in W /\ Over(v.env, More) /\ Sequence(v.params)
             /\ v.kind = "int" => v.int \in Int
             /\ v.kind = "array" => v.items \in Seq(More)
             /\ v.kind \in {"construct", "entity"} => Over(v.fields, More)
             /\ v.kind = "construct" => v.entity \in More
             /\ v.kind # "code"
  <2>1. v.kind = "closure" => v.body \in W /\ Over(v.env, G) /\ Sequence(v.params)
    BY <1>2 DEF Sound
  <2>2. v.kind = "array" => v.items \in Seq(G)
    BY <1>2 DEF Sound
  <2>3. v.kind \in {"construct", "entity"} => Over(v.fields, G)
    BY <1>2 DEF Sound
  <2>4. v.kind = "construct" => v.entity \in G
    BY <1>2 DEF Sound
  <2>5. v.kind = "array" => v.items \in Seq(More)
    BY <1>1, <2>2, SequencesOverMore
  <2>6. (v.kind = "closure" => Over(v.env, More)) /\ (v.kind \in {"construct", "entity"} => Over(v.fields, More))
    BY <1>1, <2>1, <2>3, OverMore
  <2>7. (v.kind = "int" => v.int \in Int) /\ v.kind # "code"
    BY <1>2 DEF Sound
  <2> QED
    BY <1>1, <2>1, <2>4, <2>5, <2>6, <2>7
<1>4. Sound(More, W)
  BY <1>3 DEF Sound
<1> QED
  BY <1>1, <1>4 DEF More

\* There is room for one value made of those at hand.
LEMMA GrowsBy ==
    ASSUME NEW G, NEW W, Sound(G, W), NEW v,
           v.kind = "closure" => v.body \in W /\ Over(v.env, G) /\ Sequence(v.params),
           v.kind = "int" => v.int \in Int,
           v.kind = "array" => v.items \in Seq(G),
           v.kind \in {"construct", "entity"} => Over(v.fields, G),
           v.kind = "construct" => v.entity \in G,
           v.kind # "code"
    PROVE  Grows(G, W, v)
<1> DEFINE More == G \cup {v}
<1>1. G \subseteq More /\ Sound(More, W) /\ v \in More
  BY Added
<1> QED
  BY <1>1 DEF Grows

\* There is room for what is at hand.
LEMMA Already == ASSUME NEW G, NEW W, Sound(G, W), NEW v \in G PROVE Grows(G, W, v)
  BY DEF Grows

\* There is room for what is made of nothing.
LEMMA GrowsFlat == ASSUME NEW G, NEW W, Sound(G, W), NEW v, Flat(v) PROVE Grows(G, W, v)
  BY GrowsBy DEF Flat

\* What there is room for among more values there is room for.
LEMMA GrowsTwice ==
    ASSUME NEW G, NEW W, NEW More, G \subseteq More, NEW v, Grows(More, W, v) PROVE Grows(G, W, v)
  BY DEF Grows

\* Errors are made of nothing.
LEMMA MintedIsFlat == \A c : Flat(Minted(c)) /\ Flat(Stored(c))
  BY DEF Flat, Minted, Stored

\* What a value is when it is put away.
LEMMA PutAway ==
    ASSUME NEW G, NEW W, Sound(G, W), NEW v \in G
    PROVE  /\ Materialized(v) \in G
           /\ AsValue(v) \in G \/ Flat(AsValue(v))
           /\ Contained(v) \in G \/ Flat(Contained(v))
<1>1. Materialized(v) \in G
  BY DEF Materialized, Sound
<1>2. AsValue(v) \in G \/ Flat(AsValue(v))
  BY MintedIsFlat DEF AsValue
<1>3. Contained(v) \in G \/ Flat(Contained(v))
  BY DEF Contained, Ref, Flat
<1> QED
  BY <1>1, <1>2, <1>3

\* An array of values at hand and flat ones.
LEMMA GrowsArray ==
    ASSUME NEW G, NEW W, Sound(G, W), NEW n \in Nat, NEW s, DOMAIN s = 1 .. n, s = [i \in 1 .. n |-> s[i]],
           \A i \in 1 .. n : s[i] \in G \/ Flat(s[i])
    PROVE  Grows(G, W, Items(s))
<1> DEFINE S == {s[i] : i \in {j \in 1 .. n : Flat(s[j])}}
           More == G \cup S
<1>1. \A v \in S : Flat(v)
  OBVIOUS
<1>2. \A i \in 1 .. n : s[i] \in More
  OBVIOUS
<1> HIDE DEF S
<1>3. G \subseteq More /\ Sound(More, W)
  BY <1>1, Added DEF Flat
<1> HIDE DEF More
<1>4. s \in Seq(More)
  BY <1>2
<1>5. PICK v : v = Items(s)
  OBVIOUS
<1>6. v.kind = "array" /\ v.items = s
  BY <1>5 DEF Items
<1>7. Grows(More, W, v)
  BY <1>3, <1>4, <1>6, GrowsBy
<1> QED
  BY <1>3, <1>5, <1>7, GrowsTwice

--------------------------------------------------------------------------------
(* Operators of the evaluator over values at hand *)

\* Positions of a set that is not empty have a last.
LEMMA LastPosition ==
    ASSUME NEW n \in Nat, NEW T \in SUBSET (1 .. n), T # {}
    PROVE  \E i \in T : \A j \in T : j <= i
<1> DEFINE Left == {n - i : i \in T}
<1>1. PICK k \in T : TRUE
  OBVIOUS
<1>2. \A i \in T : i \in Nat /\ n - i \in Nat
  OBVIOUS
<1>3. n - k \in Left
  OBVIOUS
<1>4. Left \in SUBSET Nat
  BY <1>2
<1> HIDE DEF Left
<1>5. PICK x \in Left : \A y \in Left : x <= y
  BY <1>3, <1>4, LeastNatural
<1>6. PICK i \in T : x = n - i
  BY <1>5 DEF Left
<1>7. \A j \in T : x <= n - j
  BY <1>5 DEF Left
<1> QED
  BY <1>2, <1>6, <1>7

\* Binding values at hand makes a scope of values at hand.
LEMMA BindOver ==
    ASSUME NEW G, NEW s, Over(s, G), NEW names, NEW values \in Seq(G)
    PROVE  Over(Bind(s, names, values), G)
<1> DEFINE at(n) == {i \in DOMAIN names \cap DOMAIN values : names[i] = n}
           bound == {names[i] : i \in DOMAIN names \cap DOMAIN values}
           latest(n) == CHOOSE i \in at(n) : \A j \in at(n) : j <= i
           inner == [n \in DOMAIN s \cup bound |-> IF n \in bound THEN values[latest(n)] ELSE s[n]]
<1>1. Bind(s, names, values) = inner
  BY DEF Bind
<1>2. ASSUME NEW n \in bound PROVE values[latest(n)] \in G
  <2>1. Len(values) \in Nat /\ DOMAIN values = 1 .. Len(values)
    OBVIOUS
  <2>2. at(n) \in SUBSET (1 .. Len(values)) /\ at(n) # {}
    BY <2>1
  <2>3. \E i \in at(n) : \A j \in at(n) : j <= i
    <3> HIDE DEF at
    <3> QED
      BY <2>1, <2>2, LastPosition
  <2>4. latest(n) \in at(n)
    <3> HIDE DEF at
    <3> QED
      BY <2>3
  <2>5. latest(n) \in 1 .. Len(values)
    <3> HIDE DEF at, latest
    <3> QED
      BY <2>2, <2>4
  <2> HIDE DEF latest
  <2> QED
    BY <2>5
<1>3. \A n \in DOMAIN inner : inner[n] \in G
  <2> HIDE DEF latest
  <2> QED
    BY <1>2 DEF Over
<1> QED
  BY <1>1, <1>3 DEF Over

\* A function closes over values at hand.
LEMMA CapturedOver ==
    ASSUME NEW G, NEW W, Sound(G, W), NEW s, Over(s, G)
    PROVE  Over(Captured(s), G)
BY PutAway DEF Over, Captured

\* Joining sequences joins what they are over.
LEMMA Flattened ==
    ASSUME NEW G, NEW seqs \in Seq(Seq(G))
    PROVE  FlattenSeq(seqs) \in Seq(G)
<1> DEFINE m == Len(seqs)
           Unfolds(k) == k = [i \in 1 .. m |-> IF i = 1 THEN seqs[i] ELSE k[i - 1] \o seqs[i]]
           step == [i \in 1 .. m |-> [l \in Seq(G) |-> l \o seqs[i]]]
<1>1. m \in Nat /\ \A i \in 1 .. m : seqs[i] \in Seq(G)
  OBVIOUS
<1>2. CASE m = 0
  <2>1. FlattenSeq(seqs) = seqs /\ seqs = <<>>
    BY <1>2 DEF FlattenSeq
  <2>2. <<>> \in Seq(G)
    OBVIOUS
  <2> QED
    BY <2>1, <2>2
<1>3. CASE m # 0
  <2>1. step \in [1 .. m -> [Seq(G) -> Seq(G)]]
    <3>1. \A i \in 1 .. m : \A l \in Seq(G) : l \o seqs[i] \in Seq(G)
      BY <1>1
    <3> QED
      BY <3>1
  <2>2. \A i \in 1 .. m, l \in Seq(G) : step[i][l] = l \o seqs[i]
    OBVIOUS
  <2>3. <<>> \in Seq(G) /\ \A l \in Seq(G) : <<>> \o l = l
    OBVIOUS
  <2> DEFINE flat == CHOOSE k : Unfolds(k)
  <2>4. FlattenSeq(seqs) = flat[m]
    BY <1>3 DEF FlattenSeq
  <2> HIDE DEF m, step
  <2>5. PICK g : Recurs(m, Seq(G), <<>>, step, g)
    BY <1>1, <2>1, <2>3, RecursionExists
  <2> DEFINE h == [i \in 1 .. m |-> g[i]]
  <2>6. \A i \in 1 .. m : h[i] = (IF i = 1 THEN seqs[i] ELSE h[i - 1] \o seqs[i]) /\ h[i] \in Seq(G)
    <3> SUFFICES ASSUME NEW i \in 1 .. m
                 PROVE  h[i] = (IF i = 1 THEN seqs[i] ELSE h[i - 1] \o seqs[i]) /\ h[i] \in Seq(G)
      OBVIOUS
    <3>1. i - 1 \in 0 .. m /\ i \in 0 .. m /\ (i # 1 => i - 1 \in 1 .. m)
      BY <1>1
    <3>2. g[i] = step[i][g[i - 1]] /\ g[i - 1] \in Seq(G) /\ g[i] \in Seq(G) /\ g[0] = <<>>
      BY <2>5, <3>1 DEF Recurs
    <3>3. g[i] = g[i - 1] \o seqs[i]
      BY <2>2, <3>2
    <3>4. ASSUME i = 1 PROVE g[i] = seqs[i]
      <4>1. i - 1 = 0 /\ seqs[i] \in Seq(G)
        BY <1>1, <3>4
      <4>2. g[i - 1] = <<>>
        BY <3>2, <4>1
      <4> QED
        BY <2>3, <3>3, <4>1, <4>2
    <3> QED
      BY <3>1, <3>2, <3>3, <3>4
  <2>7. Unfolds(h)
    <3> HIDE DEF h
    <3>1. h = [i \in 1 .. m |-> h[i]]
      BY DEF h
    <3> QED
      BY <2>6, <3>1
  <2> HIDE DEF h
  <2>8. Unfolds(flat)
    <3> HIDE DEF Unfolds
    <3> QED
      BY <2>7
  <2> HIDE DEF flat
  <2>9. flat = [i \in 1 .. m |-> IF i = 1 THEN seqs[i] ELSE flat[i - 1] \o seqs[i]]
    BY <2>8
  <2> HIDE DEF Unfolds
  <2> DEFINE S == {i \in Nat : i \in 1 .. m => flat[i] \in Seq(G)}
  <2>11. 0 \in S
    BY <1>1
  <2>12. ASSUME NEW i \in S PROVE i + 1 \in S
    <3>1. SUFFICES ASSUME i + 1 \in 1 .. m PROVE flat[i + 1] \in Seq(G)
      OBVIOUS
    <3>2. i \in Nat /\ (i + 1) - 1 = i
      OBVIOUS
    <3>3. flat[i + 1] = IF i + 1 = 1 THEN seqs[i + 1] ELSE flat[i] \o seqs[i + 1]
      BY <2>9, <3>1, <3>2
    <3>4. i + 1 # 1 => flat[i] \in Seq(G)
      BY <1>1, <3>1, <3>2
    <3>5. seqs[i + 1] \in Seq(G)
      BY <1>1, <3>1
    <3> HIDE DEF S
    <3> QED
      BY <3>3, <3>4, <3>5
  <2>13. S \in SUBSET Nat
    OBVIOUS
  <2>14. S = Nat
    <3> HIDE DEF S
    <3> QED
      BY <2>11, <2>12, <2>13, NaturalInduction
  <2>10. m \in 1 .. m
    BY <1>1, <1>3 DEF m
  <2> QED
    BY <1>1, <2>4, <2>10, <2>14
<1> QED
  BY <1>2, <1>3

\* Positions in their order are positions.
LEMMA Positions ==
    ASSUME NEW n \in Nat, NEW S
    PROVE  InOrder(S, n) \in Seq(S)
<1> DEFINE Unfolds(k) == k = [i \in 0 .. n |-> IF i = 0 THEN <<>> ELSE IF i \in S THEN Append(k[i - 1], i) ELSE k[i - 1]]
           step == [i \in 1 .. n |-> [l \in Seq(S) |-> IF i \in S THEN Append(l, i) ELSE l]]
           upto == CHOOSE k : Unfolds(k)
<1>1. step \in [1 .. n -> [Seq(S) -> Seq(S)]]
  <2>1. \A i \in 1 .. n : \A l \in Seq(S) : (IF i \in S THEN Append(l, i) ELSE l) \in Seq(S)
    OBVIOUS
  <2> QED
    BY <2>1
<1>2. \A i \in 1 .. n, l \in Seq(S) : step[i][l] = IF i \in S THEN Append(l, i) ELSE l
  OBVIOUS
<1>3. <<>> \in Seq(S)
  OBVIOUS
<1>4. InOrder(S, n) = upto[n]
  BY DEF InOrder
<1> HIDE DEF step
<1>5. PICK g : Recurs(n, Seq(S), <<>>, step, g)
  BY <1>1, <1>3, RecursionExists
<1>6. Unfolds(g)
  <2>1. \A i \in 0 .. n : i = 0 \/ i \in 1 .. n
    OBVIOUS
  <2>2. ASSUME NEW i \in 1 .. n PROVE g[i] = IF i \in S THEN Append(g[i - 1], i) ELSE g[i - 1]
    <3>1. i - 1 \in 0 .. n
      OBVIOUS
    <3>2. g[i] = step[i][g[i - 1]] /\ g[i - 1] \in Seq(S)
      BY <1>5, <3>1 DEF Recurs
    <3> QED
      BY <1>2, <3>2
  <2>3. g[0] = <<>> /\ g = [i \in 0 .. n |-> g[i]]
    BY <1>5 DEF Recurs
  <2>4. \A i \in 0 .. n : g[i] = IF i = 0 THEN <<>> ELSE IF i \in S THEN Append(g[i - 1], i) ELSE g[i - 1]
    BY <2>1, <2>2, <2>3
  <2> QED
    BY <2>3, <2>4
<1>7. Unfolds(upto)
  <2> HIDE DEF Unfolds
  <2> QED
    BY <1>6
<1> HIDE DEF upto
<1> DEFINE T == {i \in Nat : i \in 0 .. n => upto[i] \in Seq(S)}
<1>8. 0 \in T
  <2>1. 0 \in 0 .. n
    OBVIOUS
  <2>2. upto[0] = <<>>
    BY <1>7, <2>1
  <2> QED
    BY <1>3, <2>2
<1>9. ASSUME NEW i \in T PROVE i + 1 \in T
  <2>1. SUFFICES ASSUME i + 1 \in 0 .. n PROVE upto[i + 1] \in Seq(S)
    OBVIOUS
  <2>2. i \in Nat /\ (i + 1) - 1 = i /\ i + 1 # 0 /\ i \in 0 .. n
    BY <2>1
  <2>3. upto[i + 1] = IF i + 1 \in S THEN Append(upto[i], i + 1) ELSE upto[i]
    BY <1>7, <2>1, <2>2
  <2>4. upto[i] \in Seq(S)
    BY <2>2
  <2> HIDE DEF T, Unfolds
  <2> QED
    BY <2>3, <2>4
<1>10. T \in SUBSET Nat
  OBVIOUS
<1>11. T = Nat
  <2> HIDE DEF T
  <2> QED
    BY <1>8, <1>9, <1>10, NaturalInduction
<1>12. n \in 0 .. n
  OBVIOUS
<1> QED
  BY <1>4, <1>11, <1>12

\* Truth values, numbers and bare hashes are made of nothing.
LEMMA SimpleValues == \A b : Flat(Bool(b)) /\ (b \in Int => Flat(Number(b))) /\ Flat(Null) /\ Flat(Ref(b))
  BY DEF Flat, Bool, Number, Null, Ref

\* An entity under construction, and what is stored of it.
LEMMA ConstructGrows ==
    ASSUME NEW G, NEW W, Sound(G, W), NEW type, type \notin CodeTypes, NEW names, NEW values \in Seq(G)
    PROVE  Grows(G, W, Construct(type, names, values))
<1>0. CASE type = "error"
  <2>1. \E code : Construct(type, names, values) = Stored(code)
    BY <1>0 DEF Construct
  <2> QED
    BY <2>1, MintedIsFlat, GrowsFlat
<1> SUFFICES ASSUME type # "error" PROVE Grows(G, W, Construct(type, names, values))
  BY <1>0
<1> DEFINE inside == [i \in DOMAIN values |-> Contained(values[i])]
           S == {x \in {Contained(values[i]) : i \in DOMAIN values} : Flat(x)}
           More == G \cup S
<1>1. \A i \in DOMAIN values : values[i] \in G
  OBVIOUS
<1>2. \A i \in DOMAIN values : Contained(values[i]) \in G \/ Flat(Contained(values[i]))
  BY <1>1, PutAway
<1>3. Over(inside, More)
  BY <1>2 DEF Over
<1>4. \A v \in S : Flat(v)
  OBVIOUS
<1> HIDE DEF S
<1>5. G \subseteq More /\ Sound(More, W)
  BY <1>4, Added DEF Flat
<1> HIDE DEF More
<1>6. PICK bare : bare = [kind |-> "entity", names |-> names, fields |-> inside]
  OBVIOUS
<1>7. bare.kind = "entity" /\ bare.fields = inside
  BY <1>6
<1>8. Grows(More, W, bare)
  BY <1>3, <1>5, <1>7, GrowsBy
<1>9. PICK K : More \subseteq K /\ Sound(K, W) /\ bare \in K
  BY <1>8 DEF Grows
<1>10. PICK v : v = Construct(type, names, values)
  OBVIOUS
<1>11. v.kind = "construct" /\ v.fields = values /\ v.entity = bare
  BY <1>6, <1>10 DEF Construct
<1>12. Over(v.fields, K)
  BY <1>1, <1>5, <1>9, <1>11 DEF Over
<1>13. Grows(K, W, v)
  BY <1>9, <1>11, <1>12, GrowsBy
<1>14. G \subseteq K
  BY <1>5, <1>9
<1> QED
  BY <1>10, <1>13, <1>14, GrowsTwice

\* Arrays of an array, joined.
LEMMA ConcatGrows ==
    ASSUME NEW G, NEW W, Sound(G, W), NEW v \in G
    PROVE  Grows(G, W, Concat(v))
<1>1. CASE v.kind = "array" /\ \A i \in DOMAIN v.items : v.items[i].kind = "array"
  <2>1. PICK items \in Seq(G) : items = v.items
    BY <1>1 DEF Sound
  <2>2. \A i \in DOMAIN items : items[i] \in G /\ items[i].kind = "array"
    BY <1>1, <2>1
  <2>3. \A i \in DOMAIN items : items[i].items \in Seq(G)
    BY <2>2 DEF Sound
  <2>4. DOMAIN items = 1 .. Len(items) /\ Len(items) \in Nat
    OBVIOUS
  <2>5. PICK inner : inner = [i \in DOMAIN items |-> items[i].items]
    OBVIOUS
  <2>6. inner \in Seq(Seq(G))
    BY <2>3, <2>4, <2>5
  <2>7. PICK joined \in Seq(G) : joined = FlattenSeq(inner)
    BY <2>6, Flattened
  <2>8. Concat(v) = Items(joined)
    BY <1>1, <2>1, <2>5, <2>7 DEF Concat
  <2>9. PICK w : w = Items(joined)
    OBVIOUS
  <2>10. w.kind = "array" /\ w.items = joined
    BY <2>9 DEF Items
  <2>11. Grows(G, W, w)
    BY <2>7, <2>10, GrowsBy
  <2> QED
    BY <2>8, <2>9, <2>11
<1>2. CASE ~(v.kind = "array" /\ \A i \in DOMAIN v.items : v.items[i].kind = "array")
  <2>1. Concat(v) = Minted("type_mismatch")
    BY <1>2 DEF Concat
  <2> QED
    BY <2>1, MintedIsFlat, GrowsFlat
<1> QED
  BY <1>1, <1>2

\* A range is an array of numbers.
LEMMA RangeGrows ==
    ASSUME NEW G, NEW W, Sound(G, W), NEW v \in G
    PROVE  Grows(G, W, RangeOf(v))
<1>1. CASE v.kind = "int" /\ ~(v.int < 0)
  <2>1. PICK n \in Nat : n = v.int
    BY <1>1 DEF Sound
  <2>2. PICK s : s = [i \in 1 .. n |-> Number(i - 1)]
    OBVIOUS
  <2>3. DOMAIN s = 1 .. n /\ s = [i \in 1 .. n |-> s[i]]
    BY <2>2
  <2>4. \A i \in 1 .. n : Flat(s[i])
    BY <2>2, SimpleValues
  <2>5. RangeOf(v) = Items(s)
    BY <1>1, <2>1, <2>2 DEF RangeOf
  <2> QED
    BY <2>3, <2>4, <2>5, GrowsArray
<1>2. CASE ~(v.kind = "int" /\ ~(v.int < 0))
  <2>1. RangeOf(v) = Minted("type_mismatch") \/ RangeOf(v) = Minted("count_out_of_range")
    BY <1>2 DEF RangeOf
  <2> QED
    BY <2>1, MintedIsFlat, GrowsFlat
<1> QED
  BY <1>1, <1>2

\* The names of parameters, as values.
LEMMA TextsGrow ==
    ASSUME NEW G, NEW W, Sound(G, W), NEW names, Sequence(names)
    PROVE  Grows(G, W, Items([k \in DOMAIN names |-> Text(names[k])]))
<1>1. Len(names) \in Nat /\ DOMAIN names = 1 .. Len(names)
  BY DEF Sequence
<1>2. PICK s : s = [k \in 1 .. Len(names) |-> Text(names[k])]
  OBVIOUS
<1>3. DOMAIN s = 1 .. Len(names) /\ s = [i \in 1 .. Len(names) |-> s[i]]
  BY <1>2
<1>4. \A i \in 1 .. Len(names) : Flat(s[i])
  BY <1>2 DEF Text, Flat
<1>5. Items([k \in DOMAIN names |-> Text(names[k])]) = Items(s)
  BY <1>1, <1>2
<1> QED
  BY <1>1, <1>3, <1>4, <1>5, GrowsArray

\* What is in a field: a value at hand, or what a function's data says of it.
LEMMA FieldGrows ==
    ASSUME NEW G, NEW W, Sound(G, W), NEW v \in G, NEW name
    PROVE  Grows(G, W, Field(v, name))
<1> DEFINE here == {i \in DOMAIN Fields(v) : FieldNames(v)[i] = name}
<1>1. CASE IsRecord(v) /\ here # {}
  <2>1. PICK i \in DOMAIN Fields(v) : Field(v, name) = Fields(v)[i]
    BY <1>1 DEF Field
  <2>2. CASE v.kind # "closure"
    <3>1. v.kind \in {"construct", "entity"}
      BY <1>1, <2>2 DEF IsRecord, Sound
    <3>2. Fields(v) = v.fields
      BY <2>2 DEF Fields
    <3>3. v.fields[i] \in G
      BY <3>1, <3>2 DEF Sound, Over
    <3> QED
      BY <2>1, <3>2, <3>3, Already
  <2>3. CASE v.kind = "closure"
    <3>1. PICK params : params = Items([k \in DOMAIN v.params |-> Text(v.params[k])])
      OBVIOUS
    <3>2. Fields(v) = <<params, Ref(v.body)>> \/ \E env : Fields(v) = <<params, Ref(v.body), Ref(env)>>
      BY <2>3, <3>1 DEF Fields
    <3>3. Fields(v)[i] = params \/ \E of : Fields(v)[i] = Ref(of)
      BY <3>2
    <3>4. Grows(G, W, params)
      BY <2>3, <3>1, TextsGrow DEF Sound
    <3> QED
      BY <2>1, <3>3, <3>4, SimpleValues, GrowsFlat
  <2> QED
    BY <2>2, <2>3
<1>2. CASE ~(IsRecord(v) /\ here # {})
  <2>1. Field(v, name) = Minted("not_found") \/ Field(v, name) = Minted("type_mismatch")
    BY <1>2 DEF Field
  <2> QED
    BY <2>1, MintedIsFlat, GrowsFlat
<1> QED
  BY <1>1, <1>2

\* What an operator makes of values at hand.
LEMMA ResultGrows ==
    ASSUME NEW G, NEW W, Sound(G, W), CombinesFlat, NEW e, e.kind \in Operators,
           NEW values \in Seq(G),
           e.kind # "construct" => Len(values) >= 1, e.kind = "index" => Len(values) >= 2,
           e.kind = "construct" => e.type \notin CodeTypes
    PROVE  Grows(G, W, Result(e, values))
<1>0. Len(values) \in Nat /\ DOMAIN values = 1 .. Len(values) /\ \A i \in 1 .. Len(values) : values[i] \in G
  OBVIOUS
<1>1. CASE e.kind \in {"arithmetic", "compare", "cast"}
  <2>1. 1 \in DOMAIN values
    BY <1>0, <1>1
  <2>4. \A i \in DOMAIN values : values[i].kind = "int" => values[i].int \in Int
    BY <1>0 DEF Sound
  <2>2. Flat(Combine(e.op, values))
    BY <2>1, <2>4 DEF CombinesFlat
  <2>3. Result(e, values) = Combine(e.op, values)
    BY <1>1 DEF Result
  <2> QED
    BY <2>2, <2>3, GrowsFlat
<1>2. CASE e.kind = "logic"
  <2>1. Result(e, values) = Logic(e.op, values)
    BY <1>2 DEF Result
  <2>2. Flat(Logic(e.op, values))
    BY MintedIsFlat, SimpleValues DEF Logic
  <2> QED
    BY <2>1, <2>2, GrowsFlat
<1>3. CASE e.kind = "field"
  <2>1. PICK v \in G : v = values[1]
    BY <1>0, <1>3
  <2>2. Result(e, values) = Field(v, e.name)
    BY <1>3, <2>1 DEF Result
  <2> QED
    BY <2>1, <2>2, FieldGrows
<1>4. CASE e.kind = "index"
  <2>1. PICK v \in G, i \in G : v = values[1] /\ i = values[2]
    BY <1>0, <1>4
  <2>2. Result(e, values) = Index(v, i)
    BY <1>4, <2>1 DEF Result
  <2>3. CASE v.kind = "array" /\ i.int + 1 \in DOMAIN v.items /\ i.kind = "int"
    <3>1. v.items \in Seq(G)
      BY <2>3 DEF Sound
    <3>2. v.items[i.int + 1] \in G
      BY <2>3, <3>1
    <3> QED
      BY <2>2, <2>3, <3>2, Already DEF Index
  <2>4. CASE ~(v.kind = "array" /\ i.int + 1 \in DOMAIN v.items /\ i.kind = "int")
    <3>1. Index(v, i) = Minted("index_out_of_range") \/ Index(v, i) = Minted("type_mismatch")
      BY <2>4 DEF Index
    <3> QED
      BY <2>2, <3>1, MintedIsFlat, GrowsFlat
  <2> QED
    BY <2>3, <2>4
<1>5. CASE e.kind = "length"
  <2>1. PICK v \in G : v = values[1]
    BY <1>0, <1>5
  <2>2. Result(e, values) = IF v.kind = "array" THEN Number(Len(v.items)) ELSE Minted("type_mismatch")
    BY <1>5, <2>1 DEF Result
  <2>3. v.kind = "array" => Len(v.items) \in Int
    BY DEF Sound
  <2>4. Flat(Result(e, values))
    BY <2>2, <2>3, MintedIsFlat, SimpleValues
  <2> QED
    BY <2>4, GrowsFlat
<1>6. CASE e.kind = "construct"
  BY <1>6, ConstructGrows DEF Result
<1>7. CASE e.kind \in {"concat", "range"}
  <2>1. PICK v \in G : v = values[1]
    BY <1>0, <1>7
  <2> QED
    BY <1>7, <2>1, ConcatGrows, RangeGrows DEF Result
<1> QED
  BY <1>1, <1>2, <1>3, <1>4, <1>5, <1>6, <1>7 DEF Operators

\* A value at hand or a flat one.
LEMMA GrowsEither ==
    ASSUME NEW G, NEW W, Sound(G, W), NEW v, v \in G \/ Flat(v)
    PROVE  Grows(G, W, v)
BY Already, GrowsFlat

\* What a collection builtin makes of its collection and its elements' values.
LEMMA CollectedGrows ==
    ASSUME NEW G, NEW W, Sound(G, W), NEW f, f.expr.kind \in Collections,
           f.vals \in Seq(G), Len(f.vals) >= 2, f.vals[1].kind = "array",
           f.expr.kind \in {"fold", "assoc"} => Len(f.vals) >= 3
    PROVE  Grows(G, W, Collected(f))
<1>1. PICK vals \in Seq(G) : vals = f.vals
  OBVIOUS
<1>2. Len(vals) \in Nat /\ \A i \in 1 .. Len(vals) : vals[i] \in G
  OBVIOUS
<1>3. PICK items \in Seq(G) : items = f.vals[1].items
  <2>1. f.vals[1] \in G
    BY <1>1, <1>2
  <2> QED
    BY <2>1 DEF Sound
<1>4. Len(items) \in Nat /\ DOMAIN items = 1 .. Len(items) /\ \A i \in 1 .. Len(items) : items[i] \in G
  OBVIOUS
<1>5. PICK results : results = SubSeq(vals, 3, Len(vals))
  OBVIOUS
<1>6. Collected(f) =
        CASE f.expr.kind = "map" -> Items([i \in DOMAIN results |-> Contained(results[i])])
          [] f.expr.kind = "filter" -> Items(Kept(items, results))
          [] f.expr.kind = "group" -> Items(Grouped(items, results))
          [] f.expr.kind = "fold" -> AsValue(Last(vals))
          [] f.expr.kind = "assoc" -> Items([items EXCEPT ![vals[2].int + 1] = Contained(vals[3])])
  BY <1>1, <1>3, <1>5 DEF Collected
<1>7. CASE f.expr.kind = "map"
  <2>1. results \in Seq(G)
    <3>1. 3 \in Nat /\ 3 >= 1 /\ Len(vals) \in Nat /\ Len(vals) <= Len(vals)
      BY <1>2
    <3> QED
      BY <1>2, <1>5
  <2>2. Len(results) \in Nat /\ DOMAIN results = 1 .. Len(results) /\ \A i \in 1 .. Len(results) : results[i] \in G
    BY <2>1
  <2>3. PICK s : s = [i \in 1 .. Len(results) |-> Contained(results[i])]
    OBVIOUS
  <2>4. DOMAIN s = 1 .. Len(results) /\ s = [i \in 1 .. Len(results) |-> s[i]]
    BY <2>3
  <2>5. \A i \in 1 .. Len(results) : s[i] \in G \/ Flat(s[i])
    BY <2>2, <2>3, PutAway
  <2>6. Collected(f) = Items(s)
    BY <1>6, <1>7, <2>2, <2>3
  <2> HIDE DEF Collected
  <2> QED
    BY <2>2, <2>4, <2>5, <2>6, GrowsArray
<1>8. CASE f.expr.kind = "filter"
  <2> DEFINE S == {i \in DOMAIN items : Truthy(results[i])}
  <2>1. PICK kept \in Seq(S) : kept = InOrder(S, Len(items))
    BY <1>4, Positions
  <2>2. PICK s : s = [i \in DOMAIN kept |-> Contained(items[kept[i]])]
    OBVIOUS
  <2>3. Kept(items, results) = s
    BY <2>1, <2>2 DEF Kept
  <2>4. Len(kept) \in Nat /\ DOMAIN kept = 1 .. Len(kept) /\ \A i \in 1 .. Len(kept) : kept[i] \in S
    OBVIOUS
  <2>5. \A i \in 1 .. Len(kept) : items[kept[i]] \in G
    BY <1>4, <2>4
  <2>6. DOMAIN s = 1 .. Len(kept) /\ s = [i \in 1 .. Len(kept) |-> s[i]]
    BY <2>2, <2>4
  <2>7. \A i \in 1 .. Len(kept) : s[i] \in G \/ Flat(s[i])
    BY <2>2, <2>4, <2>5, PutAway
  <2>8. Collected(f) = Items(s)
    BY <1>6, <1>8, <2>3
  <2> QED
    BY <2>4, <2>6, <2>7, <2>8, GrowsArray
<1>9. CASE f.expr.kind = "group"
  <2> DEFINE same(i) == {j \in DOMAIN results : Materialized(results[j]) = Materialized(results[i])}
             S == {i \in DOMAIN results : \A j \in same(i) : i <= j}
  <2>1. Len(results) \in Nat
    BY <1>2, <1>5
  <2>2. PICK heads \in Seq(S) : heads = InOrder(S, Len(results))
    <3> HIDE DEF S
    <3> QED
      BY <2>1, Positions
  <2>3. Len(heads) \in Nat /\ DOMAIN heads = 1 .. Len(heads)
    OBVIOUS
  <2> DEFINE members(i) == InOrder(same(i), Len(results))
             group(g) == [kind |-> "entity", names |-> <<"key", "members">>,
                          fields |-> <<Contained(results[heads[g]]),
                                       Items([m \in DOMAIN members(heads[g]) |->
                                                Contained(items[members(heads[g])[m]])])>>]
  <2>4. Grouped(items, results) = [g \in DOMAIN heads |-> Ref(group(g))]
    BY <2>2 DEF Grouped
  <2> HIDE DEF S, group
  <2>5. PICK s : s = [g \in 1 .. Len(heads) |-> Ref(group(g))]
    OBVIOUS
  <2>6. DOMAIN s = 1 .. Len(heads) /\ s = [g \in 1 .. Len(heads) |-> s[g]]
    BY <2>5
  <2>7. \A g \in 1 .. Len(heads) : Flat(s[g])
    BY <2>5, SimpleValues
  <2>8. Collected(f) = Items(s)
    BY <1>6, <1>9, <2>3, <2>4, <2>5
  <2> QED
    BY <2>3, <2>6, <2>7, <2>8, GrowsArray
<1>10. CASE f.expr.kind = "fold"
  <2>1. Last(vals) \in G
    <3>1. Len(vals) \in 1 .. Len(vals)
      BY <1>1, <1>2
    <3> QED
      BY <1>2, <3>1 DEF Last
  <2>2. Collected(f) = AsValue(Last(vals))
    BY <1>6, <1>10
  <2> QED
    BY <2>1, <2>2, PutAway, GrowsEither
<1>11. CASE f.expr.kind = "assoc"
  <2>1. vals[3] \in G
    <3>1. 3 \in 1 .. Len(vals)
      BY <1>1, <1>2, <1>11
    <3> QED
      BY <1>2, <3>1
  <2>2. PICK x : x = Contained(vals[3])
    OBVIOUS
  <2>3. x \in G \/ Flat(x)
    BY <2>1, <2>2, PutAway
  <2>4. PICK k : k = vals[2].int + 1
    OBVIOUS
  <2>5. PICK s : s = [items EXCEPT ![k] = x]
    OBVIOUS
  <2>6. DOMAIN s = 1 .. Len(items) /\ s = [i \in 1 .. Len(items) |-> s[i]]
    BY <1>4, <2>5
  <2>7. \A i \in 1 .. Len(items) : s[i] = x \/ s[i] = items[i]
    BY <1>4, <2>5
  <2>8. \A i \in 1 .. Len(items) : s[i] \in G \/ Flat(s[i])
    BY <1>4, <2>3, <2>7
  <2>9. Collected(f) = Items(s)
    BY <1>6, <1>11, <2>2, <2>4, <2>5
  <2> QED
    BY <1>4, <2>6, <2>8, <2>9, GrowsArray
<1> QED
  BY <1>7, <1>8, <1>9, <1>10, <1>11 DEF Collections

--------------------------------------------------------------------------------
(* Decisions over what has been walked *)

\* What is self-contained: W, where the walk has been.
Walked(W) ==
    \A m \in W :
        /\ Referenced(m) \subseteq W
        /\ Decoded(m)
        /\ BuildsData(m)
        /\ (m.kind = "tree" /\ Tree[m.path] # None) => ~Runs(Tree[m.path])
        /\ m.kind = "hash" => ~Runs(m.args[1])

AtRest(W) == {m.value : m \in {w \in W : w.kind = "stored"}}
Ground(G, W) == Sound(G, W) /\ Bare \subseteq G /\ AtRest(W) \subseteq G

\* Collections have an array to go through and a function to apply, once their
\* arguments are there.
Waiting(f) ==
    f.expr.kind \in Collections =>
        /\ Len(f.vals) >= 1 => f.vals[1].kind = "array"
        /\ Len(f.vals) >= 2 /\ f.expr.kind # "assoc" => f.vals[2].kind = "closure"

Fitted(f) ==
    f.expr.kind \in Collections =>
        /\ Len(f.vals) >= 2 => f.vals[1].kind = "array"
        /\ Len(f.vals) >= 3 /\ f.expr.kind # "assoc" => f.vals[2].kind = "closure"

\* Frames evaluate what the walk has been at, over values at hand.
Sane(f, G, W) == f.expr \in W /\ Over(f.scope, G) /\ f.vals \in Seq(G) /\ Fitted(f)

\* G has room for what the decision d brings.
Good(d, G, W) ==
    /\ d.move \in {"give", "return"} => Grows(G, W, d.value)
    /\ d.move \in {"call", "become"} =>
         d.expr \in W /\ \E More : G \subseteq More /\ Sound(More, W) /\ Over(d.scope, More)

\* What there is room for among more values there is room for.
LEMMA GoodMore == ASSUME NEW G, NEW More, NEW W, NEW d, G \subseteq More, Good(d, More, W) PROVE Good(d, G, W)
<1>1. d.move \in {"give", "return"} => Grows(G, W, d.value)
  BY GrowsTwice DEF Good
<1>2. ASSUME d.move \in {"call", "become"}
      PROVE  d.expr \in W /\ \E K : G \subseteq K /\ Sound(K, W) /\ Over(d.scope, K)
  <2>1. PICK K : More \subseteq K /\ Sound(K, W) /\ Over(d.scope, K)
    BY <1>2 DEF Good
  <2>2. G \subseteq K
    BY <2>1
  <2> QED
    BY <1>2, <2>1, <2>2 DEF Good
<1> QED
  BY <1>1, <1>2 DEF Good

\* A value there is room for may be returned or handed on.
LEMMA GoodReturn == ASSUME NEW G, NEW W, NEW v, Grows(G, W, v) PROVE Good(Returning(v), G, W) /\ Good(Giving(v), G, W)
  BY DEF Good, Returning, Giving

\* So may an error.
LEMMA GoodMinted ==
    ASSUME NEW G, NEW W, Sound(G, W), NEW c
    PROVE  Good(Returning(Minted(c)), G, W) /\ Good(Giving(Minted(c)), G, W)
<1>1. PICK v : v = Minted(c)
  OBVIOUS
<1>2. Grows(G, W, v)
  BY <1>1, MintedIsFlat, GrowsFlat
<1> QED
  BY <1>1, <1>2, GoodReturn

\* References into W are followed into W.
LEMMA GoodReferences ==
    ASSUME NEW G, NEW W, Ground(G, W), NEW n \in W, NEW s, Over(s, G)
    PROVE  Good(Fetching(n, s), G, W) /\ Good(Asking(n, s), G, W) /\ Good(Continuing(n, s), G, W)
<1>1. Sound(G, W)
  BY DEF Ground
<1>2. Good(Calling(n, s), G, W) /\ Good(Becoming(n, s), G, W)
  BY <1>1 DEF Good, Calling, Becoming
<1>3. IsStoredError(n) => Good(Giving(n.value), G, W) /\ Good(Returning(n.value), G, W)
  <2>1. SUFFICES ASSUME IsStoredError(n) PROVE Good(Giving(n.value), G, W) /\ Good(Returning(n.value), G, W)
    OBVIOUS
  <2>2. n.value \in G
    BY <2>1 DEF IsStoredError, Ground, AtRest
  <2>3. Grows(G, W, n.value)
    BY <1>1, <2>2, Already
  <2> QED
    BY <2>3, GoodReturn
<1>4. Good(Fetching(n, s), G, W)
  BY <1>1, <1>2, GoodMinted DEF Fetching
<1>5. Good(Asking(n, s), G, W)
  BY <1>3, <1>4 DEF Asking
<1>6. Good(Continuing(n, s), G, W)
  BY <1>1, <1>2, <1>3, GoodMinted DEF Continuing
<1> QED
  BY <1>4, <1>5, <1>6

\* The operands of an entity of W are in W.
LEMMA OperandsWalked ==
    ASSUME NEW W, Walked(W), NEW e \in W,
           e.kind \in Expressions \ {"literal", "scope", "tree", "hash"}
    PROVE  /\ Len(e.args) \in Nat
           /\ \A i \in 1 .. Len(e.args) : e.args[i] \in W
           /\ e.args # <<>> => Last(e.args) \in W
<1>1. Referenced(e) \subseteq W /\ WellFormed(e)
  BY DEF Walked, Decoded
<1>2. e.kind \notin {"tree", "hash", "missing", "literal", "scope", "stored"}
  BY DEF Expressions, Operators, Collections
<1>3. Referenced(e) = Range(e.args)
  BY <1>2 DEF Referenced
<1>4. e.args \in Seq(Range(e.args))
  BY <1>1 DEF WellFormed
<1>5. e.args \in Seq(W)
  BY <1>1, <1>3, <1>4, SequencesOverMore
<1> QED
  BY <1>5 DEF Last

\* What an entity of W has as its arguments.
LEMMA WellFormedWalked ==
    ASSUME NEW W, Walked(W), NEW e \in W
    PROVE  WellFormed(e) /\ Holds(e) /\ BuildsData(e)
  BY DEF Walked, Decoded

\* A condition and the branches belong to the walk.
LEMMA GoodBranching ==
    ASSUME NEW G, NEW W, Walked(W), Ground(G, W), NEW f, Sane(f, G, W), f.expr.kind = "if"
    PROVE  Good(Branching(f), G, W)
<1>1. f.expr \in W /\ Over(f.scope, G) /\ Sound(G, W)
  BY DEF Sane, Ground
<1>2. f.expr.kind \in Expressions \ {"literal", "scope", "tree", "hash"}
  BY DEF Expressions
<1>3. Len(f.expr.args) \in 2 .. 3
  BY <1>1, WellFormedWalked DEF WellFormed
<1>4. \A i \in 1 .. Len(f.expr.args) : f.expr.args[i] \in W
  BY <1>1, <1>2, OperandsWalked
<1>5. f.expr.args[1] \in W /\ f.expr.args[2] \in W /\ (Len(f.expr.args) = 3 => f.expr.args[3] \in W)
  BY <1>3, <1>4
<1>6. Good(Returning(Null), G, W)
  <2>1. PICK v : v = Null
    OBVIOUS
  <2>2. Grows(G, W, v)
    BY <1>1, <2>1, SimpleValues, GrowsFlat
  <2> QED
    BY <2>1, <2>2, GoodReturn
<1>7. Good(Asking(f.expr.args[1], f.scope), G, W)
  BY <1>1, <1>5, GoodReferences
<1>8. Good(Continuing(f.expr.args[2], f.scope), G, W)
  BY <1>1, <1>5, GoodReferences
<1>9. Len(f.expr.args) = 3 => Good(Continuing(f.expr.args[3], f.scope), G, W)
  BY <1>1, <1>5, GoodReferences
<1> QED
  BY <1>6, <1>7, <1>8, <1>9 DEF Branching

\* Bindings and body of a let do, and the scope is of values at hand.
LEMMA GoodBinding ==
    ASSUME NEW G, NEW W, Walked(W), Ground(G, W), NEW f, Sane(f, G, W), f.expr.kind = "let"
    PROVE  Good(Binding(f), G, W)
<1>1. f.expr \in W /\ Over(f.scope, G) /\ f.vals \in Seq(G)
  BY DEF Sane
<1>2. f.expr.kind \in Expressions \ {"literal", "scope", "tree", "hash"}
  BY DEF Expressions
<1>3. Len(f.expr.args) = Len(f.expr.names) + 1 /\ f.expr.names \in Seq(Range(f.expr.names))
  BY <1>1, WellFormedWalked DEF WellFormed
<1>4. \A i \in 1 .. Len(f.expr.args) : f.expr.args[i] \in W
  BY <1>1, <1>2, OperandsWalked
<1>5. Len(f.expr.names) \in Nat
  BY <1>3
<1>6. Len(f.vals) \in Nat
  BY <1>1
<1>7. PICK inner : inner = Bind(f.scope, f.expr.names, f.vals)
  OBVIOUS
<1>8. Over(inner, G)
  BY <1>1, <1>7, BindOver
<1>9. Len(f.vals) < Len(f.expr.names) => f.expr.args[Len(f.vals) + 1] \in W
  BY <1>3, <1>4, <1>5, <1>6
<1>10. Last(f.expr.args) \in W
  <2>1. Len(f.expr.args) \in 1 .. Len(f.expr.args)
    BY <1>3, <1>5
  <2> QED
    BY <1>4, <2>1 DEF Last
<1>11. Good(Continuing(Last(f.expr.args), inner), G, W)
  BY <1>8, <1>10, GoodReferences
<1>12. Len(f.vals) < Len(f.expr.names) => Good(Asking(f.expr.args[Len(f.vals) + 1], inner), G, W)
  BY <1>8, <1>9, GoodReferences
<1> QED
  BY <1>7, <1>11, <1>12 DEF Binding

\* A function has its body in the walk and closes over values at hand.
LEMMA GoodLambda ==
    ASSUME NEW G, NEW W, Walked(W), Ground(G, W), NEW f, Sane(f, G, W), f.expr.kind = "lambda"
    PROVE  Good(Returning(Closure(f.expr.names, f.expr.args[1], Captured(f.scope), None)), G, W)
<1>1. f.expr \in W /\ Over(f.scope, G) /\ Sound(G, W)
  BY DEF Sane, Ground
<1>2. f.expr.kind \in Expressions \ {"literal", "scope", "tree", "hash"}
  BY DEF Expressions
<1>3. Len(f.expr.args) \in 1 .. 1
  BY <1>1, WellFormedWalked DEF WellFormed
<1>4. \A i \in 1 .. Len(f.expr.args) : f.expr.args[i] \in W
  BY <1>1, <1>2, OperandsWalked
<1>5. f.expr.args[1] \in W
  BY <1>3, <1>4
<1>6. Over(Captured(f.scope), G)
  BY <1>1, CapturedOver
<1>7. PICK v : v = Closure(f.expr.names, f.expr.args[1], Captured(f.scope), None)
  OBVIOUS
<1>8. v.kind = "closure" /\ v.body = f.expr.args[1] /\ v.env = Captured(f.scope) /\ Sequence(v.params)
  <2>1. f.expr.names \in Seq(Range(f.expr.names))
    BY <1>1, WellFormedWalked DEF WellFormed
  <2> QED
    BY <1>7, <2>1 DEF Closure, Sequence
<1>9. Grows(G, W, v)
  BY <1>1, <1>5, <1>6, <1>8, GrowsBy
<1> QED
  BY <1>7, <1>9, GoodReturn

\* The next operand of an expression of W.
LEMMA GoodOperand ==
    ASSUME NEW G, NEW W, Ground(G, W), NEW e, NEW f, Over(f.scope, G), e.args[Len(f.vals) + 1] \in W
    PROVE  Good(Operand(e, f), G, W)
BY GoodReferences DEF Operand

\* Operands, and then their result.
LEMMA GoodOperating ==
    ASSUME NEW G, NEW W, Walked(W), Ground(G, W), CombinesFlat, NEW f, Sane(f, G, W), f.expr.kind \in Operators
    PROVE  Good(Operating(f), G, W)
<1>1. f.expr \in W /\ Over(f.scope, G) /\ f.vals \in Seq(G) /\ Sound(G, W)
  BY DEF Sane, Ground
<1>2. f.expr.kind \in Expressions \ {"literal", "scope", "tree", "hash"}
  BY DEF Expressions, Operators, Collections
<1>3. WellFormed(f.expr)
  BY <1>1, WellFormedWalked
<1>4. Len(f.expr.args) \in Nat /\ \A i \in 1 .. Len(f.expr.args) : f.expr.args[i] \in W
  BY <1>1, <1>2, OperandsWalked
<1>5. Len(f.vals) \in Nat
  BY <1>1
<1>6. /\ f.expr.kind # "construct" => Len(f.expr.args) >= 1
      /\ f.expr.kind = "index" => Len(f.expr.args) = 2
  <2>1. f.expr.kind \in {"cast", "field", "length", "concat", "range"} => Len(f.expr.args) \in 1 .. 1
    BY <1>3 DEF WellFormed
  <2>2. f.expr.kind \in {"arithmetic", "compare", "index"} => Len(f.expr.args) \in 2 .. 2
    BY <1>3 DEF WellFormed
  <2>3. f.expr.kind = "logic" => Len(f.expr.args) >= 1
    <3>1. f.expr.kind = "logic" => f.expr.args # <<>> /\ f.expr.args \in Seq(Range(f.expr.args))
      BY <1>2, <1>3 DEF WellFormed
    <3> QED
      BY <3>1
  <2>4. f.expr.kind = "construct" \/ f.expr.kind = "logic" \/ f.expr.kind \in {"arithmetic", "compare", "index"}
          \/ f.expr.kind \in {"cast", "field", "length", "concat", "range"}
    BY DEF Operators
  <2> QED
    BY <2>1, <2>2, <2>3, <2>4
<1>7. Arity(f.expr) \in Nat /\ Arity(f.expr) <= Len(f.expr.args)
  BY <1>4, <1>6 DEF Arity
<1>8. CASE Len(f.vals) < Arity(f.expr)
  <2>1. f.expr.args[Len(f.vals) + 1] \in W
    BY <1>4, <1>5, <1>7, <1>8
  <2> QED
    BY <1>1, <1>8, <2>1, GoodOperand DEF Operating
<1>9. CASE ~(Len(f.vals) < Arity(f.expr))
  <2>1. (f.expr.kind # "construct" => Len(f.vals) >= 1) /\ (f.expr.kind = "index" => Len(f.vals) >= 2)
    <3>1. f.expr.kind # "construct" => Arity(f.expr) >= 1
      BY <1>6 DEF Arity
    <3>2. f.expr.kind = "index" => Arity(f.expr) = 2
      BY <1>6 DEF Arity
    <3>3. Len(f.vals) >= Arity(f.expr)
      BY <1>5, <1>7, <1>9
    <3>4. f.expr.kind # "construct" => Len(f.vals) >= 1
      BY <1>5, <1>7, <3>1, <3>3
    <3>5. f.expr.kind = "index" => Len(f.vals) >= 2
      BY <1>5, <3>2, <3>3
    <3> QED
      BY <3>4, <3>5
  <2>2. f.expr.kind = "construct" => f.expr.type \notin CodeTypes
    BY <1>1, WellFormedWalked DEF BuildsData
  <2>3. Grows(G, W, Result(f.expr, f.vals))
    BY <1>1, <2>1, <2>2, ResultGrows
  <2> QED
    BY <1>9, <2>3, GoodReturn DEF Operating
<1> QED
  BY <1>8, <1>9

\* The text of an alias, its operands, and then their result.
LEMMA GoodStandingFor ==
    ASSUME NEW G, NEW W, Walked(W), Ground(G, W), CombinesFlat, NEW f, Sane(f, G, W), f.expr.kind = "alias"
    PROVE  Good(StandingFor(f), G, W)
<1>1. f.expr \in W /\ Over(f.scope, G) /\ f.vals \in Seq(G) /\ Sound(G, W)
  BY DEF Sane, Ground
<1>2. f.expr.kind \in Expressions \ {"literal", "scope", "tree", "hash"}
  BY DEF Expressions
<1>3. f.expr.args # <<>> /\ f.expr.of \in {"arithmetic", "compare", "logic", "field", "construct"}
      /\ f.expr.args \in Seq(Range(f.expr.args))
  BY <1>1, <1>2, WellFormedWalked DEF WellFormed
<1>4. Len(f.expr.args) \in Nat /\ \A i \in 1 .. Len(f.expr.args) : f.expr.args[i] \in W
  BY <1>1, <1>2, OperandsWalked
<1>5. Len(f.expr.args) >= 1 /\ f.expr.args[1] \in W
  <2>1. Len(f.expr.args) # 0
    BY <1>3
  <2> QED
    BY <1>4, <2>1
<1>6. Len(f.vals) \in Nat /\ (f.vals # <<>> => Len(f.vals) >= 1)
  BY <1>1
<1>7. PICK operator : operator = Inline(f.expr, f.vals[1].text)
  OBVIOUS
<1>8. operator.kind = f.expr.of /\ operator.args = Tail(f.expr.args)
  BY <1>7 DEF Inline
<1>9. Len(operator.args) = Len(f.expr.args) - 1
  BY <1>3, <1>8
<1>10. CASE f.vals = <<>>
  <2>1. StandingFor(f) = Fetching(f.expr.args[1], f.scope)
    BY <1>10 DEF StandingFor
  <2> QED
    BY <1>1, <1>5, <2>1, GoodReferences
<1>11. CASE f.vals # <<>> /\ (f.vals[1].kind # "text" \/ LacksOperands(f.expr))
  <2>1. StandingFor(f) = Returning(Minted("type_mismatch")) \/ StandingFor(f) = Returning(Minted("missing_argument"))
    BY <1>11 DEF StandingFor
  <2> QED
    BY <1>1, <2>1, GoodMinted
<1>12. CASE f.vals # <<>> /\ f.vals[1].kind = "text" /\ ~LacksOperands(f.expr)
  <2>1. Len(f.expr.args) - 1 >= LeastOperands(f.expr.of)
    BY <1>3, <1>4, <1>12 DEF LacksOperands, LeastOperands
  <2>2. /\ Arity(operator) \in Nat /\ Arity(operator) <= Len(f.expr.args) - 1
        /\ f.expr.of # "construct" => Arity(operator) >= 1
    BY <1>3, <1>4, <1>8, <1>9, <2>1 DEF Arity, LeastOperands
  <2>3. CASE Len(f.vals) > Arity(operator)
    <3>1. PICK values : values = Tail(f.vals)
      OBVIOUS
    <3>2. values \in Seq(G) /\ Len(values) = Len(f.vals) - 1
      BY <1>1, <1>12, <3>1
    <3>3. operator.kind # "construct" => Len(values) >= 1
      BY <1>6, <1>8, <2>2, <2>3, <3>2
    <3>4. operator.kind \in Operators \ {"index", "construct"}
      BY <1>1, <1>3, <1>8, WellFormedWalked DEF Operators, BuildsData
    <3>5. Grows(G, W, Result(operator, values))
      BY <1>1, <3>2, <3>3, <3>4, ResultGrows
    <3>6. StandingFor(f) = Returning(Result(operator, values))
      BY <1>7, <1>12, <2>3, <3>1 DEF StandingFor
    <3> QED
      BY <3>5, <3>6, GoodReturn
  <2>4. CASE ~(Len(f.vals) > Arity(operator))
    <3>1. f.expr.args[Len(f.vals) + 1] \in W
      BY <1>4, <1>6, <2>2, <2>4
    <3>2. StandingFor(f) = Operand(f.expr, f)
      BY <1>7, <1>12, <2>4 DEF StandingFor
    <3> QED
      BY <1>1, <3>1, <3>2, GoodOperand
  <2> QED
    BY <2>3, <2>4
<1> QED
  BY <1>10, <1>11, <1>12

\* The function, its arguments, and then its body over what they came to.
LEMMA GoodApplying ==
    ASSUME NEW G, NEW W, Walked(W), Ground(G, W), NEW f, Sane(f, G, W), f.expr.kind = "apply"
    PROVE  Good(Applying(f), G, W)
<1>1. f.expr \in W /\ Over(f.scope, G) /\ f.vals \in Seq(G) /\ Sound(G, W)
  BY DEF Sane, Ground
<1>2. f.expr.kind \in Expressions \ {"literal", "scope", "tree", "hash"}
  BY DEF Expressions
<1>3. Len(f.expr.args) = Len(f.expr.names) + 1 /\ f.expr.names \in Seq(Range(f.expr.names))
  BY <1>1, WellFormedWalked DEF WellFormed
<1>4. \A i \in 1 .. Len(f.expr.args) : f.expr.args[i] \in W
  BY <1>1, <1>2, OperandsWalked
<1>5. Len(f.expr.names) \in Nat /\ DOMAIN f.expr.names = 1 .. Len(f.expr.names)
  BY <1>3
<1>6. f.expr.args[1] \in W /\ \A i \in DOMAIN f.expr.names : f.expr.args[1 + i] \in W
  BY <1>3, <1>4, <1>5
<1>7. f.vals # <<>> => f.vals[1] \in G /\ Tail(f.vals) \in Seq(G)
  BY <1>1
<1> DEFINE given == {i \in DOMAIN f.expr.names : f.expr.names[i] = f.vals[1].params[Len(f.vals)]}
           chosen == CHOOSE i \in given : TRUE
<1>8. given # {} => f.expr.args[1 + chosen] \in W
  <2>1. given # {} => chosen \in given
    <3> HIDE DEF given
    <3> QED
      OBVIOUS
  <2>2. given # {} => chosen \in DOMAIN f.expr.names
    BY <2>1
  <2> QED
    BY <1>6, <2>2
<1> HIDE DEF given
<1>9. f.vals # <<>> /\ f.vals[1].kind = "closure" =>
        Good(Continuing(f.vals[1].body, Bind(f.vals[1].env, f.vals[1].params, Tail(f.vals))), G, W)
  <2>1. SUFFICES ASSUME f.vals # <<>>, f.vals[1].kind = "closure"
                 PROVE  Good(Continuing(f.vals[1].body, Bind(f.vals[1].env, f.vals[1].params, Tail(f.vals))), G, W)
    OBVIOUS
  <2>2. f.vals[1].body \in W /\ Over(f.vals[1].env, G)
    BY <1>1, <1>7, <2>1 DEF Sound
  <2>3. Over(Bind(f.vals[1].env, f.vals[1].params, Tail(f.vals)), G)
    BY <1>7, <2>1, <2>2, BindOver
  <2> QED
    BY <2>2, <2>3, GoodReferences
<1>10. Good(Asking(f.expr.args[1], f.scope), G, W)
  BY <1>1, <1>6, GoodReferences
<1>11. given # {} => Good(Asking(f.expr.args[1 + chosen], f.scope), G, W)
  BY <1>1, <1>8, GoodReferences
<1>12. Applying(f) = IF f.vals = <<>> THEN Asking(f.expr.args[1], f.scope)
    ELSE IF f.vals[1].kind # "closure" THEN Returning(Minted("type_mismatch"))
    ELSE IF f.vals[1].broken # None THEN Returning(Minted(f.vals[1].broken))
    ELSE IF Saturated(f)
         THEN Continuing(f.vals[1].body, Bind(f.vals[1].env, f.vals[1].params, Tail(f.vals)))
    ELSE IF given = {} THEN Returning(Minted("missing_argument"))
    ELSE Asking(f.expr.args[1 + chosen], f.scope)
  BY DEF Applying, given
<1> HIDE DEF chosen
<1> QED
  BY <1>1, <1>9, <1>10, <1>11, <1>12, GoodMinted

\* A function of W applied to values at hand.
LEMMA GoodApplyingTo ==
    ASSUME NEW G, NEW W, Ground(G, W), NEW c \in G, c.kind = "closure", NEW values \in Seq(G)
    PROVE  Good(ApplyingTo(c, values), G, W)
<1>1. Sound(G, W) /\ c.body \in W /\ Over(c.env, G)
  BY DEF Ground, Sound
<1>2. Over(Bind(c.env, c.params, values), G)
  BY <1>1, BindOver
<1>3. Good(Fetching(c.body, Bind(c.env, c.params, values)), G, W)
  BY <1>1, <1>2, GoodReferences
<1> QED
  BY <1>1, <1>3, GoodMinted DEF ApplyingTo

\* An argument of no use ends a collection; so it goes on with the others only.
LEMMA UnfitEnds ==
    ASSUME NEW G, NEW f, f.expr.kind \in Collections, f.vals \in Seq(G), Fitted(f), Unfit(f) = None
    PROVE  Waiting(f)
<1>1. PICK n \in Nat : n = Len(f.vals)
  OBVIOUS
<1>2. ASSUME Len(f.vals) = 1 PROVE f.vals[1].kind = "array"
  <2>1. f.vals[1].kind # "array" => Unfit(f) = "type_mismatch"
    BY <1>2 DEF Unfit
  <2> QED
    BY <2>1, NoneIsNoCode
<1>3. ASSUME Len(f.vals) = 2, f.expr.kind # "assoc" PROVE f.vals[2].kind = "closure"
  <2>1. f.vals[2].kind # "closure" => Unfit(f) = "type_mismatch"
    BY <1>3 DEF Unfit
  <2> QED
    BY <2>1, NoneIsNoCode
<1>4. Len(f.vals) >= 2 => f.vals[1].kind = "array"
  BY DEF Fitted
<1>5. Len(f.vals) >= 3 /\ f.expr.kind # "assoc" => f.vals[2].kind = "closure"
  BY DEF Fitted
<1>6. n >= 1 => n = 1 \/ n >= 2
  OBVIOUS
<1>7. n >= 2 => n = 2 \/ n >= 3
  OBVIOUS
<1> QED
  BY <1>1, <1>2, <1>3, <1>4, <1>5, <1>6, <1>7 DEF Waiting

\* Arguments, and then the function over the elements: a collection that goes on
\* has its array and its function.
LEMMA GoodCollecting ==
    ASSUME NEW G, NEW W, Walked(W), Ground(G, W), NEW f, Sane(f, G, W), f.expr.kind \in Collections
    PROVE  /\ Good(Collecting(f), G, W)
           /\ Collecting(f).move \in {"give", "call"} => Waiting(f)
<1>1. f.expr \in W /\ Over(f.scope, G) /\ f.vals \in Seq(G) /\ Sound(G, W) /\ Fitted(f)
  BY DEF Sane, Ground
<1>2. f.expr.kind \in Expressions \ {"literal", "scope", "tree", "hash"}
  BY DEF Expressions, Operators, Collections
<1>3. /\ f.expr.kind \in {"map", "filter", "group"} => Len(f.expr.args) \in 2 .. 2
      /\ f.expr.kind \in {"fold", "assoc"} => Len(f.expr.args) \in 3 .. 3
  <2>1. WellFormed(f.expr)
    BY <1>1, WellFormedWalked
  <2> QED
    BY <2>1 DEF WellFormed
<1>4. Len(f.expr.args) \in Nat /\ \A i \in 1 .. Len(f.expr.args) : f.expr.args[i] \in W
  BY <1>1, <1>2, OperandsWalked
<1>5. Len(f.vals) \in Nat /\ \A i \in 1 .. Len(f.vals) : f.vals[i] \in G
  BY <1>1
<1>6. CASE Unfit(f) # None
  <2>1. Collecting(f) = Returning(Minted(Unfit(f)))
    BY <1>6 DEF Collecting
  <2>2. Collecting(f).move = "return"
    BY <2>1 DEF Returning
  <2> QED
    BY <1>1, <2>1, <2>2, GoodMinted
<1>7. CASE Unfit(f) = None /\ MoreArguments(f)
  <2>1. f.expr.args[Len(f.vals) + 1] \in W
    BY <1>4, <1>5, <1>7 DEF MoreArguments
  <2>2. Collecting(f) = Fetching(f.expr.args[Len(f.vals) + 1], f.scope)
    BY <1>7 DEF Collecting
  <2> QED
    BY <1>1, <1>7, <2>1, <2>2, GoodReferences, UnfitEnds
<1>8. CASE Unfit(f) = None /\ ~MoreArguments(f)
  <2>1. Waiting(f)
    BY <1>1, <1>8, UnfitEnds
  <2>2. Len(f.vals) >= Len(f.expr.args)
    BY <1>4, <1>5, <1>8 DEF MoreArguments
  <2>3. Len(f.vals) >= 2 /\ (f.expr.kind \in {"fold", "assoc"} => Len(f.vals) >= 3)
    <3>1. f.expr.kind \in {"map", "filter", "group"} \/ f.expr.kind \in {"fold", "assoc"}
      BY DEF Collections
    <3>3. PICK m : m = Len(f.expr.args)
      OBVIOUS
    <3>4. m \in 2 .. 2 \/ m \in 3 .. 3
      BY <1>3, <3>1, <3>3
    <3>5. f.expr.kind \in {"fold", "assoc"} => m \in 3 .. 3
      BY <1>3, <3>3
    <3>6. m >= 2
      BY <3>4
    <3>7. m \in 3 .. 3 => m >= 3
      OBVIOUS
    <3>2. Len(f.expr.args) >= 2 /\ (f.expr.kind \in {"fold", "assoc"} => Len(f.expr.args) >= 3)
      BY <3>3, <3>5, <3>6, <3>7
    <3> QED
      BY <1>4, <1>5, <2>2, <3>2
  <2>4. f.vals[1].kind = "array" /\ (f.expr.kind # "assoc" => f.vals[2].kind = "closure")
    BY <2>1, <2>3 DEF Waiting
  <2>5. f.vals[1] \in G /\ f.vals[2] \in G /\ Last(f.vals) \in G
    <3>1. 1 \in 1 .. Len(f.vals) /\ 2 \in 1 .. Len(f.vals) /\ Len(f.vals) \in 1 .. Len(f.vals)
      BY <1>5, <2>3
    <3> QED
      BY <1>5, <3>1 DEF Last
  <2>6. f.vals[1].items \in Seq(G)
    BY <1>1, <2>4, <2>5 DEF Sound
  <2>7. CASE MoreElements(f)
    <3>1. PICK item : item = f.vals[1].items[Applied(f) + 1]
      OBVIOUS
    <3>2. item \in G
      <4>1. Applied(f) \in Nat /\ Applied(f) < Len(f.vals[1].items)
        <5>1. PICK n \in Nat, m \in Nat : n = Len(f.vals) /\ m = Len(f.expr.args)
          BY <1>4, <1>5
        <5>2. Applied(f) = n - m /\ n >= m
          BY <2>2, <5>1 DEF Applied
        <5>3. Applied(f) < Len(f.vals[1].items)
          BY <2>7 DEF MoreElements
        <5>4. n - m \in Nat
          BY <5>2
        <5> QED
          BY <5>2, <5>3, <5>4
      <4>2. Applied(f) + 1 \in 1 .. Len(f.vals[1].items)
        BY <2>6, <4>1
      <4> QED
        BY <2>6, <3>1, <4>2
    <3>3. PICK value : value = AsValue(Last(f.vals))
      OBVIOUS
    <3>4. value \in G \/ Flat(value)
      BY <1>1, <2>5, <3>3, PutAway
    <3>5. PICK More : G \subseteq More /\ Sound(More, W) /\ value \in More
      <4>1. Grows(G, W, value)
        BY <1>1, <3>4, GrowsEither
      <4> QED
        BY <4>1 DEF Grows
    <3>6. Ground(More, W) /\ f.vals[2] \in More /\ item \in More
      BY <2>5, <3>2, <3>5 DEF Ground
    <3>7. NextElement(f) = IF f.expr.kind = "fold" THEN <<value, item>> ELSE <<item>>
      BY <3>1, <3>3 DEF NextElement
    <3>8. PICK values : values = NextElement(f)
      OBVIOUS
    <3>9. values \in Seq(More)
      BY <3>5, <3>6, <3>7, <3>8
    <3>10. f.vals[2].kind = "closure"
      BY <2>4, <2>7 DEF MoreElements
    <3>11. Good(ApplyingTo(f.vals[2], values), More, W)
      BY <3>6, <3>9, <3>10, GoodApplyingTo
    <3>12. Collecting(f) = ApplyingTo(f.vals[2], values)
      BY <1>8, <2>7, <3>8 DEF Collecting
    <3> QED
      BY <2>1, <3>5, <3>11, <3>12, GoodMore
  <2>8. CASE ~MoreElements(f)
    <3>1. Collecting(f) = Returning(Collected(f))
      BY <1>8, <2>8 DEF Collecting
    <3>2. Grows(G, W, Collected(f))
      BY <1>1, <2>3, <2>4, CollectedGrows
    <3>3. Good(Returning(Collected(f)), G, W)
      BY <3>2, GoodReturn
    <3> QED
      BY <2>1, <3>1, <3>3
  <2> QED
    BY <2>7, <2>8
<1> QED
  BY <1>6, <1>7, <1>8

\* The writes are of values at hand.
WrittenOver(ws, G) == Sequence(ws) /\ \A i \in DOMAIN ws : ws[i].value \in G

\* What store binds is at hand or made of it.
LEMMA WrittenGrows ==
    ASSUME NEW G, NEW W, Sound(G, W), NEW v \in G
    PROVE  Grows(G, W, Written(v))
<1>1. CASE EntityLike(v)
  <2>1. PICK x : x = AsValue(v)
    OBVIOUS
  <2>2. x \in G \/ Flat(x)
    BY <2>1, PutAway
  <2>3. Flat(x) => Materialized(x) = x
    BY DEF Flat, Materialized
  <2>4. Materialized(x) \in G \/ Flat(Materialized(x))
    BY <2>2, <2>3, PutAway
  <2>5. Written(v) = Materialized(x)
    BY <1>1, <2>1 DEF Written
  <2> QED
    BY <2>4, <2>5, GrowsEither
<1>2. CASE ~EntityLike(v)
  <2>1. PICK fields : fields = <<v>>
    OBVIOUS
  <2>2. Over(fields, G)
    BY <2>1 DEF Over
  <2>3. PICK w : w = [kind |-> "entity", names |-> <<>>, fields |-> fields]
    OBVIOUS
  <2>4. w.kind = "entity" /\ w.fields = fields
    BY <2>3
  <2>5. Grows(G, W, w)
    BY <2>2, <2>4, GrowsBy
  <2>6. Written(v) = w
    BY <1>2, <2>1, <2>3 DEF Written
  <2> QED
    BY <2>5, <2>6
<1> QED
  BY <1>1, <1>2

\* Where to, what, and then what was bound.
LEMMA GoodStoring ==
    ASSUME NEW G, NEW W, Walked(W), Ground(G, W), NEW f, Sane(f, G, W), f.expr.kind = "store"
    PROVE  Good(Storing(f), G, W)
<1>1. f.expr \in W /\ Over(f.scope, G) /\ f.vals \in Seq(G) /\ Sound(G, W)
  BY DEF Sane, Ground
<1>2. f.expr.kind \in Expressions \ {"literal", "scope", "tree", "hash"}
  BY DEF Expressions
<1>3. Len(f.expr.args) \in 2 .. 2
  BY <1>1, WellFormedWalked DEF WellFormed
<1>4. \A i \in 1 .. Len(f.expr.args) : f.expr.args[i] \in W
  BY <1>1, <1>2, OperandsWalked
<1>5. f.expr.args[1] \in W /\ f.expr.args[2] \in W
  BY <1>3, <1>4
<1>6. Good(Fetching(f.expr.args[1], f.scope), G, W) /\ Good(Fetching(f.expr.args[2], f.scope), G, W)
  BY <1>1, <1>5, GoodReferences
<1>7. Len(f.vals) = 2 => f.vals[2] \in G
  BY <1>1
<1>8. Len(f.vals) = 2 => Good(Returning(Written(f.vals[2])), G, W)
  BY <1>1, <1>7, WrittenGrows, GoodReturn
<1> QED
  BY <1>1, <1>6, <1>8, GoodMinted DEF Storing

\* What is found at rest and does not run is a value at hand.
LEMMA RestingGrows ==
    ASSUME NEW G, NEW W, Ground(G, W), NEW n, Holds(n), ~Runs(n), n.kind # "missing"
    PROVE  n.kind = "stored" /\ Grows(G, W, n.value)
<1>1. n.kind = "stored"
  BY DEF Holds, Runs
<1>2. n.value.kind = "error" \/ n.value \in Bare
  BY <1>1 DEF Holds, Runs
<1>3. n.value \in G \/ Flat(n.value)
  BY <1>2 DEF Ground, Flat
<1> QED
  BY <1>1, <1>3, GrowsEither DEF Ground

\* A path leads to what was written there or to what the tree has there.
LEMMA GoodLooking ==
    ASSUME NEW G, NEW W, Walked(W), Ground(G, W), NEW f, Sane(f, G, W), f.expr.kind = "tree",
           NEW ws, WrittenOver(ws, G)
    PROVE  Good(Looking(f.expr.path, f.scope, ws), G, W)
<1>1. f.expr \in W /\ Sound(G, W)
  BY DEF Sane, Ground
<1>2. PICK path : path = f.expr.path
  OBVIOUS
<1>3. PICK target : target = Bound(ws, path)
  OBVIOUS
<1>4. CASE path \notin Readable \/ target = None
  <2>1. Looking(path, f.scope, ws) = Returning(Minted("permission_denied"))
          \/ Looking(path, f.scope, ws) = Returning(Minted("not_found"))
    BY <1>3, <1>4 DEF Looking
  <2> QED
    BY <1>1, <1>2, <2>1, GoodMinted
<1>5. CASE path \in Readable /\ target # None
  <2> DEFINE here == {i \in DOMAIN ws : ws[i].path = path}
             latest == CHOOSE i \in here : \A j \in here : j <= i
  <2>1. target = IF here = {} THEN Tree[path] ELSE ReadBack(ws[latest].value)
    BY <1>3 DEF Bound
  <2>2. target.kind = "stored" /\ Grows(G, W, target.value)
    <3>1. CASE here = {}
      <4>1. target = Tree[path]
        BY <2>1, <3>1
      <4>2. path \in DOMAIN Tree /\ Tree[path].kind # "missing" /\ Holds(Tree[path])
        BY <1>5, <4>1, TreeHoldsEntities
      <4>3. ~Runs(Tree[path])
        BY <1>1, <1>2, <1>5, <4>1 DEF Walked
      <4> QED
        BY <4>1, <4>2, <4>3, RestingGrows
    <3>2. CASE here # {}
      <4>1. PICK X : ws \in Seq(X)
        BY DEF WrittenOver, Sequence
      <4>2. Len(ws) \in Nat /\ DOMAIN ws = 1 .. Len(ws)
        BY <4>1
      <4>3. here \in SUBSET (1 .. Len(ws))
        BY <4>2
      <4>4. latest \in here
        <5> HIDE DEF here
        <5>1. \E i \in here : \A j \in here : j <= i
          BY <3>2, <4>2, <4>3, LastPosition
        <5> QED
          BY <5>1
      <4>5. latest \in DOMAIN ws
        BY <4>4
      <4>6. ws[latest].value \in G
        BY <4>5 DEF WrittenOver
      <4> HIDE DEF here, latest
      <4>7. target.kind = "stored" /\ target.value = ws[latest].value
        BY <1>1, <2>1, <3>2, <4>6 DEF ReadBack, Sound
      <4> QED
        BY <1>1, <4>6, <4>7, Already
    <3> QED
      BY <3>1, <3>2
  <2>3. target.kind \notin Expressions
    BY <2>2 DEF Expressions, Operators, Collections
  <2>4. Looking(path, f.scope, ws) = Returning(target.value)
    BY <1>3, <1>5, <2>3 DEF Looking
  <2> QED
    BY <1>2, <2>2, <2>4, GoodReturn
<1> QED
  BY <1>4, <1>5

\* A hash of the walk leads to something at rest.
LEMMA GoodFollowing ==
    ASSUME NEW G, NEW W, Walked(W), Ground(G, W), NEW f, Sane(f, G, W), f.expr.kind = "hash"
    PROVE  Good(Following(f.expr.args[1], f.scope), G, W)
<1>1. f.expr \in W /\ Sound(G, W)
  BY DEF Sane, Ground
<1>2. PICK n : n = f.expr.args[1]
  OBVIOUS
<1>3. Holds(n) /\ ~Runs(n)
  BY <1>1, <1>2 DEF Walked, Decoded
<1>4. CASE ~Resolves(n)
  BY <1>1, <1>2, <1>4, GoodMinted DEF Following
<1>5. CASE Resolves(n)
  <2>1. n.kind # "missing"
    BY <1>5 DEF Resolves
  <2>2. n.kind = "stored" /\ Grows(G, W, n.value)
    BY <1>3, <2>1, RestingGrows
  <2>3. Following(n, f.scope) = Returning(n.value)
    BY <1>5, <2>2 DEF Following
  <2> QED
    BY <1>2, <2>2, <2>3, GoodReturn
<1> QED
  BY <1>4, <1>5

\* An error on the way out is one at hand or one made from it.
LEMMA GoodReport ==
    ASSUME NEW G, NEW W, Ground(G, W), NEW f, Sane(f, G, W), ShortCircuits(f)
    PROVE  Good(Returning(Reported(f, Last(f.vals))), G, W)
<1>1. Sound(G, W) /\ f.vals \in Seq(G) /\ f.vals # <<>>
  BY DEF Sane, Ground, ShortCircuits
<1>2. PICK v \in G : v = Last(f.vals)
  BY <1>1 DEF Last
<1>3. Reported(f, v) = v \/ Reported(f, v) = Minted(v.code)
  BY DEF Reported
<1>4. Good(Returning(v), G, W)
  BY <1>1, Already, GoodReturn
<1> QED
  BY <1>1, <1>2, <1>3, <1>4, GoodMinted

\* What an expression of the walk does next keeps to the walk, and a collection
\* that goes on has its array and its function.
LEMMA DecisionsAreGood ==
    ASSUME NEW G, NEW W, Walked(W), Ground(G, W), CombinesFlat, NEW f, Sane(f, G, W),
           ShortCircuits(f) \/ f.expr.kind \in Expressions \cup {"stored"}, NEW ws, WrittenOver(ws, G)
    PROVE  /\ Good(Decision(f, ws), G, W)
           /\ Decision(f, ws).move \in {"give", "call"} => Waiting(f)
<1>1. f.expr \in W /\ Over(f.scope, G) /\ Sound(G, W)
  BY DEF Sane, Ground
<1>2. CASE ShortCircuits(f)
  <2>1. Decision(f, ws) = Returning(Reported(f, Last(f.vals)))
    BY <1>2 DEF Decision
  <2>2. Decision(f, ws).move = "return"
    BY <2>1 DEF Returning
  <2> QED
    BY <1>2, <2>1, <2>2, GoodReport
<1>3. CASE ~ShortCircuits(f) /\ f.expr.kind \in Collections
  <2>1. Decision(f, ws) = Collecting(f)
    BY <1>3 DEF Decision, Collections, Operators
  <2> QED
    BY <1>3, <2>1, GoodCollecting
<1>4. CASE ~ShortCircuits(f) /\ f.expr.kind \notin Collections
  <2>0. Waiting(f)
    BY <1>4 DEF Waiting
  <2>1. CASE f.expr.kind = "literal"
    <3>1. Decision(f, ws) = Returning(f.expr.value)
      BY <1>4, <2>1 DEF Decision
    <3>2. f.expr.value \in G
      BY <1>1, <2>1 DEF Walked, Decoded, Ground
    <3> QED
      BY <1>1, <2>0, <3>1, <3>2, Already, GoodReturn
  <2>2. CASE f.expr.kind = "scope"
    <3>1. PICK v : v = IF f.expr.name \in DOMAIN f.scope THEN f.scope[f.expr.name] ELSE Minted("not_found")
      OBVIOUS
    <3>2. Decision(f, ws) = Returning(v)
      BY <1>4, <2>2, <3>1 DEF Decision
    <3>3. v \in G \/ Flat(v)
      BY <1>1, <3>1, MintedIsFlat DEF Over
    <3> QED
      BY <1>1, <2>0, <3>2, <3>3, GrowsEither, GoodReturn
  <2>3. CASE f.expr.kind = "tree"
    <3>1. Decision(f, ws) = Looking(f.expr.path, f.scope, ws)
      BY <1>4, <2>3 DEF Decision
    <3> QED
      BY <2>0, <2>3, <3>1, GoodLooking
  <2>4. CASE f.expr.kind = "hash"
    <3>1. Decision(f, ws) = Following(f.expr.args[1], f.scope)
      BY <1>4, <2>4 DEF Decision
    <3> QED
      BY <2>0, <2>4, <3>1, GoodFollowing
  <2>5. CASE f.expr.kind = "if"
    <3>1. Decision(f, ws) = Branching(f)
      BY <1>4, <2>5 DEF Decision
    <3> QED
      BY <2>0, <2>5, <3>1, GoodBranching
  <2>6. CASE f.expr.kind = "let"
    <3>1. Decision(f, ws) = Binding(f)
      BY <1>4, <2>6 DEF Decision
    <3> QED
      BY <2>0, <2>6, <3>1, GoodBinding
  <2>7. CASE f.expr.kind = "lambda"
    <3>1. Decision(f, ws) = Returning(Closure(f.expr.names, f.expr.args[1], Captured(f.scope), None))
      BY <1>4, <2>7 DEF Decision
    <3> QED
      BY <2>0, <2>7, <3>1, GoodLambda
  <2>8. CASE f.expr.kind \in Operators
    <3>1. Decision(f, ws) = Operating(f)
      BY <1>4, <2>8 DEF Decision, Operators
    <3> QED
      BY <2>0, <2>8, <3>1, GoodOperating
  <2>9. CASE f.expr.kind = "alias"
    <3>1. Decision(f, ws) = StandingFor(f)
      BY <1>4, <2>9 DEF Decision, Operators
    <3> QED
      BY <2>0, <2>9, <3>1, GoodStandingFor
  <2>10. CASE f.expr.kind = "malformed"
    <3>1. Decision(f, ws) = Returning(Minted("invalid_expression"))
      BY <1>4, <2>10 DEF Decision, Operators
    <3> QED
      BY <1>1, <2>0, <3>1, GoodMinted
  <2>11. CASE f.expr.kind = "apply"
    <3>1. Decision(f, ws) = Applying(f)
      BY <1>4, <2>11 DEF Decision, Operators
    <3> QED
      BY <2>0, <2>11, <3>1, GoodApplying
  <2>12. CASE f.expr.kind = "store"
    <3>1. Decision(f, ws) = Storing(f)
      BY <1>4, <2>12 DEF Decision, Operators, Collections
    <3> QED
      BY <2>0, <2>12, <3>1, GoodStoring
  <2>13. CASE f.expr.kind = "stored"
    <3>1. PICK v : v = IF f.expr.value.kind = "entity" THEN Minted("unknown_type") ELSE f.expr.value
      OBVIOUS
    <3>2. Decision(f, ws) = Returning(v)
      BY <1>4, <2>13, <3>1 DEF Decision, Operators, Collections
    <3>3. f.expr.value \in G
      BY <1>1, <2>13 DEF Ground, AtRest
    <3>4. v \in G \/ Flat(v)
      BY <3>1, <3>3, MintedIsFlat
    <3> QED
      BY <1>1, <2>0, <3>2, <3>4, GrowsEither, GoodReturn
  <2> QED
    BY <1>4, <2>1, <2>2, <2>3, <2>4, <2>5, <2>6, <2>7, <2>8, <2>9, <2>10, <2>11, <2>12, <2>13
       DEF Expressions
<1> QED
  BY <1>2, <1>3, <1>4

--------------------------------------------------------------------------------
(* Frames over what has been walked *)

\* All but the innermost wait for a value.
Framed(s, G, W) == \A i \in 1 .. Len(s) : Sane(s[i], G, W) /\ (i >= 2 => Waiting(s[i]))

\* A frame over values at hand is one over more of them.
LEMMA FramedMore ==
    ASSUME NEW G, NEW More, NEW W, G \subseteq More, NEW s, Framed(s, G, W)
    PROVE  Framed(s, More, W)
<1>1. ASSUME NEW f, Sane(f, G, W) PROVE Sane(f, More, W)
  BY <1>1, OverMore, SequencesOverMore DEF Sane
<1> QED
  BY <1>1 DEF Framed

\* A collection that waits for a value is fit for it.
LEMMA HandedSane ==
    ASSUME NEW G, NEW W, NEW E, NEW C, NEW V, NEW f \in Frames(E, C, V),
           Sane(f, G, W), Waiting(f), NEW v \in G
    PROVE  Sane(With(f, v), G, W)
<1>1. PICK h : h = With(f, v)
  OBVIOUS
<1>2. h.expr = f.expr /\ h.scope = f.scope /\ h.vals = Append(f.vals, v)
  BY <1>1 DEF With, Frames
<1>3. f.vals \in Seq(G) /\ Over(f.scope, G) /\ f.expr \in W
  BY DEF Sane
<1>4. /\ h.vals \in Seq(G) /\ Len(h.vals) = Len(f.vals) + 1 /\ Len(f.vals) \in Nat
      /\ \A i \in 1 .. Len(f.vals) : h.vals[i] = f.vals[i]
  BY <1>2, <1>3
<1>5. Fitted(h)
  <2>1. SUFFICES ASSUME f.expr.kind \in Collections PROVE Fitted(h)
    BY <1>2 DEF Fitted
  <2>2. PICK n \in Nat : n = Len(f.vals)
    BY <1>4
  <2>3. n + 1 >= 2 => n >= 1 /\ 1 \in 1 .. n
    OBVIOUS
  <2>4. n + 1 >= 3 => n >= 2 /\ 2 \in 1 .. n
    OBVIOUS
  <2>5. n + 1 >= 2 => h.vals[1].kind = "array"
    BY <1>4, <2>1, <2>2, <2>3 DEF Waiting
  <2>6. n + 1 >= 3 /\ f.expr.kind # "assoc" => h.vals[2].kind = "closure"
    BY <1>4, <2>1, <2>2, <2>4 DEF Waiting
  <2> QED
    BY <1>2, <1>4, <2>2, <2>5, <2>6 DEF Fitted
<1> QED
  BY <1>1, <1>2, <1>3, <1>4, <1>5 DEF Sane

\* A frame that has no values yet is fit for whatever comes.
LEMMA FreshSane ==
    ASSUME NEW G, NEW W, NEW n \in W, NEW s, Over(s, G)
    PROVE  Sane(Frame(n, s), G, W)
<1>1. PICK f : f = Frame(n, s)
  OBVIOUS
<1>2. f.expr = n /\ f.scope = s /\ f.vals = <<>>
  BY <1>1 DEF Frame
<1>3. f.vals \in Seq(G) /\ Len(f.vals) = 0
  BY <1>2
<1>4. Fitted(f)
  BY <1>3 DEF Fitted
<1> QED
  BY <1>1, <1>2, <1>3, <1>4 DEF Sane

\* What is under the innermost frame waits for it.
LEMMA FramedBelow ==
    ASSUME NEW G, NEW W, NEW s, Stacked(s), s # <<>>, Framed(s, G, W)
    PROVE  /\ Sane(Head(s), G, W)
           /\ Stacked(Tail(s)) /\ Framed(Tail(s), G, W)
           /\ Len(s) # 1 => Tail(s) # <<>> /\ Waiting(Head(Tail(s)))
<1>1. PICK E, C, V : s \in Seq(Frames(E, C, V))
  BY DEF Stacked
<1>2. PICK t \in Seq(Frames(E, C, V)) : t = Tail(s)
  BY <1>1, Below
<1>3. /\ Head(s) = s[1] /\ Len(s) \in Nat \ {0} /\ Len(t) = Len(s) - 1
      /\ \A i \in 1 .. Len(s) - 1 : t[i] = s[i + 1]
  BY <1>1, <1>2, Below
<1>4. Sane(Head(s), G, W)
  BY <1>3 DEF Framed
<1>5. \A i \in 1 .. Len(t) : i + 1 \in 1 .. Len(s) /\ i + 1 >= 2 /\ t[i] = s[i + 1]
  BY <1>3
<1>6. \A i \in 1 .. Len(t) : Sane(t[i], G, W) /\ Waiting(t[i])
  BY <1>5 DEF Framed
<1>7. Stacked(t) /\ Framed(t, G, W)
  BY <1>6 DEF Stacked, Framed
<1>8. Len(s) # 1 => t # <<>> /\ Waiting(Head(t))
  <2>1. SUFFICES ASSUME Len(s) # 1 PROVE t # <<>> /\ Waiting(Head(t))
    OBVIOUS
  <2>2. Len(t) # 0 /\ 1 \in 1 .. Len(t)
    BY <1>3, <2>1
  <2>3. t # <<>> /\ Head(t) = t[1]
    BY <2>2
  <2> QED
    BY <1>6, <2>2, <2>3
<1> QED
  BY <1>2, <1>4, <1>7, <1>8

\* The innermost frame gives way to another one.
LEMMA FramedReplaced ==
    ASSUME NEW G, NEW W, NEW s, Stacked(s), s # <<>>, Framed(s, G, W), NEW f, Sane(f, G, W),
           NEW E, NEW C, NEW V, s \in Seq(Frames(E, C, V)), f \in Frames(E, C, V)
    PROVE  Framed(<<f>> \o Tail(s), G, W)
<1>1. PICK t : t = <<f>> \o Tail(s)
  OBVIOUS
<1>2. t \in Seq(Frames(E, C, V)) /\ t # <<>> /\ Len(t) = Len(s) /\ Head(t) = f
      /\ \A i \in 2 .. Len(s) : t[i] = s[i]
  BY <1>1, Replaced
<1>3. Len(s) \in Nat /\ t[1] = f
  BY <1>2
<1>4. ASSUME NEW i \in 1 .. Len(t) PROVE Sane(t[i], G, W) /\ (i >= 2 => Waiting(t[i]))
  <2>1. i = 1 \/ (i >= 2 /\ i \in 2 .. Len(s) /\ i \in 1 .. Len(s))
    BY <1>2, <1>3
  <2>2. ASSUME i = 1 PROVE Sane(t[i], G, W) /\ ~(i >= 2)
    BY <1>3, <2>2
  <2>3. ASSUME i >= 2, i \in 2 .. Len(s), i \in 1 .. Len(s) PROVE Sane(t[i], G, W) /\ Waiting(t[i])
    BY <1>2, <2>3 DEF Framed
  <2> QED
    BY <2>1, <2>2, <2>3
<1> QED
  BY <1>1, <1>4 DEF Framed

\* The innermost frame is handed a value.
LEMMA GiveFramed ==
    ASSUME NEW G, NEW W, NEW s, Stacked(s), s # <<>>, Framed(s, G, W), Waiting(Head(s)), NEW v \in G
    PROVE  Framed(<<With(Head(s), v)>> \o Tail(s), G, W)
<1>1. PICK E, C, V : s \in Seq(Frames(E, C, V)) /\ v \in V
  BY Room
<1>2. Head(s) \in Frames(E, C, V)
  BY <1>1, Below
<1>3. PICK f : f = With(Head(s), v)
  OBVIOUS
<1>4. f \in Frames(E, C, V)
  BY <1>1, <1>2, <1>3, Handed
<1>5. Sane(f, G, W)
  BY <1>2, <1>3, FramedBelow, HandedSane
<1> QED
  BY <1>1, <1>3, <1>4, <1>5, FramedReplaced

\* A stack may be taken over sets with room for one more frame.
LEMMA FrameFits ==
    ASSUME NEW s, Stacked(s), NEW n, NEW c
    PROVE  \E E, C, V : s \in Seq(Frames(E, C, V)) /\ Frame(n, c) \in Frames(E, C, V)
<1>1. PICK E, C, V : s \in Seq(Frames(E, C, V)) /\ n \in E /\ c \in C /\ n \in V
  BY Room
<1>2. Frame(n, c) \in Frames(E, C, V)
  BY <1>1 DEF Frame, Frames
<1> QED
  BY <1>1, <1>2

\* The innermost frame goes on as another expression.
LEMMA BecomeFramed ==
    ASSUME NEW G, NEW W, NEW s, Stacked(s), s # <<>>, Framed(s, G, W), NEW n \in W, NEW c, Over(c, G)
    PROVE  Framed(<<Frame(n, c)>> \o Tail(s), G, W)
<1>1. PICK E, C, V : s \in Seq(Frames(E, C, V)) /\ Frame(n, c) \in Frames(E, C, V)
  BY FrameFits
<1>2. PICK f : f = Frame(n, c)
  OBVIOUS
<1>3. f \in Frames(E, C, V)
  BY <1>1, <1>2
<1>4. Sane(f, G, W)
  BY <1>2, FreshSane
<1> QED
  BY <1>1, <1>2, <1>3, <1>4, FramedReplaced

\* A call leaves the caller waiting for its value.
LEMMA CallFramed ==
    ASSUME NEW G, NEW W, NEW s, Stacked(s), s # <<>>, Framed(s, G, W), Waiting(Head(s)),
           NEW n \in W, NEW c, Over(c, G)
    PROVE  Framed(<<Frame(n, c)>> \o s, G, W)
<1>1. PICK E, C, V : s \in Seq(Frames(E, C, V)) /\ Frame(n, c) \in Frames(E, C, V)
  BY FrameFits
<1>2. PICK f : f = Frame(n, c)
  OBVIOUS
<1>3. f \in Frames(E, C, V)
  BY <1>1, <1>2
<1>4. Sane(f, G, W)
  BY <1>2, FreshSane
<1>5. PICK t : t = <<f>> \o s
  OBVIOUS
<1>6. t \in Seq(Frames(E, C, V)) /\ t # <<>> /\ Len(t) = Len(s) + 1 /\ Head(t) = f
      /\ \A i \in 2 .. Len(s) + 1 : t[i] = s[i - 1]
  BY <1>1, <1>3, <1>5, Pushed
<1>7. Len(s) \in Nat /\ t[1] = f /\ Head(s) = s[1]
  BY <1>1, <1>6
<1>8. ASSUME NEW i \in 1 .. Len(t) PROVE Sane(t[i], G, W) /\ (i >= 2 => Waiting(t[i]))
  <2>1. i = 1 \/ (i \in 2 .. Len(s) + 1 /\ i - 1 \in 1 .. Len(s) /\ (i - 1 = 1 \/ i - 1 >= 2))
    BY <1>6, <1>7
  <2>2. ASSUME i = 1 PROVE Sane(t[i], G, W) /\ ~(i >= 2)
    BY <1>4, <1>7, <2>2
  <2>3. ASSUME i \in 2 .. Len(s) + 1, i - 1 \in 1 .. Len(s), i - 1 = 1 \/ i - 1 >= 2
        PROVE  Sane(t[i], G, W) /\ Waiting(t[i])
    <3>1. t[i] = s[i - 1]
      BY <1>6, <2>3
    <3>2. Sane(s[i - 1], G, W) /\ (i - 1 >= 2 => Waiting(s[i - 1]))
      BY <2>3 DEF Framed
    <3>3. i - 1 = 1 => Waiting(s[i - 1])
      BY <1>7
    <3> QED
      BY <2>3, <3>1, <3>2, <3>3
  <2> QED
    BY <2>1, <2>2, <2>3
<1> QED
  BY <1>2, <1>5, <1>8 DEF Framed

\* A good decision, carried out, leaves frames of the walk over values at hand.
LEMMA ActsFramed ==
    ASSUME NEW G, NEW W, Sound(G, W), NEW s, Stacked(s), s # <<>>, Framed(s, G, W), NEW D, NEW d,
           d.move \in {"give", "return", "call", "become"},
           Good(d, G, W), d.move \in {"give", "call"} => Waiting(Head(s))
    PROVE  \E More : /\ G \subseteq More /\ Sound(More, W) /\ Framed(StackAfter(D, s, d), More, W)
                     /\ d.move = "return" => d.value \in More
<1>1. CASE d.move = "give"
  <2>1. PICK More : G \subseteq More /\ Sound(More, W) /\ d.value \in More
    BY <1>1 DEF Good, Grows
  <2>2. Framed(s, More, W)
    BY <2>1, FramedMore
  <2>3. Framed(<<With(Head(s), d.value)>> \o Tail(s), More, W)
    BY <1>1, <2>1, <2>2, GiveFramed
  <2>4. StackAfter(D, s, d) = <<With(Head(s), d.value)>> \o Tail(s)
    BY <1>1 DEF StackAfter
  <2> QED
    BY <1>1, <2>1, <2>3, <2>4
<1>2. CASE d.move = "return"
  <2>1. PICK More : G \subseteq More /\ Sound(More, W) /\ d.value \in More
    BY <1>2 DEF Good, Grows
  <2>2. Framed(s, More, W)
    BY <2>1, FramedMore
  <2>3. CASE Len(s) = 1
    <3>1. StackAfter(D, s, d) = <<>>
      BY <1>2, <2>3 DEF StackAfter
    <3>2. Len(<<>>) = 0
      OBVIOUS
    <3>3. Framed(<<>>, More, W)
      BY <3>2 DEF Framed
    <3> QED
      BY <2>1, <3>1, <3>3
  <2>4. CASE Len(s) # 1
    <3>1. PICK t : t = Tail(s)
      OBVIOUS
    <3>2. Stacked(t) /\ Framed(t, More, W) /\ t # <<>> /\ Waiting(Head(t))
      BY <2>2, <2>4, <3>1, FramedBelow
    <3>3. Framed(<<With(Head(t), d.value)>> \o Tail(t), More, W)
      BY <2>1, <3>2, GiveFramed
    <3>4. StackAfter(D, s, d) = <<With(Head(t), d.value)>> \o Tail(t)
      BY <1>2, <2>4, <3>1 DEF StackAfter
    <3> QED
      BY <2>1, <3>3, <3>4
  <2> QED
    BY <2>3, <2>4
<1>3. CASE d.move = "become"
  <2>1. PICK More : G \subseteq More /\ Sound(More, W) /\ Over(d.scope, More)
    BY <1>3 DEF Good
  <2>2. Framed(s, More, W) /\ d.expr \in W
    BY <1>3, <2>1, FramedMore DEF Good
  <2>3. Framed(<<Frame(d.expr, d.scope)>> \o Tail(s), More, W)
    BY <2>1, <2>2, BecomeFramed
  <2>4. StackAfter(D, s, d) = <<Frame(d.expr, d.scope)>> \o Tail(s)
    BY <1>3 DEF StackAfter
  <2> QED
    BY <1>3, <2>1, <2>3, <2>4
<1>4. CASE d.move = "call" /\ Len(s) < D
  <2>1. PICK More : G \subseteq More /\ Sound(More, W) /\ Over(d.scope, More)
    BY <1>4 DEF Good
  <2>2. Framed(s, More, W) /\ d.expr \in W
    BY <1>4, <2>1, FramedMore DEF Good
  <2>3. Framed(<<Frame(d.expr, d.scope)>> \o s, More, W)
    BY <1>4, <2>1, <2>2, CallFramed
  <2>4. StackAfter(D, s, d) = <<Frame(d.expr, d.scope)>> \o s
    BY <1>4 DEF StackAfter
  <2> QED
    BY <1>4, <2>1, <2>3, <2>4
<1>5. CASE d.move = "call" /\ ~(Len(s) < D)
  <2>1. PICK v : v = Minted("depth_exceeded")
    OBVIOUS
  <2>2. PICK More : G \subseteq More /\ Sound(More, W) /\ v \in More
    <3>1. Grows(G, W, v)
      BY <2>1, MintedIsFlat, GrowsFlat
    <3> QED
      BY <3>1 DEF Grows
  <2>3. Framed(s, More, W)
    BY <2>2, FramedMore
  <2>4. Framed(<<With(Head(s), v)>> \o Tail(s), More, W)
    BY <1>5, <2>2, <2>3, GiveFramed
  <2>5. StackAfter(D, s, d) = <<With(Head(s), v)>> \o Tail(s)
    BY <1>5, <2>1 DEF StackAfter
  <2> QED
    BY <1>5, <2>2, <2>4, <2>5
<1> QED
  BY <1>1, <1>2, <1>3, <1>4, <1>5

--------------------------------------------------------------------------------
(* The walk and the evaluation after it *)

\* The frames are of entities the walk has been at, over values that come from
\* them, from the tree and from arithmetic.
OnTheWalk == \E G : Ground(G, visited) /\ Framed(stack, G, visited) /\ WrittenOver(writes, G)

AuditIInv ==
    /\ IInv
    /\ root \in visited \cup pending
    /\ \A n \in visited : Referenced(n) \subseteq visited \cup pending
    /\ pending # {} => stack = <<>> /\ reads = {} /\ writes = <<>>
    /\ pending = {} /\ SelfContained => OnTheWalk /\ reads \subseteq ReadPaths

\* What the walk has been at holds only what it has been at.
LEMMA AtRestIsSound ==
    ASSUME NEW W, Walked(W)
    PROVE  Ground(Bare \cup AtRest(W), W)
<1> DEFINE G == Bare \cup AtRest(W)
<1>1. Bare \subseteq G /\ AtRest(W) \subseteq G
  OBVIOUS
<1>2. \A v \in G : v \in Bare \/ \E m \in W : m.kind = "stored" /\ v = m.value
  BY DEF AtRest
<1>3. \A m \in W : m.kind = "stored" => m.value \in G
  BY DEF AtRest
<1> HIDE DEF G
<1>4. ASSUME NEW v \in Bare
      PROVE  /\ v.kind = "closure" => v.body \in W /\ Over(v.env, G) /\ Sequence(v.params)
             /\ v.kind = "int" => v.int \in Int
             /\ v.kind = "array" => v.items \in Seq(G)
             /\ v.kind \in {"construct", "entity"} => Over(v.fields, G)
             /\ v.kind = "construct" => v.entity \in G
             /\ v.kind # "code"
  <2>1. v.kind \notin {"closure", "construct", "code"} /\ (v.kind = "int" => v.int \in Int)
    BY BareHoldsNoCode
  <2>2. v.kind = "array" => v.items \in Seq(G)
    BY <1>1, BareHoldsNoCode, SequencesOverMore
  <2>3. v.kind = "entity" => Over(v.fields, G)
    BY <1>1, BareHoldsNoCode DEF Over
  <2> QED
    BY <2>1, <2>2, <2>3
<1>5. ASSUME NEW m \in W, m.kind = "stored", m.value.kind = "closure"
      PROVE  m.value.body \in W /\ Over(m.value.env, G) /\ Sequence(m.value.params)
  <2>1. Referenced(m) \subseteq W /\ Holds(m)
    BY DEF Walked, Decoded
  <2>2. Referenced(m) = {m.value.body} \cup {[kind |-> "stored", value |-> m.value.env[x]] :
               x \in {y \in DOMAIN m.value.env : EntityLike(m.value.env[y])}}
    BY <1>5 DEF Referenced
  <2>3. m.value \notin Bare
    BY <1>5, BareHoldsNoCode
  <2>4. \A x \in DOMAIN m.value.env : EntityLike(m.value.env[x]) \/ m.value.env[x] \in Bare
    BY <1>5, <2>1, <2>3 DEF Holds
  <2>5. ASSUME NEW x \in DOMAIN m.value.env PROVE m.value.env[x] \in G
    <3>1. CASE EntityLike(m.value.env[x])
      <4>1. PICK e : e = [kind |-> "stored", value |-> m.value.env[x]]
        OBVIOUS
      <4>2. e.kind = "stored" /\ e.value = m.value.env[x]
        BY <4>1
      <4>3. e \in Referenced(m)
        BY <2>2, <3>1, <4>1
      <4> QED
        BY <1>3, <2>1, <4>2, <4>3
    <3> QED
      BY <1>1, <2>4, <3>1
  <2>6. m.value.body \in W
    BY <2>1, <2>2
  <2>7. Sequence(m.value.params)
    BY <1>5, <2>1, <2>3 DEF Holds, Sequence
  <2> QED
    BY <2>5, <2>6, <2>7 DEF Over
<1>6. ASSUME NEW m \in W, m.kind = "stored", m.value \notin Bare
      PROVE  m.value.kind \in {"error", "closure"}
  BY <1>6 DEF Walked, Decoded, Holds
<1>7. ASSUME NEW v \in G
      PROVE  /\ v.kind = "closure" => v.body \in W /\ Over(v.env, G) /\ Sequence(v.params)
             /\ v.kind = "int" => v.int \in Int
             /\ v.kind = "array" => v.items \in Seq(G)
             /\ v.kind \in {"construct", "entity"} => Over(v.fields, G)
             /\ v.kind = "construct" => v.entity \in G
             /\ v.kind # "code"
  <2>1. CASE v \in Bare
    BY <1>4, <2>1
  <2>2. CASE v \notin Bare
    <3>1. PICK m \in W : m.kind = "stored" /\ v = m.value
      BY <1>2, <2>2
    <3>2. v.kind \in {"error", "closure"}
      BY <1>6, <2>2, <3>1
    <3>3. v.kind = "closure" => v.body \in W /\ Over(v.env, G) /\ Sequence(v.params)
      BY <1>5, <3>1
    <3> QED
      BY <3>2, <3>3
  <2> QED
    BY <2>1, <2>2
<1>8. Sound(G, W)
  BY <1>7 DEF Sound
<1>9. Ground(G, W)
  BY <1>1, <1>8 DEF Ground
<1> QED
  BY <1>9 DEF G

\* When the walk is done and found nothing but code of the graph, it has been
\* at all that it refers to.
LEMMA WalkIsWhole ==
    ASSUME SelfContained, \A n \in visited : Referenced(n) \subseteq visited
    PROVE  Walked(visited)
BY DEF SelfContained, Walked

\* The walk goes on, or is done.
LEMMA VisitPreserves ==
    ASSUME AuditIInv, Visit
    PROVE  AuditIInv'
<1>1. PICK n \in pending : visited' = visited \cup {n} /\ pending' = (pending \cup Referenced(n)) \ visited'
  BY DEF Visit
<1>2. UNCHANGED vars /\ stack = <<>> /\ reads = {} /\ writes = <<>>
  BY <1>1 DEF Visit, AuditIInv
<1>3. UNCHANGED <<root, limits, stack, operations, depth, reads, writes, answer>>
  BY <1>2 DEF vars, effects
<1>4. IInv'
  BY <1>3 DEF AuditIInv, IInv, Stacked, DepthBalanced, HandedExhaustion, ExhaustionDecides, Top
<1>5. (root \in visited \cup pending)'
  BY <1>1, <1>3 DEF AuditIInv
<1>6. (\A m \in visited : Referenced(m) \subseteq visited \cup pending)'
  <2>1. ASSUME NEW m \in visited' PROVE Referenced(m) \subseteq visited' \cup pending'
    <3>1. Referenced(m) \subseteq visited \cup pending \cup Referenced(n)
      BY <1>1, <2>1 DEF AuditIInv
    <3> QED
      BY <1>1, <3>1
  <2> QED
    BY <2>1
<1>7. (pending # {} => stack = <<>> /\ reads = {} /\ writes = <<>>)'
  BY <1>2, <1>3
<1>8. ASSUME pending' = {}, SelfContained' PROVE OnTheWalk' /\ (reads \subseteq ReadPaths)'
  <2>1. PICK W : W = visited'
    OBVIOUS
  <2>2. Walked(W)
    BY <1>6, <1>8, <2>1 DEF SelfContained, Walked
  <2>3. PICK G : Ground(G, W)
    BY <2>2, AtRestIsSound
  <2>4. Len(<<>>) = 0 /\ <<>> \in Seq({})
    OBVIOUS
  <2>5. Framed(<<>>, G, W)
    BY <2>4 DEF Framed
  <2>6. WrittenOver(<<>>, G)
    BY <2>4 DEF WrittenOver, Sequence
  <2>7. stack' = <<>> /\ writes' = <<>> /\ reads' = {}
    BY <1>2, <1>3
  <2>8. OnTheWalk'
    BY <2>1, <2>3, <2>5, <2>6, <2>7 DEF OnTheWalk
  <2> QED
    BY <2>7, <2>8
<1> QED
  BY <1>4, <1>5, <1>6, <1>7, <1>8 DEF AuditIInv

\* Arms are of expressions and of values at rest.
LEMMA ArmsHaveKinds ==
    ASSUME Arm
    PROVE  Top.expr.kind \in Expressions \cup {"stored"}
<1> USE DEF Working
<1>1. Literal \/ LookupScope \/ LookupTree \/ LookupHash \/ If \/ Let \/ Lambda => Top.expr.kind \in Expressions
  BY DEF Literal, LookupScope, LookupTree, LookupHash, If, Let, Lambda, Expressions
<1>2. Operate => Top.expr.kind \in Expressions
  BY DEF Operate, Expressions
<1>3. Alias \/ Malformed \/ Apply \/ Store => Top.expr.kind \in Expressions
  BY DEF Alias, Malformed, Apply, Store, Expressions
<1>4. Argument \/ Element \/ Collect => Top.expr.kind \in Expressions
  BY DEF Argument, Element, Collect, Expressions
<1>5. Value => Top.expr.kind = "stored"
  BY DEF Value
<1> QED
  BY <1>1, <1>2, <1>3, <1>4, <1>5 DEF Arm

\* Only a tree lookup reads.
LEMMA ReadsByLookup ==
    ASSUME Step
    PROVE  \/ reads' = reads
           \/ stack # <<>> /\ Top.expr.kind = "tree" /\ reads' = reads \cup {Top.expr.path}
<1>1. CASE LookupTree
  BY <1>1 DEF LookupTree, Working
<1>2. CASE ~LookupTree
  <2>1. Start \/ Charge \/ Exhaust \/ ShortCircuit => reads' = reads
    BY DEF Start, Charge, Exhaust, ShortCircuit, effects
  <2>2. Literal \/ LookupScope \/ LookupHash \/ If \/ Let \/ Lambda \/ Malformed => reads' = reads
    BY DEF Literal, LookupScope, LookupHash, If, Let, Lambda, Malformed, effects
  <2>3. Operate \/ Alias \/ Apply \/ Argument \/ Element \/ Collect \/ Store \/ Value => reads' = reads
    BY DEF Operate, Alias, Apply, Argument, Element, Collect, Store, Value, effects
  <2> QED
    BY <1>2, <2>1, <2>2, <2>3 DEF Step
<1> QED
  BY <1>1, <1>2

\* Every decision is one of the four moves.
LEMMA FourMoves == ASSUME NEW d, Makes(d) PROVE d.move \in {"give", "return", "call", "become"}
  BY DEF Makes

\* An arm, or an error on the way out, keeps to the walk.
LEMMA WorkKept ==
    ASSUME CombinesFlat, IInv, ShortCircuit \/ Arm, Walked(visited), OnTheWalk, visited' = visited
    PROVE  OnTheWalk'
<1>1. stack # <<>> /\ limits' = limits /\ Decided
  <2>1. CASE Arm
    BY <2>1, ArmsMove, ArmsDecided DEF IInv
  <2>2. CASE ShortCircuit
    <3>1. PICK v : v = Reported(Top, Last(Vals))
      OBVIOUS
    <3>2. stack # <<>> /\ ShortCircuits(Top) /\ limits' = limits /\ writes' = writes /\ Return(v)
      BY <2>2, <3>1 DEF ShortCircuit, effects
    <3>3. Decision(Top, writes) = Returning(v) /\ WrittenBy(Top, writes) = writes
      BY <3>1, <3>2 DEF Decision, WrittenBy, Vals
    <3> QED
      BY <3>2, <3>3, ReturnsDecided DEF Decided
  <2> QED
    BY <2>1, <2>2
<1>2. PICK W : W = visited
  OBVIOUS
<1>3. PICK G : Ground(G, W) /\ Framed(stack, G, W) /\ WrittenOver(writes, G)
  BY <1>2 DEF OnTheWalk
<1>4. PICK s, f, ws, d : s = stack /\ f = Head(s) /\ ws = writes /\ d = Decision(f, ws)
  OBVIOUS
<1>5. Sane(f, G, W) /\ Stacked(s) /\ f = Top
  BY <1>1, <1>3, <1>4, FramedBelow DEF IInv, Top
<1>6. ShortCircuits(f) \/ f.expr.kind \in Expressions \cup {"stored"}
  BY <1>5, ArmsHaveKinds DEF ShortCircuit
<1>7. Good(d, G, W) /\ (d.move \in {"give", "call"} => Waiting(f))
  BY <1>2, <1>3, <1>4, <1>5, <1>6, DecisionsAreGood
<1>8. /\ Makes(d) /\ writes' = WrittenBy(f, ws)
  BY <1>1, <1>4, <1>5 DEF Decided
<1>9. stack' = StackAfter(limits.depth, s, d)
  BY <1>1, <1>4, <1>8, DecisionsAct
<1>10. PICK K : /\ G \subseteq K /\ Sound(K, W) /\ Framed(StackAfter(limits.depth, s, d), K, W)
                /\ d.move = "return" => d.value \in K
  <2>1. Sound(G, W) /\ s # <<>> /\ Framed(s, G, W) /\ (d.move \in {"give", "call"} => Waiting(Head(s)))
    BY <1>1, <1>3, <1>4, <1>7 DEF Ground
  <2>2. d.move \in {"give", "return", "call", "become"}
    BY <1>8, FourMoves
  <2>3. PICK D : D = limits.depth
    OBVIOUS
  <2>4. PICK K : /\ G \subseteq K /\ Sound(K, W) /\ Framed(StackAfter(D, s, d), K, W)
                 /\ d.move = "return" => d.value \in K
    BY <1>5, <1>7, <2>1, <2>2, ActsFramed
  <2> QED
    BY <2>3, <2>4
<1>11. Ground(K, W)
  BY <1>3, <1>10 DEF Ground
<1>12. WrittenOver(WrittenBy(f, ws), K)
  <2>1. WrittenOver(ws, K)
    BY <1>3, <1>4, <1>10 DEF WrittenOver
  <2>2. CASE ~ShortCircuits(f) /\ f.expr.kind = "store" /\ Len(f.vals) = 2
    <3>1. PICK x : x = [path |-> f.vals[1].text, value |-> Written(f.vals[2])]
      OBVIOUS
    <3>2. WrittenBy(f, ws) = Append(ws, x)
      BY <2>2, <3>1 DEF WrittenBy
    <3>3. Decision(f, ws) = Storing(f)
      BY <2>2 DEF Decision, Operators, Collections
    <3>4. f.vals # <<>>
      <4>1. Len(f.vals) = 2 /\ Len(<<>>) = 0
        BY <2>2
      <4>2. f.vals = <<>> => Len(f.vals) = 0
        BY <4>1
      <4> QED
        BY <4>1, <4>2
    <3>5. d = Returning(Written(f.vals[2]))
      BY <1>4, <2>2, <3>3, <3>4 DEF Storing
    <3>6. x.value \in K
      BY <1>10, <3>1, <3>5 DEF Returning
    <3>7. PICK X : ws \in Seq(X)
      BY <2>1 DEF WrittenOver, Sequence
    <3> DEFINE Y == X \cup {x}
    <3>8. ws \in Seq(Y) /\ x \in Y
      BY <3>7
    <3> HIDE DEF Y
    <3>9. PICK w : w = Append(ws, x)
      OBVIOUS
    <3>10. /\ w \in Seq(Y) /\ DOMAIN w = 1 .. Len(ws) + 1 /\ w[Len(ws) + 1] = x
           /\ \A i \in 1 .. Len(ws) : w[i] = ws[i] /\ i \in DOMAIN ws
           /\ \A i \in 1 .. Len(ws) + 1 : i = Len(ws) + 1 \/ i \in 1 .. Len(ws)
      BY <3>8, <3>9
    <3>11. \A i \in DOMAIN w : w[i].value \in K
      BY <2>1, <3>6, <3>10 DEF WrittenOver
    <3>12. WrittenOver(w, K)
      BY <3>10, <3>11 DEF WrittenOver, Sequence
    <3> QED
      BY <3>2, <3>9, <3>12
  <2>3. CASE ~(~ShortCircuits(f) /\ f.expr.kind = "store" /\ Len(f.vals) = 2)
    <3>1. WrittenBy(f, ws) = ws
      BY <2>3 DEF WrittenBy
    <3> QED
      BY <2>1, <3>1
  <2> QED
    BY <2>2, <2>3
<1> QED
  BY <1>2, <1>8, <1>9, <1>10, <1>11, <1>12 DEF OnTheWalk

\* So does a step that is charged, or for which the budget has run out.
LEMMA BudgetKept ==
    ASSUME IInv, Charge \/ Exhaust, OnTheWalk, visited' = visited
    PROVE  OnTheWalk'
<1>1. PICK W : W = visited
  OBVIOUS
<1>2. PICK G : Ground(G, W) /\ Framed(stack, G, W) /\ WrittenOver(writes, G)
  BY <1>1 DEF OnTheWalk
<1>3. stack # <<>> /\ writes' = writes
  BY DEF Charge, Exhaust, effects
<1>4. PICK s : s = stack
  OBVIOUS
<1>5. PICK E, C, V : s \in Seq(Frames(E, C, V))
  BY <1>4 DEF IInv, Stacked
<1>6. Stacked(s) /\ Sane(Head(s), G, W) /\ Head(s) \in Frames(E, C, V)
  BY <1>2, <1>3, <1>4, <1>5, FramedBelow, Below DEF Stacked
<1>7. CASE Charge
  <2>1. PICK f : f = [Head(s) EXCEPT !.charged = TRUE]
    OBVIOUS
  <2>2. /\ f \in Frames(E, C, V)
        /\ f.expr = Head(s).expr /\ f.scope = Head(s).scope /\ f.vals = Head(s).vals
    BY <1>6, <2>1 DEF Frames
  <2>3. Sane(f, G, W)
    BY <1>6, <2>2 DEF Sane, Fitted
  <2>4. Framed(<<f>> \o Tail(s), G, W)
    BY <1>2, <1>3, <1>4, <1>5, <1>6, <2>2, <2>3, FramedReplaced
  <2>5. stack' = <<f>> \o Tail(s)
    BY <1>4, <1>7, <2>1 DEF Charge, Top
  <2> QED
    BY <1>1, <1>2, <1>3, <2>4, <2>5 DEF OnTheWalk
<1>8. CASE Exhaust
  <2>1. PICK v, d : v = Minted("budget_exhausted") /\ d = Returning(v)
    OBVIOUS
  <2>2. d.move = "return" /\ d.value = v
    BY <2>1 DEF Returning
  <2>3. Good(d, G, W)
    BY <1>2, <2>1, GoodMinted DEF Ground
  <2>4. PICK K : G \subseteq K /\ Sound(K, W) /\ Framed(StackAfter(limits.depth, s, d), K, W)
    <3>1. Sound(G, W) /\ s # <<>> /\ Framed(s, G, W)
      BY <1>2, <1>3, <1>4 DEF Ground
    <3>2. PICK D : D = limits.depth
      OBVIOUS
    <3>3. d.move \in {"give", "return", "call", "become"} /\ d.move \notin {"give", "call"}
      BY <2>2
    <3>4. PICK K : G \subseteq K /\ Sound(K, W) /\ Framed(StackAfter(D, s, d), K, W)
      BY <1>6, <2>3, <3>1, <3>3, ActsFramed
    <3> QED
      BY <3>2, <3>4
  <2>5. stack' = StackAfter(limits.depth, s, d)
    BY <1>4, <1>8, <2>1, <2>2 DEF Exhaust, Leave, Pop, StackAfter
  <2>6. Ground(K, W) /\ WrittenOver(writes, K)
    BY <1>2, <2>4 DEF Ground, WrittenOver
  <2> QED
    BY <1>1, <1>3, <2>4, <2>5, <2>6 DEF OnTheWalk
<1> QED
  BY <1>7, <1>8

\* The first frame is of the root, which the walk began with.
LEMMA StartKept ==
    ASSUME Start, root \in visited, OnTheWalk, visited' = visited
    PROVE  OnTheWalk'
<1>1. PICK W : W = visited
  OBVIOUS
<1>2. PICK G : Ground(G, W) /\ Framed(stack, G, W) /\ WrittenOver(writes, G)
  BY <1>1 DEF OnTheWalk
<1>3. writes' = writes /\ stack = <<>>
  BY DEF Start, effects
<1>4. CASE stack' = stack
  BY <1>1, <1>2, <1>3, <1>4 DEF OnTheWalk
<1>5. CASE stack' = <<Frame(root, Empty)>>
  <2>1. PICK f : f = Frame(root, Empty)
    OBVIOUS
  <2>2. Over(Empty, G)
    BY DEF Over, Empty
  <2>3. Sane(f, G, W)
    BY <1>1, <2>1, <2>2, FreshSane
  <2>4. Len(<<f>>) = 1 /\ <<f>>[1] = f
    OBVIOUS
  <2>5. \A i \in 1 .. Len(<<f>>) : i = 1 /\ ~(i >= 2)
    BY <2>4
  <2>6. Framed(<<f>>, G, W)
    BY <2>3, <2>4, <2>5 DEF Framed
  <2> QED
    BY <1>1, <1>2, <1>3, <1>5, <2>1, <2>6 DEF OnTheWalk
<1> QED
  BY <1>4, <1>5 DEF Start

\* A step of the evaluation after the walk.
LEMMA StepKept ==
    ASSUME CombinesFlat, AuditIInv, Step, pending = {}, UNCHANGED auditVars
    PROVE  AuditIInv'
<1>1. visited' = visited /\ pending' = pending /\ root' = root
  <2>1. Start \/ Charge \/ Exhaust \/ ShortCircuit => root' = root
    BY DEF Start, Charge, Exhaust, ShortCircuit
  <2>2. Literal \/ LookupScope \/ LookupTree \/ LookupHash \/ If \/ Let \/ Lambda \/ Malformed => root' = root
    BY DEF Literal, LookupScope, LookupTree, LookupHash, If, Let, Lambda, Malformed, Working
  <2>3. Operate \/ Alias \/ Apply \/ Argument \/ Element \/ Collect \/ Store \/ Value => root' = root
    BY DEF Operate, Alias, Apply, Argument, Element, Collect, Store, Value, Working
  <2> QED
    BY <2>1, <2>2, <2>3 DEF auditVars, Step
<1>2. IInv'
  <2>1. [Next]_vars
    BY DEF Next
  <2> QED
    BY <2>1, NextIInv DEF AuditIInv
<1>3. SelfContained' => SelfContained
  BY <1>1 DEF SelfContained
<1>4. ASSUME SelfContained PROVE OnTheWalk' /\ reads' \subseteq ReadPaths
  <2>1. OnTheWalk /\ reads \subseteq ReadPaths /\ IInv /\ root \in visited
    BY <1>4 DEF AuditIInv
  <2>2. Walked(visited)
    <3>1. \A n \in visited : Referenced(n) \subseteq visited
      BY DEF AuditIInv
    <3> QED
      BY <1>4, <3>1, WalkIsWhole
  <2>3. OnTheWalk'
    BY <1>1, <2>1, <2>2, StartKept, BudgetKept, WorkKept DEF Step, Arm
  <2>4. stack # <<>> => Top.expr \in visited
    BY <2>1, FramedBelow DEF OnTheWalk, IInv, Top, Sane
  <2>5. reads' \subseteq ReadPaths
    BY <2>1, <2>4, ReadsByLookup DEF ReadPaths
  <2> QED
    BY <2>3, <2>5
<1>5. ReadPaths' = ReadPaths
  BY <1>1 DEF ReadPaths
<1> QED
  BY <1>1, <1>2, <1>3, <1>4, <1>5 DEF AuditIInv

\* Whatever happens, walk or evaluation, the invariant stays.
LEMMA AuditedNextIInv ==
    ASSUME CombinesFlat
    PROVE  AuditIInv /\ [AuditedNext]_<<vars, auditVars>> => AuditIInv'
<1> SUFFICES ASSUME AuditIInv, [AuditedNext]_<<vars, auditVars>> PROVE AuditIInv'
  OBVIOUS
<1>1. CASE Visit
  BY <1>1, VisitPreserves
<1>2. CASE pending = {} /\ Step /\ UNCHANGED auditVars
  BY <1>2, StepKept
<1>3. CASE UNCHANGED <<vars, auditVars>>
  <2>1. UNCHANGED <<root, limits, stack, operations, depth, reads, writes, answer, visited, pending>>
    BY <1>3 DEF vars, effects, auditVars
  <2>2. IInv'
    BY <2>1 DEF AuditIInv, IInv, Stacked, DepthBalanced, HandedExhaustion, ExhaustionDecides, Top
  <2>3. OnTheWalk' = OnTheWalk /\ SelfContained' = SelfContained /\ ReadPaths' = ReadPaths
    BY <2>1 DEF OnTheWalk, SelfContained, ReadPaths
  <2> QED
    BY <2>1, <2>2, <2>3 DEF AuditIInv
<1> QED
  BY <1>1, <1>2, <1>3 DEF AuditedNext, Next, Rest

\* Before the walk nothing is evaluated.
LEMMA InitAuditIInv == Init /\ AuditInit => AuditIInv
<1> SUFFICES ASSUME Init, AuditInit PROVE AuditIInv
  OBVIOUS
<1>1. IInv
  BY InitIInv
<1>2. visited = {} /\ pending = {root} /\ stack = <<>> /\ reads = {} /\ writes = <<>>
  BY DEF Init, AuditInit
<1> QED
  BY <1>1, <1>2 DEF AuditIInv

\* Everything a self-contained expression reads, in whatever branch, argument,
\* binding or function body, and through whatever it has written itself, is at a path
\* that its installation has checked against the grant and the engine watches.
THEOREM ReadsStayAudited ==
    ASSUME CombinesFlat
    PROVE  AuditedSpec => []ReadsAreAudited
<1>1. AuditIInv => ReadsAreAudited
  BY DEF AuditIInv, ReadsAreAudited
<1>2. AuditIInv /\ [AuditedNext]_<<vars, auditVars>> => AuditIInv'
  BY AuditedNextIInv
<1> QED
  BY <1>1, <1>2, InitAuditIInv, PTL DEF AuditedSpec
================================================================================
