------------------------------- MODULE Arithmetic ------------------------------
(***************************************************************************)
(* Arithmetic, comparison and numeric casts of the evaluator, one operation *)
(* after another on a value: acc is what an expression came to so far, and  *)
(* the next operation takes it as its left operand, directly or through a   *)
(* cast that is the operand entity itself.  Integers are unbounded in the   *)
(* host language; an integer value is any between the least int and the     *)
(* largest uint.  The width is a constant.  Floats are counted in halves,   *)
(* an integer converts to one exactly, and what the host's float arithmetic *)
(* rounds to is left open, as is where it overflows.  Other is any value    *)
(* that is no number.                                                       *)
(***************************************************************************)
EXTENDS Integers

CONSTANTS
    H,          \* _I64_MIN_MAGNITUDE
    Literals,   \* integers of literals
    Floats      \* floats of literals and results

ASSUME ArithmeticAssumption ==
    /\ H \in Nat \ {0}
    /\ Literals \subseteq -H .. 2 * H - 1
    /\ Floats \subseteq Int

VARIABLES acc, verdict, request

arithmeticVars == <<acc, verdict, request>>

U == 2 * H      \* _U64

Whole(i) == [kind |-> "int", n |-> i]
Float(h) == [kind |-> "float", n |-> h]
NaN == [kind |-> "nan", n |-> 0]
Infinite(sign) == [kind |-> "inf", n |-> sign]
Other == [kind |-> "bool", n |-> 0]
\* Its code: type_mismatch, division_by_zero or cast_out_of_range.
Fault == [kind |-> "error", n |-> 0]
\* No value: the host's float remainder raises, and the evaluation with it.
Raised == [kind |-> "raised", n |-> 0]

IsWhole(v) == v.kind = "int"
IsFloat(v) == v.kind \in {"float", "nan", "inf"}
Numeric(v) == IsWhole(v) \/ IsFloat(v)

FloatValues == {Float(h) : h \in Floats} \cup {NaN, Infinite(1), Infinite(-1)}
Operands == {Whole(i) : i \in Literals} \cup FloatValues \cup {Other}
Halves(v) == IF IsWhole(v) THEN 2 * v.n ELSE v.n

--------------------------------------------------------------------------------
(* Integers *)

Abs(i) == IF i < 0 THEN -i ELSE i

\* _to_signed64, _as_unsigned64, _wrap64.
ToSigned(i) == IF i % U >= H THEN (i % U) - U ELSE i % U
AsUnsigned(i) == i % U
Wrap(i) == IF i >= 0 THEN i % U ELSE ToSigned(i)

TruncatedRemainder(i, j) == IF i < 0 THEN -(Abs(i) % Abs(j)) ELSE Abs(i) % Abs(j)

TruncatedQuotient(i, j) ==
    LET magnitude == Abs(i) \div Abs(j) IN IF (i < 0) # (j < 0) THEN -magnitude ELSE magnitude

Read(v, unsigned) == IF unsigned THEN AsUnsigned(v.n) ELSE ToSigned(v.n)

--------------------------------------------------------------------------------
(* Casts *)

\* The integer next to h halves on the side of zero.
Truncated(h) == IF h >= 0 THEN h \div 2 ELSE -((-h) \div 2)

\* Only a float can be out of range: an integer is a pattern, read again.
Representable(v, to) ==
    \/ IsWhole(v)
    \/ /\ v.kind = "float"
       /\ Truncated(v.n) < (IF to = "uint" THEN U ELSE H)
       /\ Truncated(v.n) >= (IF to = "uint" THEN 0 ELSE -H)

Cast(v, to) ==
    LET n == IF IsWhole(v) THEN v.n ELSE Truncated(v.n) IN
    CASE to = "none" -> v
      [] to # "none" /\ ~Numeric(v) -> Fault
      [] to = "float" /\ Numeric(v) -> IF v.kind \in {"nan", "inf"} THEN v ELSE Float(Halves(v))
      [] to = "uint" /\ Numeric(v) -> IF Representable(v, to) THEN Whole(AsUnsigned(n)) ELSE Fault
      [] to = "int" /\ Numeric(v) -> IF Representable(v, to) THEN Whole(ToSigned(n)) ELSE Fault

--------------------------------------------------------------------------------
(* An operation on operand values, of which none is an error *)

ArithmeticOps == {"add", "sub", "mul", "div", "mod"}
OrderOps == {"lt", "gt", "lte", "gte"}
EqualityOps == {"eq", "neq"}

Is(v) == acc' = v /\ UNCHANGED verdict
Says(b) == acc' = Other /\ verdict' = b
SomeFloat == \E v \in FloatValues : Is(v)

\* An exact quotient stays an integer, an inexact one becomes a float.
Divide(op, i, j) ==
    \/ j = 0 /\ Is(Fault)
    \/ j # 0 /\ op = "mod" /\ Is(Whole(Wrap(TruncatedRemainder(i, j))))
    \/ j # 0 /\ op = "div" /\ TruncatedRemainder(i, j) = 0 /\ Is(Whole(Wrap(TruncatedQuotient(i, j))))
    \/ j # 0 /\ op = "div" /\ TruncatedRemainder(i, j) # 0 /\ SomeFloat

IsZero(v) == v.kind \notin {"nan", "inf"} /\ Halves(v) = 0

\* By zero, a float quotient is infinite or NaN, and a float remainder is an error.
\* That of an infinite dividend is NaN if the divisor is, and is not caught if not.
FloatRemainder(l, r) ==
    CASE IsZero(r) -> Is(Fault)
      [] ~IsZero(r) /\ l.kind = "inf" /\ r.kind # "nan" -> Is(Raised)
      [] OTHER -> SomeFloat

ApplyArithmetic(op, l, r, unsigned) ==
    \/ ~(Numeric(l) /\ Numeric(r)) /\ Is(Fault)
    \/ /\ Numeric(l) /\ Numeric(r) /\ (IsFloat(l) \/ IsFloat(r))
       /\ IF op = "mod" THEN FloatRemainder(l, r) ELSE SomeFloat
    \/ /\ IsWhole(l) /\ IsWhole(r)
       /\ \/ op = "add" /\ Is(Whole(Wrap(l.n + r.n)))
          \/ op = "sub" /\ Is(Whole(Wrap(l.n - r.n)))
          \/ op = "mul" /\ Is(Whole(Wrap(l.n * r.n)))
          \/ op \in {"div", "mod"} /\ Divide(op, Read(l, unsigned), Read(r, unsigned))

Order(op, i, j) ==
    CASE op = "lt" -> i < j
      [] op = "gt" -> j < i
      [] op = "lte" -> i <= j
      [] op = "gte" -> j <= i

\* Of two numbers that are not NaN.
Lesser(l, r) ==
    IF "inf" \in {l.kind, r.kind} THEN l # r /\ (l = Infinite(-1) \/ r = Infinite(1))
    ELSE Halves(l) < Halves(r)

FloatOrder(op, l, r) ==
    CASE op = "lt" -> Lesser(l, r)
      [] op = "gt" -> Lesser(r, l)
      [] op = "lte" -> ~Lesser(r, l)
      [] op = "gte" -> ~Lesser(l, r)

\* NaN is unordered.
ApplyOrder(op, l, r, unsigned) ==
    \/ ~(Numeric(l) /\ Numeric(r)) /\ Is(Fault)
    \/ /\ Numeric(l) /\ Numeric(r) /\ (IsFloat(l) \/ IsFloat(r))
       /\ Says(l.kind # "nan" /\ r.kind # "nan" /\ FloatOrder(op, l, r))
    \/ /\ IsWhole(l) /\ IsWhole(r)
       /\ Says(Order(op, Read(l, unsigned), Read(r, unsigned)))

\* Across type classes nothing is equal.  Integers are compared as they are.
ValueEquals(l, r) ==
    /\ Numeric(l) /\ Numeric(r)
    /\ l.kind # "nan" /\ r.kind # "nan"
    /\ IF "inf" \in {l.kind, r.kind} THEN l = r ELSE Halves(l) = Halves(r)

ApplyEquality(op, l, r) ==
    \/ l.kind = "bool" /\ r.kind = "bool" /\ \E b \in BOOLEAN : Says(b)
    \/ ~(l.kind = "bool" /\ r.kind = "bool") /\ Says(ValueEquals(l, r) = (op = "eq"))

\* Mutant: what was cast to uint stays unsigned, however it gets here.
Sticky(v, to) == to = "uint" \/ (v.kind = "int" /\ v.n >= H)

\* Rule 11: only the cast that is the operand itself makes the operation unsigned.
IsDirectUintCast(v, to) == to = "uint"

--------------------------------------------------------------------------------
Casts == {"none", "int", "uint", "float"}
BinaryOps == ArithmeticOps \cup OrderOps \cup EqualityOps

Requests ==
    [op : {"literal"}, left : {"none"}, right : {"none"}, other : Operands]
    \cup [op : {"cast"}, left : Casts \ {"none"}, right : {"none"}, other : {Other}]
    \cup [op : BinaryOps, left : Casts, right : Casts, other : Operands]
Idle == [op |-> "idle"]

ArithmeticInit == acc \in Operands /\ verdict = FALSE /\ request = Idle

Request ==
    /\ request = Idle /\ request' \in Requests
    /\ acc.kind \in {"error", "raised"} => request'.op = "literal"
    /\ UNCHANGED <<acc, verdict>>

\* compute/arithmetic or compute/compare: the left operand, then the right one.
Binary(op, left, right, other) ==
    LET l == Cast(acc, left)
        r == Cast(other, right)
        unsigned == IsDirectUintCast(acc, left) \/ IsDirectUintCast(other, right)
    IN  \/ Fault \in {l, r} /\ Is(Fault)
        \/ Fault \notin {l, r} /\ op \in ArithmeticOps /\ ApplyArithmetic(op, l, r, unsigned)
        \/ Fault \notin {l, r} /\ op \in OrderOps /\ ApplyOrder(op, l, r, unsigned)
        \/ Fault \notin {l, r} /\ op \in EqualityOps /\ ApplyEquality(op, l, r)

Evaluate ==
    /\ request # Idle /\ request' = Idle
    /\ \/ request.op = "literal" /\ Is(request.other)
       \/ request.op = "cast" /\ Is(Cast(acc, request.left))
       \/ request.op \in BinaryOps /\ Binary(request.op, request.left, request.right, request.other)

ArithmeticNext == Request \/ Evaluate

ArithmeticSpec == ArithmeticInit /\ [][ArithmeticNext]_arithmeticVars

--------------------------------------------------------------------------------
\* Whatever the order of operations and casts, and in whichever of its two
\* representations an integer is at each point, the evaluator computes with
\* integers as a register of 64 bits does: the sign of a value is never part of
\* it, and a comparison, a quotient or a remainder depends on patterns and on
\* casts that are its own operands only.
Pattern(v) == IF IsWhole(v) THEN v.n % U ELSE -1
R == INSTANCE Register WITH
        word <- Pattern(acc),
        request <- IF request = Idle THEN Idle ELSE [request EXCEPT !.other = Pattern(@)]
ImplementsRegister == R!Spec
================================================================================
