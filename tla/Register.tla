-------------------------------- MODULE Register -------------------------------
(***************************************************************************)
(* What the compute extension promises of its integers: a register, in     *)
(* which int and uint are two ways to read one pattern and no part of it.  *)
(* Arithmetic goes round; quotients, remainders and orderings read both    *)
(* operands signed, unless one of them is cast to uint on the spot.        *)
(* What is no integer is off the register, and nothing is said of it.      *)
(***************************************************************************)
EXTENDS Integers

CONSTANT H      \* half the number of patterns: 2^63

VARIABLES
    word,       \* a pattern, or Off
    verdict,    \* of the latest comparison
    request     \* what it is asked to do next

M == 2 * H
Patterns == 0 .. M - 1
Off == -1
Words == Patterns \cup {Off}

Binary == {"add", "sub", "mul", "div", "mod", "lt", "gt", "lte", "gte", "eq", "neq"}
Casts == {"none", "int", "uint", "float"}

Signed(p) == IF p < H THEN p ELSE p - M
Read(p, unsigned) == IF unsigned THEN p ELSE Signed(p)

\* A cast of an integer leaves its pattern alone.
Seen(w, to) ==
    CASE to = "none" -> {w}
      [] to = "float" -> {Off}
      [] OTHER -> IF w = Off THEN Words ELSE {w}

Wraps(op, l, r) ==
    /\ \/ op = "add" /\ word' = (l + r) % M
       \/ op = "sub" /\ word' = (l - r) % M
       \/ op = "mul" /\ word' = (l * r) % M
    /\ UNCHANGED verdict

\* x is what i divided by j leaves.
Leaves(i, j, x) ==
    /\ (-j < x /\ x < j) \/ (j < x /\ x < -j)
    /\ IF i < 0 THEN x <= 0 ELSE x >= 0
    /\ \E q \in -M .. M : i = q * j + x

Divides(op, i, j) ==
    /\ \/ j = 0 /\ word' = Off
       \/ j # 0 /\ op = "div" /\ ~Leaves(i, j, 0) /\ word' = Off
       \/ j # 0 /\ op = "div" /\ \E q \in -M .. M : i = q * j /\ word' = q % M
       \/ j # 0 /\ op = "mod" /\ \E x \in -M .. M : Leaves(i, j, x) /\ word' = x % M
    /\ UNCHANGED verdict

Orders(op, i, j) ==
    /\ word' = Off
    /\ \/ op = "lt" /\ verdict' = (i < j)
       \/ op = "gt" /\ verdict' = (i > j)
       \/ op = "lte" /\ verdict' = (i <= j)
       \/ op = "gte" /\ verdict' = (i >= j)

\* Integers that are equal have one pattern.
Equates(op, l, r) ==
    /\ word' = Off
    /\ \/ op = "eq" /\ (verdict' => l = r)
       \/ op = "neq" /\ (~verdict' => l = r)
    /\ verdict' \in BOOLEAN

Operate(op, l, r, unsigned) ==
    \/ Wraps(op, l, r)
    \/ op \in {"div", "mod"} /\ Divides(op, Read(l, unsigned), Read(r, unsigned))
    \/ Orders(op, Read(l, unsigned), Read(r, unsigned))
    \/ Equates(op, l, r)

OffRegister == word' = Off /\ verdict' \in BOOLEAN

\* The operation with its own casts on its operands.
Computes(op, left, right, other) ==
    \E l \in Seen(word, left), r \in Seen(other, right) :
       IF Off \in {l, r} THEN OffRegister ELSE Operate(op, l, r, "uint" \in {left, right})

Requests == [op : {"literal", "cast"} \cup Binary, left : Casts, right : Casts, other : Words]
Idle == [op |-> "idle"]

Init == word \in Words /\ verdict = FALSE /\ request = Idle

Ask == request = Idle /\ request' \in Requests /\ UNCHANGED <<word, verdict>>

Answer ==
    /\ request # Idle /\ request' = Idle
    /\ \/ request.op = "literal" /\ word' = request.other /\ UNCHANGED verdict
       \/ request.op = "cast" /\ word' \in Seen(word, request.left) /\ UNCHANGED verdict
       \/ request.op \in Binary /\ Computes(request.op, request.left, request.right, request.other)

Next == Ask \/ Answer

Spec == Init /\ [][Next]_<<word, verdict, request>>
================================================================================
