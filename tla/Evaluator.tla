------------------------------- MODULE Evaluator -------------------------------
(***************************************************************************)
(* The compute evaluator: one evaluation of one expression under a budget  *)
(* of evaluation steps and a depth of nested evaluations.                  *)
(*                                                                         *)
(* Entities are content-addressed, so a reference IS the entity it names:   *)
(* an expression is a record that holds its operands.  Only a tree path is  *)
(* an indirection, and only through one can an evaluation go round.         *)
(*                                                                         *)
(* An expression has a kind and, as its kind asks for them, args (operands  *)
(* in the order they are evaluated), op, names, name, type, path or value.  *)
(* The collection builtins and store, an apply on a builtin path in the     *)
(* code, are kinds of their own; the builtin of an operator is an "alias"   *)
(* of it, and its first operand comes to the text the operator has as a     *)
(* field.  A "stored" entity is not an expression but a value: closure,     *)
(* error, or data ("entity").  "missing" is a dangling reference, also to   *)
(* what an evaluation builds on the way; "malformed" stands for an          *)
(* expression without a field it needs or with one it must not have.        *)
(***************************************************************************)
EXTENDS Integers, Sequences, SequencesExt

CONSTANTS
    Roots,              \* expressions to evaluate
    Limits,             \* budgets: records of operations and depth
    Tree,               \* what paths are bound to; None where nothing is
    Readable, Writable, \* the paths the capability covers
    Authorized,         \* data entities in the subgraph's sealed set (Tier 2)
    Combine(_, _),      \* arithmetic, comparison and casts of operand values
    CodeTypes,          \* the types of entities that are expressions or closures
    Built(_, _, _),     \* what an entity of such a type, built with these fields, is
    None

ASSUME BudgetsAreNatural == \A l \in Limits : l.operations \in Nat /\ l.depth \in Nat

ASSUME NoneIsNoCode == None \notin {"type_mismatch", "index_out_of_range"}

VARIABLES
    root, limits,       \* the evaluation asked for
    stack,              \* frames of evaluate(), innermost first
    operations, depth,  \* what is left of the budget
    reads,              \* paths read: the dependencies registered on the way
    writes,             \* what store bound, in order
    answer              \* None until evaluate() returns

effects == <<reads, writes>>
vars == <<root, limits, stack, operations, depth, effects, answer>>

--------------------------------------------------------------------------------
(* Values *)

Null == [kind |-> "null"]
Bool(b) == [kind |-> "bool", bool |-> b]
Number(i) == [kind |-> "int", int |-> i]
Items(s) == [kind |-> "array", items |-> s]
Text(t) == [kind |-> "text", text |-> t]
\* A bare hash, in an array or a materialized field.
Ref(v) == [kind |-> "ref", of |-> v]
\* The in-flight error and the compute/error entity: one kind, two forms.
Minted(code) == [kind |-> "error", code |-> code, minted |-> TRUE]
Stored(code) == [kind |-> "error", code |-> code, minted |-> FALSE]
\* An expression built as an entity, with the names and values of its data.
Code(expr, names, fields) == [kind |-> "code", expr |-> expr, names |-> names, fields |-> fields]
\* broken is what loading the closure's environment fails with.
Closure(params, body, env, broken) ==
    [kind |-> "closure", params |-> params, body |-> body, env |-> env, broken |-> broken]

IsError(v) == v.kind = "error"
EntityLike(v) == v.kind \in {"closure", "error", "entity", "construct", "code"}
\* Mutant: only the cascade halts a collection.
HaltingOnCascade(v) == IsError(v) /\ v.code = "cascade_limit"

Halting(v) == IsError(v) /\ v.code \in {"budget_exhausted", "cascade_limit"}

\* An entity under construction keeps its typed fields; what is stored of it
\* is the bare entity.
Materialized(v) == IF v.kind = "construct" THEN v.entity ELSE v
AsValue(v) == IF IsError(v) THEN Stored(v.code) ELSE v
Contained(v) == IF EntityLike(v) THEN Ref(Materialized(AsValue(v))) ELSE v
\* What store binds: an entity, or a primitive/any, whose data is the bare value.
Written(v) == IF EntityLike(v) THEN Materialized(AsValue(v))
                               ELSE [kind |-> "entity", names |-> <<>>, fields |-> <<v>>]

Truthy(v) ==
    CASE v.kind = "null" -> FALSE
      [] v.kind = "bool" -> v.bool
      [] v.kind = "int" -> v.int # 0
      [] v.kind = "array" -> v.items # <<>>
      [] OTHER -> TRUE

(* Scopes: functions from names to values *)

Empty == [n \in {} |-> Null]

\* Scope s with the names bound in order to the values there are for them.
Bind(s, names, values) ==
    LET at(n) == {i \in DOMAIN names \cap DOMAIN values : names[i] = n}
        bound == {names[i] : i \in DOMAIN names \cap DOMAIN values}
    IN  [n \in DOMAIN s \cup bound |->
           IF n \in bound THEN values[CHOOSE i \in at(n) : \A j \in at(n) : j <= i] ELSE s[n]]

Captured(s) == [n \in DOMAIN s |-> Materialized(s[n])]

--------------------------------------------------------------------------------
(* Operators over values in hand *)

Index(v, i) ==
    IF v.kind # "array" \/ i.kind # "int" THEN Minted("type_mismatch")
    ELSE IF i.int + 1 \in DOMAIN v.items THEN v.items[i.int + 1]
                                         ELSE Minted("index_out_of_range")

\* An entity's data is a record, but for a primitive/any's around a bare value.
IsRecord(v) ==
    \/ v.kind \in {"closure", "construct", "code"}
    \/ v.kind = "entity" /\ (v.names = <<>> => v.fields = <<>>)

FieldNames(v) == IF v.kind = "closure" THEN <<"params", "body", "env">> ELSE v.names

\* What a closure's data refers to it holds as bare hashes, with no env where the
\* closure captured an empty scope.
Fields(v) ==
    LET params == Items([k \in DOMAIN v.params |-> Text(v.params[k])]) IN
    IF v.kind # "closure" THEN v.fields
    ELSE IF DOMAIN v.env = {} /\ v.broken = None THEN <<params, Ref(v.body)>>
    ELSE <<params, Ref(v.body), Ref([kind |-> "environment", env |-> v.env])>>

\* Never asked of an error, which ends the expression before.
Field(v, name) ==
    LET here == {i \in DOMAIN Fields(v) : FieldNames(v)[i] = name} IN
    CASE ~IsRecord(v) -> Minted("type_mismatch")
      [] IsRecord(v) /\ here = {} -> Minted("not_found")
      [] OTHER -> Fields(v)[CHOOSE i \in here : TRUE]

\* An entity of a type.  Its fields are values in flight, kept by name, until it is
\* stored: then it is what the type makes of the bare fields, expressions included.
\* One of type compute/error is an error, whatever else it holds.
Construct(type, names, values) ==
    LET fields == [i \in DOMAIN values |-> Contained(values[i])]
        codes == {i \in DOMAIN names \cap DOMAIN values : names[i] = "code" /\ values[i].kind = "text"}
    IN  IF type = "error"
        THEN Stored(IF codes = {} THEN "invalid_expression" ELSE values[CHOOSE i \in codes : TRUE].text)
        ELSE [kind |-> "construct", names |-> names, fields |-> values,
              entity |-> IF type \in CodeTypes THEN Built(type, names, fields)
                         ELSE [kind |-> "entity", names |-> names, fields |-> fields]]

Concat(v) ==
    IF v.kind = "array" /\ \A i \in DOMAIN v.items : v.items[i].kind = "array"
    THEN Items(FlattenSeq([i \in DOMAIN v.items |-> v.items[i].items]))
    ELSE Minted("type_mismatch")

RangeOf(v) ==
    CASE v.kind # "int" -> Minted("type_mismatch")
      [] v.kind = "int" /\ v.int < 0 -> Minted("count_out_of_range")
      [] OTHER -> Items([i \in 1 .. v.int |-> Number(i - 1)])

Logic(op, values) ==
    IF op = "not" THEN Bool(~Truthy(values[1]))
    ELSE IF Len(values) = 1 THEN Minted("invalid_expression")
    ELSE IF op = "and" THEN Bool(Truthy(values[1]) /\ Truthy(values[2]))
    ELSE IF op = "or" THEN Bool(Truthy(values[1]) \/ Truthy(values[2]))
    ELSE Minted("invalid_expression")

Result(e, values) ==
    CASE e.kind \in {"arithmetic", "compare", "cast"} -> Combine(e.op, values)
      [] e.kind = "logic" -> Logic(e.op, values)
      [] e.kind = "field" -> Field(values[1], e.name)
      [] e.kind = "index" -> Index(values[1], values[2])
      [] e.kind = "length" -> IF values[1].kind = "array" THEN Number(Len(values[1].items))
                                                          ELSE Minted("type_mismatch")
      [] e.kind = "construct" -> Construct(e.type, e.names, values)
      [] e.kind = "concat" -> Concat(values[1])
      [] e.kind = "range" -> RangeOf(values[1])

Operators == {"arithmetic", "compare", "cast", "logic", "field", "index", "length",
              "construct", "concat", "range"}
Collections == {"map", "filter", "fold", "assoc", "group"}
Expressions == Operators \cup Collections
                   \cup {"literal", "scope", "tree", "hash", "if", "let", "lambda", "apply",
                         "alias", "store", "malformed"}

\* A negation looks at its left operand only.
Arity(e) == IF e.kind = "logic" /\ e.op = "not" THEN 1 ELSE Len(e.args)

--------------------------------------------------------------------------------
(* References *)

Resolves(n) ==
    /\ n.kind # "missing"
    /\ n.kind = "stored" /\ n.value.kind = "entity" => n \in Authorized

IsStoredError(n) == n.kind = "stored" /\ IsError(n.value)

\* Mutant: every builtin evaluates its operands.
BuiltinsEvaluate(e, n) ==
    e.kind \notin {"arithmetic", "compare", "concat", "range", "store", "alias"} \cup Collections

\* Where a reference leads to a stored error, most kinds take the error without
\* evaluating it.  Operand pairs and arguments of builtins evaluate it; but the
\* aliases of logic and construct share their operators' way with operands.
TakesStoredErrors(e, n) ==
    /\ e.kind \notin {"arithmetic", "compare", "concat", "range", "store"} \cup Collections
    /\ e.kind = "alias" => n > 1 /\ e.of \in {"logic", "construct"}

\* The frame's latest value went into a position that holds it unread.
InContainedPosition(f) ==
    LET n == Len(f.vals) IN
    CASE f.expr.kind = "map" -> n > 2
      [] f.expr.kind \in {"fold", "assoc"} -> n >= 3
      [] f.expr.kind = "store" -> n = 2
      [] OTHER -> FALSE

\* Mutant: a contained position takes every error.
ShortCircuitsConsumed(f) ==
    f.vals # <<>> /\ IsError(Last(f.vals)) /\ ~InContainedPosition(f)

\* Mutant: store writes every error, also that the budget has run out.
ShortCircuitsBeforeWrites(f) ==
    /\ f.vals # <<>>
    /\ IsError(Last(f.vals))
    /\ InContainedPosition(f) => f.expr.kind # "store" /\ Halting(Last(f.vals)) /\ Last(f.vals).minted

\* An error ends the expression that consumes it.  In a contained position only
\* an evaluation limit does, and only in its in-flight form.
ShortCircuits(f) ==
    /\ f.vals # <<>>
    /\ IsError(Last(f.vals))
    /\ InContainedPosition(f) => Halting(Last(f.vals)) /\ Last(f.vals).minted

\* Operand pairs and builtins turn a stored error into an in-flight one.
Reported(f, err) == IF TakesStoredErrors(f.expr, Len(f.vals)) THEN err ELSE Minted(err.code)

--------------------------------------------------------------------------------
(* What an arm may do to the innermost frame *)

Frame(e, s) == [expr |-> e, scope |-> s, vals |-> <<>>, charged |-> FALSE]
With(f, v) == [f EXCEPT !.vals = Append(@, v)]

\* Hand it a value.
Give(v) ==
    /\ stack' = <<With(Head(stack), v)>> \o Tail(stack)
    /\ UNCHANGED <<operations, depth, answer>>

Pop(v) ==
    /\ stack' = IF Len(stack) = 1 THEN <<>>
                ELSE <<With(Head(Tail(stack)), v)>> \o Tail(Tail(stack))
    /\ answer' = IF Len(stack) = 1 THEN v ELSE None

\* End it: evaluate() gives its depth back and returns to the frame below.
Leave(v) == Pop(v) /\ depth' = depth + 1

Return(v) == Leave(v) /\ UNCHANGED operations

\* Enter evaluate() on top of it.
Call(n, s) ==
    IF depth > 0
    THEN /\ stack' = <<Frame(n, s)>> \o stack /\ depth' = depth - 1
         /\ UNCHANGED <<operations, answer>>
    ELSE Give(Minted("depth_exceeded"))

\* Mutant: a tail call costs no step.
BecomeForFree(n, s) ==
    /\ stack' = <<[Frame(n, s) EXCEPT !.charged = TRUE]>> \o Tail(stack)
    /\ UNCHANGED <<operations, depth, answer>>

\* Go on in it with another expression: the trampoline.
Become(n, s) ==
    /\ stack' = <<Frame(n, s)>> \o Tail(stack)
    /\ UNCHANGED <<operations, depth, answer>>

\* Evaluate what a reference leads to.
Fetch(n, s) ==
    \/ ~Resolves(n) /\ Give(Minted("not_found"))
    \/ Resolves(n) /\ Call(n, s)

Ask(n, s) == IF IsStoredError(n) THEN Give(n.value) ELSE Fetch(n, s)

\* Evaluate it in tail position.
Continue(n, s) ==
    \/ ~Resolves(n) /\ Return(Minted("not_found"))
    \/ Resolves(n) /\ IsStoredError(n) /\ Return(n.value)
    \/ Resolves(n) /\ ~IsStoredError(n) /\ Become(n, s)

--------------------------------------------------------------------------------
(* The arms of the evaluator *)

Top == Head(stack)
Vals == Top.vals

Working(kinds) ==
    /\ stack # <<>> /\ Top.charged /\ ~ShortCircuits(Top)
    /\ Top.expr.kind \in kinds
    /\ UNCHANGED <<root, limits>>

ShortCircuit ==
    /\ stack # <<>> /\ Top.charged /\ ShortCircuits(Top)
    /\ Return(Reported(Top, Last(Vals)))
    /\ UNCHANGED <<root, limits, effects>>

Literal == Working({"literal"}) /\ Return(Top.expr.value) /\ UNCHANGED effects

LookupScope ==
    /\ Working({"scope"}) /\ UNCHANGED effects
    /\ Return(IF Top.expr.name \in DOMAIN Top.scope THEN Top.scope[Top.expr.name] ELSE Minted("not_found"))

\* What is read back of a value that store bound.
ReadBack(v) == IF v.kind = "code" THEN v.expr ELSE [kind |-> "stored", value |-> v]

\* What a path is bound to after the writes ws.
Bound(ws, path) ==
    LET here == {i \in DOMAIN ws : ws[i].path = path} IN
    IF here = {} THEN Tree[path]
    ELSE ReadBack(ws[CHOOSE i \in here : \A j \in here : j <= i].value)

\* The permission comes before the read and before its registration.  An
\* expression found is evaluated in the scope of the lookup.
LookupTree ==
    LET path == Top.expr.path
        target == Bound(writes, path)
    IN
    /\ Working({"tree"}) /\ UNCHANGED writes
    /\ reads' = IF path \in Readable THEN reads \cup {path} ELSE reads
    /\ CASE path \notin Readable -> Return(Minted("permission_denied"))
         [] path \in Readable /\ target = None -> Return(Minted("not_found"))
         [] OTHER -> IF target.kind \in Expressions THEN Become(target, Top.scope)
                                                    ELSE Return(target.value)

LookupHash ==
    LET target == Top.expr.args[1] IN
    /\ Working({"hash"}) /\ UNCHANGED effects
    /\ CASE ~Resolves(target) -> Return(Minted("not_found"))
         [] Resolves(target) /\ target.kind = "stored" -> Return(target.value)
         [] OTHER -> Become(target, Top.scope)

If ==
    /\ Working({"if"}) /\ UNCHANGED effects
    /\ \/ Vals = <<>> /\ Ask(Top.expr.args[1], Top.scope)
       \/ Vals # <<>> /\ Truthy(Vals[1]) /\ Continue(Top.expr.args[2], Top.scope)
       \/ Vals # <<>> /\ ~Truthy(Vals[1]) /\ Len(Top.expr.args) = 3
                      /\ Continue(Top.expr.args[3], Top.scope)
       \/ Vals # <<>> /\ ~Truthy(Vals[1]) /\ Len(Top.expr.args) = 2 /\ Return(Null)

\* Each binding sees the ones before it; the last operand is the body.
Let ==
    LET inner == Bind(Top.scope, Top.expr.names, Vals) IN
    /\ Working({"let"}) /\ UNCHANGED effects
    /\ IF Len(Vals) < Len(Top.expr.names) THEN Ask(Top.expr.args[Len(Vals) + 1], inner)
                                        ELSE Continue(Last(Top.expr.args), inner)

Lambda ==
    /\ Working({"lambda"}) /\ UNCHANGED effects
    /\ Return(Closure(Top.expr.names, Top.expr.args[1], Captured(Top.scope), None))

\* Operands left to right, each fully before the next, and then their result.
Operate ==
    /\ Working(Operators) /\ UNCHANGED effects
    /\ IF Len(Vals) < Arity(Top.expr)
       THEN LET operand == Top.expr.args[Len(Vals) + 1] IN
            IF TakesStoredErrors(Top.expr, Len(Vals) + 1) THEN Ask(operand, Top.scope)
                                                          ELSE Fetch(operand, Top.scope)
       ELSE Return(Result(Top.expr, Vals))

\* The operator an alias stands for, once its text is there.
Inline(e, text) ==
    [kind |-> e.of, op |-> text, name |-> text, type |-> text, names |-> e.names, args |-> Tail(e.args)]

LeastOperands(kind) ==
    CASE kind \in {"arithmetic", "compare"} -> 2
      [] kind \in {"logic", "field"} -> 1
      [] OTHER -> 0

LacksOperands(e) == Len(e.args) <= LeastOperands(e.of)

Alias ==
    LET e == Top.expr
        operator == Inline(e, Vals[1].text)
    IN
    /\ Working({"alias"}) /\ UNCHANGED effects
    /\ \/ Vals = <<>> /\ Fetch(e.args[1], Top.scope)
       \/ Vals # <<>> /\ Vals[1].kind # "text" /\ Return(Minted("type_mismatch"))
       \/ /\ Vals # <<>> /\ Vals[1].kind = "text" /\ LacksOperands(e)
          /\ Return(Minted("missing_argument"))
       \/ /\ Vals # <<>> /\ Vals[1].kind = "text" /\ ~LacksOperands(e)
          /\ IF Len(Vals) > Arity(operator) THEN Return(Result(operator, Tail(Vals)))
             ELSE LET operand == e.args[Len(Vals) + 1] IN
                  IF TakesStoredErrors(e, Len(Vals) + 1) THEN Ask(operand, Top.scope)
                                                         ELSE Fetch(operand, Top.scope)

\* A builtin's apply with a resource or capability, both or neither of path and
\* function, another operation than eval, a handler's path; a missing field.
Malformed == Working({"malformed"}) /\ Return(Minted("invalid_expression")) /\ UNCHANGED effects

\* The closure has an argument for each of its parameters.
Saturated(f) == Len(f.vals) > Len(f.vals[1].params)

\* The first operand is the function; the others are arguments, by name.  They
\* are evaluated in the order of the closure's parameters, in the caller's scope.
Apply ==
    LET given == {i \in DOMAIN Top.expr.names : Top.expr.names[i] = Vals[1].params[Len(Vals)]} IN
    /\ Working({"apply"}) /\ UNCHANGED effects
    /\ \/ Vals = <<>> /\ Ask(Top.expr.args[1], Top.scope)
       \/ /\ Vals # <<>> /\ Vals[1].kind # "closure"
          /\ Return(Minted("type_mismatch"))
       \/ /\ Vals # <<>> /\ Vals[1].kind = "closure" /\ Vals[1].broken # None
          /\ Return(Minted(Vals[1].broken))
       \/ /\ Vals # <<>> /\ Vals[1].kind = "closure" /\ Vals[1].broken = None
          /\ ~Saturated(Top)
          /\ IF given = {} THEN Return(Minted("missing_argument"))
             ELSE Ask(Top.expr.args[1 + CHOOSE i \in given : TRUE], Top.scope)
       \/ /\ Vals # <<>> /\ Vals[1].kind = "closure" /\ Vals[1].broken = None
          /\ Saturated(Top)
          /\ Continue(Vals[1].body, Bind(Vals[1].env, Vals[1].params, Tail(Vals)))

--------------------------------------------------------------------------------
(* The collection builtins: collection, function or index, initial or value; *)
(* then the function once per element                                        *)

\* Why the latest argument is of no use, None if it is.
Unfit(f) ==
    CASE Len(f.vals) = 1 /\ f.vals[1].kind # "array" -> "type_mismatch"
      [] Len(f.vals) = 2 /\ f.expr.kind # "assoc" /\ f.vals[2].kind # "closure" -> "type_mismatch"
      [] Len(f.vals) = 2 /\ f.expr.kind = "assoc" /\ f.vals[2].kind # "int" -> "type_mismatch"
      [] Len(f.vals) = 2 /\ f.expr.kind = "assoc" /\ f.vals[2].kind = "int"
                         /\ f.vals[2].int + 1 \notin DOMAIN f.vals[1].items -> "index_out_of_range"
      [] OTHER -> None

MoreArguments(f) == Len(f.vals) < Len(f.expr.args)

Argument ==
    /\ Working(Collections) /\ UNCHANGED effects
    /\ IF Unfit(Top) # None THEN Return(Minted(Unfit(Top)))
       ELSE MoreArguments(Top) /\ Fetch(Top.expr.args[Len(Vals) + 1], Top.scope)

\* A failure to apply the function is a value of that element, like one inside it.
ApplyToValues(c, values) ==
    CASE c.broken # None -> Give(Minted(c.broken))
      [] c.broken = None /\ Len(c.params) > Len(values) -> Give(Minted("missing_argument"))
      [] OTHER -> Fetch(c.body, Bind(c.env, c.params, values))

\* How many elements the function has been applied to, where there is one.
Applied(f) == Len(f.vals) - Len(f.expr.args)
MoreElements(f) == f.expr.kind # "assoc" /\ Applied(f) < Len(f.vals[1].items)

\* What the function is applied to next.
NextElement(f) ==
    LET item == f.vals[1].items[Applied(f) + 1]
    IN  IF f.expr.kind = "fold" THEN <<AsValue(Last(f.vals)), item>> ELSE <<item>>

Element ==
    /\ Working(Collections) /\ UNCHANGED effects
    /\ Unfit(Top) = None /\ ~MoreArguments(Top) /\ MoreElements(Top)
    /\ ApplyToValues(Vals[2], NextElement(Top))

\* The positions up to n that are in S, in their order.
InOrder(S, n) ==
    LET upto[i \in 0 .. n] ==
          IF i = 0 THEN <<>> ELSE IF i \in S THEN Append(upto[i - 1], i) ELSE upto[i - 1]
    IN  upto[n]

\* One group per key in the order they appear first.  A key is what its canonical
\* encoding is: the bare entity, not the one in flight.
Grouped(items, keys) ==
    LET same(i) == {j \in DOMAIN keys : Materialized(keys[j]) = Materialized(keys[i])}
        first == InOrder({i \in DOMAIN keys : \A j \in same(i) : i <= j}, Len(keys))
        members(i) == InOrder(same(i), Len(keys))
    IN  [g \in DOMAIN first |->
           Ref([kind |-> "entity", names |-> <<"key", "members">>,
                fields |-> <<Contained(keys[first[g]]),
                             Items([m \in DOMAIN members(first[g]) |->
                                      Contained(items[members(first[g])[m]])])>>])]

Kept(items, verdicts) ==
    LET kept == InOrder({i \in DOMAIN items : Truthy(verdicts[i])}, Len(items))
    IN  [i \in DOMAIN kept |-> Contained(items[kept[i]])]

Collected(f) ==
    LET items == f.vals[1].items
        results == SubSeq(f.vals, 3, Len(f.vals))
    IN  CASE f.expr.kind = "map" -> Items([i \in DOMAIN results |-> Contained(results[i])])
          [] f.expr.kind = "filter" -> Items(Kept(items, results))
          [] f.expr.kind = "group" -> Items(Grouped(items, results))
          [] f.expr.kind = "fold" -> AsValue(Last(f.vals))
          [] f.expr.kind = "assoc" ->
               Items([items EXCEPT ![f.vals[2].int + 1] = Contained(f.vals[3])])

Collect ==
    /\ Working(Collections) /\ UNCHANGED effects
    /\ Unfit(Top) = None /\ ~MoreArguments(Top) /\ ~MoreElements(Top)
    /\ Return(Collected(Top))

\* Where to is settled before what is evaluated: the permission too.
Store ==
    /\ Working({"store"}) /\ UNCHANGED reads
    /\ \/ Vals = <<>> /\ Fetch(Top.expr.args[1], Top.scope) /\ UNCHANGED writes
       \/ /\ Len(Vals) = 1 /\ UNCHANGED writes
          /\ CASE Vals[1].kind # "text" -> Return(Minted("type_mismatch"))
               [] Vals[1].kind = "text" /\ Vals[1].text \notin DOMAIN Tree ->
                    Return(Minted("invalid_expression"))
               [] Vals[1].kind = "text" /\ Vals[1].text \in DOMAIN Tree \ Writable ->
                    Return(Minted("permission_denied"))
               [] OTHER -> Fetch(Top.expr.args[2], Top.scope)
       \/ /\ Len(Vals) = 2
          /\ writes' = Append(writes, [path |-> Vals[1].text, value |-> Written(Vals[2])])
          /\ Return(Written(Vals[2]))

\* A value entity evaluates to itself; data is no expression.
Value ==
    /\ Working({"stored"}) /\ UNCHANGED effects
    /\ Return(IF Top.expr.value.kind = "entity" THEN Minted("unknown_type") ELSE Top.expr.value)

--------------------------------------------------------------------------------
(* The budget *)

\* Every evaluation step costs one operation, whether it was called or is a
\* tail call.
Charge ==
    /\ stack # <<>> /\ ~Top.charged /\ operations > 1
    /\ operations' = operations - 1
    /\ stack' = <<[Top EXCEPT !.charged = TRUE]>> \o Tail(stack)
    /\ UNCHANGED <<root, limits, depth, effects, answer>>

\* Mutant: running out keeps the depth of the frame it ends.
ExhaustKeepingDepth ==
    /\ stack # <<>> /\ ~Top.charged /\ operations <= 1
    /\ operations' = operations - 1
    /\ Pop(Minted("budget_exhausted"))
    /\ UNCHANGED <<root, limits, depth, effects>>

Exhaust ==
    /\ stack # <<>> /\ ~Top.charged /\ operations <= 1
    /\ operations' = operations - 1
    /\ Leave(Minted("budget_exhausted"))
    /\ UNCHANGED <<root, limits, effects>>

Init ==
    /\ root \in Roots /\ limits \in Limits
    /\ stack = <<>> /\ answer = None /\ reads = {} /\ writes = <<>>
    /\ operations = limits.operations /\ depth = limits.depth

\* evaluate() is entered once, before anything has been spent.
Start ==
    /\ stack = <<>> /\ answer = None /\ operations = limits.operations
    /\ \/ depth > 0 /\ stack' = <<Frame(root, Empty)>> /\ depth' = depth - 1 /\ UNCHANGED answer
       \/ depth <= 0 /\ answer' = Minted("depth_exceeded") /\ UNCHANGED <<stack, depth>>
    /\ UNCHANGED <<root, limits, operations, effects>>

Step ==
    \/ Start \/ Charge \/ Exhaust \/ ShortCircuit
    \/ Literal \/ LookupScope \/ LookupTree \/ LookupHash \/ If \/ Let \/ Lambda
    \/ Operate \/ Alias \/ Malformed \/ Apply
    \/ Argument \/ Element \/ Collect \/ Store \/ Value

Rest == answer # None /\ UNCHANGED vars

Next == Step \/ Rest

Spec == Init /\ [][Next]_vars

--------------------------------------------------------------------------------
(* Properties *)

\* An in-flight error must not be materialized: not in an array, not as an
\* element a function is applied to, and not in a scope a closure captures.
InFlight(v) == IsError(v) /\ v.minted
Plain(v) == ~InFlight(v) /\ (v.kind = "array" => \A i \in DOMAIN v.items : ~IsError(v.items[i]))

\* Well-formed frames, of which all but the innermost are charged, over plain
\* scopes and arrays.
TypeOK ==
    /\ operations \in Int /\ depth \in Nat
    /\ reads \subseteq Readable
    /\ \A i \in DOMAIN stack :
         /\ i > 1 => stack[i].charged
         /\ \A n \in DOMAIN stack[i].scope : Plain(stack[i].scope[n])
         /\ \A k \in DOMAIN stack[i].vals : Plain(stack[i].vals[k]) \/ InFlight(stack[i].vals[k])

\* Every frame of evaluate() holds one unit of depth and gives it back however
\* it ends: by a result, by a tail call's result, by an error, or because the
\* budget ran out inside it.
DepthBalanced == depth + Len(stack) = limits.depth

\* Once the budget has run out the evaluation answers budget_exhausted, from
\* however many collection builtins that contain errors it has to get out of.
ExhaustionDecides ==
    answer # None /\ operations <= 0 =>
        answer = Minted(IF limits.depth = 0 THEN "depth_exceeded" ELSE "budget_exhausted")

\* The frame went past a limit error it got as its k-th value.
PassedLimit(fr, k) == k < Len(fr.vals) /\ Halting(fr.vals[k])

\* An evaluation limit stops the builtin it reaches in either form: the code of
\* the error decides, not how it was produced.
LimitsHaltInAnyForm ==
    \A i \in DOMAIN stack : \A k \in DOMAIN stack[i].vals : ~PassedLimit(stack[i], k)
================================================================================
