------------------------------ MODULE MCEvaluator ------------------------------
(***************************************************************************)
(* Every small expression over a handful of operands: each kind once over   *)
(* all of them, and each kind again around the ones that fail, read or go   *)
(* round.                                                                   *)
(***************************************************************************)
EXTENDS EvaluatorBudgets, SubgraphAudit

Lit(v) == [kind |-> "literal", value |-> v]
Entity(v) == [kind |-> "stored", value |-> v]
Name(n) == [kind |-> "scope", name |-> n]
At(p) == [kind |-> "tree", path |-> p]
By(n) == [kind |-> "hash", args |-> <<n>>]
Op(k, op, args) == [kind |-> k, op |-> op, args |-> args]
Node(k, args) == [kind |-> k, args |-> args]
LetIn(n, v, body) == [kind |-> "let", names |-> <<n>>, args |-> <<v, body>>]
Fn(names, body) == [kind |-> "lambda", names |-> names, args |-> <<body>>]
ApplyTo(fn, n, a) == [kind |-> "apply", names |-> <<n>>, args |-> <<fn, a>>]
Build(type, names, args) == [kind |-> "construct", type |-> type, names |-> names, args |-> args]
Record(a, b) == Build("data", <<"a", "b">>, <<a, b>>)
Put(p, e) == Node("store", <<Lit(Text(p)), e>>)
Get(e, n) == [kind |-> "field", name |-> n, args |-> <<e>>]

One == Lit(Number(1))
Pair == Lit(Items(<<Number(0), Number(1)>>))
Gone == [kind |-> "missing"]
Data == [kind |-> "entity", names |-> <<"a">>, fields |-> <<Number(1)>>]
Sealed == Entity([Data EXCEPT !.names = <<"b">>])
Failed == Entity(Stored("division_by_zero"))
Stopped == Entity(Stored("budget_exhausted"))
Quotient(a, b) == Op("arithmetic", "div", <<a, b>>)
Unloaded == Entity(Closure(<<"x">>, Name("x"), Empty, "scope_unreachable"))

MCTree == [data |-> Entity(Data), none |-> None, denied |-> Entity(Data),
           expr |-> Quotient(One, Name("x")), again |-> At("again"),
           frozen |-> Stopped, closure |-> Unloaded]
MCReadable == DOMAIN MCTree \ {"denied"}
MCWritable == {"none", "data"}
MCAuthorized == {Sealed}

\* Integers only: what an operator does with a wrong or a zero operand.
MCCombine(op, values) ==
    IF \E i \in DOMAIN values : values[i].kind # "int" THEN Minted("type_mismatch")
    ELSE IF op = "div" THEN IF values[2].int = 0 THEN Minted("division_by_zero")
                            ELSE Number(values[1].int \div values[2].int)
    ELSE IF op = "lt" THEN Bool(values[1].int < values[2].int)
    ELSE values[1]

Leaves == {One, Pair, Gone, Failed, Stopped, Name("x"), At("data"), At("frozen")}
Bodies == Leaves \cup {Quotient(One, Name("x")), At("again"), At("expr"), Quotient(Failed, One)}

Around(S, T) ==
    UNION { {Op("arithmetic", "div", <<a, b>>), Node("index", <<a, b>>),
             Op("logic", "and", <<a, b>>), Record(a, b), LetIn("x", a, b),
             ApplyTo(Fn(<<"x">>, b), "x", a), Node("map", <<a, Fn(<<"x">>, b)>>),
             Node("if", <<a, b>>)} : a \in S, b \in T }

\* Types of code told apart: what looks up, what is bare, and what is applied.
MCCodeTypes == {"tree", "literal", "closure"}
MCBuilt(type, names, fields) ==
    LET at(n) == {i \in DOMAIN names : names[i] = n}
        has(n, kind) == \E i \in at(n) : fields[i].kind = kind
        get(n) == fields[CHOOSE i \in at(n) : TRUE]
        malformed == [kind |-> "malformed", args |-> <<>>]
    IN  CASE type = "tree" -> Code(IF has("path", "text") THEN At(get("path").text) ELSE malformed, names, fields)
          [] type = "literal" -> Code(IF at("value") = {} THEN malformed ELSE Lit(get("value")), names, fields)
          [] type = "closure" ->
               IF has("params", "array") /\ has("body", "ref")
               THEN Closure(<<>>, ReadBack(get("body").of), Empty, None)
               ELSE Closure(<<>>, Gone, Empty, "invalid_expression")

\* Code that is built from data, stored, and run: a path no walk finds.
Lookup(p) == Build("tree", <<"path">>, <<Lit(Text(p))>>)
Thunk(body) == Build("closure", <<"params", "body">>, <<Lit(Items(<<>>)), body>>)
Building ==
    {LetIn("x", Put("none", c), At("none")) :
        c \in {Lookup("data"), Lookup("none"), Build("tree", <<"name">>, <<One>>), Build("literal", <<"value">>, <<Pair>>)}}
    \cup {ApplyTo(f, "x", One) : f \in {Put("none", Thunk(Lookup("data"))), Thunk(Lookup("data")), Put("none", Thunk(One))}}
    \cup {Build("error", <<n>>, <<Lit(Text("budget_exhausted"))>>) : n \in {"a", "code"}}
    \cup {Node("map", <<Pair, Fn(<<"x">>, Build("error", <<"code">>, <<Lit(Text("budget_exhausted"))>>))>>)}
    \cup {Get(e, n) : e \in {Put("none", Lookup("data")), Put("none", One), Fn(<<"x">>, One), LetIn("x", One, Fn(<<"y">>, One))},
                      n \in {"path", "body", "params", "env"}}
    \cup {LetIn("x", Put("none", [kind |-> "alias", of |-> "construct", names |-> <<"path">>,
                                  args |-> <<Lit(Text("tree")), Lit(Text("data"))>>]), At("none"))}

Functions2 == {Fn(<<"acc", "x">>, b) : b \in Bodies}

Small ==
    Around(Leaves, Bodies)
    \cup {Node("filter", <<Pair, Fn(<<"x">>, b)>>) : b \in Bodies}
    \cup {Node("fold", <<Pair, fn, a>>) : fn \in Functions2 \cup {Fn(<<"x">>, Name("x"))}, a \in Leaves}
    \cup {Node("assoc", <<Pair, i, a>>) : i \in {One, Pair, Lit(Number(2))}, a \in Leaves}
    \cup {Node("if", <<c, a, b>>) : c \in {Pair, Lit(Null), Lit(Bool(FALSE))}, a, b \in {One, Failed, Gone}}
    \cup {Node("if", <<Lit(Null), a>>) : a \in Leaves}
    \cup {ApplyTo(fn, "x", One) : fn \in Leaves}
    \cup {LetIn("x", Quotient(One, a), Name("x")) : a \in Leaves}
    \cup {Op("logic", "not", <<a>>) : a \in Leaves} \cup {Op("logic", "or", <<One>>)}
    \cup {Op("logic", "xor", <<One, a>>) : a \in Leaves} \cup {Op("logic", "xor", <<One>>)}
    \cup {Op("compare", "lt", <<One, a>>) : a \in Leaves}
    \cup {Node(k, <<a>>) : k \in {"length", "range", "concat"}, a \in Leaves \cup {Lit(Items(<<Items(<<>>), Items(<<Number(1)>>)>>)), Lit(Number(-1))}}
    \cup {By(a) : a \in Leaves \cup {Sealed, Entity(Data)}}
    \cup {Op("cast", "int", <<a>>) : a \in Leaves}
    \cup {Get(a, n) : a \in {One, At("data"), Record(One, At("data")), Unloaded}, n \in {"a", "b", "c"}}
    \cup {Node("group", <<Pair, Fn(<<"x">>, b)>>) : b \in Bodies}
    \cup {[kind |-> "alias", of |-> k, names |-> <<"a", "b">>, args |-> <<t, a, b>>] :
             k \in {"arithmetic", "construct", "logic"}, t \in {Lit(Text("div"))}, a, b \in Leaves}
    \cup {[kind |-> "alias", of |-> "field", names |-> <<>>, args |-> <<t, a>>] :
             t \in {Lit(Text("a"))} \cup Leaves, a \in Leaves \cup {Record(One, One)}}
    \cup {[kind |-> "alias", of |-> k, names |-> <<>>, args |-> <<Lit(Text(t)), One>>] :
             k \in {"compare", "logic"}, t \in {"lt", "not", "or"}}
    \cup {[kind |-> "malformed", args |-> <<>>]}
    \cup {Put(p, a) : p \in {"none", "data", "expr", "reserved"}, a \in Bodies \cup {Record(One, One)}}
    \cup {Node("store", <<p, One>>) : p \in Leaves}
    \cup {At("denied"), At("none"), At("closure"), Sealed}
    \cup {ApplyTo(fn, n, One) : fn \in {Unloaded, At("closure"), Fn(<<"x">>, Name("x")), Fn(<<"x", "y">>, One)}, n \in {"x", "y"}}
    \cup {Node("map", <<Pair, fn>>) : fn \in {Unloaded, Fn(<<"x", "y">>, One), Fn(<<>>, One), Fn(<<"y">>, Fn(<<>>, Name("y")))}}

\* Builtins inside builtins, and functions that outlive the scope they close over.
Nested ==
    Around({Pair}, {Node("map", <<Pair, Fn(<<"y">>, b)>>) : b \in Bodies})
    \cup {Node("fold", <<Pair, Fn(<<"acc", "x">>, Node("map", <<Pair, Fn(<<"y">>, b)>>)), One>>) : b \in Bodies}
    \cup {LetIn("x", r, Node("map", <<Pair, Fn(<<"y">>, LetIn("z", b, Get(Name("x"), "b")))>>)) :
             r \in {Record(One, Record(One, One))}, b \in Bodies}

\* Writes on the way: in elements, in operands after which another fails, and
\* read again by what comes after them.
Writing ==
    {Node("map", <<Pair, Fn(<<"x">>, Put("data", b))>>) : b \in Bodies}
    \cup {Record(Put("none", a), b) : a, b \in Leaves \cup {At("none")}}
    \cup {Node("fold", <<Pair, Fn(<<"acc", "x">>, Node("if", <<Put("none", b), Name("acc"), Put("data", Name("x"))>>)), One>>) : b \in Bodies}
    \cup {LetIn("x", Put("none", b), At("none")) : b \in Bodies \cup {Fn(<<>>, One)}}

MCRoots == Building \cup Writing \cup Small \cup Nested
MCBare == {Number(i) : i \in -1 .. 2} \cup {Text(t) : t \in {"a", "div", "lt", "not", "or"} \cup DOMAIN MCTree \cup {"reserved", "tree", "budget_exhausted"}}
              \cup {Null, Bool(FALSE), Items(<<>>), Items(<<Number(1)>>), Items(<<Items(<<>>), Items(<<Number(1)>>)>>),
                    Pair.value, Data, Sealed.value}
MCAmple == [operations |-> 24, depth |-> 6]
MCLimits == {MCAmple} \cup [operations : 0 .. 7, depth : {0, 1, 3}]

\* The walk comes first.
MCEvaluatorInit == BudgetInit /\ AuditInit

MCEvaluatorNext ==
    \/ Visit /\ UNCHANGED <<deepest, first>>
    \/ pending = {} /\ BudgetNext /\ UNCHANGED auditVars

MCEvaluatorSpec == MCEvaluatorInit /\ [][MCEvaluatorNext]_<<budgetVars, auditVars>>
================================================================================
