--------------------------- MODULE MCReactiveEngine ----------------------------
(***************************************************************************)
(* Two subgraphs b and c over one input x.  In the sheet, c reads x and    *)
(* b's result, so x reaches it along two paths.  In the cycle they read    *)
(* each other's results, and x decides whether they settle, drive each     *)
(* other with values, or drive each other with errors, whose writes do not *)
(* count towards the cascade depth.  b's expression may be deleted, and    *)
(* replaced by that of the sheet.  The peer restarts once, in the middle of *)
(* whatever it is doing; copy is an expression that rebuild skips.         *)
(***************************************************************************)
EXTENDS ReactiveRestart, TLC

x == "x"
b == "b"
c == "c"

\* What expressions compute, and what of that is bound.
MCPrimitives == {"+0", "+1", "+2"}
MCWrapped(e, v) == e \o v

MCErrors == FreezeCodes \cup {"e1", "e2"}
IsValue(v) == v # Unset /\ v \notin MCErrors

\* A value's number, whatever entity it is in.
Number(v) == CHOOSE n \in 0 .. 2 : v \in {ToString(n), "next+" \o ToString(n), "drive+" \o ToString(n)}
Primitive(n) == "+" \o ToString(n)

MCExpressions == {"next", "pick", "drive", "copy"}
MCReads == [e \in MCExpressions |->
              CASE e = "next" -> <<x>> [] e = "pick" -> <<x, b>>
                [] e = "drive" -> <<x, c>> [] e = "copy" -> <<b>>]

Drive(input, other) ==
    CASE input = "1" -> Primitive(IF IsValue(other) /\ Number(other) = 0 THEN 1 ELSE 0)
      [] input = "2" -> IF other = "e1" THEN "e2" ELSE "e1"
      [] OTHER -> Primitive(0)

MCCompute(e, env) ==
    CASE e = "next" -> (IF IsValue(env[1]) THEN Primitive((Number(env[1]) + 1) % 3) ELSE "e1")
      [] e = "pick" -> (IF \E i \in DOMAIN env : ~IsValue(env[i]) THEN "e1"
                        ELSE IF env[1] = "0" THEN env[2] ELSE env[1])
      [] e = "drive" -> Drive(env[1], env[2])
      [] e = "copy" -> (IF env[1] = Unset THEN "e1" ELSE env[1])

SheetAlone == {[s \in {b, c} |-> IF s = b THEN "next" ELSE "pick"]}
CycleAlone == {[s \in {b, c} |-> IF s = b THEN "drive" ELSE "copy"]}
BothSheets == SheetAlone \cup CycleAlone
MCEdits == {<<b, "next">>, <<b, Unset>>}
================================================================================
