--------------------------- MODULE MCComputeAuthority --------------------------
(***************************************************************************)
(* One root, whose program reads and seals, or stores and then uses what   *)
(* was sealed.  Each token has entries of its own about budgets.           *)
(***************************************************************************)
EXTENDS MCComputeInstall, ComputeAuthority

Asking == <<DataRef("h", "x"), Read("x"), Dispatch("target", None, Dynamic)>>
Shifting == <<Builtin(None, None, Dynamic), DataRef("h", "x"), Read("y")>>
LivelyPrograms == {Asking, Shifting, Storing}

MCCeilings == [tok \in MCTokens |->
    CASE tok = "peer" -> <<None, 5>> [] tok = "leaf" -> <<3, None, 2, 4>> [] tok = "other" -> <<>>]

\* Different data to begin with, and one installation asked for, by alice with
\* nothing but her capability, and no result path of its own.
LivelyInit ==
    /\ AuthorityInit
    /\ data["x"] # data["y"] /\ data["y"] # None
    /\ \A r \in Roots : expression[r] \in LivelyPrograms

LivelyNext ==
    /\ asked = 0 \/ UNCHANGED asked
    /\ AuthorityNext
    /\ \A r \in Roots : expression'[r] \in LivelyPrograms \cup {None}
    /\ \A t \in Servers : calls'[t].phase = "audit" =>
          /\ calls'[t].author = "alice" /\ calls'[t].known = {calls'[t].cap}
          /\ calls'[t].result = ResultPath[calls'[t].root]
================================================================================
