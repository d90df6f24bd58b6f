---------------------------- MODULE MCComputeInstall ---------------------------
(***************************************************************************)
(* One root over two paths.  The peer's own token covers everything; alice *)
(* derived one for x from it, bob another, who may write a result only     *)
(* aside.  There is a program for each way an audit can end, and one whose *)
(* embedded capability alice handed down.                                  *)
(***************************************************************************)
EXTENDS ComputeInstall

MCTokens == {"peer", "leaf", "other"}
MCGranter == [tok \in MCTokens |->
    CASE tok = "peer" -> "self" [] tok = "leaf" -> "alice" [] tok = "other" -> "bob"]
MCParent == [tok \in MCTokens |-> IF tok = "peer" THEN None ELSE "peer"]
Reach(tok) ==
    CASE tok = "peer" -> {"x", "y", "result", "aside"} [] tok = "leaf" -> {"x", "result"}
      [] tok = "other" -> {"x", "aside"}
MCMayGet == [tok \in MCTokens |-> Reach(tok)]
MCMayPut == [tok \in MCTokens |-> Reach(tok)]
MCMayCall == [tok \in MCTokens |-> IF tok = "other" THEN {} ELSE {"target"}]
MCResultPath == [r \in {"root"} |-> "result"]

Watching == <<Read("x"), DataRef("h", "x")>>
Storing == <<Builtin(None, None, "y"), DataRef("h", "y"), Read("x")>>
Delegating == <<Read("x"), Dispatch("target", "leaf", Dynamic)>>
Borrowing == <<Dispatch("target", "other", Dynamic), Read("x")>>
Overriding == <<Dispatch("target", "leaf", None)>>
Dressed == <<Builtin("leaf", None, Dynamic)>>
Hintless == <<DataRef("h", None)>>

AllPrograms == {Watching, Storing, Delegating, Borrowing, Overriding, Dressed, Hintless}
OnePrograms == {Delegating}
================================================================================
