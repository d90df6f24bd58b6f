------------------------------ MODULE MCExtChecks ------------------------------
(***************************************************************************)
(* Two targets, two compositions, two checks of two faces, and a third     *)
(* that reads a capture none of its steps produces.                        *)
(***************************************************************************)
EXTENDS ExtChecks

Check(id, steps, capture, face) ==
    [id |-> id, worded |-> TRUE, steps |-> steps,
     asserts |-> {[capture |-> capture, claim |-> "stored"]}, face |-> face]

Stored == Check("stored", <<"connect", "a">>, "a", "handler")
Reread == Check("reread", <<"connect", "a", "b">>, "a", "sdk")
Typo == Check("typo", <<"connect", "a">>, "b", "handler")

MCOrder == <<"python", "typescript">>
MCCorpora == {{Stored, Reread}, {Stored}, {Stored, Reread, Typo}}

Manner(dials, done, holds) == [dials |-> dials, done |-> done, holds |-> holds]

\* Whole, cut short after its assertions' captures, refused, or lost in the handshake.
MCManners(k) ==
    {Manner(TRUE, Len(k.steps), k.asserts), Manner(TRUE, Len(k.steps) - 1, k.asserts),
     Manner(TRUE, Len(k.steps), {}), Manner(TRUE, 0, {})}
MCOrdinary(a, k) ==
    Manner(TRUE, Len(k.steps), IF a = "bare" THEN {} ELSE k.asserts)
================================================================================
