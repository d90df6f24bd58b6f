----------------------------- MODULE MCConformance -----------------------------
(***************************************************************************)
(* The tools that guard a composition, in one run: `make compose`, the     *)
(* conformance gates and the authored extension checks share no file that  *)
(* one of them writes and another reads while it runs, so each behaviour   *)
(* exercises one of the three and leaves the others alone.                 *)
(***************************************************************************)
EXTENDS MCCompose, MCConformanceGates, MCExtChecks

VARIABLE tool   \* "compose", "gates" or "ext-checks"

ComposeAtRest ==
    /\ contracts = CHOOSE b \in Books : TRUE
    /\ system = System(<<>>, Missing, NoFaces)
    /\ mode = "write" /\ stack = <<>> /\ order = <<>>
    /\ outcome = "refused" /\ plan = Missing

GatesAtRest ==
    /\ MCGatesInit
    /\ reports = NoReports /\ body = CHOOSE b \in Bodies : TRUE

ChecksAtRest ==
    /\ corpus = {} /\ declared = <<>> /\ host = <<>> /\ files = <<>> /\ comp = "none"
    /\ queue = <<>> /\ phase = "idle" /\ dead = {} /\ unreached = {}
    /\ answer = "none" /\ makes = 0 /\ edits = 0

MCConformanceInit ==
    \/ tool = "compose" /\ ComposeInit /\ GatesAtRest /\ ChecksAtRest
    \/ tool = "gates" /\ MCGatesInit /\ ComposeAtRest /\ ChecksAtRest
    \/ tool = "ext-checks" /\ CheckInit /\ ComposeAtRest /\ GatesAtRest

MCConformanceNext ==
    \/ tool = "compose" /\ ComposeNext /\ UNCHANGED <<tool, gateVars, checkVars>>
    \/ tool = "gates" /\ GatesNext /\ UNCHANGED <<tool, composeVars, checkVars>>
    \/ tool = "ext-checks" /\ CheckNext /\ UNCHANGED <<tool, composeVars, gateVars>>

MCConformanceSpec ==
    /\ MCConformanceInit
    /\ [][MCConformanceNext]_<<tool, composeVars, gateVars, checkVars>>
    /\ ComposeFairness /\ CheckFairness
================================================================================
