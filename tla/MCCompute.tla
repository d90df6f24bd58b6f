------------------------------- MODULE MCCompute -------------------------------
(***************************************************************************)
(* The compute extension's state machines in one run: what install decides *)
(* and records, what an evaluation may then reach through which door, and  *)
(* what the engine does with subgraphs that are installed.  Each behaviour *)
(* exercises one of them and leaves the others at rest.                    *)
(***************************************************************************)
EXTENDS MCReactiveEngine, MCComputeAuthority

VARIABLE side   \* "install", "authority" or "engine"

EngineAtRest == PeerInit /\ expr = CHOOSE sheet \in Sheets : TRUE
InstallAtRest ==
    /\ AuthorityInit
    /\ data = [p \in DataPaths |-> None]
    /\ expression = [r \in Roots |-> None]

MCPrograms == AllPrograms \cup LivelyPrograms

\* A request for another result path is alice's, with nothing but her capability.
Audited ==
    /\ \A r \in Roots : expression[r] \in AllPrograms \cup {None}
    /\ \A t \in Servers : calls[t].phase = "audit" /\ calls[t].result \in Overrides =>
          calls[t].author = "alice" /\ calls[t].known = {calls[t].cap}

MCComputeInit ==
    \/ side = "install" /\ AuthorityInit /\ Audited /\ EngineAtRest
    \/ side = "authority" /\ LivelyInit /\ EngineAtRest
    \/ side = "engine" /\ PeerInit /\ InstallAtRest

MCComputeNext ==
    \/ side = "install" /\ InstallNext /\ Audited'
       /\ UNCHANGED <<side, peerVars, running, lapsed, evaluated>>
    \/ side = "authority" /\ LivelyNext /\ UNCHANGED <<side, peerVars>>
    \/ side = "engine" /\ PeerNext /\ UNCHANGED <<side, authorityVars>>

MCComputeSpec ==
    /\ MCComputeInit
    /\ [][MCComputeNext]_<<side, peerVars, authorityVars>>
    /\ PeerFairness
================================================================================
