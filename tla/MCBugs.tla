--------------------------------- MODULE MCBugs --------------------------------
(***************************************************************************)
(* Two organizations, a run case of the second, one bug, three requests.   *)
(***************************************************************************)
EXTENDS OrgScreens

CONSTANTS orgA, orgB

MCOrgOf == [c \in RunCases |-> orgB]
MCChanges == {[status |-> "RESOLVED"], [status |-> "OPEN", severity |-> "CRITICAL"]}
Symmetry == Permutations(Reqs \ Own)
===============================================================================
