--------------------------------- MODULE MCOrg ---------------------------------
(***************************************************************************)
(* An organization of two people, with requests that differ only by name.  *)
(***************************************************************************)
EXTENDS RunCreation, TLC

OrgSymmetry == Permutations(Reqs) \cup Permutations(Invitations)
===============================================================================
