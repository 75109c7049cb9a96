--------------------------------- MODULE MCTree ---------------------------------
(***************************************************************************)
(* Small suite trees; suites, cases and requests differ only by name.      *)
(***************************************************************************)
EXTENDS SuitesPage, TLC

TreeSymmetry == Permutations(Suites) \cup Permutations(Cases) \cup Permutations(Reqs)
===============================================================================
