--------------------------------- MODULE MCPage --------------------------------
(***************************************************************************)
(* One page of a run with one case: one request of its own, one of others. *)
(***************************************************************************)
EXTENDS RunPage

CONSTANTS own, other

MCReqs == {own, other}
MCMine == {own}
===============================================================================
