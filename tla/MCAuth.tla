-------------------------------- MODULE MCAuth --------------------------------
(***************************************************************************)
(* Small instances of the refresh tokens.                                  *)
(***************************************************************************)
EXTENDS RefreshTokens, TLC

AuthSymmetry == Permutations(Tokens) \cup Permutations(Reqs)
===============================================================================
