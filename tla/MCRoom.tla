--------------------------------- MODULE MCRoom ---------------------------------
(***************************************************************************)
(* Two people, each in a tab of their own; one of them may read one run    *)
(* only.                                                                   *)
(***************************************************************************)
EXTENDS RunRoom, TLC

CONSTANTS t1, t2, ann, bob, r1, r2

MCUserOf   == t1 :> ann @@ t2 :> bob
MCVisits   == t1 :> 2 @@ t2 :> 1
MCConns    == t1 :> 2 @@ t2 :> 1
MCReadable == {<<ann, r1>>, <<ann, r2>>, <<bob, r1>>}
===============================================================================
