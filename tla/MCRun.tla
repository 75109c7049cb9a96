--------------------------------- MODULE MCRun ---------------------------------
(***************************************************************************)
(* Small instances of a run: a lead with a tester or a viewer, and one or  *)
(* two cases.                                                              *)
(***************************************************************************)
EXTENDS Dashboard, TLC

CONSTANTS lead, tester, viewer

MCRole == lead :> "QA_LEAD" @@ tester :> "TESTER"

MCLeadRole == lead :> "QA_LEAD"

MCListRole == lead :> "QA_LEAD" @@ viewer :> "VIEWER"

\* The requests are numbered as they arrive, a reduction by symmetry that liveness
\* allows.  Bound: the last of them records a result.  Both cut off arrivals only, which
\* no fairness asks for.
InOrder == \A r, s \in Reqs : r < s /\ pc[s] # "idle" => pc[r] # "idle"
LastIsRecord == \A r \in Reqs : job[r].op \in {"status", "assign"} => \E s \in Reqs : r < s

RequestSymmetry == Permutations(Reqs)
CaseSymmetry    == Permutations(Reqs) \cup Permutations(Cases)
===============================================================================
