------------------------ MODULE MCApprovalLifecycle ------------------------
(* Small instances of ApprovalLifecycle: one task that may ask for two       *)
(* approvals in turn.                                                        *)
EXTENDS ApprovalLifecycle, TLC

CONSTANTS job, p, q, e1, e2, o1, o2, o3, t1, t2, t3

MCTaskOf == p :> job @@ q :> job
MCTaskOfOne == p :> job
IdSymmetry == Permutations({p, q})
=============================================================================
