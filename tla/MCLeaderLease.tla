--------------------------- MODULE MCLeaderLease ---------------------------
(* Small instances of LeaderLease for TLC.                                 *)
EXTENDS LeaderLease, TLC

WorkerSymmetry == Permutations(Workers)
=============================================================================
