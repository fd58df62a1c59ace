-------------------------- MODULE MCAppOperations --------------------------
(* Small instances of AppOperations for TLC.                               *)
EXTENDS AppOperations, TLC

ClientSymmetry == Permutations(Clients)
WorkerSymmetry == Permutations(Workers)
=============================================================================
