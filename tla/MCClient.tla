------------------------------ MODULE MCClient ------------------------------
(* Model values for Client.                                                *)
EXTENDS Client, TLC

CONSTANTS w1, w2, w3

MCWorkers == {w1, w2, w3}
WorkerSymmetry == Permutations(MCWorkers)
=============================================================================
