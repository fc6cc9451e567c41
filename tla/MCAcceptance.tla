---------------------------- MODULE MCAcceptance ----------------------------
(* An author task w1, verification jobs j1 and j2 of one run.            *)
EXTENDS Acceptance, TLC

CONSTANTS w1, j1, j2, alice, eve, s1, s2, s3, nobody
Sym == Permutations(Actors) \cup Permutations(Sessions) \cup Permutations(Jobs)
=============================================================================
