--------------------------- MODULE MCLocalRuntime ---------------------------
(* Supervisors d1 and d2 of one local task and a cancelling command k1.    *)
EXTENDS LocalRuntime, TLC

CONSTANTS r1, t1, d1, d2, k1, none, nocause

MCRunOf == [t \in Tasks |-> r1]
MCAdapter == [t \in Tasks |-> "local"]
MCControllerOf == [t \in Tasks |-> none]
Sym == Permutations(Dispatchers)
MCRunCap == [r \in Runs |-> 1]
=============================================================================
