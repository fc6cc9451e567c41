---------------------------- MODULE MCBakeryLock ----------------------------
(* Three calls contend for one key; tokens 1, 2, 3 in any arrival order.   *)
EXTENDS BakeryLock

=============================================================================
