----------------------------- MODULE MCRunQueue -----------------------------
(* Two tasks, each of which may be queued with or without the other as its *)
(* dependency, and one coordinator.                                        *)
EXTENDS RunQueue, TLC

CONSTANTS t1, t2

MCTaskOrder == (t1 :> 1) @@ (t2 :> 2)
MCSpecs ==
  [t \in {t1, t2} |-> {[deps |-> deps, scope |-> {"p"}, writes |-> TRUE, adapter |-> "host"] :
                         deps \in SUBSET ({t1, t2} \ {t})}]
=============================================================================
