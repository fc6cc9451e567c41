------------------------------ MODULE MCLedger ------------------------------
(* Instances of the ledger, one per set of tasks that may be added: local  *)
(* tasks t1 and t2 of run r1; a native controller n of run r2 with the     *)
(* agent h it dispatches; and, each alone, a local task t3 and an agent a  *)
(* that its host starts by itself, with several attempts.                  *)
EXTENDS Ledger, TLC

CONSTANTS r1, r2, t1, t2, t3, a, n, h, none, c1, nocause,
  Instances  \* the sets of tasks that are played

VARIABLE inPlay

MCRunOf == [t \in Tasks |-> IF t \in {n, h} THEN r2 ELSE r1]
MCAdapter ==
  [t \in Tasks |-> CASE t = n -> "native" [] t \in {a, h} -> "host" [] OTHER -> "local"]
MCControllerOf == [t \in Tasks |-> IF t = h THEN n ELSE none]
(* A task alone has room for a second reservation that nothing but the     *)
(* rules of its own attempts may refuse.                                   *)
MCRunCap == [r \in Runs |-> IF r = r2 \/ t3 \in Tasks THEN 2 ELSE 1]
Pair == {{t1, t2}, {n, h}}
Alone == {{t3}, {a}}
Agent == {{a}}
Sym == Permutations({t1, t2})

MCInit == Init /\ inPlay \in Instances /\ (inPlay # {t1, t2} => policy = 2)

(* Respecifications and causes are about the agent, late tokens and        *)
(* cancellations about the local task; only the pair sees the cap change.  *)
Played ==
  /\ \A t \in Tasks \ inPlay : task'[t] = task[t]
  /\ inPlay # {t1, t2} => setting' = setting
  /\ t3 \in Tasks \cap inPlay => task'[t3].attempt <= 2 /\ task'[t3].generation <= 2
                      /\ task'[t3].spec = 0 /\ task'[t3].result.cause = nocause

MCNext == Next /\ UNCHANGED inPlay /\ Played
MCSpec == MCInit /\ [][MCNext]_<<vars, inPlay>>
=============================================================================
