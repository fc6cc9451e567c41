----------------------------- MODULE Admission -----------------------------
(***************************************************************************)
(* What the runtime ledger promises of its slots, without its statuses: a  *)
(* slot is one attempt of one task, a task holds at most one, a run holds  *)
(* at most its cap, and a slot that was given back is never taken again.   *)
(***************************************************************************)
EXTENDS Naturals, FiniteSets

CONSTANTS Runs, Tasks, RunOf, RunCap, MaxGeneration

Slots == Tasks \X (1..MaxGeneration)

VARIABLES
  held,  \* slots in use
  past   \* slots given back

Init == held = {} /\ past = {}

HeldIn(r) == {s \in held : RunOf[s[1]] = r}

Take(s) ==
  /\ \A k \in held : k[1] # s[1]
  /\ \A k \in past : k[1] = s[1] => k[2] < s[2]
  /\ Cardinality(HeldIn(RunOf[s[1]])) < RunCap[RunOf[s[1]]]
  /\ held' = held \cup {s}
  /\ past' = past

(* One step may give back several slots: a controller takes its children's *)
(* with it, and a run is reconciled as a whole.                            *)
Give(S) ==
  /\ S # {}
  /\ held' = held \ S
  /\ past' = past \cup S

Next == (\E s \in Slots : Take(s)) \/ (\E S \in SUBSET held : Give(S))

Spec == Init /\ [][Next]_<<held, past>>
=============================================================================
