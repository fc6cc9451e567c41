----------------------------- MODULE AtomicLock -----------------------------
(***************************************************************************)
(* What withLock promises to its callers: of all the calls made for one    *)
(* lock key, at most one runs its callback at a time.  A call is pending   *)
(* until its callback starts, and is over when it returned, threw or its   *)
(* process died, whichever comes first.                                    *)
(***************************************************************************)
CONSTANT Attempts

VARIABLE status

AttemptStatus == {"pending", "holding", "over"}

Init == status = [a \in Attempts |-> "pending"]

Acquire(a) ==
  /\ status[a] = "pending"
  /\ \A b \in Attempts : status[b] # "holding"
  /\ status' = [status EXCEPT ![a] = "holding"]

Finish(a) ==
  /\ status[a] # "over"
  /\ status' = [status EXCEPT ![a] = "over"]

Next == \E a \in Attempts : Acquire(a) \/ Finish(a)

Spec == Init /\ [][Next]_status
=============================================================================
