----------------------------- MODULE BakeryLock -----------------------------
(***************************************************************************)
(* The lock of src/atomic-state.js: withLock(root, key, fn).  Each call    *)
(* publishes a claim file named by a fresh UUID token, scans the other     *)
(* claims for the largest ticket, replaces its claim by one that holds the *)
(* next ticket, and rescans until no claim precedes its own.               *)
(*                                                                         *)
(* An attempt is one call, named by its token; tokens are never reused, so *)
(* an attempt runs once.  Its process may die at any step and then leaves  *)
(* its claim on disk.  A scan lists the directory and reads the claims one *)
(* by one; an entry that exists throughout is seen, and one that appears   *)
(* or disappears meanwhile may be missed, so a scan is one visit of each   *)
(* other attempt at a moment of its own, in any order.                     *)
(***************************************************************************)
EXTENDS Naturals

CONSTANTS
  Attempts,      \* the calls of withLock for one key, by token
  Unverifiable,  \* attempts whose death processAlive cannot confirm
  MaxTicket      \* Number.MAX_SAFE_INTEGER

(* Tokens are compared as strings, a total order: any numbers will do.     *)
ASSUME AttemptsAssumption ==
  /\ Attempts \subseteq Nat
  /\ Unverifiable \subseteq Attempts
  /\ MaxTicket \in Nat

VARIABLES
  pc,       \* where each call stands
  phase,    \* phase of the claim file on disk, "none" when there is no file
  ticket,   \* ticket in the claim file, 0 for null
  unread,   \* claims the current scan has still to read
  maximum,  \* largest ticket the first scan has seen
  blocked,  \* the current scan has seen a preceding claim
  expired,  \* the deadline of the call has passed
  ahead     \* history: who held a ticket when the call published its claim

vars == <<pc, phase, ticket, unread, maximum, blocked, expired, ahead>>

Others(a) == Attempts \ {a}

Init ==
  /\ pc = [a \in Attempts |-> "start"]
  /\ phase = [a \in Attempts |-> "none"]
  /\ ticket = [a \in Attempts |-> 0]
  /\ unread = [a \in Attempts |-> {}]
  /\ maximum = [a \in Attempts |-> 0]
  /\ blocked = [a \in Attempts |-> FALSE]
  /\ expired = [a \in Attempts |-> FALSE]
  /\ ahead = [a \in Attempts |-> {}]

(* Mutants: an unknown owner is taken for dead; the dead are never found.  *)
UnknownIsDead(o) == pc[o] = "dead" \/ o \in Unverifiable
NeverDead(o) == FALSE

(* processAlive: only a confirmed death is false; null keeps the claim.    *)
ConfirmedDead(o) == pc[o] = "dead" /\ o \notin Unverifiable

(* Mutants: choosing claims are not waited for; equal tickets tie.         *)
IgnoresChoosing(o, a) ==
  phase[o] = "waiting" /\ (ticket[o] < ticket[a] \/ (ticket[o] = ticket[a] /\ o < a))
TiesPass(o, a) ==
  phase[o] = "choosing" \/ (phase[o] = "waiting" /\ ticket[o] < ticket[a])

(* The claim o keeps the caller a waiting.                                 *)
Precedes(o, a) ==
  \/ phase[o] = "choosing"
  \/ /\ phase[o] = "waiting"
     /\ \/ ticket[o] < ticket[a]
        \/ ticket[o] = ticket[a] /\ o < a

(* A scan unlinks the claims of the dead that it comes across.             *)
Reclaim(o) ==
  /\ phase' = IF ConfirmedDead(o) THEN [phase EXCEPT ![o] = "none"] ELSE phase
  /\ ticket' = IF ConfirmedDead(o) THEN [ticket EXCEPT ![o] = 0] ELSE ticket

Seen(o) == phase[o] # "none" /\ ~ConfirmedDead(o)

(* The locals of a call go with it.                                        *)
Forget(a) ==
  /\ unread' = [unread EXCEPT ![a] = {}]
  /\ maximum' = [maximum EXCEPT ![a] = 0]
  /\ blocked' = [blocked EXCEPT ![a] = FALSE]
  /\ expired' = [expired EXCEPT ![a] = FALSE]
  /\ ahead' = [ahead EXCEPT ![a] = {}]

(* The finally block: the call's own claim is unlinked, however it ends.   *)
End(a) ==
  /\ pc' = [pc EXCEPT ![a] = "done"]
  /\ phase' = [phase EXCEPT ![a] = "none"]
  /\ ticket' = [ticket EXCEPT ![a] = 0]
  /\ Forget(a)

Publish(a) ==
  /\ pc[a] = "start"
  /\ pc' = [pc EXCEPT ![a] = "scan"]
  /\ phase' = [phase EXCEPT ![a] = "choosing"]
  /\ unread' = [unread EXCEPT ![a] = Others(a)]
  /\ ahead' = [ahead EXCEPT ![a] = {o \in Others(a) : phase[o] = "waiting"}]
  /\ UNCHANGED <<ticket, maximum, blocked, expired>>

VisitForMaximum(a, o) ==
  /\ pc[a] = "scan"
  /\ o \in unread[a]
  /\ unread' = [unread EXCEPT ![a] = @ \ {o}]
  /\ maximum' = IF Seen(o) /\ ticket[o] > maximum[a]
                THEN [maximum EXCEPT ![a] = ticket[o]] ELSE maximum
  /\ Reclaim(o)
  /\ UNCHANGED <<pc, blocked, expired, ahead>>

(* Mutant: the ticket below the largest instead of the one above it.       *)
TicketBelow(a) ==
  /\ pc[a] = "scan"
  /\ unread[a] = {}
  /\ maximum[a] < MaxTicket
  /\ pc' = [pc EXCEPT ![a] = "wait"]
  /\ phase' = [phase EXCEPT ![a] = "waiting"]
  /\ ticket' = [ticket EXCEPT ![a] = maximum[a] - 1]
  /\ maximum' = [maximum EXCEPT ![a] = 0]
  /\ unread' = [unread EXCEPT ![a] = Others(a)]
  /\ UNCHANGED <<blocked, expired, ahead>>

TakeTicket(a) ==
  /\ pc[a] = "scan"
  /\ unread[a] = {}
  /\ maximum[a] < MaxTicket
  /\ pc' = [pc EXCEPT ![a] = "wait"]
  /\ phase' = [phase EXCEPT ![a] = "waiting"]
  /\ ticket' = [ticket EXCEPT ![a] = maximum[a] + 1]
  /\ maximum' = [maximum EXCEPT ![a] = 0]
  /\ unread' = [unread EXCEPT ![a] = Others(a)]
  /\ UNCHANGED <<blocked, expired, ahead>>

(* LOCK_TICKET_OVERFLOW *)
Overflow(a) ==
  /\ pc[a] = "scan"
  /\ unread[a] = {}
  /\ maximum[a] >= MaxTicket
  /\ End(a)

VisitForTurn(a, o) ==
  /\ pc[a] = "wait"
  /\ o \in unread[a]
  /\ unread' = [unread EXCEPT ![a] = @ \ {o}]
  /\ blocked' = [blocked EXCEPT ![a] = @ \/ (Seen(o) /\ Precedes(o, a))]
  /\ Reclaim(o)
  /\ UNCHANGED <<pc, maximum, expired, ahead>>

Enter(a) ==
  /\ pc[a] = "wait"
  /\ unread[a] = {}
  /\ ~blocked[a]
  /\ pc' = [pc EXCEPT ![a] = "critical"]
  /\ UNCHANGED <<phase, ticket, unread, maximum, blocked, expired, ahead>>

(* Mutant: the deadline is never looked at.                                *)
PollForever(a) ==
  /\ pc[a] = "wait"
  /\ unread[a] = {}
  /\ blocked[a]
  /\ unread' = [unread EXCEPT ![a] = Others(a)]
  /\ blocked' = [blocked EXCEPT ![a] = FALSE]
  /\ UNCHANGED <<pc, phase, ticket, maximum, expired, ahead>>

Poll(a) ==
  /\ pc[a] = "wait"
  /\ unread[a] = {}
  /\ blocked[a]
  /\ ~expired[a]
  /\ unread' = [unread EXCEPT ![a] = Others(a)]
  /\ blocked' = [blocked EXCEPT ![a] = FALSE]
  /\ UNCHANGED <<pc, phase, ticket, maximum, expired, ahead>>

(* STATE_LOCKED, thrown only after a complete scan that found a reason.    *)
TimeOut(a) ==
  /\ pc[a] = "wait"
  /\ unread[a] = {}
  /\ blocked[a]
  /\ expired[a]
  /\ End(a)

Leave(a) ==
  /\ pc[a] = "critical"
  /\ End(a)

(* The clock reaches the deadline of a call that is under way.             *)
Expire(a) ==
  /\ pc[a] \in {"scan", "wait"}
  /\ ~expired[a]
  /\ expired' = [expired EXCEPT ![a] = TRUE]
  /\ UNCHANGED <<pc, phase, ticket, unread, maximum, blocked, ahead>>

(* The process dies; its claim, with its identity, stays on disk.          *)
Crash(a) ==
  /\ pc[a] \in {"scan", "wait", "critical"}
  /\ pc' = [pc EXCEPT ![a] = "dead"]
  /\ Forget(a)
  /\ UNCHANGED <<phase, ticket>>

Step(a) ==
  \/ \E o \in unread[a] : VisitForMaximum(a, o) \/ VisitForTurn(a, o)
  \/ TakeTicket(a) \/ Overflow(a) \/ Enter(a) \/ Poll(a) \/ TimeOut(a) \/ Leave(a)

Next == \E a \in Attempts : Publish(a) \/ Step(a) \/ Expire(a) \/ Crash(a)

Spec == Init /\ [][Next]_vars

(* A process that is not killed keeps running its own call, and callbacks  *)
(* are synchronous and finite.  Nobody is obliged to call, to die, or to   *)
(* be slow enough to reach its deadline.                                   *)
FairSpec == Spec /\ \A a \in Attempts : WF_vars(Step(a))

-----------------------------------------------------------------------------
TypeOK ==
  /\ pc \in [Attempts -> {"start", "scan", "wait", "critical", "done", "dead"}]
  /\ phase \in [Attempts -> {"none", "choosing", "waiting"}]
  /\ ticket \in [Attempts -> Nat]
  /\ unread \in [Attempts -> SUBSET Attempts]
  /\ maximum \in [Attempts -> Nat]
  /\ blocked \in [Attempts -> BOOLEAN]
  /\ expired \in [Attempts -> BOOLEAN]
  /\ ahead \in [Attempts -> SUBSET Attempts]

(* Two callbacks under one key never overlap, whatever dies and whenever   *)
(* dead claims are reclaimed: every ledger transaction rests on this.      *)
MutualExclusion ==
  \A a, b \in Attempts : pc[a] = "critical" /\ pc[b] = "critical" => a = b

(* A call never runs past a claim that already held a ticket when the call *)
(* began and is still on disk: live contenders are served in order, and an *)
(* owner whose death cannot be confirmed keeps its place for ever (the     *)
(* comment "callers must retain the slot" on processAlive).                *)
NoOvertaking ==
  \A a \in Attempts : pc[a] = "critical" =>
    \A o \in ahead[a] : phase[o] # "waiting"

(* The strengthening that is inductive.  Claims on disk agree with where   *)
(* their calls stand ...                                                   *)
ClaimInv(a) ==
  /\ phase[a] # "none" => pc[a] \notin {"start", "done"}
  /\ pc[a] = "scan" => phase[a] = "choosing"
  /\ pc[a] \in {"wait", "critical"} => phase[a] = "waiting" /\ ticket[a] > 0
  /\ pc[a] \in {"start", "scan"} => ticket[a] = 0

Before(a, b) == ticket[a] < ticket[b] \/ (ticket[a] = ticket[b] /\ a < b)

(* ... and b cannot enter before a, once a has seen b without being        *)
(* blocked: b has still to read a's ticket, or to find that it precedes.   *)
Yields(b, a) ==
  \/ pc[b] \in {"start", "done", "dead"}
  \/ pc[b] = "scan" /\ (a \in unread[b] \/ maximum[b] >= ticket[a])
  \/ pc[b] = "wait" /\ Before(a, b) /\ (a \in unread[b] \/ blocked[b])

PassedInv(a) ==
  /\ pc[a] = "wait" /\ ~blocked[a] => \A b \in Others(a) \ unread[a] : Yields(b, a)
  /\ pc[a] = "critical" => \A b \in Others(a) : Yields(b, a)

LockInv == TypeOK /\ \A a \in Attempts : ClaimInv(a) /\ PassedInv(a)

(* A ticket published before the call began is read by every scan of it.   *)
QueueInv(a, o) ==
  /\ o # a
  /\ pc[o] \notin {"start", "scan"}
  /\ phase[o] = "waiting" =>
       /\ pc[a] # "critical"
       /\ pc[a] = "scan" => o \in unread[a] \/ maximum[a] >= ticket[o]
       /\ pc[a] = "wait" => ticket[o] < ticket[a] /\ (o \in unread[a] \/ blocked[a])

OrderInv == \A a \in Attempts : \A o \in ahead[a] : QueueInv(a, o)

(* A call that began is served or ends, although others die holding the    *)
(* lock or halfway through choosing: their claims are reclaimed, unless    *)
(* nobody can tell that they died.                                         *)
EventuallyServed ==
  \A a \in Attempts :
    pc[a] = "scan" ~> \/ pc[a] \in {"critical", "done", "dead"}
                      \/ \E u \in Unverifiable : pc[u] = "dead"

(* With clocks moving, a call ends even behind a claim nobody can resolve. *)
EventuallyEnds ==
  (\A a \in Attempts : WF_vars(Expire(a)))
    => \A a \in Attempts : pc[a] = "scan" ~> pc[a] \in {"done", "dead"}

(* Nobody waits for ever, for his turn or for his end.                     *)
CallsComplete == EventuallyServed /\ EventuallyEnds

(* The lock implements the abstract one.                                   *)
AbstractStatus ==
  [a \in Attempts |-> CASE pc[a] = "critical" -> "holding"
                        [] pc[a] \in {"done", "dead"} -> "over"
                        [] OTHER -> "pending"]

Abstract == INSTANCE AtomicLock WITH status <- AbstractStatus

ImplementsAtomicLock == Abstract!Spec
=============================================================================
