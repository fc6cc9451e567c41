-------------------------- MODULE BakeryLockProofs --------------------------
(***************************************************************************)
(* Proofs about BakeryLock, for any number of calls, any order of their    *)
(* tokens, any set of unverifiable owners and any ticket bound.            *)
(***************************************************************************)
EXTENDS BakeryLock, TLAPS

(* The variables keep their types: tickets are naturals, a scan ranges     *)
(* over attempts only (src/src/atomic-state.js withLock).                  *)
THEOREM TypeCorrect == Spec => []TypeOK
<1> USE AttemptsAssumption
<1>1. Init => TypeOK
  BY DEF Init, TypeOK
<1>2. TypeOK /\ [Next]_vars => TypeOK'
  <2> SUFFICES ASSUME TypeOK, [Next]_vars PROVE TypeOK'
    OBVIOUS
  <2>1. ASSUME NEW a \in Attempts, Publish(a) PROVE TypeOK'
    BY <2>1 DEF TypeOK, Publish, Others
  <2>2. ASSUME NEW a \in Attempts, NEW o \in unread[a], VisitForMaximum(a, o) PROVE TypeOK'
    BY <2>2 DEF TypeOK, VisitForMaximum, Reclaim, Seen
  <2>3. ASSUME NEW a \in Attempts, NEW o \in unread[a], VisitForTurn(a, o) PROVE TypeOK'
    BY <2>3 DEF TypeOK, VisitForTurn, Reclaim, Seen, Precedes
  <2>4. ASSUME NEW a \in Attempts, TakeTicket(a) PROVE TypeOK'
    BY <2>4 DEF TypeOK, TakeTicket, Others
  <2>5. ASSUME NEW a \in Attempts, Overflow(a) \/ TimeOut(a) \/ Leave(a) PROVE TypeOK'
    <3>1. End(a)
      BY <2>5 DEF Overflow, TimeOut, Leave
    <3>2. QED
      BY <3>1 DEF TypeOK, End, Forget
  <2>6. ASSUME NEW a \in Attempts, Enter(a) \/ Poll(a) \/ Expire(a) PROVE TypeOK'
    <3>1. CASE Enter(a)
      BY <3>1 DEF TypeOK, Enter
    <3>2. CASE Poll(a)
      BY <3>2 DEF TypeOK, Poll, Others
    <3>3. CASE Expire(a)
      BY <3>3 DEF TypeOK, Expire
    <3>4. QED
      BY <2>6, <3>1, <3>2, <3>3
  <2>7. ASSUME NEW a \in Attempts, Crash(a) PROVE TypeOK'
    BY <2>7 DEF TypeOK, Crash, Forget
  <2>8. CASE UNCHANGED vars
    BY <2>8 DEF TypeOK, vars
  <2>9. QED
    BY <2>1, <2>2, <2>3, <2>4, <2>5, <2>6, <2>7, <2>8 DEF Next, Step
<1>3. QED
  BY <1>1, <1>2, PTL DEF Spec

-----------------------------------------------------------------------------
(* What one visit of the waiting loop changes, pointwise.                  *)
LEMMA TurnEffect ==
  ASSUME TypeOK, NEW a \in Attempts, NEW o \in unread[a], VisitForTurn(a, o)
  PROVE  /\ o \in Attempts
         /\ pc[a] = "wait" /\ pc' = pc /\ maximum' = maximum /\ ahead' = ahead
         /\ unread'[a] = unread[a] \ {o}
         /\ blocked'[a] <=> (blocked[a] \/ (Seen(o) /\ Precedes(o, a)))
         /\ \A b \in Attempts \ {a} : unread'[b] = unread[b] /\ (blocked'[b] <=> blocked[b])
         /\ \A b \in Attempts \ {o} : phase'[b] = phase[b] /\ ticket'[b] = ticket[b]
         /\ ConfirmedDead(o) => phase'[o] = "none" /\ ticket'[o] = 0
         /\ ~ConfirmedDead(o) => phase'[o] = phase[o] /\ ticket'[o] = ticket[o]
<1>1. o \in Attempts
  BY DEF TypeOK
<1>2. /\ unread'[a] = unread[a] \ {o}
      /\ \A b \in Attempts \ {a} : unread'[b] = unread[b]
  BY DEF TypeOK, VisitForTurn
<1>3. /\ blocked'[a] <=> (blocked[a] \/ (Seen(o) /\ Precedes(o, a)))
      /\ \A b \in Attempts \ {a} : (blocked'[b] <=> blocked[b])
  BY Zenon DEF TypeOK, VisitForTurn
<1>4. /\ \A b \in Attempts \ {o} : phase'[b] = phase[b] /\ ticket'[b] = ticket[b]
      /\ ConfirmedDead(o) => phase'[o] = "none" /\ ticket'[o] = 0
      /\ ~ConfirmedDead(o) => phase'[o] = phase[o] /\ ticket'[o] = ticket[o]
  BY <1>1 DEF TypeOK, VisitForTurn, Reclaim
<1>5. QED
  BY <1>1, <1>2, <1>3, <1>4 DEF VisitForTurn

(* Both conjuncts of LockInv about one attempt survive every step.         *)
LEMMA LockInvInductive == LockInv /\ TypeOK' /\ [Next]_vars => LockInv'
<1> USE AttemptsAssumption DEF Others
<1> SUFFICES ASSUME LockInv, TypeOK', [Next]_vars,
                    NEW x \in Attempts
             PROVE  (ClaimInv(x) /\ PassedInv(x))'
  BY DEF LockInv
<1>1. TypeOK /\ \A a \in Attempts : ClaimInv(a) /\ PassedInv(a)
  BY DEF LockInv
<1>2. ASSUME NEW a \in Attempts, Publish(a) PROVE (ClaimInv(x) /\ PassedInv(x))'
  <2>1. ClaimInv(x)'
    BY <1>1, <1>2 DEF TypeOK, Publish, ClaimInv
  <2>2. ASSUME NEW b \in Others(x), Yields(b, x) PROVE Yields(b, x)'
    <3>1. b \in Attempts /\ b # x /\ ticket' = ticket /\ maximum' = maximum /\ blocked' = blocked
      BY <1>2, <2>2 DEF Publish
    <3>2. CASE b = a
      BY <1>1, <1>2, <3>1, <3>2 DEF TypeOK, Publish, Yields
    <3>3. CASE b # a
      <4>1. pc'[b] = pc[b] /\ unread'[b] = unread[b]
        BY <1>1, <1>2, <3>1, <3>3 DEF TypeOK, Publish
      <4>2. QED
        BY <2>2, <3>1, <4>1 DEF Yields, Before
    <3>4. QED
      BY <3>2, <3>3
  <2>3. x # a => pc'[x] = pc[x] /\ blocked'[x] = blocked[x] /\ unread'[x] = unread[x]
    BY <1>1, <1>2 DEF TypeOK, Publish
  <2>4. x = a => pc'[x] = "scan"
    BY <1>1, <1>2 DEF TypeOK, Publish
  <2>5. QED
    BY <1>1, <2>1, <2>2, <2>3, <2>4 DEF PassedInv
<1>3. ASSUME NEW a \in Attempts, NEW o \in unread[a], VisitForMaximum(a, o)
      PROVE (ClaimInv(x) /\ PassedInv(x))'
  <2>1. ClaimInv(x)'
    BY <1>1, <1>3 DEF TypeOK, VisitForMaximum, Reclaim, ConfirmedDead, ClaimInv
  <2>2. PassedInv(x)'
    BY <1>1, <1>3 DEF TypeOK, VisitForMaximum, Reclaim, Seen, ConfirmedDead, ClaimInv, PassedInv, Yields, Before
  <2>3. QED
    BY <2>1, <2>2
<1>4. ASSUME NEW a \in Attempts, NEW o \in unread[a], VisitForTurn(a, o)
      PROVE (ClaimInv(x) /\ PassedInv(x))'
  <2>1. TypeOK /\ VisitForTurn(a, o)
    BY <1>1, <1>4
  <2>2. /\ o \in Attempts
        /\ pc[a] = "wait" /\ pc' = pc /\ maximum' = maximum
        /\ unread'[a] = unread[a] \ {o}
        /\ blocked'[a] <=> (blocked[a] \/ (Seen(o) /\ Precedes(o, a)))
        /\ \A b \in Attempts \ {a} : unread'[b] = unread[b] /\ (blocked'[b] <=> blocked[b])
    BY <2>1, TurnEffect
  <2>3. /\ \A b \in Attempts \ {o} : phase'[b] = phase[b] /\ ticket'[b] = ticket[b]
        /\ ConfirmedDead(o) => phase'[o] = "none" /\ ticket'[o] = 0
        /\ ~ConfirmedDead(o) => phase'[o] = phase[o] /\ ticket'[o] = ticket[o]
    BY <2>1, TurnEffect
  <2>4. ConfirmedDead(o) => pc[o] = "dead"
    BY DEF ConfirmedDead
  <2>5. ClaimInv(x)'
    BY <1>1, <2>2, <2>3, <2>4 DEF ClaimInv
  <2>6. ASSUME NEW b \in Others(x), Yields(b, x), pc[x] \in {"wait", "critical"}
        PROVE  Yields(b, x)'
    <3>1. phase[x] = "waiting" /\ ticket'[x] = ticket[x]
      BY <1>1, <2>6, <2>3, <2>4 DEF ClaimInv
    <3>2. pc[b] = "wait" => ticket'[b] = ticket[b]
      BY <2>6, <2>3, <2>4
    <3>3. pc[b] = "wait" /\ Before(x, b) => Seen(x) /\ Precedes(x, b)
      BY <2>6, <3>1, <2>4 DEF Before, Seen, Precedes, ConfirmedDead
    <3>4. CASE b = a
      BY <2>6, <2>2, <3>1, <3>2, <3>3, <3>4 DEF Yields, Before
    <3>5. CASE b # a
      BY <2>6, <2>2, <3>1, <3>2, <3>5 DEF Yields, Before
    <3>6. QED
      BY <3>4, <3>5
  <2>7. ASSUME x = a, o # x, ~blocked'[x] PROVE Yields(o, x)
    <3>1. ~blocked[x] /\ ~(Seen(o) /\ Precedes(o, x))
      BY <2>7, <2>2
    <3>2. Yields(x, o) <=> Before(o, x) /\ (o \in unread[x] \/ blocked[x])
      BY <2>7, <2>2 DEF Yields
    <3>3. pc[o] = "critical" => Yields(x, o)
      BY <1>1, <2>2, <2>7 DEF PassedInv
    <3>4. pc[o] = "wait" /\ ~blocked[o] /\ x \notin unread[o] => Yields(x, o)
      BY <1>1, <2>2, <2>7 DEF PassedInv
    <3>5. pc[o] \in {"wait", "critical"} => Seen(o) /\ phase[o] = "waiting"
      BY <1>1, <2>2 DEF ClaimInv, Seen, ConfirmedDead
    <3>6. pc[o] = "scan" => Seen(o) /\ phase[o] = "choosing"
      BY <1>1, <2>2 DEF ClaimInv, Seen, ConfirmedDead
    <3>7. ticket[o] \in Nat /\ ticket[x] \in Nat /\ o \in Nat /\ x \in Nat
      BY <1>1, <2>2 DEF TypeOK
    <3>8. phase[o] = "waiting" /\ ~Precedes(o, x) => Before(x, o) /\ ~Before(o, x)
      BY <2>7, <3>7 DEF Precedes, Before
    <3>9. pc[o] \in {"start", "scan", "wait", "critical", "done", "dead"}
      BY <1>1, <2>2 DEF TypeOK
    <3>10. QED
      BY <3>1, <3>2, <3>3, <3>4, <3>5, <3>6, <3>8, <3>9 DEF Yields, Precedes
  <2>8. PassedInv(x)'
    BY <1>1, <2>2, <2>6, <2>7 DEF PassedInv
  <2>9. QED
    BY <2>5, <2>8
<1>5. ASSUME NEW a \in Attempts, TakeTicket(a) PROVE (ClaimInv(x) /\ PassedInv(x))'
  BY <1>1, <1>5 DEF TypeOK, TakeTicket, ClaimInv, PassedInv, Yields, Before
<1>6. ASSUME NEW a \in Attempts, Overflow(a) \/ TimeOut(a) \/ Leave(a)
      PROVE (ClaimInv(x) /\ PassedInv(x))'
  BY <1>1, <1>6 DEF TypeOK, Overflow, TimeOut, Leave, End, Forget, ClaimInv, PassedInv, Yields, Before
<1>7. ASSUME NEW a \in Attempts, Enter(a) PROVE (ClaimInv(x) /\ PassedInv(x))'
  BY <1>1, <1>7 DEF TypeOK, Enter, ClaimInv, PassedInv, Yields, Before
<1>8. ASSUME NEW a \in Attempts, Poll(a) \/ Expire(a) PROVE (ClaimInv(x) /\ PassedInv(x))'
  BY <1>1, <1>8 DEF TypeOK, Poll, Expire, ClaimInv, PassedInv, Yields, Before
<1>9. ASSUME NEW a \in Attempts, Crash(a) PROVE (ClaimInv(x) /\ PassedInv(x))'
  BY <1>1, <1>9 DEF TypeOK, Crash, Forget, ClaimInv, PassedInv, Yields, Before
<1>10. CASE UNCHANGED vars
  <2>1. /\ pc' = pc /\ phase' = phase /\ ticket' = ticket /\ unread' = unread
        /\ maximum' = maximum /\ blocked' = blocked
    BY <1>10 DEF vars
  <2>2. ClaimInv(x) /\ PassedInv(x)
    BY <1>1
  <2>3. ClaimInv(x)'
    BY <2>1, <2>2 DEF ClaimInv
  <2>4. ASSUME NEW b PROVE Yields(b, x)' <=> Yields(b, x)
    BY <2>1 DEF Yields, Before
  <2>5. PassedInv(x)'
    BY <2>1, <2>2, <2>4 DEF PassedInv
  <2>6. QED
    BY <2>3, <2>5
<1>11. QED
  BY <1>2, <1>3, <1>4, <1>5, <1>6, <1>7, <1>8, <1>9, <1>10 DEF Next, Step

LEMMA LockInvHolds == Spec => []LockInv
<1>1. Init => LockInv
  BY AttemptsAssumption DEF Init, LockInv, TypeOK, ClaimInv, PassedInv
<1>2. QED
  BY <1>1, LockInvInductive, TypeCorrect, PTL DEF Spec

(* Callbacks under one key never overlap (withLock, the comment "Lamport   *)
(* bakery protocol").                                                      *)
THEOREM Mutex == Spec => []MutualExclusion
<1>1. LockInv => MutualExclusion
  BY AttemptsAssumption DEF LockInv, TypeOK, PassedInv, Yields, MutualExclusion, Others
<1>2. QED
  BY <1>1, LockInvHolds, PTL

-----------------------------------------------------------------------------
LEMMA OrderInvInductive ==
  LockInv /\ LockInv' /\ OrderInv /\ [Next]_vars => OrderInv'
<1> USE AttemptsAssumption DEF Others
<1> SUFFICES ASSUME LockInv, LockInv', OrderInv, [Next]_vars,
                    NEW x \in Attempts, NEW o \in ahead'[x]
             PROVE  QueueInv(x, o)'
  BY DEF OrderInv
<1>1. /\ TypeOK /\ TypeOK'
      /\ \A a \in Attempts : ClaimInv(a)
      /\ \A a \in Attempts : \A b \in ahead[a] : QueueInv(a, b)
  BY DEF LockInv, OrderInv
<1>2. o \in Attempts
  BY <1>1 DEF TypeOK
<1>3. ASSUME NEW a \in Attempts, Publish(a) PROVE QueueInv(x, o)'
  BY <1>1, <1>2, <1>3 DEF TypeOK, Publish, ClaimInv, QueueInv
<1>4. ASSUME NEW a \in Attempts, NEW v \in unread[a], VisitForMaximum(a, v)
      PROVE QueueInv(x, o)'
  BY <1>1, <1>2, <1>4 DEF TypeOK, VisitForMaximum, Reclaim, Seen, ConfirmedDead, ClaimInv, QueueInv
<1>5. ASSUME NEW a \in Attempts, NEW v \in unread[a], VisitForTurn(a, v)
      PROVE QueueInv(x, o)'
  <2>1. /\ v \in Attempts
        /\ pc[a] = "wait" /\ pc' = pc /\ maximum' = maximum /\ ahead' = ahead
        /\ unread'[a] = unread[a] \ {v}
        /\ blocked'[a] <=> (blocked[a] \/ (Seen(v) /\ Precedes(v, a)))
        /\ \A b \in Attempts \ {a} : unread'[b] = unread[b] /\ (blocked'[b] <=> blocked[b])
    BY <1>1, <1>5, TurnEffect
  <2>2. /\ \A b \in Attempts \ {v} : phase'[b] = phase[b] /\ ticket'[b] = ticket[b]
        /\ ConfirmedDead(v) => phase'[v] = "none" /\ ticket'[v] = 0
        /\ ~ConfirmedDead(v) => phase'[v] = phase[v] /\ ticket'[v] = ticket[v]
    BY <1>1, <1>5, TurnEffect
  <2>3. QueueInv(x, o)
    BY <1>1, <2>1
  <2>4. phase'[o] = "waiting" =>
          /\ phase[o] = "waiting" /\ ticket'[o] = ticket[o]
          /\ o = v => Seen(v)
    BY <1>2, <2>2 DEF Seen
  <2>5. pc[x] \in {"scan", "wait"} => ticket'[x] = ticket[x]
    BY <2>2 DEF ConfirmedDead
  <2>6. phase[o] = "waiting" /\ ticket[o] < ticket[x] => Precedes(o, x)
    BY DEF Precedes
  <2>7. CASE x = a
    BY <2>1, <2>3, <2>4, <2>5, <2>6, <2>7 DEF QueueInv
  <2>8. CASE x # a
    BY <2>1, <2>3, <2>4, <2>5, <2>8 DEF QueueInv
  <2>9. QED
    BY <2>7, <2>8
<1>6. ASSUME NEW a \in Attempts, TakeTicket(a) PROVE QueueInv(x, o)'
  BY <1>1, <1>2, <1>6 DEF TypeOK, TakeTicket, ClaimInv, QueueInv
<1>7. ASSUME NEW a \in Attempts, Overflow(a) \/ TimeOut(a) \/ Leave(a)
      PROVE QueueInv(x, o)'
  BY <1>1, <1>2, <1>7 DEF TypeOK, Overflow, TimeOut, Leave, End, Forget, ClaimInv, QueueInv
<1>8. ASSUME NEW a \in Attempts, Enter(a) \/ Poll(a) \/ Expire(a) PROVE QueueInv(x, o)'
  BY <1>1, <1>2, <1>8 DEF TypeOK, Enter, Poll, Expire, ClaimInv, QueueInv
<1>9. ASSUME NEW a \in Attempts, Crash(a) PROVE QueueInv(x, o)'
  BY <1>1, <1>2, <1>9 DEF TypeOK, Crash, Forget, ClaimInv, QueueInv
<1>10. CASE UNCHANGED vars
  BY <1>1, <1>2, <1>10 DEF vars, QueueInv
<1>11. QED
  BY <1>3, <1>4, <1>5, <1>6, <1>7, <1>8, <1>9, <1>10 DEF Next, Step

(* A call never runs past a claim that held a ticket when it began and is  *)
(* still there, an unverifiable dead owner's included (processAlive:       *)
(* "callers must retain the slot").                                        *)
THEOREM Order == Spec => []NoOvertaking
<1>1. Init => OrderInv
  BY DEF Init, OrderInv
<1>2. OrderInv => NoOvertaking
  BY DEF OrderInv, QueueInv, NoOvertaking
<1>3. QED
  BY <1>1, <1>2, OrderInvInductive, LockInvHolds, PTL DEF Spec

-----------------------------------------------------------------------------
(* withLock implements the abstract lock: every step of the bakery is an   *)
(* acquisition with nobody inside, an end, or invisible to callers.        *)
THEOREM Refinement == Spec => ImplementsAtomicLock
<1> USE AttemptsAssumption
<1>1. Init => Abstract!Init
  BY DEF Init, Abstract!Init, AbstractStatus
<1>2. ASSUME LockInv, LockInv', [Next]_vars
      PROVE  [Abstract!Next]_AbstractStatus
  <2>1. TypeOK /\ TypeOK'
    BY <1>2 DEF LockInv
  <2>2. ASSUME NEW a \in Attempts, Enter(a) PROVE Abstract!Acquire(a)
    <3>1. MutualExclusion'
      BY <1>2 DEF LockInv, TypeOK, PassedInv, Yields, MutualExclusion, Others
    <3>2. \A b \in Attempts : pc[b] # "critical"
      BY <2>1, <2>2, <3>1 DEF TypeOK, Enter, MutualExclusion
    <3>3. QED
      BY <2>1, <2>2, <3>2 DEF TypeOK, Enter, Abstract!Acquire, AbstractStatus
  <2>3. ASSUME NEW a \in Attempts, Overflow(a) \/ TimeOut(a) \/ Leave(a) \/ Crash(a)
        PROVE  Abstract!Finish(a)
    <3>1. /\ pc[a] \in {"scan", "wait", "critical"}
          /\ pc' = [pc EXCEPT ![a] = "done"] \/ pc' = [pc EXCEPT ![a] = "dead"]
      BY <2>3 DEF Overflow, TimeOut, Leave, Crash, End
    <3>2. pc'[a] \in {"done", "dead"} /\ \A b \in Attempts \ {a} : pc'[b] = pc[b]
      BY <2>1, <3>1 DEF TypeOK
    <3>3. AbstractStatus[a] # "over"
      BY <3>1 DEF AbstractStatus
    <3>4. AbstractStatus' = [AbstractStatus EXCEPT ![a] = "over"]
      BY <3>2 DEF AbstractStatus
    <3>5. QED
      BY <3>3, <3>4 DEF Abstract!Finish
  <2>4. ASSUME NEW a \in Attempts,
               \/ Publish(a) \/ TakeTicket(a) \/ Poll(a) \/ Expire(a)
               \/ \E o \in unread[a] : VisitForMaximum(a, o) \/ VisitForTurn(a, o)
        PROVE  UNCHANGED AbstractStatus
    BY <2>1, <2>4 DEF TypeOK, Publish, TakeTicket, Poll, Expire, VisitForMaximum, VisitForTurn, AbstractStatus
  <2>5. CASE UNCHANGED vars
    BY <2>5 DEF vars, AbstractStatus
  <2>6. QED
    BY <1>2, <2>2, <2>3, <2>4, <2>5 DEF Next, Step, Abstract!Next
<1>3. QED
  BY <1>1, <1>2, LockInvHolds, PTL DEF Spec, ImplementsAtomicLock, Abstract!Spec
=============================================================================
