---------------------------- MODULE LocalRuntime ----------------------------
(***************************************************************************)
(* src/local-runtime.js over the ledger: dispatchLocal, the foreground     *)
(* supervisor of a local task, and cancelLocal, which the supervisor or    *)
(* another command runs against a lease.  Between two ledger transactions  *)
(* anything may happen: a cancellation, a reconciliation by resumeRun, the *)
(* exit of the child, the death of the supervisor.  Within one supervisor  *)
(* the close event and an awaiting cancellation interleave too.            *)
(*                                                                         *)
(* A ledger call may also fail as a whole (STATE_LOCKED): then the caller  *)
(* goes on without its effect.  A child killed with SIGKILL is gone before *)
(* the cancellation gives up waiting for it.                               *)
(***************************************************************************)
EXTENDS Ledger

CONSTANTS
  Dispatchers,   \* calls of dispatchLocal, each a process of its own
  Commands,      \* calls of cancelLocal from the command line
  NoLeaseHeld,
  LedgerFails    \* ledger calls may fail as a whole

ASSUME LocalAssumption ==
  /\ Dispatchers \cap Commands = {}
  /\ NoLeaseHeld \notin Leases
  /\ LedgerFails \in BOOLEAN

Cancellers == Dispatchers \cup Commands

VARIABLES
  pc,       \* where each dispatch stands
  held,     \* the lease a dispatch was granted
  cpc,      \* where each cancellation stands
  target,   \* the lease a cancellation is about
  snapshot  \* how the backend looked when the cancellation was recorded

local == <<pc, held, cpc, target, snapshot>>
allVars == <<vars, local>>

LocalInit ==
  /\ Init
  /\ pc = [d \in Dispatchers |-> "idle"]
  /\ held = [d \in Dispatchers |-> NoLeaseHeld]
  /\ cpc = [c \in Cancellers |-> "idle"]
  /\ target = [c \in Cancellers |-> NoLeaseHeld]
  /\ snapshot = [c \in Cancellers |-> "none"]

Goto(d, s) == pc' = [pc EXCEPT ![d] = s]
CGoto(c, s) == cpc' = [cpc EXCEPT ![c] = s]

(* A step of a dispatch that leaves the cancellations alone, and one of a  *)
(* cancellation that leaves the dispatches alone.                          *)
NoCancelStep == UNCHANGED <<cpc, target, snapshot>>
NoDispatchStep == UNCHANGED <<pc, held>>

(* A call of cancelLocal ends.                                             *)
CancelEnds(c) ==
  /\ CGoto(c, "over")
  /\ target' = [target EXCEPT ![c] = NoLeaseHeld]
  /\ snapshot' = [snapshot EXCEPT ![c] = "none"]

(* The close handler of a supervisor runs without awaiting: its own        *)
(* cancellation has no turn before it ended.                               *)
HasTurn(c) == c \in Dispatchers => pc[c] \notin {"settle", "report", "release"}
-----------------------------------------------------------------------------
(* acquireTask, on behalf of this process.                                 *)
Reserve(d) ==
  /\ pc[d] = "idle"
  /\ \E t \in Tasks :
       /\ Adapter[t] = "local"
       /\ \E attempt \in {task[t].attempt, task[t].attempt + 1} : Acquire(t, attempt, "alive")
       /\ held' = [held EXCEPT ![d] = <<t, task[t].generation + 1>>]
  /\ Goto(d, "claim")
  /\ NoCancelStep

(* The reservation is granted once; whatever happened to it since, only a  *)
(* claim answered with start goes on.                                      *)
Claim(d) ==
  /\ pc[d] = "claim"
  /\ IF Claimable(held[d]) THEN ClaimLocalLaunch(held[d]) /\ Goto(d, "spawn")
     ELSE Goto(d, "ended") /\ UNCHANGED vars
  /\ NoCancelStep /\ UNCHANGED held

(* The output files cannot be created, or there is no child: the launch is *)
(* known not to have happened.                                             *)
LaunchFails(d) ==
  /\ pc[d] = "spawn"
  /\ MarkLaunchFailed(held[d])
  /\ Goto(d, "ended")
  /\ NoCancelStep /\ UNCHANGED held

Launch(d) ==
  /\ pc[d] = "spawn"
  /\ Spawn(held[d])
  /\ Goto(d, "bind")
  /\ NoCancelStep /\ UNCHANGED held

(* The spawn event: the child's identity is bound, then the heartbeat and  *)
(* the deadline start.                                                     *)
Bind(d) ==
  /\ pc[d] = "bind"
  /\ BindProcess(held[d], TRUE)
  /\ Goto(d, "watch")
  /\ NoCancelStep /\ UNCHANGED held

(* Mutant: a bind that failed is taken for a launch that failed.           *)
BindFailsAsLaunch(d) ==
  /\ pc[d] = "bind"
  /\ lease' = [lease EXCEPT ![held[d]].launch = "confirmed_not_started",
                            ![held[d]].status = "released"]
  /\ task' = [task EXCEPT ![TaskOf(held[d])].status = "failed"]
  /\ Goto(d, "ended")
  /\ NoCancelStep /\ UNCHANGED <<held, run, policy, setting, environment>>

(* The bind throws: no ledger, no lease, or no process any more.  A child  *)
(* that still lives is to be cancelled; one that is gone leaves it to its  *)
(* close event.  There is no heartbeat and no deadline then.               *)
BindFails(d) ==
  /\ pc[d] = "bind"
  /\ LedgerFails \/ ~FencedActive(held[d]) \/ backend[held[d]] # "up"
  /\ Goto(d, "unbound")
  /\ IF backend[held[d]] = "up"
     THEN CGoto(d, "mark") /\ target' = [target EXCEPT ![d] = held[d]]
     ELSE UNCHANGED <<cpc, target>>
  /\ UNCHANGED <<vars, held, snapshot>>

(* A heartbeat finds a cancellation or fails, the deadline passes, or the  *)
(* process is told to stop: one cancellation starts, never a second one.   *)
StartCancel(d) ==
  /\ pc[d] \in {"watch", "unbound"}
  /\ cpc[d] = "idle"
  /\ CGoto(d, "mark") /\ target' = [target EXCEPT ![d] = held[d]]
  /\ UNCHANGED <<vars, pc, held, snapshot>>

(* Mutant: the close event is no receipt.                                  *)
CloseUnobserved(d) ==
  /\ pc[d] \in {"watch", "unbound"}
  /\ backend[held[d]] \in {"group", "down"}
  /\ Goto(d, "settle")
  /\ NoCancelStep /\ UNCHANGED <<vars, held>>

(* The close event: the leader is gone and the streams are closed.         *)
Close(d) ==
  /\ pc[d] \in {"watch", "unbound"}
  /\ backend[held[d]] \in {"group", "down"}
  /\ IF lease[held[d]].status = "released" THEN UNCHANGED vars ELSE ObserveLocalExit(held[d])
  /\ Goto(d, "settle")
  /\ NoCancelStep /\ UNCHANGED held

Settle(d) ==
  /\ pc[d] = "settle"
  /\ Goto(d, IF lease[held[d]].status = "released" THEN "ended"
             ELSE IF lease[held[d]].cancel THEN "release" ELSE "report")
  /\ UNCHANGED <<vars, held, cpc, target, snapshot>>

Report(d) ==
  /\ pc[d] = "report"
  /\ IF FencedActive(held[d])
     THEN (\E s \in {"produced", "failed"} : ReportResult(held[d], s, NoCause)) /\ Goto(d, "release")
     ELSE Goto(d, "ended") /\ UNCHANGED vars
  /\ NoCancelStep /\ UNCHANGED held

(* STOP_UNCONFIRMED, when a member of the group survives, ends the         *)
(* dispatch with the slot retained.                                        *)
ReleaseSlot(d) ==
  /\ pc[d] = "release"
  /\ IF FencedActive(held[d]) /\ Stopped(held[d]) THEN ReleaseLease(held[d]) ELSE UNCHANGED vars
  /\ Goto(d, "ended")
  /\ NoCancelStep /\ UNCHANGED held

(* A transaction of the close handler throws: resourcesMayRemainReserved.  *)
FinalizationFails(d) ==
  /\ LedgerFails
  /\ \/ pc[d] \in {"watch", "unbound"} /\ backend[held[d]] \in {"group", "down"}
     \/ pc[d] \in {"report", "release"}
  /\ Goto(d, "ended")
  /\ UNCHANGED <<vars, held, cpc, target, snapshot>>

(* The supervisor dies, or exits, and its own cancellation with it.        *)
Die(d) ==
  /\ pc[d] \notin {"idle", "dead"}
  /\ ControllerDies(held[d])
  /\ Goto(d, "dead")
  /\ CancelEnds(d)
  /\ UNCHANGED held
-----------------------------------------------------------------------------
(* A command asks to cancel the present attempt of a task.                 *)
AskToCancel(c, t) ==
  /\ cpc[c] = "idle"
  /\ HasLease(t)
  /\ CGoto(c, "mark") /\ target' = [target EXCEPT ![c] = Current(t)]
  /\ NoDispatchStep /\ UNCHANGED <<vars, snapshot>>

(* Mutant: an intent that is already recorded is left to whoever recorded  *)
(* it.                                                                     *)
MarkOnce(c) ==
  /\ cpc[c] = "mark"
  /\ IF FencedActive(target[c]) /\ ~lease[target[c]].cancel
     THEN /\ MarkCancelPending(target[c])
          /\ snapshot' = [snapshot EXCEPT ![c] =
               IF lease[target[c]].owner = "none" THEN "unbound" ELSE "witnessed"]
          /\ CGoto(c, "signal") /\ UNCHANGED target
     ELSE CancelEnds(c) /\ UNCHANGED vars
  /\ NoDispatchStep

(* The intent is recorded, and with it what is known of the backend: all   *)
(* later steps look at this copy of the lease.  A living leader vouches    *)
(* for the members of its group.                                           *)
Mark(c) ==
  /\ cpc[c] = "mark" /\ HasTurn(c)
  /\ IF FencedActive(target[c])
     THEN /\ MarkCancelPending(target[c])
          /\ snapshot' = [snapshot EXCEPT ![c] =
               IF lease[target[c]].owner = "none" THEN "unbound"
               ELSE IF backend[target[c]] = "up" THEN "witnessed" ELSE "bound"]
          /\ CGoto(c, "signal") /\ UNCHANGED target
     ELSE CancelEnds(c) /\ UNCHANGED vars
  /\ NoDispatchStep

(* Mark or the final release throws.                                       *)
CancelFails(c) ==
  /\ LedgerFails
  /\ cpc[c] \in {"mark", "release"} /\ HasTurn(c)
  /\ CancelEnds(c)
  /\ NoDispatchStep /\ UNCHANGED vars

(* signalKnownBackend until the copy's process and group are gone: SIGTERM *)
(* may be ignored, SIGKILL may not.  Nothing is sent without a binding, or *)
(* when no recorded process still lives to vouch for the group: members it *)
(* forked since are no witnesses.                                          *)
Signal(c) ==
  /\ cpc[c] = "signal" /\ HasTurn(c)
  /\ \/ /\ \/ backend[target[c]] = "up" /\ snapshot[c] # "unbound"
           \/ backend[target[c]] = "group" /\ snapshot[c] = "witnessed"
        /\ backend' = [backend EXCEPT ![target[c]] = "down"]
     \/ /\ backend[target[c]] # "up" \/ snapshot[c] = "unbound"
        /\ UNCHANGED backend
  /\ CGoto(c, "release")
  /\ NoDispatchStep /\ UNCHANGED <<ledgerVars, setting, permits, controller, target, snapshot>>

ReleaseCancelled(c) ==
  /\ cpc[c] = "release" /\ HasTurn(c)
  /\ IF FencedActive(target[c]) /\ Stopped(target[c]) THEN ReleaseLease(target[c])
     ELSE UNCHANGED vars
  /\ CancelEnds(c)
  /\ NoDispatchStep
-----------------------------------------------------------------------------
DispatchStep(d) ==
  \/ Reserve(d) \/ Claim(d) \/ LaunchFails(d) \/ Launch(d) \/ Bind(d) \/ BindFails(d)
  \/ StartCancel(d) \/ Close(d) \/ Settle(d) \/ Report(d) \/ ReleaseSlot(d) \/ FinalizationFails(d)

CancelStep(c) == Mark(c) \/ CancelFails(c) \/ Signal(c) \/ ReleaseCancelled(c)

(* A command queues a task or reconciles a run; backends exit.             *)
OtherStep ==
  /\ \/ \E t \in Tasks : AddTask(t)
     \/ \E r \in Runs : ResumeRun(r)
     \/ \E l \in Leases : BackendExit(l) \/ GroupExit(l)
  /\ UNCHANGED local

LocalNext ==
  \/ \E d \in Dispatchers : DispatchStep(d) \/ Die(d)
  \/ \E c \in Commands, t \in Tasks : AskToCancel(c, t)
  \/ \E c \in Cancellers : CancelStep(c)
  \/ OtherStep

LocalSpec == LocalInit /\ [][LocalNext]_allVars

(* A supervisor that lives keeps running, its deadline passes, and a       *)
(* cancellation it started goes on; survivors of a group exit and somebody *)
(* reconciles the run.  Nothing makes a child exit by itself.              *)
Supervision(d) ==
  /\ WF_allVars(Claim(d) \/ Launch(d) \/ Bind(d) \/ BindFails(d))
  /\ WF_allVars(StartCancel(d))
  /\ WF_allVars(Close(d) \/ Settle(d) \/ Report(d) \/ ReleaseSlot(d))
  /\ WF_allVars(Mark(d) \/ Signal(d) \/ ReleaseCancelled(d))

LocalFairness ==
  /\ \A d \in Dispatchers : Supervision(d)
  /\ \A l \in Leases : WF_allVars(GroupExit(l) /\ UNCHANGED local)
  /\ \A r \in Runs : WF_allVars(ResumeRun(r) /\ UNCHANGED local)

FairLocalSpec == LocalSpec /\ LocalFairness
-----------------------------------------------------------------------------
(* The supervisor and the cancellations, in their program order and with   *)
(* their stale copies, only ever do what the ledger's protocol allows.     *)
ImplementsLedger == Spec

(* A child that is being watched does not outlive its deadline as long as  *)
(* its supervisor lives, whoever else tried to cancel it before.           *)
DeadlineStops ==
  \A d \in Dispatchers, l \in Leases :
    pc[d] = "watch" /\ held[d] = l ~> pc[d] = "dead" \/ backend[l] # "up"

(* Whatever a living supervisor spawned gives its slot back, a child that  *)
(* exits before it could be bound included.                                *)
SpawnedIsReleased ==
  \A d \in Dispatchers, l \in Leases :
    pc[d] = "bind" /\ held[d] = l ~> pc[d] = "dead" \/ lease[l].status = "released"
=============================================================================
