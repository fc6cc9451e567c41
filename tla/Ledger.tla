------------------------------- MODULE Ledger -------------------------------
(***************************************************************************)
(* The runtime ledger of src/runtime.js: runs, tasks and the leases that   *)
(* permit one attempt of a task to start one backend.  Every exported      *)
(* function is a transaction: it holds the lock of BakeryLock, reads       *)
(* ledger.json, changes it, validates it and replaces it atomically, so it *)
(* is one step here.  A call that throws writes nothing: it is no step.    *)
(*                                                                         *)
(* A lease is named by its task and the task's generation, which every     *)
(* reservation increments; holding the name stands for holding its ID and  *)
(* fencing token.  Any process that knows a token may call any function at *)
(* any time, a superseded token included.                                  *)
(*                                                                         *)
(* The environment is what the ledger tries to know about: the backend     *)
(* processes with their process groups, and the controllers that own them. *)
(* Elapsed time, prices and identities only ever refuse a call here.       *)
(***************************************************************************)
EXTENDS Integers, FiniteSets

CONSTANTS
  Runs, Tasks,
  RunOf,          \* the run of each task
  Adapter,        \* "local" process, "native" controller or "host" agent
  ControllerOf,   \* the native task that dispatches a host task, or NoTask
  NoTask,
  RunCap,         \* snapshot.maxConcurrency of each run, immutable
  Caps,           \* values scheduler.maxConcurrency takes in the settings
  Bounded,        \* host selections are admitted under pricing bounds only
  MaxGeneration,  \* Number.MAX_SAFE_INTEGER
  Causes,         \* failure causes a result may carry
  NoCause,
  Specs           \* dispatch specifications a task may be given

ASSUME LedgerAssumption ==
  /\ RunOf \in [Tasks -> Runs]
  /\ Adapter \in [Tasks -> {"local", "native", "host"}]
  /\ NoTask \notin Tasks
  /\ ControllerOf \in [Tasks -> Tasks \cup {NoTask}]
  /\ \A t \in Tasks : ControllerOf[t] # NoTask =>
       Adapter[t] = "host" /\ Adapter[ControllerOf[t]] = "native"
         /\ RunOf[ControllerOf[t]] = RunOf[t]
  /\ RunCap \in [Runs -> Nat \ {0}]
  /\ Caps \subseteq Nat \ {0}
  /\ Bounded \in BOOLEAN
  /\ MaxGeneration \in Nat
  /\ NoCause \notin Causes
  /\ 0 \in Specs

Generations == 1..MaxGeneration
Leases == Tasks \X Generations

TaskOf(l) == l[1]
GenerationOf(l) == l[2]

ACTIVE == {"reserved", "launching", "running", "waiting_external",
           "cancel_pending", "orphaned"}
TERMINAL_TASK == {"cancelled", "failed", "produced", "awaiting_acceptance",
                  "accepted", "blocked"}

VARIABLES
  task,        \* tasks of the ledger
  lease,       \* leases of the ledger, status "none" before the reservation
  run,         \* status of each run and the scope of its frozen candidate
  policy,      \* ledger.policy.maxConcurrency
  setting,     \* scheduler.maxConcurrency in the project settings file
  permits,     \* starters told to start a backend that have not yet done so
  backend,     \* what really runs for a lease
  controller   \* the process recorded as the controller of a lease

ledgerVars == <<task, lease, run, policy>>
environment == <<permits, backend, controller>>
vars == <<task, lease, run, policy, setting, permits, backend, controller>>

NoResult == [status |-> "none", cause |-> NoCause, lease |-> 0]
NoAttempt == [status |-> "none", cause |-> NoCause, spec |-> 0, ran |-> 0]
NoLease == [status |-> "none", launch |-> "none", attempt |-> 0, cancel |-> FALSE,
            owner |-> "none", group |-> FALSE, job |-> FALSE, parent |-> 0]
NewTask == [status |-> "absent", attempt |-> 1, generation |-> 0, result |-> NoResult,
            last |-> NoAttempt, spec |-> 0, ran |-> 0, controllerLease |-> 0]

Init ==
  /\ task = [t \in Tasks |-> NewTask]
  /\ lease = [l \in Leases |-> NoLease]
  /\ run = [r \in Runs |-> [status |-> "queued", candidate |-> "none"]]
  /\ policy \in Caps
  /\ setting = policy
  /\ permits = [l \in Leases |-> 0]
  /\ backend = [l \in Leases |-> "none"]
  /\ controller = [l \in Leases |-> "unknown"]
-----------------------------------------------------------------------------
(* The current lease of a task, once it has one.                           *)
Current(t) == <<t, task[t].generation>>
HasLease(t) == task[t].generation > 0

IsActive(l) == lease[l].status \in ACTIVE
CurrentActive(t) == HasLease(t) /\ IsActive(Current(t))
ActiveLeases == {l \in Leases : IsActive(l)}
ActiveIn(r) == {l \in ActiveLeases : RunOf[TaskOf(l)] = r}

(* fenced: the token names the current attempt of its task.                *)
Fenced(l) ==
  /\ lease[l].status # "none"
  /\ task[TaskOf(l)].generation = GenerationOf(l)
  /\ task[TaskOf(l)].attempt = lease[l].attempt

FencedActive(l) == Fenced(l) /\ lease[l].status # "released"

ParentLease(l) == <<ControllerOf[TaskOf(l)], lease[l].parent>>

(* Mutant: a survivor of the process group is overlooked.                  *)
GroupOverlooked(l) ==
  \/ lease[l].owner = "none" /\ lease[l].launch = "confirmed_not_started"
  \/ lease[l].owner = "self" /\ backend[l] \in {"group", "down"}
  \/ lease[l].owner = "parent" /\ lease[l].group /\ backend[ParentLease(l)] = "down"

(* backendStopped, for leases without a host receipt: a lease nobody bound *)
(* may have started something, unless its launch is known to have failed;  *)
(* a bound one needs its process and its whole recorded group to be gone.  *)
Stopped(l) ==
  \/ lease[l].owner = "none" /\ lease[l].launch = "confirmed_not_started"
  \/ lease[l].owner = "self" /\ lease[l].group /\ backend[l] = "down"
  \/ lease[l].owner = "parent" /\ lease[l].group /\ backend[ParentLease(l)] = "down"

(* controlledHost: the live controller lease under which t may run.        *)
ControlledHost(t) ==
  /\ ControllerOf[t] # NoTask
  /\ HasLease(ControllerOf[t])
  /\ LET c == Current(ControllerOf[t]) IN
       /\ IsActive(c) /\ ~lease[c].cancel
       /\ lease[c].owner = "self" /\ lease[c].group /\ backend[c] = "up"
       /\ task[t].controllerLease = GenerationOf(c)

(* refreshRunStatus, on the tasks tk and leases ls about to be written.    *)
RefreshedStatus(r, tk, ls) ==
  LET active == {l \in Leases : RunOf[TaskOf(l)] = r /\ ls[l].status \in ACTIVE}
      statuses == {tk[t].status : t \in {x \in Tasks : RunOf[x] = r}}
  IN CASE \E l \in active : ls[l].cancel -> "cancel_pending"
       [] active # {} /\ \A l \in active : ~ls[l].cancel -> "running"
       [] active = {} /\ "queued" \in statuses -> "queued"
       [] active = {} /\ statuses \cap {"queued"} = {} /\ "failed" \in statuses -> "failed"
       [] active = {} /\ statuses \cap {"queued", "failed"} = {} /\ "blocked" \in statuses
            -> "blocked"
       [] active = {} /\ statuses \cap {"queued", "failed", "blocked"} = {}
            /\ "cancelled" \in statuses -> "cancelled"
       [] active = {} /\ statuses \cap {"queued", "failed", "blocked", "cancelled"} = {}
            /\ statuses \cap {"produced", "awaiting_acceptance", "accepted"} # {}
            -> IF run[r].candidate # "none" THEN "awaiting_acceptance" ELSE "produced"
       [] OTHER -> "blocked"

Refresh(r) ==
  run' = [run EXCEPT ![r].status = RefreshedStatus(r, task', lease')]

(* Mutants: no fallback without a result; a result outweighs a cancel.     *)
NoFallback(tk, ls, g) == IF ls.cancel THEN "cancelled" ELSE tk.result.status
CancelForgotten(tk, ls, g) == IF tk.result.lease = g THEN tk.result.status ELSE "failed"

(* releaseInLedger: the status the task ends its attempt with.             *)
StatusOnRelease(tk, ls, g) ==
  CASE ls.cancel -> "cancelled"
    [] ~ls.cancel /\ tk.result.lease = g -> tk.result.status
    [] OTHER -> "failed"

(* Both the lease and its task move to status s.                           *)
SetStatus(l, s) ==
  /\ lease' = [lease EXCEPT ![l].status = s]
  /\ task' = [task EXCEPT ![TaskOf(l)].status = s]

Release(l) ==
  /\ lease' = [lease EXCEPT ![l].status = "released"]
  /\ task' = [task EXCEPT ![TaskOf(l)].status =
                StatusOnRelease(task[TaskOf(l)], lease[l], GenerationOf(l))]
  /\ Refresh(RunOf[TaskOf(l)])
-----------------------------------------------------------------------------
(* addTask.  The queue ties a dispatched task to its controller's present  *)
(* lease, which must be live.                                              *)
AddTask(t) ==
  /\ task[t].status = "absent"
  /\ ControllerOf[t] # NoTask =>
       /\ HasLease(ControllerOf[t])
       /\ LET c == Current(ControllerOf[t]) IN
            IsActive(c) /\ ~lease[c].cancel /\ lease[c].owner = "self" /\ backend[c] = "up"
  /\ task' = [task EXCEPT ![t].status = "queued",
                          ![t].controllerLease = IF ControllerOf[t] = NoTask THEN 0
                                                 ELSE task[ControllerOf[t]].generation]
  /\ run' = [run EXCEPT ![RunOf[t]].status =
               IF ActiveIn(RunOf[t]) # {} THEN "running" ELSE "queued"]
  /\ UNCHANGED <<lease, policy, setting, environment>>

(* Mutant: the previous attempt may still own resources.                   *)
ReservableWhileActive(t, attempt) ==
  /\ task[t].status # "absent"
  /\ \/ attempt = task[t].attempt /\ task[t].status \notin TERMINAL_TASK
     \/ attempt = task[t].attempt + 1 /\ task[t].status \in {"failed", "cancelled", "blocked"}

(* The attempt that acquireTask may reserve: the first one of a queued     *)
(* task, or the next one after a stopped failure or cancellation.          *)
Reservable(t, attempt) ==
  /\ task[t].status # "absent"
  /\ ~CurrentActive(t)
  /\ \/ attempt = task[t].attempt /\ task[t].status \notin TERMINAL_TASK
     \/ attempt = task[t].attempt + 1 /\ task[t].status \in {"failed", "cancelled", "blocked"}

(* Mutant: the history is compared one attempt too late.                   *)
ReplanTooLate(t, attempt) ==
  /\ attempt > task[t].attempt + 1
  /\ task[t].last.status = "failed" /\ task[t].status = "failed"
  /\ task[t].result.cause # NoCause /\ task[t].result.cause = task[t].last.cause
  /\ task[t].last.spec = task[t].spec

(* REPLAN_REQUIRED: two failures share a cause under the recorded spec.    *)
ReplanRequired(t, attempt) ==
  /\ attempt > task[t].attempt
  /\ task[t].last.status = "failed" /\ task[t].status = "failed"
  /\ task[t].result.cause # NoCause /\ task[t].result.cause = task[t].last.cause
  /\ task[t].last.spec = task[t].spec

(* Mutant: the cap of the run is forgotten.                                *)
WithinProjectCap(r) == Cardinality(ActiveLeases) < setting

WithinCaps(r) ==
  /\ Cardinality(ActiveLeases) < setting
  /\ Cardinality(ActiveIn(r)) < RunCap[r]

(* acquireTask, granted.  The ledger policy is refreshed from the settings *)
(* in the same transaction; owner says which controller process the caller *)
(* declares.  Told to start, a host without a registered controller needs  *)
(* no further claim.                                                       *)
Acquire(t, attempt, owner) ==
  LET g == task[t].generation + 1
      l == <<t, g>>
      hosted == Adapter[t] = "host" /\ ControlledHost(t)
  IN /\ Reservable(t, attempt)
     /\ ~ReplanRequired(t, attempt)
     /\ Adapter[t] = "host" /\ Bounded => ControlledHost(t)
     /\ WithinCaps(RunOf[t])
     /\ task[t].generation < MaxGeneration
     /\ policy' = setting
     /\ task' = [task EXCEPT ![t].status = "reserved", ![t].attempt = attempt,
                   ![t].generation = g, ![t].ran = task[t].spec,
                   ![t].result = IF attempt = task[t].attempt THEN @ ELSE NoResult,
                   ![t].last = IF attempt = task[t].attempt THEN @
                               ELSE [status |-> task[t].status, cause |-> task[t].result.cause,
                                     spec |-> task[t].spec, ran |-> task[t].ran]]
     /\ lease' = [lease EXCEPT ![l] =
                    [NoLease EXCEPT !.status = "reserved", !.launch = "permission_issued",
                       !.attempt = attempt,
                       !.owner = IF hosted THEN "parent" ELSE "none",
                       !.group = hosted,
                       !.parent = IF hosted THEN task[ControllerOf[t]].generation ELSE 0]]
     /\ run' = [run EXCEPT ![RunOf[t]].status = "running"]
     /\ controller' = [controller EXCEPT ![l] = owner]
     /\ permits' = [permits EXCEPT ![l] =
                      IF Adapter[t] = "host" /\ ControllerOf[t] = NoTask THEN 1 ELSE 0]
     /\ UNCHANGED <<setting, backend>>

(* acquireTask answered with observe (a replayed launch key) or a denial:  *)
(* only the refreshed policy is written.                                   *)
AcquireRefused ==
  /\ \E t \in Tasks : task[t].status # "absent"
  /\ policy # setting
  /\ policy' = setting
  /\ UNCHANGED <<task, lease, run, setting, environment>>

(* Mutant: a cancelled launch is claimed.                                  *)
ClaimsCancelled(l) ==
  FencedActive(l) /\ lease[l].launch = "permission_issued"

(* The permission to start is there, and nobody asked to cancel.           *)
Claimable(l) ==
  /\ FencedActive(l)
  /\ ~lease[l].cancel /\ lease[l].status # "cancel_pending"
  /\ lease[l].launch = "permission_issued"

(* claimLocalLaunch, answered with start.                                  *)
ClaimLocalLaunch(l) ==
  /\ Claimable(l)
  /\ Adapter[TaskOf(l)] # "host"
  /\ lease' = [lease EXCEPT ![l].launch = "launching", ![l].status = "launching"]
  /\ task' = [task EXCEPT ![TaskOf(l)].status = "launching"]
  /\ controller' = [controller EXCEPT ![l] = "alive"]
  /\ permits' = [permits EXCEPT ![l] = @ + 1]
  /\ UNCHANGED <<run, policy, setting, backend>>

(* Mutant: the hook accepts a reservation that was consumed before.        *)
HostClaimableAgain(l) ==
  FencedActive(l) /\ ControlledHost(TaskOf(l)) /\ ~lease[l].cancel

HostClaimable(l) ==
  /\ FencedActive(l)
  /\ ControlledHost(TaskOf(l))
  /\ lease[l].launch = "permission_issued" /\ ~lease[l].cancel

(* claimHostLaunch: the pre-tool hook consumes the permission.             *)
ClaimHostLaunch(l) ==
  /\ HostClaimable(l)
  /\ Adapter[TaskOf(l)] = "host"
  /\ lease' = [lease EXCEPT ![l].launch = "host_launch_claimed", ![l].status = "launching"]
  /\ task' = [task EXCEPT ![TaskOf(l)].status = "launching"]
  /\ permits' = [permits EXCEPT ![l] = @ + 1]
  /\ UNCHANGED <<run, policy, setting, backend, controller>>

(* bindJob of a process.  tracked says whether it leads a process group of *)
(* its own; without one its stop can never be confirmed.                   *)
BindProcess(l, tracked) ==
  /\ FencedActive(l)
  /\ Adapter[TaskOf(l)] # "host"
  /\ lease[l].owner = "none"
  /\ backend[l] # "none"
  /\ LET s == IF lease[l].cancel THEN "cancel_pending" ELSE "running" IN
       /\ lease' = [lease EXCEPT ![l].owner = "self", ![l].group = tracked, ![l].job = TRUE,
                                 ![l].launch = "bound", ![l].status = s]
       /\ task' = [task EXCEPT ![TaskOf(l)].status = s]
  /\ UNCHANGED <<run, policy, setting, environment>>

(* bindJob of a host agent that really started.                            *)
BindHost(l) ==
  /\ FencedActive(l)
  /\ Adapter[TaskOf(l)] = "host"
  /\ ~lease[l].job
  /\ backend[l] # "none"
  /\ LET s == IF lease[l].cancel THEN "cancel_pending" ELSE "running" IN
       /\ lease' = [lease EXCEPT ![l].job = TRUE, ![l].launch = "host_bound", ![l].status = s]
       /\ task' = [task EXCEPT ![TaskOf(l)].status = s]
  /\ UNCHANGED <<run, policy, setting, environment>>

(* heartbeat with waitingExternal; a plain one changes timestamps only.    *)
HeartbeatWaiting(l) ==
  /\ FencedActive(l)
  /\ ~lease[l].cancel
  /\ SetStatus(l, "waiting_external")
  /\ UNCHANGED <<run, policy, setting, environment>>

(* reportResult: the lease keeps its resources.                            *)
ReportResult(l, s, cause) ==
  /\ FencedActive(l)
  /\ s = "produced" => cause = NoCause
  /\ task' = [task EXCEPT ![TaskOf(l)].status = s,
                          ![TaskOf(l)].result =
                            [status |-> s, cause |-> cause, lease |-> GenerationOf(l)]]
  /\ UNCHANGED <<lease, run, policy, setting, environment>>

(* markCancelPending.                                                      *)
MarkCancelPending(l) ==
  /\ FencedActive(l)
  /\ lease' = [lease EXCEPT ![l].cancel = TRUE, ![l].status = "cancel_pending"]
  /\ task' = [task EXCEPT ![TaskOf(l)].status = "cancel_pending"]
  /\ UNCHANGED <<run, policy, setting, environment>>

(* observeLocalExit: the close event of a child this live controller       *)
(* spawned stands in for a binding that came too late.                     *)
ObserveLocalExit(l) ==
  /\ FencedActive(l)
  /\ Adapter[TaskOf(l)] = "local"
  /\ controller[l] = "alive"
  /\ backend[l] \in {"group", "down"}
  /\ lease' = [lease EXCEPT ![l].owner = "self", ![l].group = TRUE, ![l].job = TRUE]
  /\ UNCHANGED <<task, run, policy, setting, environment>>

(* markLaunchFailed: called by the process that made the reservation, or   *)
(* by the one that claimed it, when it knows that it spawned nothing.      *)
MarkLaunchFailed(l) ==
  /\ FencedActive(l)
  /\ Adapter[TaskOf(l)] # "host"
  /\ lease[l].owner = "none" /\ lease[l].launch \in {"permission_issued", "launching"}
  /\ controller[l] = "alive" /\ backend[l] = "none"
  /\ lease[l].launch = "launching" => permits[l] > 0
  /\ permits' = [permits EXCEPT ![l] = 0]
  /\ LET res == [status |-> "failed", cause |-> NoCause, lease |-> GenerationOf(l)]
         tk == [task[TaskOf(l)] EXCEPT !.result = res]
     IN /\ lease' = [lease EXCEPT ![l].launch = "confirmed_not_started",
                                  ![l].status = "released"]
        /\ task' = [task EXCEPT ![TaskOf(l)] =
                      [tk EXCEPT !.status = StatusOnRelease(tk, lease[l], GenerationOf(l))]]
        /\ Refresh(RunOf[TaskOf(l)])
  /\ UNCHANGED <<policy, setting, backend, controller>>

(* releaseLease; STOP_UNCONFIRMED changes nothing.                         *)
ReleaseLease(l) ==
  /\ FencedActive(l)
  /\ Stopped(l)
  /\ Release(l)
  /\ UNCHANGED <<policy, setting, environment>>

(* completeHostTask: the receipt of the agent's own return.                *)
CompleteHostTask(l) ==
  /\ FencedActive(l)
  /\ Adapter[TaskOf(l)] = "host"
  /\ lease[l].job
  /\ backend[l] = "down"
  /\ Release(l)
  /\ UNCHANGED <<policy, setting, environment>>

(* resumeRun: stopped leases are released; leases nobody bound, or whose   *)
(* controller died, become orphaned and keep their slot; nothing starts.   *)
ResumeRun(r) ==
  LET mine == {t \in Tasks : RunOf[t] = r /\ CurrentActive(t)}
      stopped == {t \in mine : Stopped(Current(t))}
      orphaned == {t \in mine \ stopped :
                     lease[Current(t)].owner = "none" \/ controller[Current(t)] = "dead"}
  IN /\ stopped \cup orphaned # {}
     /\ lease' = [l \in Leases |->
                    CASE TaskOf(l) \in stopped /\ l = Current(TaskOf(l))
                           -> [lease[l] EXCEPT !.status = "released"]
                      [] TaskOf(l) \in orphaned /\ l = Current(TaskOf(l))
                           -> [lease[l] EXCEPT !.status = "orphaned"]
                      [] OTHER -> lease[l]]
     /\ task' = [t \in Tasks |->
                   CASE t \in stopped -> [task[t] EXCEPT !.status =
                          StatusOnRelease(task[t], lease[Current(t)], task[t].generation)]
                     [] t \in orphaned -> [task[t] EXCEPT !.status = "orphaned"]
                     [] OTHER -> task[t]]
     /\ IF stopped # {} THEN Refresh(r) ELSE run' = run
     /\ UNCHANGED <<policy, setting, environment>>

(* settleControlledHostChildren, once the controller lease c has stopped:  *)
(* its queued children are cancelled and its stopped children released as  *)
(* cancelled.                                                              *)
SettleControlledHostChildren(c) ==
  LET native == TaskOf(c)
      queued == {t \in Tasks : ControllerOf[t] = native /\ task[t].status = "queued"
                   /\ task[t].controllerLease = GenerationOf(c)}
      settled == {l \in ActiveLeases :
                    lease[l].owner = "parent" /\ ParentLease(l) = c /\ Stopped(l)}
  IN /\ Adapter[native] = "native"
     /\ lease[c].status # "none" /\ Stopped(c)
     /\ lease' = [l \in Leases |->
                    IF l \in settled
                    THEN [lease[l] EXCEPT !.status = "released", !.cancel = TRUE] ELSE lease[l]]
     /\ task' = [t \in Tasks |->
                   IF t \in queued \/ \E l \in settled : TaskOf(l) = t
                   THEN [task[t] EXCEPT !.status = "cancelled"] ELSE task[t]]
     /\ Refresh(RunOf[native])
     /\ UNCHANGED <<policy, setting, environment>>

(* respecTask.                                                             *)
RespecTask(t, spec) ==
  /\ task[t].status \in {"failed", "blocked", "cancelled"}
  /\ spec # task[t].spec
  /\ task' = [task EXCEPT ![t].spec = spec]
  /\ UNCHANGED <<lease, run, policy, setting, environment>>
-----------------------------------------------------------------------------
Author(t) == Adapter[t] # "native"

AuthorsOf(r) == {t \in Tasks : RunOf[t] = r /\ Author(t) /\ task[t].status # "absent"}

(* freezeCandidate of the author tasks ts: all of the run's, or one named. *)
FreezeCandidate(r, scope, ts) ==
  /\ scope = "run" => ts = AuthorsOf(r)
  /\ scope = "task" => \E t \in AuthorsOf(r) : ts = {t}
  /\ ts # {}
  /\ \A t \in ts : task[t].status \in {"produced", "accepted", "awaiting_acceptance", "blocked"}
  /\ \A l \in ActiveIn(r) : ~Author(TaskOf(l))
  /\ task' = [t \in Tasks |-> IF t \in ts THEN [task[t] EXCEPT !.status = "awaiting_acceptance"]
                              ELSE task[t]]
  /\ run' = [run EXCEPT ![r] = [status |-> "awaiting_acceptance", candidate |-> scope]]
  /\ UNCHANGED <<lease, policy, setting, environment>>

(* The run is blocked: submitEvidence with a verdict other than passed, or *)
(* acceptCandidate when the evidence does not satisfy the policy.          *)
BlockRun(r) ==
  /\ run[r].candidate # "none"
  /\ run' = [run EXCEPT ![r].status = "blocked"]
  /\ UNCHANGED <<task, lease, policy, setting, environment>>

(* Mutant: leases still active are overlooked.                             *)
AcceptableWhileActive(r) ==
  /\ run[r].candidate # "none"
  /\ run[r].candidate = "task" => Cardinality(AuthorsOf(r)) <= 1
  /\ \A t \in AuthorsOf(r) : task[t].status \in {"produced", "awaiting_acceptance", "accepted"}

(* What acceptCandidate asks of the ledger besides the evidence.           *)
Acceptable(r) ==
  /\ run[r].candidate # "none"
  /\ run[r].candidate = "task" => Cardinality(AuthorsOf(r)) <= 1
  /\ ActiveIn(r) = {}
  /\ \A t \in AuthorsOf(r) : task[t].status \in {"produced", "awaiting_acceptance", "accepted"}

(* acceptCandidate, when the evidence satisfies the policy.                *)
AcceptCandidate(r) ==
  /\ Acceptable(r)
  /\ task' = [t \in Tasks |-> IF t \in AuthorsOf(r) THEN [task[t] EXCEPT !.status = "accepted"]
                              ELSE task[t]]
  /\ run' = [run EXCEPT ![r].status = "accepted"]
  /\ UNCHANGED <<lease, policy, setting, environment>>
-----------------------------------------------------------------------------
(* The environment.  A controller that was told to start spawns a backend, *)
(* in a process group of its own.                                          *)
Spawn(l) ==
  /\ Adapter[TaskOf(l)] # "host"
  /\ permits[l] > 0 /\ controller[l] = "alive" /\ backend[l] = "none"
  /\ permits' = [permits EXCEPT ![l] = @ - 1]
  /\ backend' = [backend EXCEPT ![l] = "up"]
  /\ UNCHANGED <<ledgerVars, setting, controller>>

(* Host agents run, and are started, inside their controller's process.    *)
HostedBy(l) == {k \in Leases : Adapter[TaskOf(k)] = "host" /\ ControllerOf[TaskOf(k)] = TaskOf(l)}

(* The backend exits; members of its group may outlive it.                 *)
BackendExit(l) ==
  /\ Adapter[TaskOf(l)] # "host"
  /\ backend[l] = "up"
  /\ \E s \in {"group", "down"} :
       backend' = [k \in Leases |-> CASE k = l -> s
                                      [] k \in HostedBy(l) /\ backend[k] = "up" -> "down"
                                      [] OTHER -> backend[k]]
  /\ permits' = [k \in Leases |-> IF k \in HostedBy(l) THEN 0 ELSE permits[k]]
  /\ UNCHANGED <<ledgerVars, setting, controller>>

GroupExit(l) ==
  /\ backend[l] = "group"
  /\ backend' = [backend EXCEPT ![l] = "down"]
  /\ UNCHANGED <<ledgerVars, setting, permits, controller>>

(* The host starts an agent with a claimed permission, or, without a       *)
(* registered controller, with the reservation itself.                     *)
AgentStart(l) ==
  /\ Adapter[TaskOf(l)] = "host" /\ backend[l] = "none"
  /\ permits[l] > 0
  /\ ControllerOf[TaskOf(l)] # NoTask =>
       IF lease[l].owner = "parent" THEN backend[ParentLease(l)] = "up"
       ELSE \E k \in Leases : TaskOf(k) = ControllerOf[TaskOf(l)] /\ backend[k] = "up"
  /\ permits' = [permits EXCEPT ![l] = @ - 1]
  /\ backend' = [backend EXCEPT ![l] = "up"]
  /\ UNCHANGED <<ledgerVars, setting, controller>>

AgentReturn(l) ==
  /\ Adapter[TaskOf(l)] = "host" /\ backend[l] = "up"
  /\ backend' = [backend EXCEPT ![l] = "down"]
  /\ UNCHANGED <<ledgerVars, setting, permits, controller>>

ControllerDies(l) ==
  /\ controller[l] = "alive"
  /\ controller' = [controller EXCEPT ![l] = "dead"]
  /\ permits' = [permits EXCEPT ![l] = 0]
  /\ UNCHANGED <<ledgerVars, setting, backend>>

(* The user changes scheduler.maxConcurrency.                              *)
ChangeSetting(cap) ==
  /\ cap # setting
  /\ setting' = cap
  /\ UNCHANGED <<ledgerVars, environment>>
-----------------------------------------------------------------------------
LeaseStep(l) ==
  \/ ClaimLocalLaunch(l) \/ ClaimHostLaunch(l)
  \/ \E tracked \in BOOLEAN : BindProcess(l, tracked)
  \/ BindHost(l) \/ HeartbeatWaiting(l)
  \/ \E s \in {"produced", "failed"}, cause \in Causes \cup {NoCause} : ReportResult(l, s, cause)
  \/ MarkCancelPending(l) \/ ObserveLocalExit(l) \/ MarkLaunchFailed(l)
  \/ ReleaseLease(l) \/ CompleteHostTask(l) \/ SettleControlledHostChildren(l)

TaskStep(t) ==
  \/ AddTask(t)
  \/ \E attempt \in {task[t].attempt, task[t].attempt + 1}, owner \in {"unknown", "alive"} :
       Acquire(t, attempt, owner)
  \/ \E spec \in Specs : RespecTask(t, spec)

RunStep(r) ==
  \/ ResumeRun(r)
  \/ \E scope \in {"run", "task"}, ts \in SUBSET Tasks : FreezeCandidate(r, scope, ts)
  \/ BlockRun(r) \/ AcceptCandidate(r)

EnvironmentStep ==
  \/ \E l \in Leases : \/ Spawn(l) \/ BackendExit(l) \/ GroupExit(l)
                       \/ AgentStart(l) \/ AgentReturn(l) \/ ControllerDies(l)
  \/ \E cap \in Caps : ChangeSetting(cap)

Next ==
  \/ \E l \in Leases : LeaseStep(l)
  \/ \E t \in Tasks : TaskStep(t)
  \/ \E r \in Runs : RunStep(r)
  \/ AcquireRefused
  \/ EnvironmentStep

Spec == Init /\ [][Next]_vars
-----------------------------------------------------------------------------
Status == {"absent", "queued"} \cup ACTIVE \cup TERMINAL_TASK

ResultType == [status : {"none", "produced", "failed"}, cause : Causes \cup {NoCause},
               lease : 0..MaxGeneration]
AttemptType == [status : Status \cup {"none"}, cause : Causes \cup {NoCause},
                spec : Specs, ran : Specs]
TaskType == [status : Status, attempt : Nat, generation : 0..MaxGeneration,
             result : ResultType, last : AttemptType, spec : Specs, ran : Specs,
             controllerLease : 0..MaxGeneration]
LeaseType == [status : ACTIVE \cup {"none", "released"},
              launch : {"none", "permission_issued", "launching", "host_launch_claimed",
                        "bound", "host_bound", "confirmed_not_started"},
              attempt : Nat, cancel : BOOLEAN, owner : {"none", "self", "parent"},
              group : BOOLEAN, job : BOOLEAN, parent : 0..MaxGeneration]
RunType == [status : Status, candidate : {"none", "run", "task"}]

(* Every field keeps its range; generations stay within the safe integers, *)
(* and no task ends an attempt with a status it was never given.           *)
TypeOK ==
  /\ task \in [Tasks -> TaskType]
  /\ lease \in [Leases -> LeaseType]
  /\ run \in [Runs -> RunType]
  /\ policy \in Caps /\ setting \in Caps
  /\ permits \in [Leases -> Nat]
  /\ backend \in [Leases -> {"none", "up", "group", "down"}]
  /\ controller \in [Leases -> {"unknown", "alive", "dead"}]

(* validateLedger: a transaction that broke this would be refused as a     *)
(* whole and block its caller for good, so no operation ever breaks it.    *)
Valid ==
  /\ \A t \in Tasks : task[t].status \in ACTIVE => HasLease(t)
  /\ \A t \in Tasks : HasLease(t) =>
       lease[Current(t)].status # "none" /\ lease[Current(t)].attempt = task[t].attempt
  /\ \A l \in ActiveLeases : l = Current(TaskOf(l))

(* A slot is never free while its backend, a survivor of the backend's     *)
(* process group, or a starter that may still spawn one, is there.         *)
BackendsHoldSlots ==
  \A l \in Leases : permits[l] > 0 \/ backend[l] \in {"up", "group"} => IsActive(l)

(* A reservation starts at most one backend, whoever holds its token.      *)
OneStart ==
  \A l \in Leases : permits[l] + (IF backend[l] = "none" THEN 0 ELSE 1) <= 1

(* A requested cancellation survives late binds, heartbeats and launch     *)
(* claims: it is never withdrawn, and no launch is claimed under it.       *)
CancelIsKept ==
  [][\A l \in Leases : lease[l].cancel =>
       /\ lease'[l].cancel
       /\ lease'[l].launch # lease[l].launch =>
            lease'[l].launch \notin {"launching", "host_launch_claimed"}]_vars

(* Work under acceptance is the result its own last attempt produced, and  *)
(* that attempt was not cancelled and holds no resources any more.         *)
DeliveredWork ==
  \A t \in Tasks : task[t].status \in {"awaiting_acceptance", "accepted"} =>
    /\ HasLease(t)
    /\ lease[Current(t)].status = "released" /\ ~lease[Current(t)].cancel
    /\ task[t].result.lease = task[t].generation /\ task[t].result.status = "produced"

(* A run that shows as accepted has no work going on and nothing left to   *)
(* accept, whatever was added, resumed or settled since.                   *)
AcceptedRunIsDone ==
  \A r \in Runs : run[r].status = "accepted" =>
    /\ run[r].candidate # "none" /\ ActiveIn(r) = {}
    /\ \A t \in Tasks : RunOf[t] = r /\ Author(t) => task[t].status \in {"absent", "accepted"}

(* Two failures of one cause are not followed by a third attempt at the    *)
(* specification the second one ran.                                       *)
ReplanEnforced ==
  [][\A t \in Tasks :
       /\ task'[t].attempt > task[t].attempt
       /\ task[t].last.status = "failed" /\ task[t].status = "failed"
       /\ task[t].result.cause # NoCause /\ task[t].result.cause = task[t].last.cause
       => task'[t].ran # task[t].ran]_vars

(* The documented condition: the specification was the same in both failed *)
(* attempts.                                                               *)
ReplanOnlyForUnchangedSpec ==
  \A t \in Tasks :
    task[t].status # "absent" /\ ReplanRequired(t, task[t].attempt + 1)
      => task[t].last.ran = task[t].ran

(* The slots are those of Admission: at most one per task, within the cap  *)
(* of the run, and gone for good once released.                            *)
Slots == INSTANCE Admission WITH
  held <- ActiveLeases,
  past <- {l \in Leases : lease[l].status = "released"}

ImplementsAdmission == Slots!Spec
=============================================================================
