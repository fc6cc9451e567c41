---------------------------- MODULE LedgerProofs ----------------------------
(***************************************************************************)
(* The records of the ledger are well formed, and every ledger that a      *)
(* transaction of src/runtime.js writes passes validateLedger, for any     *)
(* tasks, runs, caps, adapters and generations.                            *)
(*                                                                         *)
(* TypeOK alone is not inductive: releaseInLedger copies the status of the *)
(* result that the attempt recorded, so a result that names a lease must   *)
(* have a status.  Valid rests on one observation: all transactions but    *)
(* acquireTask keep the numbers of the attempts and reserve nothing.       *)
(*                                                                         *)
(* The second part is about the local supervisors of src/local-runtime.js: *)
(* their steps are steps of the ledger, and what they hold is theirs.      *)
(***************************************************************************)
EXTENDS LocalRuntime, TLAPS

(* A result that names the lease it was reported under has a status.       *)
ResultsAreReported ==
  \A t \in Tasks : task[t].result.lease # 0 => task[t].result.status # "none"

TypeInv == TypeOK /\ ResultsAreReported

(* A lease is the pair of its task and its generation.                     *)
LEMMA LeaseShape ==
  \A l \in Leases : /\ TaskOf(l) \in Tasks /\ GenerationOf(l) \in 1..MaxGeneration
                    /\ l = <<TaskOf(l), GenerationOf(l)>>
BY DEF Leases, TaskOf, GenerationOf, Generations

(* refreshRunStatus computes one of the statuses of a run.                 *)
LEMMA RefreshedIsStatus ==
  ASSUME NEW r, NEW tk, NEW ls
  PROVE RefreshedStatus(r, tk, ls) \in Status
BY DEF RefreshedStatus, Status, ACTIVE, TERMINAL_TASK

(* refreshRunStatus leaves well-formed runs.                               *)
LEMMA RefreshTyped ==
  ASSUME run \in [Runs -> RunType], NEW r \in Runs, Refresh(r)
  PROVE run' \in [Runs -> RunType]
BY RefreshedIsStatus DEF Refresh, RunType

(* releaseInLedger ends an attempt with the status of a task.              *)
LEMMA StatusOnReleaseTyped ==
  ASSUME NEW tk \in TaskType, NEW ls, NEW g \in 1..MaxGeneration,
         tk.result.lease # 0 => tk.result.status # "none"
  PROVE StatusOnRelease(tk, ls, g) \in Status \ {"absent"}
BY LedgerAssumption DEF StatusOnRelease, TaskType, ResultType, Status, TERMINAL_TASK

(* The empty ledger of emptyLedger is well formed.                         *)
LEMMA TypeInit == Init => TypeInv
BY LedgerAssumption DEF Init, TypeInv, TypeOK, ResultsAreReported, NewTask, NoLease, NoResult, NoAttempt,
   TaskType, LeaseType, ResultType, AttemptType, RunType, Status

(* The single assignments that the steps make to a lease.                  *)
LEMMA LeaseUpdates ==
  ASSUME NEW f \in [Leases -> LeaseType], NEW l \in Leases
  PROVE /\ \A s \in ACTIVE \cup {"released"} : [f EXCEPT ![l].status = s] \in [Leases -> LeaseType]
        /\ \A a \in {"launching", "host_launch_claimed", "bound", "host_bound",
                     "confirmed_not_started"} :
             [f EXCEPT ![l].launch = a] \in [Leases -> LeaseType]
        /\ [f EXCEPT ![l].cancel = TRUE] \in [Leases -> LeaseType]
        /\ [f EXCEPT ![l].owner = "self"] \in [Leases -> LeaseType]
        /\ \A b \in BOOLEAN : [f EXCEPT ![l].group = b] \in [Leases -> LeaseType]
        /\ [f EXCEPT ![l].job = TRUE] \in [Leases -> LeaseType]
<1>1. \A s \in ACTIVE \cup {"released"} : [f EXCEPT ![l].status = s] \in [Leases -> LeaseType]
  BY DEF LeaseType
<1>2. \A a \in {"launching", "host_launch_claimed", "bound", "host_bound",
             "confirmed_not_started"} :
        [f EXCEPT ![l].launch = a] \in [Leases -> LeaseType]
  BY DEF LeaseType
<1>3. [f EXCEPT ![l].cancel = TRUE] \in [Leases -> LeaseType]
  BY DEF LeaseType
<1>4. [f EXCEPT ![l].owner = "self"] \in [Leases -> LeaseType]
  BY DEF LeaseType
<1>5. \A b \in BOOLEAN : [f EXCEPT ![l].group = b] \in [Leases -> LeaseType]
  BY DEF LeaseType
<1>6. [f EXCEPT ![l].job = TRUE] \in [Leases -> LeaseType]
  BY DEF LeaseType
<1> QED BY <1>1, <1>2, <1>3, <1>4, <1>5, <1>6

(* The status that resumeRun and settleControlledHostChildren assign.      *)
LEMMA LeaseRecords ==
  ASSUME NEW r \in LeaseType
  PROVE /\ [r EXCEPT !.status = "released"] \in LeaseType
        /\ [r EXCEPT !.status = "orphaned"] \in LeaseType
        /\ [r EXCEPT !.status = "released", !.cancel = TRUE] \in LeaseType
<1>1. [r EXCEPT !.status = "released"] \in LeaseType
  BY DEF LeaseType
<1>2. [r EXCEPT !.status = "orphaned"] \in LeaseType
  BY DEF LeaseType, ACTIVE
<1>3. [r EXCEPT !.status = "released", !.cancel = TRUE] \in LeaseType
  BY DEF LeaseType
<1> QED BY <1>1, <1>2, <1>3

(* A task may take any status.                                             *)
LEMMA TaskStatusUpdate ==
  ASSUME TypeInv, NEW t \in Tasks, NEW s \in Status, task' = [task EXCEPT ![t].status = s]
  PROVE task' \in [Tasks -> TaskType] /\ ResultsAreReported'
BY DEF TypeInv, TypeOK, TaskType, ResultsAreReported

(* releaseInLedger writes well-formed records.                             *)
LEMMA ReleaseTyped ==
  ASSUME TypeInv, NEW l \in Leases, Release(l)
  PROVE /\ task' \in [Tasks -> TaskType] /\ lease' \in [Leases -> LeaseType]
        /\ run' \in [Runs -> RunType] /\ ResultsAreReported'
<1>1. TaskOf(l) \in Tasks /\ GenerationOf(l) \in 1..MaxGeneration /\ RunOf[TaskOf(l)] \in Runs
  BY LeaseShape, LedgerAssumption
<1>2. StatusOnRelease(task[TaskOf(l)], lease[l], GenerationOf(l)) \in Status
  BY <1>1, StatusOnReleaseTyped DEF TypeInv, TypeOK, ResultsAreReported
<1>3. run' \in [Runs -> RunType]
  BY <1>1, RefreshTyped DEF TypeInv, TypeOK, Release
<1>4. lease' \in [Leases -> LeaseType]
  BY LeaseUpdates DEF Release, TypeInv, TypeOK
<1>5. task' \in [Tasks -> TaskType]
  BY <1>1, <1>2 DEF TypeInv, TypeOK, Release, TaskType
<1>6. ResultsAreReported'
  BY <1>1 DEF TypeInv, TypeOK, Release, TaskType, ResultsAreReported
<1> QED BY <1>3, <1>4, <1>5, <1>6

(* What every step has to preserve, for the variables it changes.          *)
LEMMA TypeInvParts ==
  ASSUME TypeInv,
         task' \in [Tasks -> TaskType], lease' \in [Leases -> LeaseType],
         run' \in [Runs -> RunType], policy' \in Caps, setting' \in Caps,
         permits' \in [Leases -> Nat],
         backend' \in [Leases -> {"none", "up", "group", "down"}],
         controller' \in [Leases -> {"unknown", "alive", "dead"}],
         ResultsAreReported'
  PROVE TypeInv'
BY DEF TypeInv, TypeOK

(* addTask, acquireTask and respecTask write well-formed records.          *)
LEMMA TaskStepTyped ==
  ASSUME TypeInv, NEW t \in Tasks, TaskStep(t)
  PROVE TypeInv'
<1> USE DEF TypeInv
<1>1. CASE AddTask(t)
  <2>1. task[t] \in TaskType /\ RunOf[t] \in Runs
    BY LedgerAssumption DEF TypeOK
  <2>2. (IF ControllerOf[t] = NoTask THEN 0 ELSE task[ControllerOf[t]].generation) \in 0..MaxGeneration
    BY LedgerAssumption DEF TypeOK, TaskType
  <2>3. task' \in [Tasks -> TaskType] /\ ResultsAreReported'
    BY <1>1, <2>1, <2>2 DEF AddTask, TypeOK, TaskType, Status, ResultsAreReported
  <2>4. run' \in [Runs -> RunType]
    BY <1>1, <2>1 DEF AddTask, TypeOK, RunType, Status, ACTIVE
  <2> QED BY <1>1, <2>3, <2>4, TypeInvParts DEF AddTask, TypeOK, environment
<1>2. ASSUME NEW attempt \in {task[t].attempt, task[t].attempt + 1},
             NEW owner \in {"unknown", "alive"}, Acquire(t, attempt, owner)
      PROVE TypeInv'
  <2> DEFINE g == task[t].generation + 1
             l == <<t, g>>
             hosted == Adapter[t] = "host" /\ ControlledHost(t)
             res == IF attempt = task[t].attempt THEN task[t].result ELSE NoResult
             last == IF attempt = task[t].attempt THEN task[t].last
                     ELSE [status |-> task[t].status, cause |-> task[t].result.cause,
                           spec |-> task[t].spec, ran |-> task[t].ran]
             parent == IF hosted THEN task[ControllerOf[t]].generation ELSE 0
             granted == [NoLease EXCEPT !.status = "reserved", !.launch = "permission_issued",
                           !.attempt = attempt, !.owner = IF hosted THEN "parent" ELSE "none",
                           !.group = hosted, !.parent = parent]
  <2>1. task[t] \in TaskType /\ RunOf[t] \in Runs /\ attempt \in Nat
    BY LedgerAssumption DEF TypeOK, TaskType
  <2>2. g \in 1..MaxGeneration /\ l \in Leases
    BY <1>2, <2>1, LedgerAssumption DEF Acquire, TaskType, Leases, Generations
  <2>3. res \in ResultType /\ (res.lease # 0 => res.status # "none")
    BY <2>1, LedgerAssumption DEF TaskType, ResultType, NoResult, ResultsAreReported
  <2>4. last \in AttemptType
    BY <2>1 DEF TaskType, ResultType, AttemptType
  <2>5. parent \in 0..MaxGeneration
    BY LedgerAssumption DEF ControlledHost, TypeOK, TaskType
  <2>6. granted \in LeaseType
    BY <2>1, <2>5 DEF NoLease, LeaseType, ACTIVE
  <2>7. task' = [task EXCEPT ![t].status = "reserved", ![t].attempt = attempt,
                   ![t].generation = g, ![t].ran = task[t].spec, ![t].result = res,
                   ![t].last = last]
    BY <1>2 DEF Acquire
  <2>8. task' \in [Tasks -> TaskType] /\ ResultsAreReported'
    BY <2>1, <2>2, <2>3, <2>4, <2>7 DEF TypeOK, TaskType, Status, ACTIVE, ResultsAreReported
  <2>9. lease' = [lease EXCEPT ![l] = granted]
    BY <1>2 DEF Acquire
  <2>10. lease' \in [Leases -> LeaseType]
    BY <2>2, <2>6, <2>9 DEF TypeOK
  <2>11. run' \in [Runs -> RunType]
    BY <1>2, <2>1 DEF Acquire, TypeOK, RunType, Status, ACTIVE
  <2>12. controller' \in [Leases -> {"unknown", "alive", "dead"}] /\ permits' \in [Leases -> Nat]
    BY <1>2, <2>2 DEF Acquire, TypeOK
  <2> QED BY <1>2, <2>8, <2>10, <2>11, <2>12, TypeInvParts DEF Acquire, TypeOK
<1>3. ASSUME NEW spec \in Specs, RespecTask(t, spec)
      PROVE TypeInv'
  <2>1. task' \in [Tasks -> TaskType] /\ ResultsAreReported'
    BY <1>3 DEF RespecTask, TypeOK, TaskType, ResultsAreReported
  <2> QED BY <1>3, <2>1, TypeInvParts DEF RespecTask, TypeOK, environment
<1> QED BY <1>1, <1>2, <1>3 DEF TaskStep

(* A lease and its task may take any active status together.               *)
LEMMA SetStatusTyped ==
  ASSUME TypeInv, NEW l \in Leases, NEW s \in ACTIVE, SetStatus(l, s)
  PROVE /\ task' \in [Tasks -> TaskType] /\ lease' \in [Leases -> LeaseType]
        /\ ResultsAreReported'
<1>1. TaskOf(l) \in Tasks
  BY LeaseShape
<1>2. lease' \in [Leases -> LeaseType]
  BY LeaseUpdates DEF SetStatus, TypeInv, TypeOK
<1> QED BY <1>1, <1>2, TaskStatusUpdate DEF SetStatus, Status

(* Every call that names a lease writes well-formed records.               *)
LEMMA LeaseStepTyped ==
  ASSUME TypeInv, NEW l \in Leases, LeaseStep(l)
  PROVE TypeInv'
<1> DEFINE t == TaskOf(l)
<1>1. /\ t \in Tasks /\ GenerationOf(l) \in 1..MaxGeneration /\ RunOf[t] \in Runs
      /\ task[t] \in TaskType /\ lease[l] \in LeaseType
  BY LeaseShape, LedgerAssumption DEF TypeInv, TypeOK
<1>2. CASE ClaimLocalLaunch(l)
  <2>1. task' \in [Tasks -> TaskType] /\ ResultsAreReported'
    BY <1>1, <1>2, TaskStatusUpdate DEF ClaimLocalLaunch, Status, ACTIVE
  <2>2. lease' \in [Leases -> LeaseType]
    BY <1>2, LeaseUpdates DEF ClaimLocalLaunch, TypeInv, TypeOK, ACTIVE
  <2> QED BY <1>2, <2>1, <2>2, TypeInvParts DEF ClaimLocalLaunch, TypeInv, TypeOK
<1>3. CASE ClaimHostLaunch(l)
  <2>1. task' \in [Tasks -> TaskType] /\ ResultsAreReported'
    BY <1>1, <1>3, TaskStatusUpdate DEF ClaimHostLaunch, Status, ACTIVE
  <2>2. lease' \in [Leases -> LeaseType]
    BY <1>3, LeaseUpdates DEF ClaimHostLaunch, TypeInv, TypeOK, ACTIVE
  <2> QED BY <1>3, <2>1, <2>2, TypeInvParts DEF ClaimHostLaunch, TypeInv, TypeOK
<1>4. ASSUME NEW tracked \in BOOLEAN, BindProcess(l, tracked)
      PROVE TypeInv'
  <2> DEFINE s == IF lease[l].cancel THEN "cancel_pending" ELSE "running"
  <2>1. s \in ACTIVE
    BY DEF ACTIVE
  <2>2. /\ lease' = [lease EXCEPT ![l].owner = "self", ![l].group = tracked, ![l].job = TRUE,
                                  ![l].launch = "bound", ![l].status = s]
        /\ task' = [task EXCEPT ![t].status = s]
    BY <1>4 DEF BindProcess
  <2> HIDE DEF s
  <2>3. task' \in [Tasks -> TaskType] /\ ResultsAreReported'
    BY <1>1, <2>1, <2>2, TaskStatusUpdate DEF Status
  <2>4. lease' \in [Leases -> LeaseType]
    BY <2>1, <2>2, LeaseUpdates DEF TypeInv, TypeOK
  <2> QED BY <1>4, <2>3, <2>4, TypeInvParts DEF BindProcess, TypeInv, TypeOK, environment
<1>5. CASE BindHost(l)
  <2> DEFINE s == IF lease[l].cancel THEN "cancel_pending" ELSE "running"
  <2>1. s \in ACTIVE
    BY DEF ACTIVE
  <2>2. /\ lease' = [lease EXCEPT ![l].job = TRUE, ![l].launch = "host_bound", ![l].status = s]
        /\ task' = [task EXCEPT ![t].status = s]
    BY <1>5 DEF BindHost
  <2> HIDE DEF s
  <2>3. task' \in [Tasks -> TaskType] /\ ResultsAreReported'
    BY <1>1, <2>1, <2>2, TaskStatusUpdate DEF Status
  <2>4. lease' \in [Leases -> LeaseType]
    BY <2>1, <2>2, LeaseUpdates DEF TypeInv, TypeOK
  <2> QED BY <1>5, <2>3, <2>4, TypeInvParts DEF BindHost, TypeInv, TypeOK, environment
<1>6. CASE HeartbeatWaiting(l)
  BY <1>6, SetStatusTyped, TypeInvParts
     DEF HeartbeatWaiting, TypeInv, TypeOK, environment, ACTIVE
<1>7. ASSUME NEW s \in {"produced", "failed"}, NEW cause \in Causes \cup {NoCause},
             ReportResult(l, s, cause)
      PROVE TypeInv'
  <2>1. task' \in [Tasks -> TaskType] /\ ResultsAreReported'
    <3> DEFINE res == [status |-> s, cause |-> cause, lease |-> GenerationOf(l)]
    <3>1. res \in ResultType /\ res.status # "none" /\ s \in Status
      BY <1>1, <1>7 DEF ResultType, Status, TERMINAL_TASK
    <3>2. task' = [task EXCEPT ![t].status = s, ![t].result = res]
      BY <1>7 DEF ReportResult
    <3> HIDE DEF res
    <3> QED BY <1>1, <3>1, <3>2 DEF TypeInv, TypeOK, TaskType, ResultsAreReported
  <2> QED BY <1>7, <2>1, TypeInvParts DEF ReportResult, TypeInv, TypeOK, environment
<1>8. CASE MarkCancelPending(l)
  <2>1. task' \in [Tasks -> TaskType] /\ ResultsAreReported'
    BY <1>1, <1>8, TaskStatusUpdate DEF MarkCancelPending, Status, ACTIVE
  <2>2. lease' \in [Leases -> LeaseType]
    BY <1>8, LeaseUpdates DEF MarkCancelPending, TypeInv, TypeOK, ACTIVE
  <2> QED BY <1>8, <2>1, <2>2, TypeInvParts DEF MarkCancelPending, TypeInv, TypeOK, environment
<1>9. CASE ObserveLocalExit(l)
  <2>1. lease' \in [Leases -> LeaseType]
    BY <1>9, LeaseUpdates DEF ObserveLocalExit, TypeInv, TypeOK
  <2> QED BY <1>9, <2>1, TypeInvParts
          DEF ObserveLocalExit, TypeInv, TypeOK, environment, ResultsAreReported
<1>10. CASE MarkLaunchFailed(l)
  <2> DEFINE res == [status |-> "failed", cause |-> NoCause, lease |-> GenerationOf(l)]
             tk == [task[t] EXCEPT !.result = res]
             final == StatusOnRelease(tk, lease[l], GenerationOf(l))
  <2>1. tk \in TaskType /\ tk.result.status # "none"
    BY <1>1 DEF TaskType, ResultType
  <2>2. final \in Status
    BY <1>1, <2>1, StatusOnReleaseTyped
  <2>3. /\ task' = [task EXCEPT ![t] = [tk EXCEPT !.status = final]]
        /\ lease' = [lease EXCEPT ![l].launch = "confirmed_not_started", ![l].status = "released"]
        /\ permits' = [permits EXCEPT ![l] = 0]
    BY <1>10 DEF MarkLaunchFailed
  <2>4. [tk EXCEPT !.status = final] \in TaskType /\ [tk EXCEPT !.status = final].result = res
    BY <1>1, <2>1, <2>2 DEF TaskType
  <2>5. task' \in [Tasks -> TaskType] /\ ResultsAreReported'
    BY <1>1, <2>3, <2>4 DEF TypeInv, TypeOK, ResultsAreReported
  <2>6. lease' \in [Leases -> LeaseType]
    BY <2>3, LeaseUpdates DEF TypeInv, TypeOK
  <2>7. run' \in [Runs -> RunType]
    BY <1>1, <1>10, RefreshTyped DEF MarkLaunchFailed, TypeInv, TypeOK
  <2>8. permits' \in [Leases -> Nat]
    BY <2>3 DEF TypeInv, TypeOK
  <2> QED BY <1>10, <2>5, <2>6, <2>7, <2>8, TypeInvParts DEF MarkLaunchFailed, TypeInv, TypeOK
<1>11. CASE ReleaseLease(l)
  BY <1>11, ReleaseTyped, TypeInvParts DEF ReleaseLease, TypeInv, TypeOK, environment
<1>12. CASE CompleteHostTask(l)
  BY <1>12, ReleaseTyped, TypeInvParts DEF CompleteHostTask, TypeInv, TypeOK, environment
<1>13. CASE SettleControlledHostChildren(l)
  <2> DEFINE settled == {k \in ActiveLeases : lease[k].owner = "parent" /\ ParentLease(k) = l /\ Stopped(k)}
             queued == {x \in Tasks : ControllerOf[x] = t /\ task[x].status = "queued"
                          /\ task[x].controllerLease = GenerationOf(l)}
             over == {x \in Tasks : x \in queued \/ \E k \in settled : TaskOf(k) = x}
  <2>1. /\ lease' = [k \in Leases |-> IF k \in settled
                       THEN [lease[k] EXCEPT !.status = "released", !.cancel = TRUE] ELSE lease[k]]
        /\ task' = [x \in Tasks |-> IF x \in over THEN [task[x] EXCEPT !.status = "cancelled"]
                                    ELSE task[x]]
    BY <1>13 DEF SettleControlledHostChildren
  <2> HIDE DEF settled, over
  <2>2. lease' \in [Leases -> LeaseType]
    <3>1. \A k \in Leases :
            /\ lease[k] \in LeaseType
            /\ [lease[k] EXCEPT !.status = "released", !.cancel = TRUE] \in LeaseType
      BY LeaseRecords DEF TypeInv, TypeOK
    <3> QED BY <2>1, <3>1
  <2>3. task' \in [Tasks -> TaskType] /\ ResultsAreReported'
    <3>1. \A x \in Tasks :
            /\ task[x] \in TaskType
            /\ [task[x] EXCEPT !.status = "cancelled"] \in TaskType
            /\ [task[x] EXCEPT !.status = "cancelled"].result = task[x].result
      BY DEF TypeInv, TypeOK, TaskType, Status, TERMINAL_TASK
    <3>2. task' \in [Tasks -> TaskType]
      BY <2>1, <3>1
    <3>3. \A x \in Tasks : task'[x].result = task[x].result
      BY <2>1, <3>1
    <3> QED BY <3>2, <3>3 DEF TypeInv, ResultsAreReported
  <2>4. run' \in [Runs -> RunType]
    BY <1>1, <1>13, RefreshTyped DEF SettleControlledHostChildren, TypeInv, TypeOK
  <2> QED BY <1>13, <2>2, <2>3, <2>4, TypeInvParts
          DEF SettleControlledHostChildren, TypeInv, TypeOK, environment
<1> QED BY <1>2, <1>3, <1>4, <1>5, <1>6, <1>7, <1>8, <1>9, <1>10, <1>11, <1>12, <1>13 DEF LeaseStep

(* Every call that names a run writes well-formed records.                 *)
LEMMA RunStepTyped ==
  ASSUME TypeInv, NEW r \in Runs, RunStep(r)
  PROVE TypeInv'
<1>1. CASE ResumeRun(r)
  <2> DEFINE mine == {t \in Tasks : RunOf[t] = r /\ CurrentActive(t)}
             stopped == {t \in mine : Stopped(Current(t))}
             orphaned == {t \in mine \ stopped :
                            lease[Current(t)].owner = "none" \/ controller[Current(t)] = "dead"}
             final == [t \in Tasks |-> StatusOnRelease(task[t], lease[Current(t)], task[t].generation)]
  <2>1. lease' = [l \in Leases |->
                    CASE TaskOf(l) \in stopped /\ l = Current(TaskOf(l))
                           -> [lease[l] EXCEPT !.status = "released"]
                      [] TaskOf(l) \in orphaned /\ l = Current(TaskOf(l))
                           -> [lease[l] EXCEPT !.status = "orphaned"]
                      [] OTHER -> lease[l]]
    BY <1>1 DEF ResumeRun
  <2>2. task' = [t \in Tasks |->
                   CASE t \in stopped -> [task[t] EXCEPT !.status = final[t]]
                     [] t \in orphaned -> [task[t] EXCEPT !.status = "orphaned"]
                     [] OTHER -> task[t]]
    BY <1>1 DEF ResumeRun
  <2>3. \A t \in stopped : final[t] \in Status
    BY StatusOnReleaseTyped DEF CurrentActive, HasLease, TypeInv, TypeOK, TaskType, ResultsAreReported
  <2>4. stopped \cap orphaned = {}
    OBVIOUS
  <2> HIDE DEF mine, stopped, orphaned, final
  <2>5. lease' \in [Leases -> LeaseType]
    <3>1. \A l \in Leases : /\ lease[l] \in LeaseType
                            /\ [lease[l] EXCEPT !.status = "released"] \in LeaseType
                            /\ [lease[l] EXCEPT !.status = "orphaned"] \in LeaseType
      BY LeaseRecords DEF TypeInv, TypeOK
    <3> QED BY <2>1, <3>1
  <2>6. task' \in [Tasks -> TaskType] /\ ResultsAreReported'
    BY <2>2, <2>3 DEF TypeInv, TypeOK, TaskType, Status, ACTIVE, ResultsAreReported
  <2>7. run' \in [Runs -> RunType]
    BY <1>1, RefreshTyped DEF ResumeRun, TypeInv, TypeOK
  <2> QED BY <1>1, <2>5, <2>6, <2>7, TypeInvParts DEF ResumeRun, TypeInv, TypeOK, environment
<1>2. ASSUME NEW scope \in {"run", "task"}, NEW ts \in SUBSET Tasks, FreezeCandidate(r, scope, ts)
      PROVE TypeInv'
  <2>1. task' \in [Tasks -> TaskType] /\ ResultsAreReported'
    BY <1>2 DEF FreezeCandidate, TypeInv, TypeOK, TaskType, Status, TERMINAL_TASK, ResultsAreReported
  <2>2. run' \in [Runs -> RunType]
    BY <1>2 DEF FreezeCandidate, TypeInv, TypeOK, RunType, Status, TERMINAL_TASK
  <2> QED BY <1>2, <2>1, <2>2, TypeInvParts DEF FreezeCandidate, TypeInv, TypeOK, environment
<1>3. CASE BlockRun(r)
  <2>1. run' \in [Runs -> RunType]
    BY <1>3 DEF BlockRun, TypeInv, TypeOK, RunType, Status, TERMINAL_TASK
  <2> QED BY <1>3, <2>1, TypeInvParts
          DEF BlockRun, TypeInv, TypeOK, environment, ResultsAreReported
<1>4. CASE AcceptCandidate(r)
  <2>1. task' \in [Tasks -> TaskType] /\ ResultsAreReported'
    BY <1>4 DEF AcceptCandidate, TypeInv, TypeOK, TaskType, Status, TERMINAL_TASK, ResultsAreReported
  <2>2. run' \in [Runs -> RunType]
    BY <1>4 DEF AcceptCandidate, TypeInv, TypeOK, RunType, Status, TERMINAL_TASK
  <2> QED BY <1>4, <2>1, <2>2, TypeInvParts DEF AcceptCandidate, TypeInv, TypeOK, environment
<1> QED BY <1>1, <1>2, <1>3, <1>4 DEF RunStep

(* Backends, controllers and the settings keep their ranges.               *)
LEMMA EnvironmentTyped ==
  ASSUME TypeInv, EnvironmentStep
  PROVE TypeInv'
<1>1. ASSUME NEW l \in Leases, Spawn(l) PROVE TypeInv'
  BY <1>1 DEF Spawn, TypeInv, TypeOK, ledgerVars, ResultsAreReported
<1>2. ASSUME NEW l \in Leases, BackendExit(l) PROVE TypeInv'
  BY <1>2 DEF BackendExit, TypeInv, TypeOK, ledgerVars, ResultsAreReported
<1>3. ASSUME NEW l \in Leases, GroupExit(l) PROVE TypeInv'
  BY <1>3 DEF GroupExit, TypeInv, TypeOK, ledgerVars, ResultsAreReported
<1>4. ASSUME NEW l \in Leases, AgentStart(l) PROVE TypeInv'
  BY <1>4 DEF AgentStart, TypeInv, TypeOK, ledgerVars, ResultsAreReported
<1>5. ASSUME NEW l \in Leases, AgentReturn(l) PROVE TypeInv'
  BY <1>5 DEF AgentReturn, TypeInv, TypeOK, ledgerVars, ResultsAreReported
<1>6. ASSUME NEW l \in Leases, ControllerDies(l) PROVE TypeInv'
  BY <1>6 DEF ControllerDies, TypeInv, TypeOK, ledgerVars, ResultsAreReported
<1>7. ASSUME NEW cap \in Caps, ChangeSetting(cap) PROVE TypeInv'
  BY <1>7 DEF ChangeSetting, TypeInv, TypeOK, ledgerVars, environment, ResultsAreReported
<1> QED BY <1>1, <1>2, <1>3, <1>4, <1>5, <1>6, <1>7 DEF EnvironmentStep

(* Every step writes well-formed records.                                  *)
LEMMA TypeInvInductive ==
  ASSUME TypeInv, [Next]_vars
  PROVE TypeInv'
<1>1. CASE UNCHANGED vars
  BY <1>1 DEF vars, TypeInv, TypeOK, ResultsAreReported
<1>2. CASE AcquireRefused
  BY <1>2 DEF AcquireRefused, TypeInv, TypeOK, environment, ResultsAreReported
<1> QED BY <1>1, <1>2, LeaseStepTyped, TaskStepTyped, RunStepTyped, EnvironmentTyped DEF Next

(* The inductive invariant behind the type invariant: the records that the *)
(* transactions of runtime.js write are well formed, and a recorded result *)
(* has a status.                                                           *)
THEOREM TypeInvHolds == Spec => []TypeInv
BY TypeInit, TypeInvInductive, PTL DEF Spec

(* Every field of the ledger keeps its range under every transaction of    *)
(* runtime.js: generations stay within MAX_SAFE_INTEGER (nextGeneration),  *)
(* and statuses stay within those that validateLedger knows.               *)
THEOREM TypeCorrect == Spec => []TypeOK
BY TypeInvHolds, PTL DEF TypeInv
-----------------------------------------------------------------------------
(* A step that reserves nothing: the numbers of the attempts stay, and     *)
(* only current leases, and tasks that have one, are active after it.      *)
ReservesNothing ==
  /\ \A t \in Tasks :
       /\ task'[t].generation = task[t].generation /\ task'[t].attempt = task[t].attempt
       /\ task'[t].status \in ACTIVE => task[t].status \in ACTIVE \/ HasLease(t)
  /\ \A l \in Leases :
       /\ lease'[l].attempt = lease[l].attempt
       /\ lease[l].status # "none" => lease'[l].status # "none"
       /\ lease'[l].status \in ACTIVE => lease[l].status \in ACTIVE \/ l = Current(TaskOf(l))

(* The current lease of a reserved task is a lease of that task.           *)
LEMMA CurrentIsLease ==
  ASSUME TypeInv, NEW t \in Tasks, HasLease(t)
  PROVE Current(t) \in Leases /\ TaskOf(Current(t)) = t
BY DEF TypeInv, TypeOK, TaskType, HasLease, Current, Leases, Generations, TaskOf

(* fenced: a token that passes names the current lease of its task.        *)
LEMMA FencedIsCurrent ==
  ASSUME TypeInv, NEW l \in Leases, Fenced(l)
  PROVE l = Current(TaskOf(l)) /\ HasLease(TaskOf(l))
BY LeaseShape DEF Fenced, Current, HasLease

(* Such a step keeps the ledger valid.                                     *)
LEMMA ReservesNothingKeepsValid ==
  ASSUME TypeInv, Valid, ReservesNothing
  PROVE Valid'
<1>1. \A t \in Tasks : (HasLease(t))' = HasLease(t) /\ (Current(t))' = Current(t)
  BY DEF ReservesNothing, HasLease, Current
<1>2. \A t \in Tasks : task'[t].status \in ACTIVE => (HasLease(t))'
  BY <1>1 DEF Valid, ReservesNothing
<1>3. \A t \in Tasks : (HasLease(t))' =>
        lease'[(Current(t))'].status # "none" /\ lease'[(Current(t))'].attempt = task'[t].attempt
  BY <1>1, CurrentIsLease DEF Valid, ReservesNothing
<1>4. \A l \in Leases : lease'[l].status \in ACTIVE => l = (Current(TaskOf(l)))'
  BY <1>1, LeaseShape DEF Valid, ReservesNothing, ActiveLeases, IsActive
<1> QED BY <1>2, <1>3, <1>4 DEF Valid, ActiveLeases, IsActive

(* acquireTask keeps the ledger valid: the superseded lease is released,   *)
(* so the new reservation is the only active lease of its task.            *)
LEMMA AcquireKeepsValid ==
  ASSUME TypeInv, Valid, NEW t \in Tasks, NEW attempt, NEW owner, Acquire(t, attempt, owner)
  PROVE Valid'
<1> DEFINE g == task[t].generation + 1
           l == <<t, g>>
<1>1. task[t].generation \in 0..MaxGeneration /\ g \in 1..MaxGeneration /\ l \in Leases /\ TaskOf(l) = t
  BY LedgerAssumption DEF Acquire, TypeInv, TypeOK, TaskType, Leases, Generations, TaskOf
<1>2. /\ task'[t].generation = g /\ task'[t].attempt = attempt
      /\ \A x \in Tasks \ {t} : task'[x] = task[x]
  BY DEF Acquire, TypeInv, TypeOK, TaskType
<1>3. /\ lease'[l].status = "reserved" /\ lease'[l].attempt = attempt
      /\ \A k \in Leases \ {l} : lease'[k] = lease[k]
  BY <1>1 DEF Acquire, TypeInv, TypeOK, NoLease
<1>4. (HasLease(t))' /\ (Current(t))' = l
  BY <1>1, <1>2 DEF HasLease, Current
<1>5. \A x \in Tasks \ {t} :
        /\ (HasLease(x))' = HasLease(x) /\ (Current(x))' = Current(x)
        /\ HasLease(x) => Current(x) \in Leases /\ Current(x) # l
  BY <1>2, CurrentIsLease DEF HasLease, Current
<1>6. \A x \in Tasks : task'[x].status \in ACTIVE => (HasLease(x))'
  BY <1>2, <1>4, <1>5 DEF Valid
<1>7. \A x \in Tasks : (HasLease(x))' =>
        lease'[(Current(x))'].status # "none" /\ lease'[(Current(x))'].attempt = task'[x].attempt
  BY <1>2, <1>3, <1>4, <1>5 DEF Valid
<1>8. \A k \in Leases : lease'[k].status \in ACTIVE => k = (Current(TaskOf(k)))'
  <2> SUFFICES ASSUME NEW k \in Leases, lease'[k].status \in ACTIVE, k # l
               PROVE k = (Current(TaskOf(k)))'
    BY <1>1, <1>4
  <2>1. lease[k].status \in ACTIVE /\ k = Current(TaskOf(k))
    BY <1>3 DEF Valid, ActiveLeases, IsActive
  <2>2. TaskOf(k) # t
    <3> SUFFICES ASSUME TaskOf(k) = t PROVE FALSE
      OBVIOUS
    <3>1. k = Current(t) /\ HasLease(t)
      BY <1>1, <2>1, LeaseShape DEF Current, HasLease, GenerationOf
    <3>2. CurrentActive(t)
      BY <2>1, <3>1 DEF CurrentActive, IsActive
    <3> QED BY <3>2 DEF Acquire, Reservable
  <2> QED BY <1>5, <2>1, <2>2, LeaseShape
<1> QED BY <1>6, <1>7, <1>8 DEF Valid, ActiveLeases, IsActive

(* One lease, fenced, and its task get new fields; the rest stays.         *)
LEMMA OneLeaseReservesNothing ==
  ASSUME TypeInv, NEW l \in Leases, Fenced(l),
         \A k \in Leases \ {l} : lease'[k] = lease[k],
         \A t \in Tasks \ {TaskOf(l)} : task'[t] = task[t],
         lease'[l].attempt = lease[l].attempt, lease'[l].status # "none",
         task'[TaskOf(l)].generation = task[TaskOf(l)].generation,
         task'[TaskOf(l)].attempt = task[TaskOf(l)].attempt
  PROVE ReservesNothing
BY FencedIsCurrent, LeaseShape DEF ReservesNothing

(* The calls that name a lease reserve nothing.                            *)
LEMMA LeaseStepReservesNothing ==
  ASSUME TypeInv, NEW l \in Leases, LeaseStep(l)
  PROVE ReservesNothing
<1> DEFINE t == TaskOf(l)
<1>1. /\ t \in Tasks /\ task \in [Tasks -> TaskType] /\ lease \in [Leases -> LeaseType]
  BY LeaseShape DEF TypeInv, TypeOK
<1> USE DEF FencedActive
<1>2. CASE ClaimLocalLaunch(l)
  BY <1>1, <1>2, OneLeaseReservesNothing DEF ClaimLocalLaunch, Claimable, TaskType, LeaseType
<1>3. CASE ClaimHostLaunch(l)
  BY <1>1, <1>3, OneLeaseReservesNothing DEF ClaimHostLaunch, HostClaimable, TaskType, LeaseType
<1>4. ASSUME NEW tracked \in BOOLEAN, BindProcess(l, tracked) PROVE ReservesNothing
  BY <1>1, <1>4, OneLeaseReservesNothing DEF BindProcess, TaskType, LeaseType
<1>5. CASE BindHost(l)
  BY <1>1, <1>5, OneLeaseReservesNothing DEF BindHost, TaskType, LeaseType
<1>6. CASE HeartbeatWaiting(l)
  BY <1>1, <1>6, OneLeaseReservesNothing DEF HeartbeatWaiting, SetStatus, TaskType, LeaseType
<1>7. ASSUME NEW s \in {"produced", "failed"}, NEW cause \in Causes \cup {NoCause},
             ReportResult(l, s, cause)
      PROVE ReservesNothing
  BY <1>1, <1>7, OneLeaseReservesNothing DEF ReportResult, Fenced, TaskType
<1>8. CASE MarkCancelPending(l)
  BY <1>1, <1>8, OneLeaseReservesNothing DEF MarkCancelPending, TaskType, LeaseType
<1>9. CASE ObserveLocalExit(l)
  BY <1>1, <1>9, OneLeaseReservesNothing DEF ObserveLocalExit, Fenced, LeaseType
<1>10. CASE MarkLaunchFailed(l)
  BY <1>1, <1>10, OneLeaseReservesNothing DEF MarkLaunchFailed, TaskType, LeaseType
<1>11. ASSUME FencedActive(l), Release(l) PROVE ReservesNothing
  BY <1>1, <1>11, OneLeaseReservesNothing DEF Release, TaskType, LeaseType
<1>12. CASE SettleControlledHostChildren(l)
  <2> DEFINE settled == {k \in ActiveLeases : lease[k].owner = "parent" /\ ParentLease(k) = l /\ Stopped(k)}
             queued == {x \in Tasks : ControllerOf[x] = t /\ task[x].status = "queued"
                          /\ task[x].controllerLease = GenerationOf(l)}
             over == {x \in Tasks : x \in queued \/ \E k \in settled : TaskOf(k) = x}
  <2>1. /\ lease' = [k \in Leases |-> IF k \in settled
                       THEN [lease[k] EXCEPT !.status = "released", !.cancel = TRUE] ELSE lease[k]]
        /\ task' = [x \in Tasks |-> IF x \in over THEN [task[x] EXCEPT !.status = "cancelled"]
                                    ELSE task[x]]
    BY <1>12 DEF SettleControlledHostChildren
  <2> HIDE DEF settled, over
  <2>2. \A k \in Leases :
          /\ lease'[k].attempt = lease[k].attempt
          /\ lease[k].status # "none" => lease'[k].status # "none"
          /\ lease'[k].status \in ACTIVE => lease[k].status \in ACTIVE
    BY <1>1, <2>1 DEF LeaseType, ACTIVE
  <2>3. \A x \in Tasks :
          /\ task'[x].generation = task[x].generation /\ task'[x].attempt = task[x].attempt
          /\ task'[x].status \in ACTIVE => task[x].status \in ACTIVE
    BY <1>1, <2>1 DEF TaskType, ACTIVE
  <2> QED BY <2>2, <2>3 DEF ReservesNothing
<1> QED BY <1>2, <1>3, <1>4, <1>5, <1>6, <1>7, <1>8, <1>9, <1>10, <1>11, <1>12
        DEF LeaseStep, ReleaseLease, CompleteHostTask

(* The calls that name a run reserve nothing.                              *)
LEMMA RunStepReservesNothing ==
  ASSUME TypeInv, NEW r \in Runs, RunStep(r)
  PROVE ReservesNothing
<1>1. task \in [Tasks -> TaskType] /\ lease \in [Leases -> LeaseType]
  BY DEF TypeInv, TypeOK
<1>2. CASE ResumeRun(r)
  <2> DEFINE mine == {t \in Tasks : RunOf[t] = r /\ CurrentActive(t)}
             stopped == {t \in mine : Stopped(Current(t))}
             orphaned == {t \in mine \ stopped :
                            lease[Current(t)].owner = "none" \/ controller[Current(t)] = "dead"}
             final == [t \in Tasks |-> StatusOnRelease(task[t], lease[Current(t)], task[t].generation)]
  <2>1. lease' = [l \in Leases |->
                    CASE TaskOf(l) \in stopped /\ l = Current(TaskOf(l))
                           -> [lease[l] EXCEPT !.status = "released"]
                      [] TaskOf(l) \in orphaned /\ l = Current(TaskOf(l))
                           -> [lease[l] EXCEPT !.status = "orphaned"]
                      [] OTHER -> lease[l]]
    BY <1>2 DEF ResumeRun
  <2>2. task' = [t \in Tasks |->
                   CASE t \in stopped -> [task[t] EXCEPT !.status = final[t]]
                     [] t \in orphaned -> [task[t] EXCEPT !.status = "orphaned"]
                     [] OTHER -> task[t]]
    BY <1>2 DEF ResumeRun
  <2>3. \A t \in stopped \cup orphaned : HasLease(t)
    BY DEF CurrentActive
  <2> HIDE DEF mine, stopped, orphaned, final
  <2>4. \A l \in Leases :
          /\ lease'[l].attempt = lease[l].attempt
          /\ lease[l].status # "none" => lease'[l].status # "none"
          /\ lease'[l].status \in ACTIVE => lease[l].status \in ACTIVE \/ l = Current(TaskOf(l))
    BY <1>1, <2>1 DEF LeaseType
  <2>5. \A t \in Tasks :
          /\ task'[t].generation = task[t].generation /\ task'[t].attempt = task[t].attempt
          /\ task'[t].status \in ACTIVE => task[t].status \in ACTIVE \/ HasLease(t)
    BY <1>1, <2>2, <2>3 DEF TaskType
  <2> QED BY <2>4, <2>5 DEF ReservesNothing
<1>3. ASSUME NEW scope \in {"run", "task"}, NEW ts \in SUBSET Tasks, FreezeCandidate(r, scope, ts)
      PROVE ReservesNothing
  BY <1>1, <1>3 DEF FreezeCandidate, ReservesNothing, TaskType, ACTIVE
<1>4. CASE BlockRun(r)
  BY <1>4 DEF BlockRun, ReservesNothing
<1>5. CASE AcceptCandidate(r)
  BY <1>1, <1>5 DEF AcceptCandidate, ReservesNothing, TaskType, ACTIVE
<1> QED BY <1>2, <1>3, <1>4, <1>5 DEF RunStep

(* Nor do refused acquisitions and the world outside the ledger.           *)
LEMMA EnvironmentReservesNothing ==
  ASSUME EnvironmentStep \/ AcquireRefused \/ UNCHANGED vars
  PROVE ReservesNothing
BY DEF EnvironmentStep, AcquireRefused, Spawn, BackendExit, GroupExit, AgentStart, AgentReturn,
   ControllerDies, ChangeSetting, ledgerVars, vars, ReservesNothing

(* Every step keeps the ledger valid.                                      *)
LEMMA ValidInductive ==
  ASSUME TypeInv, Valid, [Next]_vars
  PROVE Valid'
<1>1. ASSUME NEW t \in Tasks, TaskStep(t) PROVE Valid'
  <2>1. CASE AddTask(t)
    BY <2>1, ReservesNothingKeepsValid
       DEF AddTask, TypeInv, TypeOK, TaskType, ReservesNothing, ACTIVE
  <2>2. ASSUME NEW spec \in Specs, RespecTask(t, spec) PROVE Valid'
    BY <2>2, ReservesNothingKeepsValid
       DEF RespecTask, TypeInv, TypeOK, TaskType, ReservesNothing
  <2> QED BY <1>1, <2>1, <2>2, AcquireKeepsValid DEF TaskStep
<1> QED BY <1>1, LeaseStepReservesNothing, RunStepReservesNothing, EnvironmentReservesNothing,
           ReservesNothingKeepsValid DEF Next
(* No transaction of runtime.js writes a ledger that validateLedger        *)
(* refuses: an active task has a lease, the lease that a task names exists *)
(* and carries the same attempt, and no superseded lease is ever active.   *)
THEOREM ValidAlways == Spec => []Valid
<1>1. Init => Valid
  BY DEF Init, Valid, NewTask, NoLease, HasLease, ActiveLeases, IsActive, ACTIVE
<1> QED BY <1>1, ValidInductive, TypeInvHolds, PTL DEF Spec
-----------------------------------------------------------------------------
(***************************************************************************)
(* What a slot of the ledger stands for: a reservation starts at most one  *)
(* backend, keeps its slot as long as that backend may be there, and is    *)
(* counted against the caps of src/runtime.js acquireTask.                 *)
(*                                                                         *)
(* Neither property is inductive.  A slot is safe because of how far its   *)
(* launch has come: nothing has happened under a number not yet reserved,  *)
(* a launch that nobody claimed has no starter, one that is known to have  *)
(* failed is over, and an agent lives within its controller's process.     *)
(* Slot says so, lease by lease.                                           *)
(***************************************************************************)

(* Nothing runs for the lease, and nothing may still be started.           *)
Gone(l) == permits[l] = 0 /\ backend[l] \in {"none", "down"}

(* Nothing has happened yet under a number that was not reserved.          *)
Fresh(l) ==
  GenerationOf(l) > task[TaskOf(l)].generation =>
    lease[l].status = "none" /\ lease[l].launch = "none" /\ lease[l].owner = "none"
      /\ backend[l] = "none" /\ permits[l] = 0

(* An agent without a controller may start on its reservation; everything  *)
(* else waits for the launch to be claimed.                                *)
Unclaimed(l) ==
  lease[l].launch = "permission_issued" =>
    \/ Adapter[TaskOf(l)] = "host" /\ ControllerOf[TaskOf(l)] = NoTask
    \/ backend[l] = "none" /\ permits[l] = 0

NotStarted(l) == lease[l].launch = "confirmed_not_started" => ~IsActive(l)

StartsOnce(l) == permits[l] + (IF backend[l] = "none" THEN 0 ELSE 1) <= 1

HoldsSlot(l) == IsActive(l) \/ Gone(l)

(* An agent lives no longer than the controller whose process it borrows.  *)
Hosted(l) ==
  /\ Adapter[TaskOf(l)] = "host" => lease[l].owner # "self" /\ backend[l] # "group"
  /\ lease[l].owner = "parent" =>
       /\ Adapter[TaskOf(l)] = "host" /\ ControllerOf[TaskOf(l)] # NoTask
       /\ lease[l].parent = task[TaskOf(l)].controllerLease /\ lease[l].parent # 0
       /\ backend[ParentLease(l)] # "up" => Gone(l)

Slot(l) ==
  Fresh(l) /\ Unclaimed(l) /\ NotStarted(l) /\ StartsOnce(l) /\ HoldsSlot(l) /\ Hosted(l)

AbsentIsNew == \A t \in Tasks : task[t].status = "absent" => task[t].generation = 0

SlotInv == AbsentIsNew /\ \A l \in Leases : Slot(l)

(* In the empty ledger no slot was ever used.                              *)
LEMMA SlotInit == Init => SlotInv
<1> SUFFICES ASSUME Init PROVE SlotInv
  OBVIOUS
<1>1. \A l \in Leases : lease[l] = NoLease /\ backend[l] = "none" /\ permits[l] = 0
  BY DEF Init
<1>2. \A l \in Leases : Slot(l)
  BY <1>1 DEF NoLease, Slot, Fresh, Unclaimed, NotStarted, StartsOnce, HoldsSlot, Hosted, Gone
<1>3. AbsentIsNew
  BY DEF Init, NewTask, AbsentIsNew
<1> QED BY <1>2, <1>3 DEF SlotInv

(* The controller under which a host agent was reserved is a native lease. *)
LEMMA ParentIsNative ==
  ASSUME TypeInv, NEW l \in Leases, Hosted(l), lease[l].owner = "parent"
  PROVE ParentLease(l) \in Leases /\ Adapter[TaskOf(ParentLease(l))] = "native"
<1>1. TaskOf(l) \in Tasks /\ lease[l].parent \in 1..MaxGeneration
  BY LeaseShape DEF TypeInv, TypeOK, LeaseType, Hosted
<1>2. ControllerOf[TaskOf(l)] \in Tasks /\ Adapter[ControllerOf[TaskOf(l)]] = "native"
  BY <1>1, LedgerAssumption DEF Hosted
<1> QED BY <1>1, <1>2 DEF ParentLease, Leases, Generations, TaskOf

(* backendStopped is right: nothing runs, and nothing will start, for a    *)
(* lease that it calls stopped.                                            *)
LEMMA StoppedIsGone ==
  ASSUME TypeInv, NEW l \in Leases, Slot(l), IsActive(l), Stopped(l)
  PROVE Gone(l)
<1>1. permits[l] \in Nat /\ backend[l] \in {"none", "up", "group", "down"}
  BY DEF TypeInv, TypeOK
<1>2. ~(lease[l].launch = "confirmed_not_started")
  BY DEF Slot, NotStarted
<1>3. CASE lease[l].owner = "self" /\ backend[l] = "down"
  BY <1>1, <1>3 DEF Slot, StartsOnce, Gone
<1>4. CASE lease[l].owner = "parent" /\ backend[ParentLease(l)] = "down"
  BY <1>4 DEF Slot, Hosted
<1> QED BY <1>2, <1>3, <1>4 DEF Stopped

(* A lease that a step leaves alone, or whose slot it only ends or keeps.  *)
Quiet(l) ==
  /\ permits'[l] \in {permits[l], 0} /\ backend'[l] = backend[l]
  /\ lease'[l].launch = lease[l].launch
  /\ lease'[l].owner = lease[l].owner /\ lease'[l].parent = lease[l].parent
  /\ \/ lease'[l].status = lease[l].status
     \/ IsActive(l) /\ lease'[l].status \in ACTIVE
     \/ Gone(l) /\ IsActive(l) /\ lease'[l].status = "released"

(* No task is reserved, tied to a controller or forgotten by a step.       *)
TasksStay ==
  \A t \in Tasks : /\ task'[t].controllerLease = task[t].controllerLease
                   /\ task'[t].generation = task[t].generation
                   /\ task'[t].status = "absent" => task[t].status = "absent"

ControllersStay ==
  \A l \in Leases : Adapter[TaskOf(l)] = "native" /\ backend[l] = "up" => backend'[l] = "up"

(* A quiet step keeps the invariant of a slot, if its controller stays.    *)
LEMMA QuietKeepsSlot ==
  ASSUME TypeInv, NEW l \in Leases, Slot(l), Quiet(l),
         lease[l].owner = "parent" => backend[ParentLease(l)] # "up" \/ backend'[ParentLease(l)] = "up",
         task'[TaskOf(l)].controllerLease = task[TaskOf(l)].controllerLease,
         task'[TaskOf(l)].generation \in Nat,
         task'[TaskOf(l)].generation >= task[TaskOf(l)].generation
  PROVE (Slot(l))'
<1>1. /\ TaskOf(l) \in Tasks /\ GenerationOf(l) \in Nat
      /\ permits[l] \in Nat /\ task[TaskOf(l)].generation \in Nat
  BY LeaseShape DEF TypeInv, TypeOK, TaskType
<1>2. (ParentLease(l))' = ParentLease(l)
  BY DEF Quiet, ParentLease
<1>3. Gone(l) => (Gone(l))'
  BY DEF Gone, Quiet
<1>4. (Hosted(l))'
  BY <1>2, <1>3 DEF Slot, Hosted, Quiet
<1>5. (HoldsSlot(l))'
  BY <1>3 DEF Slot, HoldsSlot, Quiet, IsActive
<1>6. (StartsOnce(l))'
  BY <1>1 DEF Slot, StartsOnce, Quiet
<1>7. (NotStarted(l))'
  BY DEF Slot, NotStarted, Quiet, IsActive, ACTIVE
<1>8. (Unclaimed(l))'
  BY DEF Slot, Unclaimed, Quiet
<1>9. (Fresh(l))'
  <2> SUFFICES ASSUME GenerationOf(l) > task'[TaskOf(l)].generation
               PROVE /\ lease'[l].status = "none" /\ lease'[l].launch = "none"
                     /\ lease'[l].owner = "none" /\ backend'[l] = "none" /\ permits'[l] = 0
    BY DEF Fresh
  <2>1. GenerationOf(l) > task[TaskOf(l)].generation
    BY <1>1
  <2>2. /\ lease[l].status = "none" /\ lease[l].launch = "none" /\ lease[l].owner = "none"
        /\ backend[l] = "none" /\ permits[l] = 0
    BY <2>1 DEF Slot, Fresh
  <2>3. ~IsActive(l)
    BY <2>2 DEF IsActive, ACTIVE
  <2> QED BY <2>2, <2>3 DEF Quiet
<1> QED BY <1>4, <1>5, <1>6, <1>7, <1>8, <1>9 DEF Slot

(* It remains to look at the leases that a step really changes.            *)
LEMMA OtherSlotsStay ==
  ASSUME TypeInv, SlotInv, TasksStay, ControllersStay,
         \A l \in Leases : Quiet(l) \/ (Slot(l))'
  PROVE SlotInv'
<1>1. AbsentIsNew'
  BY DEF SlotInv, AbsentIsNew, TasksStay
<1>2. ASSUME NEW l \in Leases, Quiet(l) PROVE (Slot(l))'
  <2>1. Slot(l) /\ TaskOf(l) \in Tasks
    BY LeaseShape DEF SlotInv
  <2>2. task[TaskOf(l)].generation \in Nat
    BY <2>1 DEF TypeInv, TypeOK, TaskType
  <2>3. lease[l].owner = "parent" => backend[ParentLease(l)] # "up" \/ backend'[ParentLease(l)] = "up"
    BY <2>1, ParentIsNative DEF Slot, ControllersStay
  <2> QED BY <1>2, <2>1, <2>2, <2>3, QuietKeepsSlot DEF TasksStay
<1> QED BY <1>1, <1>2 DEF SlotInv

(* A step that is quiet about all leases keeps the whole invariant.        *)
LEMMA QuietStep ==
  ASSUME TypeInv, SlotInv, TasksStay, \A l \in Leases : Quiet(l)
  PROVE SlotInv'
<1>1. ControllersStay
  BY DEF ControllersStay, Quiet
<1> QED BY <1>1, OtherSlotsStay

(* The steps on one fenced lease: the other leases and tasks are as they   *)
(* were, and so is every backend.                                          *)
LEMMA OneSlot ==
  ASSUME TypeInv, SlotInv, NEW l \in Leases, (Slot(l))', UNCHANGED backend,
         \A k \in Leases \ {l} : lease'[k] = lease[k] /\ permits'[k] = permits[k],
         TasksStay
  PROVE SlotInv'
<1>1. \A k \in Leases \ {l} : Quiet(k)
  BY DEF Quiet
<1>2. ControllersStay
  BY DEF ControllersStay
<1> QED BY <1>1, <1>2, OtherSlotsStay

(* fenced, and not released: an active lease.                              *)
LEMMA FencedActiveIsActive ==
  ASSUME TypeInv, NEW l \in Leases, FencedActive(l)
  PROVE IsActive(l) /\ GenerationOf(l) = task[TaskOf(l)].generation
BY DEF TypeInv, TypeOK, LeaseType, FencedActive, Fenced, IsActive

(* releaseInLedger, after its guard, only ends a slot.                     *)
LEMMA ReleaseIsQuiet ==
  ASSUME TypeInv, SlotInv, NEW l \in Leases, FencedActive(l), Gone(l), Release(l),
         UNCHANGED <<permits, backend>>
  PROVE TasksStay /\ \A k \in Leases : Quiet(k)
<1>1. /\ TaskOf(l) \in Tasks /\ GenerationOf(l) \in 1..MaxGeneration
      /\ task \in [Tasks -> TaskType] /\ lease \in [Leases -> LeaseType]
  BY LeaseShape DEF TypeInv, TypeOK
<1>2. StatusOnRelease(task[TaskOf(l)], lease[l], GenerationOf(l)) # "absent"
  BY <1>1, StatusOnReleaseTyped DEF TypeInv, ResultsAreReported
<1>3. TasksStay
  BY <1>1, <1>2 DEF Release, TasksStay, TaskType
<1>4. IsActive(l)
  BY FencedActiveIsActive
<1>5. \A k \in Leases : Quiet(k)
  BY <1>1, <1>4 DEF Release, Quiet, LeaseType
<1> QED BY <1>3, <1>5

(* Every call that names a lease keeps the invariant of the slots.         *)
LEMMA LeaseStepKeepsSlots ==
  ASSUME TypeInv, SlotInv, NEW l \in Leases, LeaseStep(l)
  PROVE SlotInv'
<1> DEFINE t == TaskOf(l)
<1>1. /\ t \in Tasks /\ task \in [Tasks -> TaskType] /\ lease \in [Leases -> LeaseType]
      /\ permits[l] \in Nat /\ permits \in [Leases -> Nat] /\ Slot(l)
      /\ backend[l] \in {"none", "up", "group", "down"}
  BY LeaseShape DEF TypeInv, TypeOK, SlotInv
<1>2. CASE ClaimLocalLaunch(l)
  <2>1. FencedActive(l) /\ lease[l].launch = "permission_issued" /\ Adapter[t] # "host"
    BY <1>2 DEF ClaimLocalLaunch, Claimable
  <2>2. IsActive(l) /\ ~(GenerationOf(l) > task[t].generation)
    BY <1>1, <2>1, FencedActiveIsActive DEF TaskType
  <2>3. backend[l] = "none" /\ permits[l] = 0
    BY <1>1, <2>1 DEF Slot, Unclaimed
  <2>4. /\ lease'[l].launch = "launching" /\ lease'[l].status = "launching"
        /\ lease'[l].owner = lease[l].owner /\ lease'[l].parent = lease[l].parent
        /\ permits'[l] = 1 /\ backend' = backend
        /\ \A k \in Leases \ {l} : lease'[k] = lease[k] /\ permits'[k] = permits[k]
    BY <1>1, <1>2, <2>3 DEF ClaimLocalLaunch, LeaseType
  <2>5. TasksStay
    BY <1>1, <1>2 DEF ClaimLocalLaunch, TaskType, TasksStay
  <2>6. lease[l].owner # "parent"
    BY <1>1, <2>1 DEF Slot, Hosted
  <2>7. (Slot(l))'
    BY <1>1, <2>1, <2>2, <2>3, <2>4, <2>5, <2>6
       DEF Slot, Fresh, Unclaimed, NotStarted, StartsOnce, HoldsSlot, Hosted, IsActive, ACTIVE, TasksStay
  <2> QED BY <2>4, <2>5, <2>7, OneSlot
<1>3. CASE ClaimHostLaunch(l)
  <2>1. /\ FencedActive(l) /\ lease[l].launch = "permission_issued" /\ Adapter[t] = "host"
        /\ ControllerOf[t] # NoTask /\ task[t].controllerLease = GenerationOf(Current(ControllerOf[t]))
        /\ backend[Current(ControllerOf[t])] = "up"
    BY <1>3 DEF ClaimHostLaunch, HostClaimable, ControlledHost
  <2>2. IsActive(l) /\ ~(GenerationOf(l) > task[t].generation)
    BY <1>1, <2>1, FencedActiveIsActive DEF TaskType
  <2>3. backend[l] = "none" /\ permits[l] = 0
    BY <1>1, <2>1 DEF Slot, Unclaimed
  <2>4. /\ lease'[l].launch = "host_launch_claimed" /\ lease'[l].status = "launching"
        /\ lease'[l].owner = lease[l].owner /\ lease'[l].parent = lease[l].parent
        /\ permits'[l] = 1 /\ backend' = backend
        /\ \A k \in Leases \ {l} : lease'[k] = lease[k] /\ permits'[k] = permits[k]
    BY <1>1, <1>3, <2>3 DEF ClaimHostLaunch, LeaseType
  <2>5. TasksStay
    BY <1>1, <1>3 DEF ClaimHostLaunch, TaskType, TasksStay
  <2>6. (ParentLease(l))' = ParentLease(l)
    BY <2>4 DEF ParentLease
  <2>7. lease[l].owner = "parent" => backend[ParentLease(l)] = "up"
    BY <1>1, <2>1 DEF Slot, Hosted, ParentLease, Current, GenerationOf
  <2>8. (Slot(l))'
    BY <1>1, <2>1, <2>2, <2>3, <2>4, <2>5, <2>6, <2>7
       DEF Slot, Fresh, Unclaimed, NotStarted, StartsOnce, HoldsSlot, Hosted, IsActive, ACTIVE, TasksStay
  <2> QED BY <2>4, <2>5, <2>8, OneSlot
<1>4. ASSUME NEW tracked \in BOOLEAN, BindProcess(l, tracked) PROVE SlotInv'
  <2>1. FencedActive(l) /\ Adapter[t] # "host"
    BY <1>4 DEF BindProcess
  <2>2. IsActive(l) /\ ~(GenerationOf(l) > task[t].generation)
    BY <1>1, <2>1, FencedActiveIsActive DEF TaskType
  <2>3. /\ lease'[l].launch = "bound" /\ lease'[l].status \in {"cancel_pending", "running"}
        /\ lease'[l].owner = "self" /\ permits' = permits /\ backend' = backend
        /\ \A k \in Leases \ {l} : lease'[k] = lease[k]
    BY <1>1, <1>4 DEF BindProcess, LeaseType, environment
  <2>4. TasksStay
    BY <1>1, <1>4 DEF BindProcess, TaskType, TasksStay
  <2>5. (Slot(l))'
    BY <1>1, <2>1, <2>2, <2>3, <2>4
       DEF Slot, Fresh, Unclaimed, NotStarted, StartsOnce, HoldsSlot, Hosted, IsActive, ACTIVE, TasksStay
  <2> QED BY <2>3, <2>4, <2>5, OneSlot
<1>5. CASE BindHost(l)
  <2>1. FencedActive(l) /\ Adapter[t] = "host"
    BY <1>5 DEF BindHost
  <2>2. IsActive(l) /\ ~(GenerationOf(l) > task[t].generation)
    BY <1>1, <2>1, FencedActiveIsActive DEF TaskType
  <2>3. /\ lease'[l].launch = "host_bound" /\ lease'[l].status \in {"cancel_pending", "running"}
        /\ lease'[l].owner = lease[l].owner /\ lease'[l].parent = lease[l].parent
        /\ permits' = permits /\ backend' = backend
        /\ \A k \in Leases \ {l} : lease'[k] = lease[k]
    BY <1>1, <1>5 DEF BindHost, LeaseType, environment
  <2>4. TasksStay
    BY <1>1, <1>5 DEF BindHost, TaskType, TasksStay
  <2>5. (ParentLease(l))' = ParentLease(l) /\ (Gone(l))' = Gone(l)
    BY <2>3 DEF ParentLease, Gone
  <2>6. (Slot(l))'
    BY <1>1, <2>1, <2>2, <2>3, <2>4, <2>5
       DEF Slot, Fresh, Unclaimed, NotStarted, StartsOnce, HoldsSlot, Hosted, IsActive, ACTIVE, TasksStay
  <2> QED BY <2>3, <2>4, <2>6, OneSlot
<1>6. CASE HeartbeatWaiting(l)
  <2>1. IsActive(l)
    BY <1>6, FencedActiveIsActive DEF HeartbeatWaiting
  <2>2. TasksStay /\ \A k \in Leases : Quiet(k)
    BY <1>1, <1>6, <2>1
       DEF HeartbeatWaiting, SetStatus, environment, TaskType, LeaseType, TasksStay, Quiet, ACTIVE
  <2> QED BY <2>2, QuietStep
<1>7. ASSUME NEW s \in {"produced", "failed"}, NEW cause \in Causes \cup {NoCause},
             ReportResult(l, s, cause)
      PROVE SlotInv'
  <2>1. TasksStay /\ \A k \in Leases : Quiet(k)
    BY <1>1, <1>7 DEF ReportResult, environment, TaskType, TasksStay, Quiet
  <2> QED BY <2>1, QuietStep
<1>8. CASE MarkCancelPending(l)
  <2>1. IsActive(l)
    BY <1>8, FencedActiveIsActive DEF MarkCancelPending
  <2>2. TasksStay /\ \A k \in Leases : Quiet(k)
    BY <1>1, <1>8, <2>1
       DEF MarkCancelPending, environment, TaskType, LeaseType, TasksStay, Quiet, ACTIVE
  <2> QED BY <2>2, QuietStep
<1>9. CASE ObserveLocalExit(l)
  <2>1. FencedActive(l) /\ Adapter[t] # "host"
    BY <1>9 DEF ObserveLocalExit
  <2>2. IsActive(l) /\ ~(GenerationOf(l) > task[t].generation)
    BY <1>1, <2>1, FencedActiveIsActive DEF TaskType
  <2>3. /\ lease'[l].launch = lease[l].launch /\ lease'[l].status = lease[l].status
        /\ lease'[l].owner = "self" /\ permits' = permits /\ backend' = backend /\ task' = task
        /\ \A k \in Leases \ {l} : lease'[k] = lease[k]
    BY <1>1, <1>9 DEF ObserveLocalExit, LeaseType, environment
  <2>4. TasksStay
    BY <2>3 DEF TasksStay
  <2>5. (Slot(l))'
    BY <1>1, <2>1, <2>2, <2>3, <2>4
       DEF Slot, Fresh, Unclaimed, NotStarted, StartsOnce, HoldsSlot, Hosted, IsActive, TasksStay
  <2> QED BY <2>3, <2>4, <2>5, OneSlot
<1>10. CASE MarkLaunchFailed(l)
  <2>1. FencedActive(l) /\ Adapter[t] # "host" /\ lease[l].owner = "none" /\ backend[l] = "none"
    BY <1>10 DEF MarkLaunchFailed
  <2>2. IsActive(l) /\ ~(GenerationOf(l) > task[t].generation)
    BY <1>1, <2>1, FencedActiveIsActive DEF TaskType
  <2>3. /\ lease'[l].launch = "confirmed_not_started" /\ lease'[l].status = "released"
        /\ lease'[l].owner = "none" /\ permits'[l] = 0 /\ backend' = backend
        /\ \A k \in Leases \ {l} : lease'[k] = lease[k] /\ permits'[k] = permits[k]
    BY <1>1, <1>10, <2>1 DEF MarkLaunchFailed, LeaseType
  <2>4. TasksStay
    <3> DEFINE res == [status |-> "failed", cause |-> NoCause, lease |-> GenerationOf(l)]
               tk == [task[t] EXCEPT !.result = res]
               final == StatusOnRelease(tk, lease[l], GenerationOf(l))
    <3>1. GenerationOf(l) \in 1..MaxGeneration
      BY LeaseShape
    <3>2. tk \in TaskType /\ tk.result.status # "none"
      BY <1>1, <3>1 DEF TaskType, ResultType
    <3>3. final # "absent"
      BY <3>1, <3>2, StatusOnReleaseTyped
    <3>4. task' = [task EXCEPT ![t] = [tk EXCEPT !.status = final]]
      BY <1>10 DEF MarkLaunchFailed
    <3>5. [tk EXCEPT !.status = final].status # "absent"
      BY <1>1, <3>3 DEF TaskType
    <3>6. /\ [tk EXCEPT !.status = final].generation = task[t].generation
          /\ [tk EXCEPT !.status = final].controllerLease = task[t].controllerLease
      BY <1>1 DEF TaskType
    <3> HIDE DEF tk, final
    <3> QED BY <1>1, <3>4, <3>5, <3>6 DEF TasksStay
  <2>5. (Slot(l))'
    BY <1>1, <2>1, <2>2, <2>3, <2>4
       DEF Slot, Fresh, Unclaimed, NotStarted, StartsOnce, HoldsSlot, Hosted, IsActive, ACTIVE, Gone,
           TasksStay
  <2> QED BY <2>3, <2>4, <2>5, OneSlot
<1>11. CASE ReleaseLease(l)
  <2>1. Gone(l)
    BY <1>1, <1>11, StoppedIsGone, FencedActiveIsActive DEF ReleaseLease
  <2> QED BY <1>11, <2>1, ReleaseIsQuiet, QuietStep DEF ReleaseLease, environment
<1>12. CASE CompleteHostTask(l)
  <2>1. Gone(l)
    BY <1>1, <1>12 DEF CompleteHostTask, Slot, StartsOnce, Gone
  <2> QED BY <1>12, <2>1, ReleaseIsQuiet, QuietStep DEF CompleteHostTask, environment
<1>13. CASE SettleControlledHostChildren(l)
  <2> DEFINE settled == {k \in ActiveLeases : lease[k].owner = "parent" /\ ParentLease(k) = l /\ Stopped(k)}
             queued == {x \in Tasks : ControllerOf[x] = t /\ task[x].status = "queued"
                          /\ task[x].controllerLease = GenerationOf(l)}
             over == {x \in Tasks : x \in queued \/ \E k \in settled : TaskOf(k) = x}
  <2>1. /\ lease' = [k \in Leases |-> IF k \in settled
                       THEN [lease[k] EXCEPT !.status = "released", !.cancel = TRUE] ELSE lease[k]]
        /\ task' = [x \in Tasks |-> IF x \in over THEN [task[x] EXCEPT !.status = "cancelled"]
                                    ELSE task[x]]
        /\ permits' = permits /\ backend' = backend
    BY <1>13 DEF SettleControlledHostChildren, environment
  <2>2. \A k \in settled : IsActive(k) /\ Gone(k)
    BY StoppedIsGone DEF SlotInv, ActiveLeases
  <2> HIDE DEF settled, over
  <2>3. \A k \in Leases : Quiet(k)
    BY <1>1, <2>1, <2>2 DEF LeaseType, Quiet
  <2>4. TasksStay
    BY <1>1, <2>1 DEF TaskType, TasksStay
  <2> QED BY <2>3, <2>4, QuietStep
<1> QED BY <1>2, <1>3, <1>4, <1>5, <1>6, <1>7, <1>8, <1>9, <1>10, <1>11, <1>12, <1>13 DEF LeaseStep

(* So does every call that names a task: acquireTask opens a fresh slot.   *)
LEMMA TaskStepKeepsSlots ==
  ASSUME TypeInv, SlotInv, NEW t \in Tasks, TaskStep(t)
  PROVE SlotInv'
<1>1. /\ task \in [Tasks -> TaskType] /\ lease \in [Leases -> LeaseType]
      /\ permits \in [Leases -> Nat] /\ task[t] \in TaskType
  BY DEF TypeInv, TypeOK
<1>2. CASE AddTask(t)
  <2>1. task[t].generation = 0
    BY <1>2 DEF AddTask, SlotInv, AbsentIsNew
  <2>2. /\ lease' = lease /\ permits' = permits /\ backend' = backend
        /\ task'[t].status = "queued" /\ task'[t].generation = task[t].generation
        /\ \A x \in Tasks \ {t} : task'[x] = task[x]
    BY <1>1, <1>2 DEF AddTask, environment, TaskType
  <2>3. \A l \in Leases : Quiet(l)
    BY <2>2 DEF Quiet
  <2>4. ASSUME NEW l \in Leases, TaskOf(l) = t PROVE (Slot(l))'
    <3>1. GenerationOf(l) > task[t].generation
      BY <2>1, LeaseShape
    <3>2. /\ lease[l].status = "none" /\ lease[l].launch = "none" /\ lease[l].owner = "none"
          /\ backend[l] = "none" /\ permits[l] = 0
      BY <2>4, <3>1 DEF SlotInv, Slot, Fresh
    <3> QED BY <2>2, <3>2
            DEF Slot, Fresh, Unclaimed, NotStarted, StartsOnce, HoldsSlot, Hosted, IsActive, Gone
  <2>5. ASSUME NEW l \in Leases, TaskOf(l) # t PROVE (Slot(l))'
    <3>1. Slot(l) /\ TaskOf(l) \in Tasks
      BY LeaseShape DEF SlotInv
    <3>2. task'[TaskOf(l)] = task[TaskOf(l)] /\ task[TaskOf(l)].generation \in Nat
      BY <1>1, <2>2, <2>5, <3>1 DEF TaskType
    <3> QED BY <2>2, <2>3, <3>1, <3>2, QuietKeepsSlot
  <2>6. AbsentIsNew'
    BY <2>2 DEF SlotInv, AbsentIsNew
  <2> QED BY <2>4, <2>5, <2>6 DEF SlotInv
<1>3. ASSUME NEW attempt \in {task[t].attempt, task[t].attempt + 1},
             NEW owner \in {"unknown", "alive"}, Acquire(t, attempt, owner)
      PROVE SlotInv'
  <2> DEFINE g == task[t].generation + 1
             hosted == Adapter[t] = "host" /\ ControlledHost(t)
             parent == IF hosted THEN task[ControllerOf[t]].generation ELSE 0
             agent == Adapter[t] = "host" /\ ControllerOf[t] = NoTask
  <2>1. g \in 1..MaxGeneration /\ <<t, g>> \in Leases
    BY <1>1, <1>3, LedgerAssumption DEF Acquire, TaskType, Leases, Generations
  <2> PICK l \in Leases : l = <<t, g>>
    BY <2>1
  <2>2. g \in Nat /\ TaskOf(l) = t /\ GenerationOf(l) = g
    BY <2>1 DEF TaskOf, GenerationOf
  <2>3. backend[l] = "none" /\ permits[l] = 0
    BY <1>1, <2>2 DEF SlotInv, Slot, Fresh, TaskType
  <2>4. /\ task'[t].status = "reserved" /\ task'[t].generation = g
        /\ task'[t].controllerLease = task[t].controllerLease
        /\ \A x \in Tasks \ {t} : task'[x] = task[x]
    BY <1>1, <1>3 DEF Acquire, TaskType
  <2>5. /\ lease'[l].status = "reserved" /\ lease'[l].launch = "permission_issued"
        /\ lease'[l].owner = (IF hosted THEN "parent" ELSE "none") /\ lease'[l].parent = parent
        /\ backend' = backend /\ permits' = [permits EXCEPT ![l] = IF agent THEN 1 ELSE 0]
        /\ \A k \in Leases \ {l} : lease'[k] = lease[k]
    <3>1. lease' = [lease EXCEPT ![l] =
                     [NoLease EXCEPT !.status = "reserved", !.launch = "permission_issued",
                        !.attempt = attempt, !.owner = IF hosted THEN "parent" ELSE "none",
                        !.group = hosted, !.parent = parent]]
      BY <1>3 DEF Acquire
    <3>2. lease'[l] = [NoLease EXCEPT !.status = "reserved", !.launch = "permission_issued",
                        !.attempt = attempt, !.owner = IF hosted THEN "parent" ELSE "none",
                        !.group = hosted, !.parent = parent]
      BY <1>1, <2>2, <3>1
    <3> QED BY <1>1, <1>3, <2>2, <3>1, <3>2 DEF Acquire, NoLease
  <2>6. hosted => /\ ControllerOf[t] # NoTask /\ parent = task[t].controllerLease /\ parent # 0
                  /\ backend[<<ControllerOf[t], parent>>] = "up"
    <3> SUFFICES ASSUME hosted
                 PROVE /\ ControllerOf[t] # NoTask /\ parent = task[t].controllerLease /\ parent # 0
                       /\ backend[<<ControllerOf[t], parent>>] = "up"
      OBVIOUS
    <3>1. /\ ControllerOf[t] # NoTask /\ task[ControllerOf[t]].generation > 0
          /\ backend[<<ControllerOf[t], task[ControllerOf[t]].generation>>] = "up"
          /\ task[t].controllerLease = task[ControllerOf[t]].generation
      BY DEF ControlledHost, Current, GenerationOf, HasLease
    <3> QED BY <3>1
  <2> HIDE DEF g, hosted, parent, agent
  <2>7. (Slot(l))'
    <3>1. (ParentLease(l))' = <<ControllerOf[t], parent>>
      BY <2>2, <2>5 DEF ParentLease
    <3>2. permits'[l] = (IF agent THEN 1 ELSE 0) /\ backend'[l] = "none"
      BY <1>1, <2>2, <2>3, <2>5
    <3>3. (Hosted(l))'
      BY <2>2, <2>4, <2>5, <2>6, <3>1, <3>2 DEF Hosted, hosted
    <3>4. (Fresh(l))' /\ (NotStarted(l))' /\ (HoldsSlot(l))'
      BY <2>2, <2>4, <2>5 DEF Fresh, NotStarted, HoldsSlot, IsActive, ACTIVE
    <3>5. (StartsOnce(l))' /\ (Unclaimed(l))'
      BY <2>2, <2>5, <3>2 DEF StartsOnce, Unclaimed, agent
    <3> QED BY <3>3, <3>4, <3>5 DEF Slot
  <2>8. ASSUME NEW k \in Leases, k # l PROVE (Slot(k))'
    <3>1. Slot(k) /\ TaskOf(k) \in Tasks
      BY LeaseShape DEF SlotInv
    <3>2. Quiet(k)
      BY <1>1, <2>5, <2>8 DEF Quiet
    <3>3. /\ task'[TaskOf(k)].controllerLease = task[TaskOf(k)].controllerLease
          /\ task'[TaskOf(k)].generation \in Nat
          /\ task'[TaskOf(k)].generation >= task[TaskOf(k)].generation
      BY <1>1, <2>4, <3>1 DEF TaskType, g
    <3> QED BY <2>5, <3>1, <3>2, <3>3, QuietKeepsSlot
  <2>9. AbsentIsNew'
    BY <2>4 DEF SlotInv, AbsentIsNew
  <2> QED BY <2>7, <2>8, <2>9 DEF SlotInv
<1>4. ASSUME NEW spec \in Specs, RespecTask(t, spec) PROVE SlotInv'
  <2>1. TasksStay /\ \A l \in Leases : Quiet(l)
    BY <1>1, <1>4 DEF RespecTask, environment, TaskType, TasksStay, Quiet
  <2> QED BY <2>1, QuietStep
<1> QED BY <1>2, <1>3, <1>4 DEF TaskStep

(* So does every call that names a run: resumeRun releases stopped leases. *)
LEMMA RunStepKeepsSlots ==
  ASSUME TypeInv, SlotInv, NEW r \in Runs, RunStep(r)
  PROVE SlotInv'
<1>1. task \in [Tasks -> TaskType] /\ lease \in [Leases -> LeaseType]
  BY DEF TypeInv, TypeOK
<1>2. CASE ResumeRun(r)
  <2> DEFINE mine == {t \in Tasks : RunOf[t] = r /\ CurrentActive(t)}
             stopped == {t \in mine : Stopped(Current(t))}
             orphaned == {t \in mine \ stopped :
                            lease[Current(t)].owner = "none" \/ controller[Current(t)] = "dead"}
             final == [t \in Tasks |-> StatusOnRelease(task[t], lease[Current(t)], task[t].generation)]
  <2>1. lease' = [l \in Leases |->
                    CASE TaskOf(l) \in stopped /\ l = Current(TaskOf(l))
                           -> [lease[l] EXCEPT !.status = "released"]
                      [] TaskOf(l) \in orphaned /\ l = Current(TaskOf(l))
                           -> [lease[l] EXCEPT !.status = "orphaned"]
                      [] OTHER -> lease[l]]
    BY <1>2 DEF ResumeRun
  <2>2. task' = [t \in Tasks |->
                   CASE t \in stopped -> [task[t] EXCEPT !.status = final[t]]
                     [] t \in orphaned -> [task[t] EXCEPT !.status = "orphaned"]
                     [] OTHER -> task[t]]
    BY <1>2 DEF ResumeRun
  <2>3. permits' = permits /\ backend' = backend
    BY <1>2 DEF ResumeRun, environment
  <2>4. \A t \in stopped : final[t] # "absent"
    BY StatusOnReleaseTyped DEF CurrentActive, HasLease, TypeInv, TypeOK, TaskType, ResultsAreReported
  <2>5. \A t \in stopped \cup orphaned : IsActive(Current(t))
    BY DEF CurrentActive
  <2>6. \A t \in stopped : Gone(Current(t))
    BY CurrentIsLease, StoppedIsGone DEF CurrentActive, SlotInv
  <2> HIDE DEF mine, stopped, orphaned, final
  <2>7. \A l \in Leases : Quiet(l)
    BY <1>1, <2>1, <2>3, <2>5, <2>6 DEF LeaseType, Quiet, ACTIVE
  <2>8. TasksStay
    BY <1>1, <2>2, <2>4 DEF TaskType, TasksStay
  <2> QED BY <2>7, <2>8, QuietStep
<1>3. ASSUME NEW scope \in {"run", "task"}, NEW ts \in SUBSET Tasks, FreezeCandidate(r, scope, ts)
      PROVE SlotInv'
  <2>1. TasksStay /\ \A l \in Leases : Quiet(l)
    BY <1>1, <1>3 DEF FreezeCandidate, environment, TaskType, TasksStay, Quiet
  <2> QED BY <2>1, QuietStep
<1>4. CASE BlockRun(r)
  <2>1. TasksStay /\ \A l \in Leases : Quiet(l)
    BY <1>4 DEF BlockRun, environment, TasksStay, Quiet
  <2> QED BY <2>1, QuietStep
<1>5. CASE AcceptCandidate(r)
  <2>1. TasksStay /\ \A l \in Leases : Quiet(l)
    BY <1>1, <1>5 DEF AcceptCandidate, environment, TaskType, TasksStay, Quiet
  <2> QED BY <2>1, QuietStep
<1> QED BY <1>2, <1>3, <1>4, <1>5 DEF RunStep

(* So does the world outside the ledger: a controller that exits takes the *)
(* agents in its process with it.                                          *)
LEMMA EnvironmentKeepsSlots ==
  ASSUME TypeInv, SlotInv, EnvironmentStep
  PROVE SlotInv'
<1>1. /\ permits \in [Leases -> Nat] /\ backend \in [Leases -> {"none", "up", "group", "down"}]
      /\ \A l \in Leases : Slot(l)
  BY DEF TypeInv, TypeOK, SlotInv
<1>2. ASSUME NEW l \in Leases, Spawn(l) PROVE SlotInv'
  <2>1. /\ Adapter[TaskOf(l)] # "host" /\ permits[l] > 0 /\ backend[l] = "none"
        /\ permits' = [permits EXCEPT ![l] = permits[l] - 1]
        /\ backend' = [backend EXCEPT ![l] = "up"] /\ lease' = lease /\ task' = task
    BY <1>2 DEF Spawn, ledgerVars
  <2>2. TasksStay
    BY <2>1 DEF TasksStay
  <2>3. ControllersStay /\ \A k \in Leases \ {l} : Quiet(k)
    BY <1>1, <2>1 DEF ControllersStay, Quiet
  <2>4. permits[l] = 1 /\ permits'[l] = 0 /\ backend'[l] = "up" /\ ~Gone(l)
    BY <1>1, <2>1 DEF Slot, StartsOnce, Gone
  <2>5. (Slot(l))'
    BY <1>1, <2>1, <2>4
       DEF Slot, Fresh, Unclaimed, NotStarted, StartsOnce, HoldsSlot, Hosted, IsActive
  <2> QED BY <2>2, <2>3, <2>5, OtherSlotsStay
<1>3. ASSUME NEW l \in Leases, BackendExit(l) PROVE SlotInv'
  <2>1. /\ Adapter[TaskOf(l)] # "host" /\ backend[l] = "up" /\ lease' = lease /\ task' = task
        /\ permits' = [k \in Leases |-> IF k \in HostedBy(l) THEN 0 ELSE permits[k]]
        /\ \E s \in {"group", "down"} :
             backend' = [k \in Leases |-> CASE k = l -> s
                                      [] k \in HostedBy(l) /\ backend[k] = "up" -> "down"
                                      [] OTHER -> backend[k]]
    BY <1>3 DEF BackendExit, ledgerVars
  <2>2. AbsentIsNew'
    BY <2>1 DEF SlotInv, AbsentIsNew
  <2>3. ASSUME NEW k \in Leases PROVE (Slot(k))'
    <3>1. /\ permits'[k] \in {permits[k], 0}
          /\ backend[k] # "up" => backend'[k] = backend[k]
          /\ backend[k] = "up" => backend'[k] \in {"up", "group", "down"}
          /\ Adapter[TaskOf(k)] = "host" /\ backend[k] = "up" => backend'[k] \in {"up", "down"}
      BY <1>1, <2>1
    <3>2. Slot(k) /\ permits[k] \in Nat /\ permits'[k] \in Nat
      BY <1>1, <3>1
    <3>3. Gone(k) => (Gone(k))'
      BY <3>1 DEF Gone
    <3>4. (Fresh(k))' /\ (Unclaimed(k))' /\ (NotStarted(k))' /\ (HoldsSlot(k))' /\ (StartsOnce(k))'
      BY <2>1, <3>1, <3>2, <3>3
         DEF Slot, Fresh, Unclaimed, NotStarted, StartsOnce, HoldsSlot, IsActive
    <3>5. (Hosted(k))'
      <4>1. Adapter[TaskOf(k)] = "host" => lease'[k].owner # "self" /\ backend'[k] # "group"
        BY <2>1, <3>1, <3>2 DEF Slot, Hosted
      <4>2. ASSUME lease[k].owner = "parent", backend'[ParentLease(k)] # "up" PROVE (Gone(k))'
        <5>1. ParentLease(k) \in Leases /\ Adapter[TaskOf(k)] = "host"
          BY <3>2, <4>2, ParentIsNative DEF Slot, Hosted
        <5>2. CASE backend[ParentLease(k)] # "up"
          BY <3>2, <3>3, <4>2, <5>2 DEF Slot, Hosted
        <5>3. CASE backend[ParentLease(k)] = "up"
          <6>1. ParentLease(k) = l \/ ParentLease(k) \in HostedBy(l)
            BY <2>1, <4>2, <5>1, <5>3
          <6>2. ParentLease(k) = l
            BY <3>2, <4>2, <6>1, ParentIsNative DEF HostedBy, Slot
          <6>3. k \in HostedBy(l)
            BY <5>1, <6>2 DEF HostedBy, ParentLease, TaskOf
          <6>4. k # l
            BY <2>1, <5>1
          <6>5. permits'[k] = 0 /\ backend'[k] \in {"none", "group", "down"}
            BY <1>1, <2>1, <6>3, <6>4
          <6> QED BY <4>1, <5>1, <6>5 DEF Gone
        <5> QED BY <5>2, <5>3
      <4>3. (ParentLease(k))' = ParentLease(k)
        BY <2>1 DEF ParentLease
      <4> QED BY <2>1, <3>2, <4>1, <4>2, <4>3 DEF Slot, Hosted
    <3> QED BY <3>4, <3>5 DEF Slot
  <2> QED BY <2>2, <2>3 DEF SlotInv
<1>4. ASSUME NEW l \in Leases, GroupExit(l) PROVE SlotInv'
  <2>1. /\ backend[l] = "group" /\ backend' = [backend EXCEPT ![l] = "down"]
        /\ lease' = lease /\ task' = task /\ permits' = permits
    BY <1>4 DEF GroupExit, ledgerVars
  <2>2. TasksStay
    BY <2>1 DEF TasksStay
  <2>3. ControllersStay /\ \A k \in Leases \ {l} : Quiet(k)
    BY <1>1, <2>1 DEF ControllersStay, Quiet
  <2>4. (Slot(l))'
    <3>1. backend'[l] = "down" /\ permits'[l] = permits[l] /\ permits[l] \in Nat
      BY <1>1, <2>1
    <3>2. Slot(l) /\ ~Gone(l) /\ permits[l] = 0
      BY <1>1, <2>1 DEF Gone, Slot, StartsOnce
    <3>3. (Gone(l))'
      BY <3>1, <3>2 DEF Gone
    <3> QED BY <2>1, <3>1, <3>2, <3>3
            DEF Slot, Fresh, Unclaimed, NotStarted, StartsOnce, HoldsSlot, Hosted, IsActive
  <2> QED BY <2>2, <2>3, <2>4, OtherSlotsStay
<1>5. ASSUME NEW l \in Leases, AgentStart(l) PROVE SlotInv'
  <2>1. /\ Adapter[TaskOf(l)] = "host" /\ permits[l] > 0 /\ backend[l] = "none"
        /\ ControllerOf[TaskOf(l)] # NoTask /\ lease[l].owner = "parent" => backend[ParentLease(l)] = "up"
        /\ permits' = [permits EXCEPT ![l] = permits[l] - 1]
        /\ backend' = [backend EXCEPT ![l] = "up"] /\ lease' = lease /\ task' = task
    BY <1>5 DEF AgentStart, ledgerVars
  <2>2. TasksStay
    BY <2>1 DEF TasksStay
  <2>3. ControllersStay /\ \A k \in Leases \ {l} : Quiet(k)
    BY <1>1, <2>1 DEF ControllersStay, Quiet
  <2>4. permits[l] = 1 /\ permits'[l] = 0 /\ backend'[l] = "up" /\ ~Gone(l)
    BY <1>1, <2>1 DEF Slot, StartsOnce, Gone
  <2>5. (ParentLease(l))' = ParentLease(l)
        /\ (lease[l].owner = "parent" => backend'[ParentLease(l)] = "up")
    <3>1. (ParentLease(l))' = ParentLease(l)
      BY <2>1 DEF ParentLease
    <3>2. ASSUME lease[l].owner = "parent" PROVE backend'[ParentLease(l)] = "up"
      <4>1. ControllerOf[TaskOf(l)] # NoTask
        BY <1>1, <3>2 DEF Slot, Hosted
      <4> QED BY <1>1, <2>1, <3>2, <4>1, ParentIsNative DEF Slot
    <3> QED BY <3>1, <3>2
  <2>6. (Slot(l))'
    BY <1>1, <2>1, <2>4, <2>5
       DEF Slot, Fresh, Unclaimed, NotStarted, StartsOnce, HoldsSlot, Hosted, IsActive
  <2> QED BY <2>2, <2>3, <2>6, OtherSlotsStay
<1>6. ASSUME NEW l \in Leases, AgentReturn(l) PROVE SlotInv'
  <2>1. /\ Adapter[TaskOf(l)] = "host" /\ backend[l] = "up"
        /\ backend' = [backend EXCEPT ![l] = "down"]
        /\ lease' = lease /\ task' = task /\ permits' = permits
    BY <1>6 DEF AgentReturn, ledgerVars
  <2>2. TasksStay
    BY <2>1 DEF TasksStay
  <2>3. ControllersStay /\ \A k \in Leases \ {l} : Quiet(k)
    BY <1>1, <2>1 DEF ControllersStay, Quiet
  <2>4. (Slot(l))'
    <3>1. backend'[l] = "down" /\ permits'[l] = permits[l] /\ permits[l] \in Nat
      BY <1>1, <2>1
    <3>2. Slot(l) /\ ~Gone(l) /\ permits[l] = 0
      BY <1>1, <2>1 DEF Gone, Slot, StartsOnce
    <3>3. (Gone(l))'
      BY <3>1, <3>2 DEF Gone
    <3> QED BY <2>1, <3>1, <3>2, <3>3
            DEF Slot, Fresh, Unclaimed, NotStarted, StartsOnce, HoldsSlot, Hosted, IsActive
  <2> QED BY <2>2, <2>3, <2>4, OtherSlotsStay
<1>7. ASSUME NEW l \in Leases, ControllerDies(l) PROVE SlotInv'
  <2>1. TasksStay /\ \A k \in Leases : Quiet(k)
    BY <1>1, <1>7 DEF ControllerDies, ledgerVars, TasksStay, Quiet
  <2> QED BY <2>1, QuietStep
<1>8. ASSUME NEW cap \in Caps, ChangeSetting(cap) PROVE SlotInv'
  <2>1. TasksStay /\ \A k \in Leases : Quiet(k)
    BY <1>8 DEF ChangeSetting, ledgerVars, environment, TasksStay, Quiet
  <2> QED BY <2>1, QuietStep
<1> QED BY <1>2, <1>3, <1>4, <1>5, <1>6, <1>7, <1>8 DEF EnvironmentStep

(* Every step keeps the invariant of the slots.                            *)
LEMMA SlotInvInductive ==
  ASSUME TypeInv, SlotInv, [Next]_vars
  PROVE SlotInv'
<1>1. CASE UNCHANGED vars \/ AcquireRefused
  <2>1. TasksStay /\ \A k \in Leases : Quiet(k)
    BY <1>1 DEF vars, AcquireRefused, environment, TasksStay, Quiet
  <2> QED BY <2>1, QuietStep
<1> QED BY <1>1, LeaseStepKeepsSlots, TaskStepKeepsSlots, RunStepKeepsSlots, EnvironmentKeepsSlots
        DEF Next
-----------------------------------------------------------------------------
(* The inductive invariant behind OneStart and BackendsHoldSlots.          *)
THEOREM SlotInvHolds == Spec => []SlotInv
BY SlotInit, SlotInvInductive, TypeInvHolds, PTL DEF Spec

(* A reservation starts at most one backend, however many dispatchers hold *)
(* its token and whatever they replay: claimLocalLaunch, claimHostLaunch   *)
(* and markLaunchFailed consume one permission between them.               *)
THEOREM StartedOnce == Spec => []OneStart
<1>1. SlotInv => OneStart
  BY DEF SlotInv, Slot, StartsOnce, OneStart
<1> QED BY <1>1, SlotInvHolds, PTL

(* No slot is free while its backend, a survivor of its process group or a *)
(* starter that may still spawn one is there: what backendStopped accepts  *)
(* as proof of a stop in releaseLease, resumeRun, completeHostTask and     *)
(* settleControlledHostChildren is enough.                                 *)
THEOREM SlotsHeld == Spec => []BackendsHoldSlots
<1>1. TypeInv /\ SlotInv => BackendsHoldSlots
  BY DEF TypeInv, TypeOK, SlotInv, Slot, HoldsSlot, Gone, BackendsHoldSlots
<1> QED BY <1>1, TypeInvHolds, SlotInvHolds, PTL
-----------------------------------------------------------------------------
(* The refinement of Admission.  But for acquireTask, a step lets a slot   *)
(* be or gives it back.                                                    *)
GivesBack ==
  \A l \in Leases : \/ lease'[l].status = lease[l].status
                    \/ IsActive(l) /\ lease'[l].status \in ACTIVE \cup {"released"}

(* A step that is quiet about every lease takes no slot.                   *)
LEMMA QuietGivesBack ==
  ASSUME \A l \in Leases : Quiet(l)
  PROVE GivesBack
BY DEF Quiet, GivesBack

(* A step on one fenced lease takes no slot.                               *)
LEMMA OneLeaseGivesBack ==
  ASSUME TypeInv, NEW l \in Leases, FencedActive(l), lease'[l].status \in ACTIVE \cup {"released"},
         \A k \in Leases \ {l} : lease'[k] = lease[k]
  PROVE GivesBack
BY FencedActiveIsActive DEF GivesBack

(* The calls that name a lease take no slot.                               *)
LEMMA LeaseStepGivesBack ==
  ASSUME TypeInv, SlotInv, NEW l \in Leases, LeaseStep(l)
  PROVE GivesBack
<1>1. lease \in [Leases -> LeaseType]
  BY DEF TypeInv, TypeOK
<1>2. CASE ClaimLocalLaunch(l)
  BY <1>1, <1>2, OneLeaseGivesBack DEF ClaimLocalLaunch, Claimable, LeaseType, ACTIVE
<1>3. CASE ClaimHostLaunch(l)
  BY <1>1, <1>3, OneLeaseGivesBack DEF ClaimHostLaunch, HostClaimable, LeaseType, ACTIVE
<1>4. ASSUME NEW tracked \in BOOLEAN, BindProcess(l, tracked) PROVE GivesBack
  BY <1>1, <1>4, OneLeaseGivesBack DEF BindProcess, LeaseType, ACTIVE
<1>5. CASE BindHost(l)
  BY <1>1, <1>5, OneLeaseGivesBack DEF BindHost, LeaseType, ACTIVE
<1>6. CASE HeartbeatWaiting(l)
  BY <1>1, <1>6, OneLeaseGivesBack DEF HeartbeatWaiting, SetStatus, LeaseType, ACTIVE
<1>7. ASSUME NEW s \in {"produced", "failed"}, NEW cause \in Causes \cup {NoCause},
             ReportResult(l, s, cause)
      PROVE GivesBack
  BY <1>7 DEF ReportResult, GivesBack
<1>8. CASE MarkCancelPending(l)
  BY <1>1, <1>8, OneLeaseGivesBack DEF MarkCancelPending, LeaseType, ACTIVE
<1>9. CASE ObserveLocalExit(l)
  BY <1>1, <1>9 DEF ObserveLocalExit, LeaseType, GivesBack
<1>10. CASE MarkLaunchFailed(l)
  BY <1>1, <1>10, OneLeaseGivesBack DEF MarkLaunchFailed, LeaseType
<1>11. CASE ReleaseLease(l) \/ CompleteHostTask(l)
  BY <1>1, <1>11, OneLeaseGivesBack DEF ReleaseLease, CompleteHostTask, Release, LeaseType
<1>12. CASE SettleControlledHostChildren(l)
  <2> DEFINE settled == {k \in ActiveLeases : lease[k].owner = "parent" /\ ParentLease(k) = l /\ Stopped(k)}
  <2>1. lease' = [k \in Leases |-> IF k \in settled
                    THEN [lease[k] EXCEPT !.status = "released", !.cancel = TRUE] ELSE lease[k]]
    BY <1>12 DEF SettleControlledHostChildren
  <2>2. settled \subseteq ActiveLeases
    OBVIOUS
  <2> HIDE DEF settled
  <2> QED BY <1>1, <2>1, <2>2 DEF LeaseType, GivesBack, ActiveLeases
<1> QED BY <1>2, <1>3, <1>4, <1>5, <1>6, <1>7, <1>8, <1>9, <1>10, <1>11, <1>12 DEF LeaseStep

(* The calls that name a run take no slot.                                 *)
LEMMA RunStepGivesBack ==
  ASSUME TypeInv, NEW r \in Runs, RunStep(r)
  PROVE GivesBack
<1>1. lease \in [Leases -> LeaseType]
  BY DEF TypeInv, TypeOK
<1>2. CASE ResumeRun(r)
  <2> DEFINE mine == {t \in Tasks : RunOf[t] = r /\ CurrentActive(t)}
             stopped == {t \in mine : Stopped(Current(t))}
             orphaned == {t \in mine \ stopped :
                            lease[Current(t)].owner = "none" \/ controller[Current(t)] = "dead"}
  <2>1. lease' = [l \in Leases |->
                    CASE TaskOf(l) \in stopped /\ l = Current(TaskOf(l))
                           -> [lease[l] EXCEPT !.status = "released"]
                      [] TaskOf(l) \in orphaned /\ l = Current(TaskOf(l))
                           -> [lease[l] EXCEPT !.status = "orphaned"]
                      [] OTHER -> lease[l]]
    BY <1>2 DEF ResumeRun
  <2>2. \A t \in stopped \cup orphaned : IsActive(Current(t))
    BY DEF CurrentActive
  <2> HIDE DEF mine, stopped, orphaned
  <2> QED BY <1>1, <2>1, <2>2 DEF LeaseType, GivesBack, ACTIVE
<1> QED BY <1>2 DEF RunStep, FreezeCandidate, BlockRun, AcceptCandidate, GivesBack

(* The remaining steps leave the leases alone.                             *)
LEMMA OthersGiveBack ==
  ASSUME EnvironmentStep \/ AcquireRefused \/ UNCHANGED vars
         \/ (\E t \in Tasks : AddTask(t) \/ \E spec \in Specs : RespecTask(t, spec))
  PROVE UNCHANGED lease
BY DEF EnvironmentStep, AcquireRefused, Spawn, BackendExit, GroupExit, AgentStart, AgentReturn,
   ControllerDies, ChangeSetting, ledgerVars, vars, AddTask, RespecTask

(* The slots given back, as Admission sees them.                           *)
Released == {l \in Leases : lease[l].status = "released"}

(* Slots that are given back together are one Give, or none are.           *)
LEMMA GivingBackRefines ==
  ASSUME GivesBack
  PROVE Slots!Next \/ UNCHANGED <<ActiveLeases, Released>>
<1> DEFINE S == ActiveLeases \ ActiveLeases'
<1>1. ActiveLeases' \subseteq ActiveLeases
  BY DEF GivesBack, ActiveLeases, IsActive
<1>2. Released' = Released \cup S
  BY DEF GivesBack, ActiveLeases, IsActive, Released, ACTIVE
<1>3. CASE S = {}
  BY <1>1, <1>2, <1>3
<1>4. CASE S # {}
  <2>1. ActiveLeases' = ActiveLeases \ S /\ S \in SUBSET ActiveLeases
    BY <1>1
  <2> HIDE DEF S
  <2>2. PICK G \in SUBSET ActiveLeases :
          G # {} /\ ActiveLeases' = ActiveLeases \ G /\ Released' = Released \cup G
    BY <1>2, <1>4, <2>1
  <2>3. Slots!Give(G)
    BY <2>2 DEF Slots!Give, Released
  <2>4. \E X \in SUBSET ActiveLeases : Slots!Give(X)
    BY <2>3
  <2> QED BY <2>4 DEF Slots!Next
<1> QED BY <1>3, <1>4

(* acquireTask takes a slot of Admission, under the cap of the run.        *)
LEMMA AcquireRefines ==
  ASSUME TypeInv, Valid, SlotInv, NEW t \in Tasks, NEW attempt, NEW owner,
         Acquire(t, attempt, owner)
  PROVE Slots!Next
<1> DEFINE g == task[t].generation + 1
<1>1. g \in 1..MaxGeneration /\ task[t].generation \in Nat
  BY LedgerAssumption DEF Acquire, TypeInv, TypeOK, TaskType
<1> PICK l \in Leases : l = <<t, g>>
  BY <1>1 DEF Leases, Generations
<1>2. TaskOf(l) = t /\ GenerationOf(l) = g /\ l[1] = t /\ l[2] = g
  BY DEF TaskOf, GenerationOf
<1>3. lease'[l].status = "reserved" /\ \A k \in Leases \ {l} : lease'[k] = lease[k]
  BY DEF Acquire, TypeInv, TypeOK, NoLease
<1>4. ~IsActive(l) /\ l \notin Released
  BY <1>1, <1>2 DEF SlotInv, Slot, Fresh, IsActive, ACTIVE, Released
<1>5. ActiveLeases' = ActiveLeases \cup {l} /\ Released' = Released
  BY <1>3, <1>4 DEF ActiveLeases, IsActive, Released, ACTIVE
<1>6. \A k \in ActiveLeases : k[1] # t
  <2> SUFFICES ASSUME NEW k \in ActiveLeases, k[1] = t PROVE FALSE
    OBVIOUS
  <2>1. k = Current(t) /\ k \in Leases
    BY DEF Valid, ActiveLeases, TaskOf
  <2>2. HasLease(t)
    BY <2>1, LeaseShape DEF Current, HasLease, GenerationOf
  <2> QED BY <2>1, <2>2 DEF Acquire, Reservable, CurrentActive, ActiveLeases
<1>7. \A k \in Released : k[1] = t => k[2] < g
  <2> SUFFICES ASSUME NEW k \in Released, k[1] = t PROVE k[2] < g
    OBVIOUS
  <2>1. k \in Leases /\ k[2] \in Nat /\ GenerationOf(k) = k[2] /\ TaskOf(k) = t
    BY DEF Released, Leases, Generations, GenerationOf, TaskOf
  <2>2. ~(k[2] > task[t].generation)
    BY <2>1 DEF SlotInv, Slot, Fresh, Released
  <2> QED BY <1>1, <2>1, <2>2
<1>8. Slots!HeldIn(RunOf[t]) = ActiveIn(RunOf[t])
  BY DEF Slots!HeldIn, ActiveIn, TaskOf
<1>9. Slots!Take(l)
  <2>1. Slots!Cardinality(Slots!HeldIn(RunOf[t])) = Cardinality(ActiveIn(RunOf[t]))
    BY <1>8 DEF Slots!Cardinality, Cardinality
  <2>2. Slots!Cardinality(Slots!HeldIn(RunOf[l[1]])) < RunCap[RunOf[l[1]]]
    BY <1>2, <2>1 DEF Acquire, WithinCaps
  <2>3. \A k \in ActiveLeases : k[1] # l[1]
    BY <1>2, <1>6
  <2>4. \A k \in Released : k[1] = l[1] => k[2] < l[2]
    BY <1>2, <1>7
  <2> QED BY <1>5, <2>2, <2>3, <2>4 DEF Slots!Take, Released
<1>10. l \in Slots!Slots
  BY DEF Slots!Slots, Leases, Generations
<1> QED BY <1>9, <1>10 DEF Slots!Next

(* The ledger of runtime.js implements the slots of Admission: a task      *)
(* holds at most one, a run at most snapshot.maxConcurrency, and a slot    *)
(* that was released is never active again, although the records, the      *)
(* fencing and the caps are spread over a dozen transactions.              *)
THEOREM Refinement == Spec => ImplementsAdmission
<1>1. Init => Slots!Init
  BY DEF Init, Slots!Init, NoLease, ActiveLeases, IsActive, ACTIVE
<1>2. ASSUME TypeInv, Valid, SlotInv, [Next]_vars
      PROVE Slots!Next \/ UNCHANGED <<ActiveLeases, Released>>
  <2>1. CASE UNCHANGED lease
    BY <2>1 DEF ActiveLeases, IsActive, Released
  <2>2. ASSUME NEW l \in Leases, LeaseStep(l)
        PROVE Slots!Next \/ UNCHANGED <<ActiveLeases, Released>>
    BY <1>2, <2>2, LeaseStepGivesBack, GivingBackRefines
  <2>3. ASSUME NEW r \in Runs, RunStep(r)
        PROVE Slots!Next \/ UNCHANGED <<ActiveLeases, Released>>
    BY <1>2, <2>3, RunStepGivesBack, GivingBackRefines
  <2>4. ASSUME NEW t \in Tasks, TaskStep(t)
        PROVE Slots!Next \/ UNCHANGED <<ActiveLeases, Released>>
    BY <1>2, <2>1, <2>4, AcquireRefines, OthersGiveBack DEF TaskStep
  <2> QED BY <1>2, <2>1, <2>2, <2>3, <2>4, OthersGiveBack DEF Next
<1> QED BY <1>1, <1>2, TypeInvHolds, ValidAlways, SlotInvHolds, PTL
        DEF Spec, ImplementsAdmission, Slots!Spec, Released

(***************************************************************************)
(* What the ledger says of work that is done: what is frozen or accepted   *)
(* is the result the last attempt produced, an accepted run has nothing    *)
(* going on, a requested cancellation stays, and what failed twice for one *)
(* cause is not repeated.                                                  *)
(*                                                                         *)
(* The strengthenings follow one task over its attempts: Work says which   *)
(* lease its result is from, Planned which specification it recorded, and  *)
(* Uncancelled that a new reservation starts without a cancellation.       *)
(***************************************************************************)
DELIVERED == {"produced", "awaiting_acceptance", "accepted"}

(* A task that shows a result is the one its present lease reported; only  *)
(* a released, uncancelled lease leads on to acceptance.                   *)
Work(t) ==
  /\ task[t].status # "blocked"
  /\ task[t].status \in DELIVERED =>
       /\ HasLease(t)
       /\ task[t].result.lease = task[t].generation /\ task[t].result.status = "produced"
       /\ lease[Current(t)].status = "released" => ~lease[Current(t)].cancel
       /\ lease[Current(t)].status # "released" => task[t].status = "produced"

WorkInv == \A t \in Tasks : Work(t)

(* A lease that was never reserved was never cancelled.                    *)
Uncancelled == \A l \in Leases : lease[l].status = "none" => ~lease[l].cancel

(* refreshRunStatus never accepts.                                         *)
LEMMA RefreshAcceptsNothing ==
  ASSUME NEW r, NEW tk, NEW ls PROVE RefreshedStatus(r, tk, ls) # "accepted"
  BY DEF RefreshedStatus

(* releaseInLedger shows a result only for the lease that reported it.     *)
LEMMA ReleaseBlocksNothing ==
  ASSUME NEW tk \in TaskType, NEW ls, NEW g
  PROVE  /\ StatusOnRelease(tk, ls, g) \notin {"blocked", "awaiting_acceptance", "accepted"}
         /\ StatusOnRelease(tk, ls, g) = "produced" =>
              ~ls.cancel /\ tk.result.lease = g /\ tk.result.status = "produced"
  BY DEF StatusOnRelease, TaskType, ResultType

(* The calls that name a lease, but for settling.                          *)
NamedCall(l) ==
  \/ ClaimLocalLaunch(l) \/ ClaimHostLaunch(l)
  \/ \E tracked \in BOOLEAN : BindProcess(l, tracked)
  \/ BindHost(l) \/ HeartbeatWaiting(l)
  \/ \E s \in {"produced", "failed"}, cause \in Causes \cup {NoCause} : ReportResult(l, s, cause)
  \/ MarkCancelPending(l) \/ ObserveLocalExit(l) \/ MarkLaunchFailed(l)
  \/ ReleaseLease(l) \/ CompleteHostTask(l)

(* Each needs an active lease, and changes it, its task and its run only.  *)
LEMMA NamedCallIsLocal ==
  ASSUME TypeInv, NEW l \in Leases, NamedCall(l)
  PROVE  /\ FencedActive(l)
         /\ \A k \in Leases \ {l} : lease'[k] = lease[k]
         /\ \A t \in Tasks \ {TaskOf(l)} : task'[t] = task[t]
         /\ run' = run \/ Refresh(RunOf[TaskOf(l)])
<1>1. TaskOf(l) \in Tasks /\ task \in [Tasks -> TaskType] /\ lease \in [Leases -> LeaseType]
  BY LeaseShape DEF TypeInv, TypeOK
<1>2. CASE ClaimLocalLaunch(l)
  BY <1>1, <1>2 DEF ClaimLocalLaunch, Claimable
<1>3. CASE ClaimHostLaunch(l)
  BY <1>1, <1>3 DEF ClaimHostLaunch, HostClaimable
<1>4. ASSUME NEW tracked \in BOOLEAN, BindProcess(l, tracked)
      PROVE  /\ FencedActive(l) /\ run' = run
             /\ \A k \in Leases \ {l} : lease'[k] = lease[k]
             /\ \A t \in Tasks \ {TaskOf(l)} : task'[t] = task[t]
  BY <1>1, <1>4 DEF BindProcess
<1>5. CASE BindHost(l)
  BY <1>1, <1>5 DEF BindHost
<1>6. CASE HeartbeatWaiting(l)
  BY <1>1, <1>6 DEF HeartbeatWaiting, SetStatus
<1>7. ASSUME NEW s, NEW cause, ReportResult(l, s, cause)
      PROVE  /\ FencedActive(l) /\ UNCHANGED <<lease, run>>
             /\ \A t \in Tasks \ {TaskOf(l)} : task'[t] = task[t]
  BY <1>1, <1>7 DEF ReportResult
<1>8. CASE MarkCancelPending(l)
  BY <1>1, <1>8 DEF MarkCancelPending
<1>9. CASE ObserveLocalExit(l)
  BY <1>1, <1>9 DEF ObserveLocalExit
<1>10. CASE MarkLaunchFailed(l)
  BY <1>1, <1>10 DEF MarkLaunchFailed
<1>11. CASE ReleaseLease(l)
  BY <1>1, <1>11 DEF ReleaseLease, Release
<1>12. CASE CompleteHostTask(l)
  BY <1>1, <1>12 DEF CompleteHostTask, Release
<1>13. QED
  BY <1>2, <1>3, <1>4, <1>5, <1>6, <1>7, <1>8, <1>9, <1>10, <1>11, <1>12 DEF NamedCall

(* What settleControlledHostChildren does: it ends active leases and       *)
(* cancels their tasks, and tasks still queued, of one run.                *)
LEMMA SettlingIsLocal ==
  ASSUME TypeInv, NEW c \in Leases, SettleControlledHostChildren(c)
  PROVE  /\ \A k \in Leases :
              \/ lease'[k] = lease[k]
              \/ /\ RunOf[TaskOf(k)] = RunOf[TaskOf(c)]
                 /\ lease'[k].status = "released" /\ lease'[k].cancel
                 /\ lease'[k].launch = lease[k].launch /\ task'[TaskOf(k)].status = "cancelled"
         /\ \A t \in Tasks : \/ task'[t] = task[t]
                             \/ RunOf[t] = RunOf[TaskOf(c)] /\ task'[t].status = "cancelled"
         /\ Refresh(RunOf[TaskOf(c)])
<1> DEFINE settled == {l \in ActiveLeases : lease[l].owner = "parent" /\ ParentLease(l) = c /\ Stopped(l)}
           queued == {t \in Tasks : ControllerOf[t] = TaskOf(c) /\ task[t].status = "queued"
                        /\ task[t].controllerLease = GenerationOf(c)}
           over == {t \in Tasks : t \in queued \/ \E l \in settled : TaskOf(l) = t}
<1>1. task \in [Tasks -> TaskType] /\ lease \in [Leases -> LeaseType]
  BY DEF TypeInv, TypeOK
<1>2. /\ lease' = [l \in Leases |-> IF l \in settled
                     THEN [lease[l] EXCEPT !.status = "released", !.cancel = TRUE] ELSE lease[l]]
      /\ task' = [t \in Tasks |-> IF t \in over THEN [task[t] EXCEPT !.status = "cancelled"] ELSE task[t]]
      /\ Refresh(RunOf[TaskOf(c)])
  BY DEF SettleControlledHostChildren
<1>3. \A l \in settled : /\ l \in Leases /\ TaskOf(l) \in over
                         /\ RunOf[TaskOf(l)] = RunOf[TaskOf(c)]
  <2>1. SUFFICES ASSUME NEW l \in settled
                 PROVE  l \in Leases /\ TaskOf(l) \in over /\ RunOf[TaskOf(l)] = RunOf[TaskOf(c)]
    OBVIOUS
  <2>2. l \in Leases /\ ControllerOf[TaskOf(l)] = TaskOf(c)
    BY DEF ActiveLeases, ParentLease, TaskOf
  <2>3. TaskOf(l) \in Tasks /\ TaskOf(c) \in Tasks
    BY <2>2, LeaseShape
  <2>4. RunOf[TaskOf(l)] = RunOf[TaskOf(c)]
    BY <2>2, <2>3, LedgerAssumption DEF LedgerAssumption
  <2>5. QED
    BY <2>2, <2>3, <2>4
<1>4. \A t \in over : RunOf[t] = RunOf[TaskOf(c)]
  <2>1. \A t \in queued : RunOf[t] = RunOf[TaskOf(c)]
    BY LeaseShape, LedgerAssumption DEF LedgerAssumption
  <2>2. QED
    BY <1>3, <2>1
<1> HIDE DEF settled, queued, over
<1>5. ASSUME NEW k \in Leases
      PROVE  \/ lease'[k] = lease[k]
             \/ /\ RunOf[TaskOf(k)] = RunOf[TaskOf(c)]
                /\ lease'[k].status = "released" /\ lease'[k].cancel
                /\ lease'[k].launch = lease[k].launch /\ task'[TaskOf(k)].status = "cancelled"
  <2>1. CASE k \in settled
    <3>1. TaskOf(k) \in Tasks
      BY LeaseShape
    <3>2. task'[TaskOf(k)].status = "cancelled"
      BY <1>1, <1>2, <1>3, <2>1, <3>1 DEF TaskType
    <3>3. /\ lease'[k].status = "released" /\ lease'[k].cancel
          /\ lease'[k].launch = lease[k].launch
      BY <1>1, <1>2, <2>1 DEF LeaseType
    <3>4. QED
      BY <1>3, <2>1, <3>2, <3>3
  <2>2. CASE k \notin settled
    BY <1>2, <2>2
  <2>3. QED
    BY <2>1, <2>2
<1>6. \A t \in Tasks : \/ task'[t] = task[t]
                       \/ RunOf[t] = RunOf[TaskOf(c)] /\ task'[t].status = "cancelled"
  BY <1>1, <1>2, <1>4 DEF TaskType
<1>7. QED
  BY <1>2, <1>5, <1>6

(* resumeRun releases or orphans current leases of one run, and gives      *)
(* their tasks the status that goes with it.                               *)
LEMMA ResumingIsLocal ==
  ASSUME TypeInv, NEW r \in Runs, ResumeRun(r)
  PROVE  /\ \A k \in Leases :
              \/ lease'[k] = lease[k]
              \/ /\ IsActive(k) /\ k = Current(TaskOf(k)) /\ RunOf[TaskOf(k)] = r
                 /\ lease'[k].status \in {"released", "orphaned"}
                 /\ lease'[k].cancel = lease[k].cancel /\ lease'[k].launch = lease[k].launch
         /\ \A t \in Tasks :
              \/ task'[t] = task[t] /\ (HasLease(t) => lease'[Current(t)] = lease[Current(t)])
              \/ /\ RunOf[t] = r /\ CurrentActive(t)
                 /\ \/ /\ task'[t].status = "orphaned"
                       /\ lease'[Current(t)].status = "orphaned"
                       /\ task'[t].generation = task[t].generation
                    \/ /\ task'[t].status
                            = StatusOnRelease(task[t], lease[Current(t)], task[t].generation)
                       /\ task'[t].result = task[t].result
                       /\ task'[t].generation = task[t].generation
                       /\ lease'[Current(t)].status = "released"
                       /\ lease'[Current(t)].cancel = lease[Current(t)].cancel
         /\ Refresh(r) \/ run' = run
         /\ ActiveIn(r) # {}
<1> DEFINE mine == {t \in Tasks : RunOf[t] = r /\ CurrentActive(t)}
           stopped == {t \in mine : Stopped(Current(t))}
           orphaned == {t \in mine \ stopped :
                          lease[Current(t)].owner = "none" \/ controller[Current(t)] = "dead"}
           final == [t \in Tasks |-> StatusOnRelease(task[t], lease[Current(t)], task[t].generation)]
<1>1. task \in [Tasks -> TaskType] /\ lease \in [Leases -> LeaseType]
  BY DEF TypeInv, TypeOK
<1>2. lease' = [l \in Leases |->
                  CASE TaskOf(l) \in stopped /\ l = Current(TaskOf(l))
                         -> [lease[l] EXCEPT !.status = "released"]
                    [] TaskOf(l) \in orphaned /\ l = Current(TaskOf(l))
                         -> [lease[l] EXCEPT !.status = "orphaned"]
                    [] OTHER -> lease[l]]
  BY DEF ResumeRun
<1>3. task' = [t \in Tasks |->
                 CASE t \in stopped -> [task[t] EXCEPT !.status = final[t]]
                   [] t \in orphaned -> [task[t] EXCEPT !.status = "orphaned"]
                   [] OTHER -> task[t]]
  BY DEF ResumeRun
<1>4. stopped \cup orphaned # {} /\ (Refresh(r) \/ run' = run)
  BY DEF ResumeRun
<1>5. \A t \in stopped \cup orphaned :
        /\ t \in Tasks /\ RunOf[t] = r /\ CurrentActive(t) /\ HasLease(t)
        /\ Current(t) \in Leases /\ TaskOf(Current(t)) = t /\ IsActive(Current(t))
  <2>1. \A t \in stopped \cup orphaned : t \in Tasks /\ RunOf[t] = r /\ CurrentActive(t)
    OBVIOUS
  <2>2. QED
    BY <2>1, CurrentIsLease DEF CurrentActive
<1>6. stopped \cap orphaned = {}
  OBVIOUS
<1> HIDE DEF mine, stopped, orphaned
<1>7. \A k \in Leases :
        \/ lease'[k] = lease[k]
        \/ /\ IsActive(k) /\ k = Current(TaskOf(k)) /\ RunOf[TaskOf(k)] = r
           /\ lease'[k].status \in {"released", "orphaned"}
           /\ lease'[k].cancel = lease[k].cancel /\ lease'[k].launch = lease[k].launch
  BY <1>1, <1>2, <1>5 DEF LeaseType
<1>8. ASSUME NEW t \in Tasks
      PROVE  \/ task'[t] = task[t] /\ (HasLease(t) => lease'[Current(t)] = lease[Current(t)])
             \/ /\ RunOf[t] = r /\ CurrentActive(t)
                /\ \/ /\ task'[t].status = "orphaned"
                      /\ lease'[Current(t)].status = "orphaned"
                      /\ task'[t].generation = task[t].generation
                   \/ /\ task'[t].status
                           = StatusOnRelease(task[t], lease[Current(t)], task[t].generation)
                      /\ task'[t].result = task[t].result
                      /\ task'[t].generation = task[t].generation
                      /\ lease'[Current(t)].status = "released"
                      /\ lease'[Current(t)].cancel = lease[Current(t)].cancel
  <2>1. CASE t \in stopped
    <3>1. /\ task'[t].status = final[t] /\ task'[t].result = task[t].result
          /\ task'[t].generation = task[t].generation
      <4> HIDE DEF final
      <4>1. QED
        BY <1>1, <1>3, <1>6, <2>1 DEF TaskType
    <3>2. /\ lease'[Current(t)].status = "released"
          /\ lease'[Current(t)].cancel = lease[Current(t)].cancel
      BY <1>1, <1>2, <1>5, <1>6, <2>1 DEF LeaseType
    <3>3. QED
      BY <1>5, <2>1, <3>1, <3>2
  <2>2. CASE t \in orphaned /\ t \notin stopped
    <3>1. task'[t].status = "orphaned" /\ task'[t].generation = task[t].generation
      BY <1>1, <1>3, <2>2 DEF TaskType
    <3>2. lease'[Current(t)].status = "orphaned"
      BY <1>1, <1>2, <1>5, <2>2 DEF LeaseType
    <3>3. QED
      BY <1>5, <2>2, <3>1, <3>2
  <2>3. CASE t \notin stopped \cup orphaned
    BY <1>2, <1>3, <2>3, CurrentIsLease
  <2>4. QED
    BY <2>1, <2>2, <2>3
<1>9. ActiveIn(r) # {}
  BY <1>4, <1>5 DEF ActiveIn, ActiveLeases
<1>10. QED
  BY <1>4, <1>7, <1>8, <1>9

(* acquireTask, granted, reserves a number that was never used.            *)
LEMMA AcquiringIsLocal ==
  ASSUME TypeInv, SlotInv, NEW t \in Tasks, NEW attempt, NEW owner, Acquire(t, attempt, owner)
  PROVE  /\ \A k \in Leases : \/ lease'[k] = lease[k]
                              \/ /\ TaskOf(k) = t /\ lease[k].status = "none"
                                 /\ lease'[k].status = "reserved"
                                 /\ lease'[k].launch = "permission_issued"
         /\ task'[t].status = "reserved" /\ \A x \in Tasks \ {t} : task'[x] = task[x]
         /\ run' = [run EXCEPT ![RunOf[t]].status = "running"]
<1> DEFINE g == task[t].generation + 1
           l == <<t, g>>
<1>1. task \in [Tasks -> TaskType] /\ lease \in [Leases -> LeaseType]
  BY DEF TypeInv, TypeOK
<1>2. l \in Leases /\ TaskOf(l) = t /\ GenerationOf(l) = g /\ g > task[t].generation
  BY <1>1, LedgerAssumption DEF Acquire, TaskType, Leases, Generations, TaskOf, GenerationOf
<1>3. lease[l].status = "none"
  BY <1>2 DEF SlotInv, Slot, Fresh
<1>4. /\ lease'[l].status = "reserved" /\ lease'[l].launch = "permission_issued"
      /\ \A k \in Leases \ {l} : lease'[k] = lease[k]
  BY <1>1, <1>2 DEF Acquire, NoLease
<1>5. task'[t].status = "reserved" /\ \A x \in Tasks \ {t} : task'[x] = task[x]
  BY <1>1 DEF Acquire, TaskType
<1>6. QED
  BY <1>2, <1>3, <1>4, <1>5 DEF Acquire

(* A task that a step leaves alone keeps its work.                         *)
LEMMA WorkStays ==
  ASSUME NEW t \in Tasks, Work(t),
         task'[t].status = task[t].status, task'[t].result = task[t].result,
         task'[t].generation = task[t].generation,
         HasLease(t) => /\ lease'[Current(t)].cancel = lease[Current(t)].cancel
                        /\ lease'[Current(t)].status = lease[Current(t)].status
  PROVE  Work(t)'
  BY DEF Work, HasLease, Current

(* A task that shows no result needs no work.                              *)
LEMMA NoWork ==
  ASSUME NEW t \in Tasks, task'[t].status \notin DELIVERED \cup {"blocked"}
  PROVE  Work(t)'
  BY DEF Work, DELIVERED

(* releaseInLedger shows a result only if this lease reported it and was   *)
(* not cancelled.                                                          *)
LEMMA WorkReleased ==
  ASSUME TypeInv, NEW t \in Tasks, HasLease(t),
         task'[t].status = StatusOnRelease(task[t], lease[Current(t)], task[t].generation),
         task'[t].result = task[t].result, task'[t].generation = task[t].generation,
         lease'[Current(t)].status = "released",
         lease'[Current(t)].cancel = lease[Current(t)].cancel
  PROVE  Work(t)'
<1>1. task[t] \in TaskType
  BY DEF TypeInv, TypeOK
<1>2. /\ task'[t].status \notin {"blocked", "awaiting_acceptance", "accepted"}
      /\ task'[t].status = "produced" =>
           /\ ~lease[Current(t)].cancel /\ task[t].result.lease = task[t].generation
           /\ task[t].result.status = "produced"
  BY <1>1, ReleaseBlocksNothing
<1>3. QED
  BY <1>2 DEF Work, DELIVERED, HasLease, Current

(* The calls that name a lease keep the work of every task.                *)
LEMMA NamedCallKeepsWork ==
  ASSUME TypeInv, WorkInv, NEW l \in Leases, NamedCall(l)
  PROVE  WorkInv'
<1> DEFINE t == TaskOf(l)
<1>1. /\ t \in Tasks /\ task \in [Tasks -> TaskType] /\ lease \in [Leases -> LeaseType]
      /\ Work(t)
  BY LeaseShape DEF TypeInv, TypeOK, WorkInv
<1>2. /\ FencedActive(l) /\ \A k \in Leases \ {l} : lease'[k] = lease[k]
      /\ \A x \in Tasks \ {t} : task'[x] = task[x]
  BY NamedCallIsLocal
<1>3. l = Current(t) /\ HasLease(t) /\ GenerationOf(l) = task[t].generation
  BY <1>2, FencedIsCurrent DEF FencedActive, Fenced
<1>4. \A x \in Tasks \ {t} : Work(x)'
  <2>1. SUFFICES ASSUME NEW x \in Tasks \ {t} PROVE Work(x)'
    OBVIOUS
  <2>2. HasLease(x) => lease'[Current(x)] = lease[Current(x)]
    BY <1>2, CurrentIsLease
  <2>3. QED
    BY <1>2, <2>2, WorkStays DEF WorkInv
<1>5. Work(t)'
  <2>1. CASE ClaimLocalLaunch(l)
    <3>1. task'[t].status = "launching"
      BY <1>1, <2>1 DEF ClaimLocalLaunch, TaskType
    <3>2. QED
      BY <1>1, <3>1, NoWork DEF DELIVERED
  <2>2. CASE ClaimHostLaunch(l)
    <3>1. task'[t].status = "launching"
      BY <1>1, <2>2 DEF ClaimHostLaunch, TaskType
    <3>2. QED
      BY <1>1, <3>1, NoWork DEF DELIVERED
  <2>3. ASSUME NEW tracked \in BOOLEAN, BindProcess(l, tracked) PROVE Work(t)'
    <3>1. task'[t].status \in {"cancel_pending", "running"}
      BY <1>1, <2>3 DEF BindProcess, TaskType
    <3>2. QED
      BY <1>1, <3>1, NoWork DEF DELIVERED
  <2>4. CASE BindHost(l)
    <3>1. task'[t].status \in {"cancel_pending", "running"}
      BY <1>1, <2>4 DEF BindHost, TaskType
    <3>2. QED
      BY <1>1, <3>1, NoWork DEF DELIVERED
  <2>5. CASE HeartbeatWaiting(l)
    <3>1. task'[t].status = "waiting_external"
      BY <1>1, <2>5 DEF HeartbeatWaiting, SetStatus, TaskType
    <3>2. QED
      BY <1>1, <3>1, NoWork DEF DELIVERED
  <2>6. ASSUME NEW s \in {"produced", "failed"}, NEW cause \in Causes \cup {NoCause},
               ReportResult(l, s, cause)
        PROVE  Work(t)'
    <3>1. /\ task'[t].status = s /\ task'[t].generation = task[t].generation
          /\ task'[t].result.status = s /\ task'[t].result.lease = task[t].generation
          /\ lease' = lease
      BY <1>1, <1>3, <2>6 DEF ReportResult, TaskType
    <3>2. lease[l].status # "released"
      BY <1>2 DEF FencedActive
    <3>3. QED
      BY <1>3, <3>1, <3>2 DEF Work, DELIVERED, HasLease, Current
  <2>7. CASE MarkCancelPending(l)
    <3>1. task'[t].status = "cancel_pending"
      BY <1>1, <2>7 DEF MarkCancelPending, TaskType
    <3>2. QED
      BY <1>1, <3>1, NoWork DEF DELIVERED
  <2>8. CASE ObserveLocalExit(l)
    <3>1. lease'[l].status = lease[l].status /\ lease'[l].cancel = lease[l].cancel /\ task' = task
      BY <1>1, <2>8 DEF ObserveLocalExit, LeaseType
    <3>2. QED
      BY <1>1, <1>3, <3>1, WorkStays
  <2>9. CASE MarkLaunchFailed(l)
    <3>1. task'[t].status \in {"cancelled", "failed"}
      BY <1>1, <2>9 DEF MarkLaunchFailed, StatusOnRelease, TaskType
    <3>2. QED
      BY <1>1, <3>1, NoWork DEF DELIVERED
  <2>10. CASE Release(l)
    <3>1. /\ task'[t].status = StatusOnRelease(task[t], lease[l], GenerationOf(l))
          /\ task'[t].result = task[t].result /\ task'[t].generation = task[t].generation
      BY <1>1, <2>10 DEF Release, TaskType
    <3>2. lease'[l].status = "released" /\ lease'[l].cancel = lease[l].cancel
      BY <1>1, <2>10 DEF Release, LeaseType
    <3>3. QED
      BY <1>1, <1>3, <3>1, <3>2, WorkReleased
  <2>11. QED
    BY <2>1, <2>2, <2>3, <2>4, <2>5, <2>6, <2>7, <2>8, <2>9, <2>10
       DEF NamedCall, ReleaseLease, CompleteHostTask
<1>6. QED
  BY <1>4, <1>5 DEF WorkInv

(* So does the settling of a controller's children ...                     *)
LEMMA SettlingKeepsWork ==
  ASSUME TypeInv, WorkInv, NEW c \in Leases, SettleControlledHostChildren(c)
  PROVE  WorkInv'
<1>1. SUFFICES ASSUME NEW t \in Tasks PROVE Work(t)'
  BY DEF WorkInv
<1>2. CASE task'[t].status = "cancelled"
  BY <1>2, NoWork DEF DELIVERED
<1>3. CASE task'[t].status # "cancelled"
  <2>1. task'[t] = task[t]
    BY <1>3, SettlingIsLocal
  <2>2. HasLease(t) => lease'[Current(t)] = lease[Current(t)]
    BY <1>3, SettlingIsLocal, CurrentIsLease
  <2>3. QED
    BY <2>1, <2>2, WorkStays DEF WorkInv
<1>4. QED
  BY <1>2, <1>3

(* ... and so do the calls that name a run: what they freeze or accept     *)
(* holds no lease any more.                                                *)
LEMMA RunStepKeepsWork ==
  ASSUME TypeInv, Valid, WorkInv, NEW r \in Runs, RunStep(r)
  PROVE  WorkInv'
<1>1. task \in [Tasks -> TaskType] /\ lease \in [Leases -> LeaseType]
  BY DEF TypeInv, TypeOK
<1>2. SUFFICES ASSUME NEW t \in Tasks PROVE Work(t)'
  BY DEF WorkInv
<1>3. Work(t)
  BY DEF WorkInv
<1>4. HasLease(t) /\ ~IsActive(Current(t)) => lease[Current(t)].status = "released"
  BY <1>1, CurrentIsLease DEF Valid, IsActive, LeaseType
<1>5. CASE ResumeRun(r)
  <2>1. CASE task'[t] = task[t] /\ (HasLease(t) => lease'[Current(t)] = lease[Current(t)])
    BY <1>3, <2>1, WorkStays
  <2>2. CASE task'[t].status = "orphaned"
    BY <2>2, NoWork DEF DELIVERED
  <2>3. CASE /\ CurrentActive(t)
             /\ task'[t].status = StatusOnRelease(task[t], lease[Current(t)], task[t].generation)
             /\ task'[t].result = task[t].result /\ task'[t].generation = task[t].generation
             /\ lease'[Current(t)].status = "released"
             /\ lease'[Current(t)].cancel = lease[Current(t)].cancel
    BY <2>3, WorkReleased DEF CurrentActive
  <2>4. QED
    BY <1>5, <2>1, <2>2, <2>3, ResumingIsLocal
<1>6. ASSUME NEW scope \in {"run", "task"}, NEW ts \in SUBSET Tasks, FreezeCandidate(r, scope, ts)
      PROVE  Work(t)'
  <2>1. /\ task'[t].result = task[t].result /\ task'[t].generation = task[t].generation
        /\ lease' = lease
        /\ t \notin ts => task'[t].status = task[t].status
    BY <1>1, <1>6 DEF FreezeCandidate, TaskType
  <2>2. CASE t \in ts
    <3>1. t \in AuthorsOf(r)
      BY <1>6, <2>2 DEF FreezeCandidate
    <3>2. task[t].status \in DELIVERED
      BY <1>3, <1>6, <2>2 DEF FreezeCandidate, Work, DELIVERED
    <3>3. HasLease(t)
      BY <1>3, <3>2 DEF Work
    <3>4. ~IsActive(Current(t))
      BY <1>6, <3>1, <3>3, CurrentIsLease DEF FreezeCandidate, AuthorsOf, ActiveIn,
          ActiveLeases
    <3>5. task'[t].status = "awaiting_acceptance"
      BY <1>1, <1>6, <2>2 DEF FreezeCandidate, TaskType
    <3>6. QED
      BY <1>3, <1>4, <2>1, <3>2, <3>3, <3>4, <3>5 DEF Work, HasLease, Current
  <2>3. CASE t \notin ts
    BY <1>3, <2>1, <2>3, WorkStays
  <2>4. QED
    BY <2>2, <2>3
<1>7. CASE BlockRun(r)
  BY <1>3, <1>7, WorkStays DEF BlockRun
<1>8. CASE AcceptCandidate(r)
  <2>1. /\ task'[t].result = task[t].result /\ task'[t].generation = task[t].generation
        /\ lease' = lease
        /\ t \notin AuthorsOf(r) => task'[t].status = task[t].status
    BY <1>1, <1>8 DEF AcceptCandidate, TaskType
  <2>2. CASE t \in AuthorsOf(r)
    <3>1. task[t].status \in DELIVERED /\ HasLease(t)
      BY <1>3, <1>8, <2>2 DEF AcceptCandidate, Acceptable, Work, DELIVERED
    <3>2. ~IsActive(Current(t))
      BY <1>8, <2>2, <3>1, CurrentIsLease
         DEF AcceptCandidate, Acceptable, AuthorsOf, ActiveIn, ActiveLeases
    <3>3. task'[t].status = "accepted"
      BY <1>1, <1>8, <2>2 DEF AcceptCandidate, TaskType
    <3>4. QED
      BY <1>3, <1>4, <2>1, <3>1, <3>2, <3>3 DEF Work, HasLease, Current
  <2>3. CASE t \notin AuthorsOf(r)
    BY <1>3, <2>1, <2>3, WorkStays
  <2>4. QED
    BY <2>2, <2>3
<1>9. QED
  BY <1>5, <1>6, <1>7, <1>8 DEF RunStep

(* A task that is added or reserved shows no result.                       *)
LEMMA TaskStepKeepsWork ==
  ASSUME TypeInv, SlotInv, WorkInv, NEW t \in Tasks, TaskStep(t)
  PROVE  WorkInv'
<1>1. task \in [Tasks -> TaskType] /\ lease \in [Leases -> LeaseType]
  BY DEF TypeInv, TypeOK
<1>2. SUFFICES ASSUME NEW x \in Tasks PROVE Work(x)'
  BY DEF WorkInv
<1>3. Work(x)
  BY DEF WorkInv
<1>4. CASE AddTask(t)
  <2>1. lease' = lease /\ task'[t].status = "queued" /\ (x # t => task'[x] = task[x])
    BY <1>1, <1>4 DEF AddTask, TaskType
  <2>2. CASE x = t
    BY <2>1, <2>2, NoWork DEF DELIVERED
  <2>3. CASE x # t
    BY <1>3, <2>1, <2>3, WorkStays
  <2>4. QED
    BY <2>2, <2>3
<1>5. ASSUME NEW attempt, NEW owner, Acquire(t, attempt, owner) PROVE Work(x)'
  <2>1. CASE x = t
    BY <1>5, <2>1, AcquiringIsLocal, NoWork DEF DELIVERED
  <2>2. CASE x # t
    <3>1. task'[x] = task[x] /\ (HasLease(x) => lease'[Current(x)] = lease[Current(x)])
      <4>1. \A k \in Leases : TaskOf(k) # t => lease'[k] = lease[k]
        BY <1>5, AcquiringIsLocal
      <4>2. task'[x] = task[x]
        BY <1>5, <2>2, AcquiringIsLocal
      <4>3. QED
        BY <2>2, <4>1, <4>2, CurrentIsLease
    <3>2. QED
      BY <1>3, <3>1, WorkStays
  <2>3. QED
    BY <2>1, <2>2
<1>6. ASSUME NEW spec \in Specs, RespecTask(t, spec) PROVE Work(x)'
  <2>1. /\ lease' = lease /\ task'[x].status = task[x].status
        /\ task'[x].result = task[x].result /\ task'[x].generation = task[x].generation
    BY <1>1, <1>6 DEF RespecTask, TaskType
  <2>2. QED
    BY <1>3, <2>1, WorkStays
<1>7. QED
  BY <1>4, <1>5, <1>6 DEF TaskStep

(* The environment, and a refused acquisition, write no records.           *)
LEMMA WorldIsElsewhere ==
  ASSUME EnvironmentStep \/ AcquireRefused \/ UNCHANGED vars
  PROVE  UNCHANGED <<task, lease, run>>
  BY DEF EnvironmentStep, AcquireRefused, Spawn, BackendExit, GroupExit, AgentStart,
      AgentReturn,
     ControllerDies, ChangeSetting, ledgerVars, vars

(* Every step keeps the work.                                              *)
LEMMA WorkInductive ==
  ASSUME TypeInv, Valid, SlotInv, WorkInv, [Next]_vars
  PROVE  WorkInv'
<1>1. CASE UNCHANGED <<task, lease, run>>
  BY <1>1 DEF WorkInv, Work, HasLease, Current
<1>2. ASSUME NEW l \in Leases, LeaseStep(l) PROVE WorkInv'
  BY <1>2, NamedCallKeepsWork, SettlingKeepsWork DEF LeaseStep, NamedCall
<1>3. QED
  BY <1>1, <1>2, RunStepKeepsWork, TaskStepKeepsWork, WorldIsElsewhere DEF Next

(* What is frozen or accepted is what the last attempt produced: no retry, *)
(* late report, release or cancellation of another attempt can put the     *)
(* result of a task without resources in the place of it.                  *)
THEOREM WorkIsDelivered == Spec => []DeliveredWork
<1>1. Init => WorkInv
  BY DEF Init, NewTask, WorkInv, Work, DELIVERED
<1>2. TypeInv /\ WorkInv => DeliveredWork
  <2>1. SUFFICES ASSUME TypeInv, WorkInv, NEW t \in Tasks,
                        task[t].status \in {"awaiting_acceptance", "accepted"}
                 PROVE  /\ HasLease(t)
                        /\ lease[Current(t)].status = "released" /\ ~lease[Current(t)].cancel
                        /\ task[t].result.lease = task[t].generation
                        /\ task[t].result.status = "produced"
    BY DEF DeliveredWork
  <2>2. QED
    BY <2>1 DEF WorkInv, Work, DELIVERED
<1>3. QED
  BY <1>1, <1>2, WorkInductive, TypeInvHolds, ValidAlways, SlotInvHolds, PTL DEF Spec
-----------------------------------------------------------------------------
(* AcceptedRunIsDone, run by run.                                          *)
Done(r) ==
  run[r].status = "accepted" =>
    /\ run[r].candidate # "none" /\ ActiveIn(r) = {}
    /\ \A t \in Tasks : RunOf[t] = r /\ Author(t) => task[t].status \in {"absent", "accepted"}

(* A run that a step leaves alone stays done.                              *)
LEMMA DoneStays ==
  ASSUME NEW r \in Runs, Done(r), run'[r] = run[r],
         \A l \in Leases : RunOf[TaskOf(l)] = r => lease'[l] = lease[l],
         \A t \in Tasks : RunOf[t] = r => task'[t].status = task[t].status
  PROVE  Done(r)'
<1>1. (ActiveIn(r))' = ActiveIn(r)
  BY DEF ActiveIn, ActiveLeases, IsActive
<1>2. QED
  BY <1>1 DEF Done, Author

(* Nor does a run have to be done that is not accepted.                    *)
LEMMA NotAccepted ==
  ASSUME NEW r \in Runs, run'[r].status # "accepted" PROVE Done(r)'
  BY DEF Done

(* refreshRunStatus is about one run, and does not accept it.              *)
LEMMA RefreshIsLocal ==
  ASSUME TypeInv, NEW r \in Runs, Refresh(r)
  PROVE  run'[r].status # "accepted" /\ \A q \in Runs \ {r} : run'[q] = run[q]
<1>1. run \in [Runs -> RunType]
  BY DEF TypeInv, TypeOK
<1>2. RefreshedStatus(r, task', lease') # "accepted"
  BY RefreshAcceptsNothing
<1>3. QED
  BY <1>1, <1>2 DEF Refresh, RunType

(* A call that names a lease needs an active one in its run, or refreshes. *)
LEMMA LeaseStepKeepsDone ==
  ASSUME TypeInv, AcceptedRunIsDone, NEW l \in Leases, LeaseStep(l), NEW r \in Runs
  PROVE  Done(r)'
<1>1. TaskOf(l) \in Tasks /\ RunOf[TaskOf(l)] \in Runs /\ Done(r)
  BY LeaseShape, LedgerAssumption DEF AcceptedRunIsDone, Done
<1>2. CASE SettleControlledHostChildren(l)
  <2>1. CASE r = RunOf[TaskOf(l)]
    BY <1>1, <1>2, <2>1, SettlingIsLocal, RefreshIsLocal, NotAccepted
  <2>2. CASE r # RunOf[TaskOf(l)]
    <3>1. run'[r] = run[r]
      BY <1>1, <1>2, <2>2, SettlingIsLocal, RefreshIsLocal
    <3>2. /\ \A k \in Leases : RunOf[TaskOf(k)] = r => lease'[k] = lease[k]
          /\ \A t \in Tasks : RunOf[t] = r => task'[t].status = task[t].status
      BY <1>2, <2>2, SettlingIsLocal
    <3>3. QED
      BY <1>1, <3>1, <3>2, DoneStays
  <2>3. QED
    BY <2>1, <2>2
<1>3. CASE NamedCall(l)
  <2>1. CASE r = RunOf[TaskOf(l)]
    <3>1. IsActive(l)
      BY <1>3, NamedCallIsLocal, FencedActiveIsActive
    <3>2. run[r].status # "accepted"
      BY <1>1, <2>1, <3>1 DEF Done, ActiveIn, ActiveLeases
    <3>3. run'[r].status # "accepted"
      BY <1>3, <2>1, <3>2, NamedCallIsLocal, RefreshIsLocal
    <3>4. QED
      BY <3>3, NotAccepted
  <2>2. CASE r # RunOf[TaskOf(l)]
    <3>1. run'[r] = run[r]
      BY <1>1, <1>3, <2>2, NamedCallIsLocal, RefreshIsLocal
    <3>2. /\ \A k \in Leases : RunOf[TaskOf(k)] = r => lease'[k] = lease[k]
          /\ \A t \in Tasks : RunOf[t] = r => task'[t].status = task[t].status
      BY <1>3, <2>2, NamedCallIsLocal
    <3>3. QED
      BY <1>1, <3>1, <3>2, DoneStays
  <2>3. QED
    BY <2>1, <2>2
<1>4. QED
  BY <1>2, <1>3 DEF LeaseStep, NamedCall

(* A task that is added or reserved takes the acceptance away.             *)
LEMMA TaskStepKeepsDone ==
  ASSUME TypeInv, SlotInv, AcceptedRunIsDone, NEW t \in Tasks, TaskStep(t), NEW r \in Runs
  PROVE  Done(r)'
<1>1. /\ RunOf[t] \in Runs /\ Done(r)
      /\ task \in [Tasks -> TaskType] /\ run \in [Runs -> RunType]
  BY LedgerAssumption DEF AcceptedRunIsDone, Done, TypeInv, TypeOK
<1>2. CASE AddTask(t)
  <2>1. /\ lease' = lease /\ \A x \in Tasks \ {t} : task'[x] = task[x]
        /\ run'[RunOf[t]].status \in {"running", "queued"}
        /\ \A q \in Runs \ {RunOf[t]} : run'[q] = run[q]
    BY <1>1, <1>2 DEF AddTask, RunType
  <2>2. CASE r = RunOf[t]
    BY <2>1, <2>2, NotAccepted
  <2>3. CASE r # RunOf[t]
    BY <1>1, <2>1, <2>3, DoneStays
  <2>4. QED
    BY <2>2, <2>3
<1>3. ASSUME NEW attempt, NEW owner, Acquire(t, attempt, owner) PROVE Done(r)'
  <2>1. /\ \A k \in Leases : TaskOf(k) # t => lease'[k] = lease[k]
        /\ \A x \in Tasks \ {t} : task'[x] = task[x]
        /\ run' = [run EXCEPT ![RunOf[t]].status = "running"]
    BY <1>3, AcquiringIsLocal
  <2>2. /\ run'[RunOf[t]].status = "running"
        /\ \A q \in Runs \ {RunOf[t]} : run'[q] = run[q]
    BY <1>1, <2>1 DEF RunType
  <2>3. CASE r = RunOf[t]
    BY <2>2, <2>3, NotAccepted
  <2>4. CASE r # RunOf[t]
    BY <1>1, <2>1, <2>2, <2>4, DoneStays
  <2>5. QED
    BY <2>3, <2>4
<1>4. ASSUME NEW spec \in Specs, RespecTask(t, spec) PROVE Done(r)'
  <2>1. /\ lease' = lease /\ run' = run
        /\ \A x \in Tasks : task'[x].status = task[x].status
    BY <1>1, <1>4 DEF RespecTask, TaskType
  <2>2. QED
    BY <1>1, <2>1, DoneStays
<1>5. QED
  BY <1>2, <1>3, <1>4 DEF TaskStep

(* Of the calls that name a run, one accepts it, and only if it is done.   *)
LEMMA RunStepKeepsDone ==
  ASSUME TypeInv, AcceptedRunIsDone, NEW q \in Runs, RunStep(q), NEW r \in Runs
  PROVE  Done(r)'
<1>1. Done(r) /\ task \in [Tasks -> TaskType] /\ run \in [Runs -> RunType]
  BY DEF AcceptedRunIsDone, Done, TypeInv, TypeOK
<1>2. CASE ResumeRun(q)
  <2>1. CASE r = q
    <3>1. run[r].status # "accepted"
      BY <1>1, <1>2, <2>1, ResumingIsLocal DEF Done
    <3>2. QED
      BY <1>2, <2>1, <3>1, ResumingIsLocal, RefreshIsLocal, NotAccepted
  <2>2. CASE r # q
    <3>1. run'[r] = run[r]
      BY <1>2, <2>2, ResumingIsLocal, RefreshIsLocal
    <3>2. /\ \A k \in Leases : RunOf[TaskOf(k)] = r => lease'[k] = lease[k]
          /\ \A t \in Tasks : RunOf[t] = r => task'[t].status = task[t].status
      BY <1>2, <2>2, ResumingIsLocal
    <3>3. QED
      BY <1>1, <3>1, <3>2, DoneStays
  <2>3. QED
    BY <2>1, <2>2
<1>3. ASSUME NEW scope \in {"run", "task"}, NEW ts \in SUBSET Tasks, FreezeCandidate(q, scope, ts)
      PROVE  Done(r)'
  <2>1. CASE r = q
    <3>1. run'[r].status = "awaiting_acceptance"
      BY <1>1, <1>3, <2>1 DEF FreezeCandidate
    <3>2. QED
      BY <3>1, NotAccepted
  <2>2. CASE r # q
    <3>1. \A t \in ts : RunOf[t] = q
      BY <1>3 DEF FreezeCandidate, AuthorsOf
    <3>2. /\ run'[r] = run[r] /\ lease' = lease
          /\ \A t \in Tasks : RunOf[t] = r => task'[t] = task[t]
      BY <1>1, <1>3, <2>2, <3>1 DEF FreezeCandidate
    <3>3. QED
      BY <1>1, <3>2, DoneStays
  <2>3. QED
    BY <2>1, <2>2
<1>4. CASE BlockRun(q)
  <2>1. CASE r = q
    <3>1. run'[r].status = "blocked"
      BY <1>1, <1>4, <2>1 DEF BlockRun, RunType
    <3>2. QED
      BY <3>1, NotAccepted
  <2>2. CASE r # q
    <3>1. run'[r] = run[r] /\ lease' = lease /\ task' = task
      BY <1>1, <1>4, <2>2 DEF BlockRun
    <3>2. QED
      BY <1>1, <3>1, DoneStays
  <2>3. QED
    BY <2>1, <2>2
<1>5. CASE AcceptCandidate(q)
  <2>1. CASE r = q
    <3>1. run'[r].candidate # "none"
      BY <1>1, <1>5, <2>1 DEF AcceptCandidate, Acceptable, RunType
    <3>2. (ActiveIn(r))' = {}
      BY <1>5, <2>1 DEF AcceptCandidate, Acceptable, ActiveIn, ActiveLeases, IsActive
    <3>3. \A t \in Tasks : RunOf[t] = r /\ Author(t) => task'[t].status \in {"absent", "accepted"}
      BY <1>1, <1>5, <2>1 DEF AcceptCandidate, AuthorsOf, TaskType
    <3>4. QED
      BY <3>1, <3>2, <3>3 DEF Done, Author
  <2>2. CASE r # q
    <3>1. /\ run'[r] = run[r] /\ lease' = lease
          /\ \A t \in Tasks : RunOf[t] = r => task'[t] = task[t]
      BY <1>1, <1>5, <2>2 DEF AcceptCandidate, AuthorsOf
    <3>2. QED
      BY <1>1, <3>1, DoneStays
  <2>3. QED
    BY <2>1, <2>2
<1>6. QED
  BY <1>2, <1>3, <1>4, <1>5 DEF RunStep

(* Every step keeps what an accepted run promises.                         *)
LEMMA DoneInductive ==
  ASSUME TypeInv, SlotInv, AcceptedRunIsDone, [Next]_vars
  PROVE  AcceptedRunIsDone'
<1>1. SUFFICES ASSUME NEW r \in Runs PROVE Done(r)'
  BY DEF AcceptedRunIsDone, Done
<1>2. CASE UNCHANGED <<task, lease, run>>
  <2>1. Done(r)
    BY DEF AcceptedRunIsDone, Done
  <2>2. QED
    BY <1>2, <2>1, DoneStays
<1>3. QED
  BY <1>2, LeaseStepKeepsDone, TaskStepKeepsDone, RunStepKeepsDone, WorldIsElsewhere
    DEF Next

(* A run that shows as accepted has nothing going on and nothing left to   *)
(* accept: adding, reserving, resuming or settling takes the status away.  *)
THEOREM AcceptedIsDone == Spec => []AcceptedRunIsDone
<1>1. Init => AcceptedRunIsDone
  BY DEF Init, AcceptedRunIsDone
<1>2. QED
  BY <1>1, DoneInductive, TypeInvHolds, SlotInvHolds, PTL DEF Spec
-----------------------------------------------------------------------------
(* What a step may do to a cancelled lease.                                *)
CancelStays(l) ==
  \/ lease'[l] = lease[l]
  \/ /\ lease'[l].status # "none"
     /\ lease[l].cancel =>
          /\ lease'[l].cancel
          /\ lease'[l].launch # lease[l].launch =>
               lease'[l].launch \notin {"launching", "host_launch_claimed"}

(* No call that names a lease withdraws a cancellation.                    *)
LEMMA NamedCallKeepsCancel ==
  ASSUME TypeInv, NEW l \in Leases, NamedCall(l)
  PROVE  \A k \in Leases : CancelStays(k)
<1>1. lease \in [Leases -> LeaseType]
  BY DEF TypeInv, TypeOK
<1>2. /\ FencedActive(l) /\ \A k \in Leases \ {l} : lease'[k] = lease[k]
  BY NamedCallIsLocal
<1>3. lease[l].status # "none"
  BY <1>2 DEF FencedActive, Fenced
<1>4. CancelStays(l)
  <2>1. CASE ClaimLocalLaunch(l)
    BY <1>1, <2>1 DEF ClaimLocalLaunch, Claimable, CancelStays, LeaseType
  <2>2. CASE ClaimHostLaunch(l)
    BY <1>1, <2>2 DEF ClaimHostLaunch, HostClaimable, CancelStays, LeaseType
  <2>3. ASSUME NEW tracked \in BOOLEAN, BindProcess(l, tracked) PROVE CancelStays(l)
    BY <1>1, <2>3 DEF BindProcess, CancelStays, LeaseType
  <2>4. CASE BindHost(l)
    BY <1>1, <2>4 DEF BindHost, CancelStays, LeaseType
  <2>5. CASE HeartbeatWaiting(l)
    BY <1>1, <2>5 DEF HeartbeatWaiting, SetStatus, CancelStays, LeaseType
  <2>6. ASSUME NEW s, NEW cause, ReportResult(l, s, cause) PROVE CancelStays(l)
    BY <2>6 DEF ReportResult, CancelStays
  <2>7. CASE MarkCancelPending(l)
    BY <1>1, <2>7 DEF MarkCancelPending, CancelStays, LeaseType
  <2>8. CASE ObserveLocalExit(l)
    BY <1>1, <1>3, <2>8 DEF ObserveLocalExit, CancelStays, LeaseType
  <2>9. CASE MarkLaunchFailed(l)
    BY <1>1, <2>9 DEF MarkLaunchFailed, CancelStays, LeaseType
  <2>10. CASE Release(l)
    BY <1>1, <2>10 DEF Release, CancelStays, LeaseType
  <2>11. QED
    BY <2>1, <2>2, <2>3, <2>4, <2>5, <2>6, <2>7, <2>8, <2>9, <2>10
       DEF NamedCall, ReleaseLease, CompleteHostTask
<1>5. QED
  BY <1>2, <1>4 DEF CancelStays

(* Nor does any other step: a new reservation is a lease never cancelled.  *)
LEMMA StepKeepsCancel ==
  ASSUME TypeInv, SlotInv, Uncancelled, [Next]_vars
  PROVE  \A k \in Leases : CancelStays(k)
<1>1. CASE UNCHANGED lease
  BY <1>1 DEF CancelStays
<1>2. ASSUME NEW l \in Leases, LeaseStep(l) PROVE \A k \in Leases : CancelStays(k)
  <2>1. CASE NamedCall(l)
    BY <2>1, NamedCallKeepsCancel
  <2>2. CASE SettleControlledHostChildren(l)
    BY <2>2, SettlingIsLocal DEF CancelStays
  <2>3. QED
    BY <1>2, <2>1, <2>2 DEF LeaseStep, NamedCall
<1>3. ASSUME NEW t \in Tasks, TaskStep(t) PROVE \A k \in Leases : CancelStays(k)
  <2>1. ASSUME NEW attempt, NEW owner, Acquire(t, attempt, owner)
        PROVE  \A k \in Leases : CancelStays(k)
    BY <2>1, AcquiringIsLocal DEF CancelStays, Uncancelled
  <2>2. QED
    BY <1>1, <1>3, <2>1 DEF TaskStep, AddTask, RespecTask
<1>4. ASSUME NEW r \in Runs, RunStep(r) PROVE \A k \in Leases : CancelStays(k)
  <2>1. CASE ResumeRun(r)
    BY <2>1, ResumingIsLocal DEF CancelStays
  <2>2. QED
    BY <1>1, <1>4, <2>1 DEF RunStep, FreezeCandidate, BlockRun, AcceptCandidate
<1>5. QED
  BY <1>1, <1>2, <1>3, <1>4, WorldIsElsewhere DEF Next

(* Whoever binds, reports, claims or resumes too late: a cancellation that *)
(* was requested stays requested, and no launch is claimed under it.       *)
THEOREM CancellationStays == Spec => CancelIsKept
<1>1. Init => Uncancelled
  BY DEF Init, NoLease, Uncancelled
<1>2. ASSUME TypeInv, SlotInv, Uncancelled, [Next]_vars
      PROVE  Uncancelled'
  BY <1>2, StepKeepsCancel DEF CancelStays, Uncancelled
<1>3. ASSUME TypeInv, SlotInv, Uncancelled, [Next]_vars
      PROVE  \A l \in Leases : lease[l].cancel =>
               /\ lease'[l].cancel
               /\ lease'[l].launch # lease[l].launch =>
                    lease'[l].launch \notin {"launching", "host_launch_claimed"}
  BY <1>3, StepKeepsCancel DEF CancelStays
<1>4. QED
  BY <1>1, <1>2, <1>3, TypeInvHolds, SlotInvHolds, PTL DEF Spec, CancelIsKept
-----------------------------------------------------------------------------
(* The specification recorded with the previous attempt is the one that    *)
(* the present attempt runs: it is not changed in between, as only a task  *)
(* that never ran is reserved without starting a new attempt.              *)
Planned(t) ==
  /\ task[t].status \in ACTIVE => CurrentActive(t)
  /\ task[t].status \in {"absent", "queued"} => task[t].last.status = "none"
  /\ task[t].last.status # "none" => task[t].last.spec = task[t].ran

PlanInv == \A t \in Tasks : Planned(t)

(* What all steps but acquireTask keep of a task.                          *)
PlanKept(t) ==
  /\ task'[t].last = task[t].last /\ task'[t].ran = task[t].ran
  /\ task'[t].attempt = task[t].attempt /\ task'[t].generation = task[t].generation

(* Such a step keeps the plan if the task ends its attempt, or stays or    *)
(* becomes active together with its lease.                                 *)
LEMMA PlanStays ==
  ASSUME NEW t \in Tasks, Planned(t), PlanKept(t),
         \/ task'[t].status \in TERMINAL_TASK
         \/ HasLease(t) /\ task'[t].status \in ACTIVE /\ lease'[Current(t)].status \in ACTIVE
         \/ /\ task'[t].status = task[t].status
            /\ HasLease(t) => lease'[Current(t)].status = lease[Current(t)].status
  PROVE  Planned(t)'
<1>1. (HasLease(t))' = HasLease(t) /\ (Current(t))' = Current(t)
  BY DEF HasLease, Current, PlanKept
<1>2. TERMINAL_TASK \cap (ACTIVE \cup {"absent", "queued"}) = {}
  BY DEF TERMINAL_TASK, ACTIVE
<1>3. task'[t].last.status # "none" => task'[t].last.spec = task'[t].ran
  BY DEF Planned, PlanKept
<1>4. task'[t].status \in {"absent", "queued"} => task'[t].last.status = "none"
  BY <1>2 DEF Planned, PlanKept, ACTIVE
<1>5. task'[t].status \in ACTIVE => (CurrentActive(t))'
  BY <1>1, <1>2 DEF Planned, CurrentActive, IsActive
<1>6. QED
  BY <1>3, <1>4, <1>5 DEF Planned

(* The calls that name a lease.                                            *)
LEMMA LeaseStepKeepsPlan ==
  ASSUME TypeInv, PlanInv, NEW l \in Leases, LeaseStep(l)
  PROVE  PlanInv' /\ \A t \in Tasks : PlanKept(t)
<1> DEFINE t == TaskOf(l)
<1>1. /\ t \in Tasks /\ task \in [Tasks -> TaskType] /\ lease \in [Leases -> LeaseType]
      /\ GenerationOf(l) # 0
  BY LeaseShape DEF TypeInv, TypeOK
<1>2. ASSUME NamedCall(l),
             PlanKept(t),
             \/ task'[t].status \in TERMINAL_TASK
             \/ task'[t].status \in ACTIVE /\ lease'[l].status \in ACTIVE
             \/ task'[t].status = task[t].status /\ lease'[l].status = lease[l].status
      PROVE  PlanInv' /\ \A x \in Tasks : PlanKept(x)
  <2>1. /\ FencedActive(l) /\ \A k \in Leases \ {l} : lease'[k] = lease[k]
        /\ \A x \in Tasks \ {t} : task'[x] = task[x]
    BY <1>2, NamedCallIsLocal
  <2>2. l = Current(t) /\ HasLease(t)
    BY <2>1, FencedIsCurrent DEF FencedActive
  <2>3. Planned(t)'
    BY <1>1, <1>2, <2>2, PlanStays DEF PlanInv
  <2>4. \A x \in Tasks \ {t} : PlanKept(x)
    BY <2>1 DEF PlanKept
  <2>5. \A x \in Tasks \ {t} : HasLease(x) => lease'[Current(x)] = lease[Current(x)]
    BY <2>1, CurrentIsLease
  <2>6. \A x \in Tasks \ {t} : Planned(x)'
    BY <2>1, <2>4, <2>5, PlanStays DEF PlanInv
  <2>7. QED
    BY <1>2, <2>3, <2>4, <2>6 DEF PlanInv
<1>3. CASE ClaimLocalLaunch(l)
  <2>1. /\ PlanKept(t) /\ task'[t].status = "launching" /\ lease'[l].status = "launching"
    BY <1>1, <1>3 DEF ClaimLocalLaunch, PlanKept, TaskType, LeaseType
  <2>2. QED
    BY <1>2, <1>3, <2>1 DEF NamedCall, ACTIVE
<1>4. CASE ClaimHostLaunch(l)
  <2>1. /\ PlanKept(t) /\ task'[t].status = "launching" /\ lease'[l].status = "launching"
    BY <1>1, <1>4 DEF ClaimHostLaunch, PlanKept, TaskType, LeaseType
  <2>2. QED
    BY <1>2, <1>4, <2>1 DEF NamedCall, ACTIVE
<1>5. ASSUME NEW tracked \in BOOLEAN, BindProcess(l, tracked)
      PROVE  PlanInv' /\ \A x \in Tasks : PlanKept(x)
  <2>1. /\ PlanKept(t) /\ task'[t].status \in {"cancel_pending", "running"}
        /\ lease'[l].status \in {"cancel_pending", "running"}
    BY <1>1, <1>5 DEF BindProcess, PlanKept, TaskType, LeaseType
  <2>2. QED
    BY <1>2, <1>5, <2>1 DEF NamedCall, ACTIVE
<1>6. CASE BindHost(l)
  <2>1. /\ PlanKept(t) /\ task'[t].status \in {"cancel_pending", "running"}
        /\ lease'[l].status \in {"cancel_pending", "running"}
    BY <1>1, <1>6 DEF BindHost, PlanKept, TaskType, LeaseType
  <2>2. QED
    BY <1>2, <1>6, <2>1 DEF NamedCall, ACTIVE
<1>7. CASE HeartbeatWaiting(l)
  <2>1. /\ PlanKept(t) /\ task'[t].status = "waiting_external"
        /\ lease'[l].status = "waiting_external"
    BY <1>1, <1>7 DEF HeartbeatWaiting, SetStatus, PlanKept, TaskType, LeaseType
  <2>2. QED
    BY <1>2, <1>7, <2>1 DEF NamedCall, ACTIVE
<1>8. ASSUME NEW s \in {"produced", "failed"}, NEW cause \in Causes \cup {NoCause},
             ReportResult(l, s, cause)
      PROVE  PlanInv' /\ \A x \in Tasks : PlanKept(x)
  <2>1. PlanKept(t) /\ task'[t].status = s
    BY <1>1, <1>8 DEF ReportResult, PlanKept, TaskType
  <2>2. QED
    BY <1>2, <1>8, <2>1 DEF NamedCall, TERMINAL_TASK
<1>9. CASE MarkCancelPending(l)
  <2>1. /\ PlanKept(t) /\ task'[t].status = "cancel_pending" /\ lease'[l].status = "cancel_pending"
    BY <1>1, <1>9 DEF MarkCancelPending, PlanKept, TaskType, LeaseType
  <2>2. QED
    BY <1>2, <1>9, <2>1 DEF NamedCall, ACTIVE
<1>10. CASE ObserveLocalExit(l)
  <2>1. PlanKept(t) /\ task' = task /\ lease'[l].status = lease[l].status
    BY <1>1, <1>10 DEF ObserveLocalExit, PlanKept, LeaseType
  <2>2. QED
    BY <1>2, <1>10, <2>1 DEF NamedCall
<1>11. CASE MarkLaunchFailed(l)
  <2>1. PlanKept(t) /\ task'[t].status \in {"cancelled", "failed"}
    BY <1>1, <1>11 DEF MarkLaunchFailed, StatusOnRelease, PlanKept, TaskType
  <2>2. QED
    BY <1>2, <1>11, <2>1 DEF NamedCall, TERMINAL_TASK
<1>12. CASE ReleaseLease(l) \/ CompleteHostTask(l)
  <2>1. Release(l)
    BY <1>12 DEF ReleaseLease, CompleteHostTask
  <2>2. PlanKept(t) /\ task'[t].status = StatusOnRelease(task[t], lease[l], GenerationOf(l))
    BY <1>1, <2>1 DEF Release, PlanKept, TaskType
  <2>3. task[t].result.lease = GenerationOf(l) => task[t].result.status \in {"produced", "failed"}
    BY <1>1 DEF TypeInv, ResultsAreReported, TaskType, ResultType
  <2>4. task'[t].status \in TERMINAL_TASK
    BY <2>2, <2>3 DEF StatusOnRelease, TERMINAL_TASK
  <2>5. QED
    BY <1>2, <1>12, <2>2, <2>4 DEF NamedCall
<1>13. CASE SettleControlledHostChildren(l)
  <2>1. \A x \in Tasks : PlanKept(x)
    BY <1>1, <1>13 DEF SettleControlledHostChildren, PlanKept, TaskType
  <2>2. ASSUME NEW x \in Tasks PROVE Planned(x)'
    <3>1. CASE task'[x].status = "cancelled"
      BY <2>1, <3>1, PlanStays DEF PlanInv, TERMINAL_TASK
    <3>2. CASE task'[x].status # "cancelled"
      <4>1. task'[x] = task[x]
        BY <1>13, <3>2, SettlingIsLocal
      <4>2. HasLease(x) => lease'[Current(x)] = lease[Current(x)]
        BY <1>13, <3>2, SettlingIsLocal, CurrentIsLease
      <4>3. QED
        BY <2>1, <4>1, <4>2, PlanStays DEF PlanInv
    <3>3. QED
      BY <3>1, <3>2
  <2>3. QED
    BY <2>1, <2>2 DEF PlanInv
<1>14. QED
  BY <1>3, <1>4, <1>5, <1>6, <1>7, <1>8, <1>9, <1>10, <1>11, <1>12, <1>13 DEF LeaseStep

(* The calls that name a run.                                              *)
LEMMA RunStepKeepsPlan ==
  ASSUME TypeInv, PlanInv, NEW r \in Runs, RunStep(r)
  PROVE  PlanInv' /\ \A t \in Tasks : PlanKept(t)
<1>1. task \in [Tasks -> TaskType]
  BY DEF TypeInv, TypeOK
<1>2. CASE ResumeRun(r)
  <2>1. \A t \in Tasks : PlanKept(t)
    BY <1>1, <1>2 DEF ResumeRun, PlanKept, TaskType
  <2>2. ASSUME NEW t \in Tasks PROVE Planned(t)'
    <3>1. Planned(t) /\ PlanKept(t)
      BY <2>1 DEF PlanInv
    <3>2. CASE task'[t] = task[t] /\ (HasLease(t) => lease'[Current(t)] = lease[Current(t)])
      BY <3>1, <3>2, PlanStays
    <3>3. CASE /\ CurrentActive(t) /\ task'[t].status = "orphaned"
               /\ lease'[Current(t)].status = "orphaned"
      BY <3>1, <3>3, PlanStays DEF CurrentActive, ACTIVE
    <3>4. CASE /\ CurrentActive(t)
               /\ task'[t].status = StatusOnRelease(task[t], lease[Current(t)], task[t].generation)
      <4>1. task[t].generation \in Nat /\ task[t].generation # 0
        BY <1>1, <3>4 DEF CurrentActive, HasLease, TaskType
      <4>2. task[t].result.lease = task[t].generation
              => task[t].result.status \in {"produced", "failed"}
        BY <1>1, <4>1 DEF TypeInv, ResultsAreReported, TaskType, ResultType
      <4>3. task'[t].status \in TERMINAL_TASK
        BY <3>4, <4>2 DEF StatusOnRelease, TERMINAL_TASK
      <4>4. QED
        BY <3>1, <4>3, PlanStays
    <3>5. QED
      BY <1>2, <3>2, <3>3, <3>4, ResumingIsLocal
  <2>3. QED
    BY <2>1, <2>2 DEF PlanInv
<1>3. ASSUME NEW scope \in {"run", "task"}, NEW ts \in SUBSET Tasks, FreezeCandidate(r, scope, ts)
      PROVE  PlanInv' /\ \A t \in Tasks : PlanKept(t)
  <2>1. \A t \in Tasks : PlanKept(t)
    BY <1>1, <1>3 DEF FreezeCandidate, PlanKept, TaskType
  <2>2. /\ lease' = lease
        /\ \A t \in Tasks : task'[t].status \in {task[t].status, "awaiting_acceptance"}
    BY <1>1, <1>3 DEF FreezeCandidate, TaskType
  <2>3. \A t \in Tasks : Planned(t)'
    BY <2>1, <2>2, PlanStays DEF PlanInv, TERMINAL_TASK
  <2>4. QED
    BY <2>1, <2>3 DEF PlanInv
<1>4. CASE BlockRun(r)
  <2>1. lease' = lease /\ \A t \in Tasks : PlanKept(t) /\ task'[t] = task[t]
    BY <1>4 DEF BlockRun, PlanKept
  <2>2. QED
    BY <2>1, PlanStays DEF PlanInv
<1>5. CASE AcceptCandidate(r)
  <2>1. \A t \in Tasks : PlanKept(t)
    BY <1>1, <1>5 DEF AcceptCandidate, PlanKept, TaskType
  <2>2. lease' = lease /\ \A t \in Tasks : task'[t].status \in {task[t].status, "accepted"}
    BY <1>1, <1>5 DEF AcceptCandidate, TaskType
  <2>3. \A t \in Tasks : Planned(t)'
    BY <2>1, <2>2, PlanStays DEF PlanInv, TERMINAL_TASK
  <2>4. QED
    BY <2>1, <2>3 DEF PlanInv
<1>6. QED
  BY <1>2, <1>3, <1>4, <1>5 DEF RunStep

(* acquireTask: the next attempt runs the recorded specification, which    *)
(* the replan rule compares with that of the attempt before.               *)
LEMMA AcquireReplans ==
  ASSUME TypeInv, PlanInv, NEW t \in Tasks, NEW attempt, NEW owner, Acquire(t, attempt, owner)
  PROVE  /\ Planned(t)'
         /\ task'[t].ran = task[t].spec
         /\ task'[t].attempt > task[t].attempt => ~ReplanRequired(t, attempt) /\ attempt > task[t].attempt
<1> DEFINE g == task[t].generation + 1
           l == <<t, g>>
<1>1. /\ task \in [Tasks -> TaskType] /\ lease \in [Leases -> LeaseType]
      /\ task[t].generation \in 0..MaxGeneration /\ task[t].attempt \in Nat
  BY DEF TypeInv, TypeOK, TaskType
<1>2. l \in Leases /\ g > 0
  BY <1>1, LedgerAssumption DEF Acquire, Leases, Generations
<1>3. /\ task'[t].status = "reserved" /\ task'[t].attempt = attempt /\ task'[t].generation = g
      /\ task'[t].ran = task[t].spec
      /\ attempt = task[t].attempt => task'[t].last = task[t].last
      /\ attempt # task[t].attempt => task'[t].last.spec = task[t].spec
  BY <1>1 DEF Acquire, TaskType
<1>4. lease'[l].status = "reserved"
  BY <1>1, <1>2 DEF Acquire, NoLease
<1>5. (CurrentActive(t))'
  BY <1>2, <1>3, <1>4 DEF CurrentActive, HasLease, Current, IsActive, ACTIVE
<1>6. task'[t].last.status # "none" => task'[t].last.spec = task'[t].ran
  <2>1. CASE attempt # task[t].attempt
    BY <1>3, <2>1
  <2>2. CASE attempt = task[t].attempt
    <3>1. /\ task[t].status \notin TERMINAL_TASK /\ ~CurrentActive(t)
          /\ task[t].status # "absent" /\ task[t].status \in Status
      BY <1>1, <2>2 DEF Acquire, Reservable, TaskType
    <3>2. task[t].status = "queued"
      BY <3>1 DEF PlanInv, Planned, Status
    <3>3. QED
      BY <1>3, <2>2, <3>2 DEF PlanInv, Planned
  <2>3. QED
    BY <2>1, <2>2
<1>7. Planned(t)'
  BY <1>3, <1>5, <1>6 DEF Planned
<1>8. task'[t].attempt > task[t].attempt => ~ReplanRequired(t, attempt) /\ attempt > task[t].attempt
  BY <1>3 DEF Acquire
<1>9. QED
  BY <1>3, <1>7, <1>8

(* Every step keeps the plans, and does not repeat what failed twice.      *)
LEMMA PlanInductive ==
  ASSUME TypeInv, SlotInv, PlanInv, [Next]_vars
  PROVE  /\ PlanInv'
         /\ \A t \in Tasks :
              /\ task'[t].attempt > task[t].attempt
              /\ task[t].last.status = "failed" /\ task[t].status = "failed"
              /\ task[t].result.cause # NoCause /\ task[t].result.cause = task[t].last.cause
              => task'[t].ran # task[t].ran
<1> DEFINE Replanned(t) ==
             /\ task'[t].attempt > task[t].attempt
             /\ task[t].last.status = "failed" /\ task[t].status = "failed"
             /\ task[t].result.cause # NoCause /\ task[t].result.cause = task[t].last.cause
             => task'[t].ran # task[t].ran
<1>1. task \in [Tasks -> TaskType] /\ \A t \in Tasks : task[t].attempt \in Nat
  BY DEF TypeInv, TypeOK, TaskType
<1>2. \A t \in Tasks : PlanKept(t) => Replanned(t)
  BY <1>1 DEF PlanKept
<1>3. CASE UNCHANGED <<task, lease, run>>
  <2>1. lease' = lease /\ \A t \in Tasks : PlanKept(t) /\ task'[t] = task[t]
    BY <1>3 DEF PlanKept
  <2>2. PlanInv'
    BY <2>1, PlanStays DEF PlanInv
  <2>3. QED
    BY <1>2, <2>1, <2>2
<1>4. ASSUME NEW t \in Tasks, TaskStep(t) PROVE PlanInv' /\ \A x \in Tasks : Replanned(x)
  <2>1. CASE AddTask(t)
    <3>1. /\ lease' = lease /\ \A x \in Tasks : PlanKept(x)
          /\ \A x \in Tasks \ {t} : task'[x] = task[x]
          /\ task[t].status = "absent" /\ task'[t].status = "queued"
      BY <1>1, <2>1 DEF AddTask, PlanKept, TaskType
    <3>2. \A x \in Tasks \ {t} : Planned(x)'
      BY <3>1, PlanStays DEF PlanInv
    <3>3. Planned(t)'
      BY <3>1 DEF PlanInv, Planned, PlanKept, ACTIVE
    <3>4. QED
      BY <1>2, <3>1, <3>2, <3>3 DEF PlanInv
  <2>2. ASSUME NEW attempt, NEW owner, Acquire(t, attempt, owner)
        PROVE  PlanInv' /\ \A x \in Tasks : Replanned(x)
    <3>1. /\ \A k \in Leases : TaskOf(k) # t => lease'[k] = lease[k]
          /\ \A x \in Tasks \ {t} : task'[x] = task[x]
      BY <2>2, AcquiringIsLocal
    <3>2. /\ \A x \in Tasks \ {t} : PlanKept(x)
          /\ \A x \in Tasks \ {t} : HasLease(x) => lease'[Current(x)] = lease[Current(x)]
      BY <3>1, CurrentIsLease DEF PlanKept
    <3>3. \A x \in Tasks \ {t} : Planned(x)'
      BY <3>1, <3>2, PlanStays DEF PlanInv
    <3>4. /\ Planned(t)' /\ task'[t].ran = task[t].spec
          /\ task'[t].attempt > task[t].attempt =>
               ~ReplanRequired(t, attempt) /\ attempt > task[t].attempt
      BY <2>2, AcquireReplans
    <3>5. Replanned(t)
      BY <3>4 DEF PlanInv, Planned, ReplanRequired
    <3>6. QED
      BY <1>2, <3>2, <3>3, <3>4, <3>5 DEF PlanInv
  <2>3. ASSUME NEW spec \in Specs, RespecTask(t, spec)
        PROVE  PlanInv' /\ \A x \in Tasks : Replanned(x)
    <3>1. lease' = lease /\ \A x \in Tasks : PlanKept(x) /\ task'[x].status = task[x].status
      BY <1>1, <2>3 DEF RespecTask, PlanKept, TaskType
    <3>2. PlanInv'
      BY <3>1, PlanStays DEF PlanInv
    <3>3. QED
      BY <1>2, <3>1, <3>2
  <2>4. QED
    BY <1>4, <2>1, <2>2, <2>3 DEF TaskStep
<1>5. QED
  BY <1>2, <1>3, <1>4, LeaseStepKeepsPlan, RunStepKeepsPlan, WorldIsElsewhere DEF Next

(* REPLAN_REQUIRED works although specifications change between attempts:  *)
(* two failures of one cause are not followed by a third attempt at the    *)
(* specification that the second one ran.                                  *)
THEOREM ReplanIsEnforced == Spec => ReplanEnforced
<1>1. Init => PlanInv
  BY DEF Init, NewTask, NoAttempt, PlanInv, Planned, ACTIVE
<1>2. QED
  BY <1>1, PlanInductive, TypeInvHolds, SlotInvHolds, PTL DEF Spec, ReplanEnforced

(***************************************************************************)
(* The supervisor of src/local-runtime.js implements the protocol of the   *)
(* ledger, for any supervisors, cancelling commands, tasks and runs: every *)
(* step that dispatchLocal and cancelLocal take, with the stale copies     *)
(* they hold, is a transaction of src/runtime.js, a step of the processes  *)
(* it tracks, or none at all.  What the ledger guarantees therefore holds  *)
(* under them, and with it what a supervisor may rely on.                  *)
(*                                                                         *)
(* The strengthening says where each call stands (LocalTypes), that only   *)
(* local tasks ever get a lease (OnlyLocalLeases), that a lease is held by *)
(* one dispatch (HeldOnce), and what the position of a dispatch says of    *)
(* the lease it holds (Grip).                                              *)
(***************************************************************************)
Positions == {"idle", "claim", "spawn", "bind", "watch", "unbound", "settle", "report",
              "release", "ended", "dead"}

(* A lease that the local adapter may own.                                 *)
LocalLeases == {l \in Leases : Adapter[TaskOf(l)] = "local"}

LocalTypes ==
  /\ pc \in [Dispatchers -> Positions]
  /\ held \in [Dispatchers -> LocalLeases \cup {NoLeaseHeld}]
  /\ cpc \in [Cancellers -> {"idle", "mark", "signal", "release", "over"}]
  /\ target \in [Cancellers -> LocalLeases \cup {NoLeaseHeld}]
  /\ snapshot \in [Cancellers -> {"none", "unbound", "witnessed", "bound"}]
  /\ \A d \in Dispatchers : pc[d] # "idle" => held[d] \in LocalLeases
  /\ \A c \in Cancellers : cpc[c] \in {"mark", "signal", "release"} => target[c] \in LocalLeases

OnlyLocalLeases == \A t \in Tasks : HasLease(t) => Adapter[t] = "local"

LocalInv == LocalTypes /\ OnlyLocalLeases

HeldOnce ==
  \A d, e \in Dispatchers : pc[d] # "idle" /\ pc[e] # "idle" /\ held[d] = held[e] => d = e

Undecided == {"claim", "spawn", "bind"}
Supervising == Positions \ {"idle", "ended", "dead"}

(* What dispatch d knows of lease l from where it stands.                  *)
Knows(d, l) ==
  /\ lease[l].status # "none"
  /\ pc[d] \in Supervising => controller[l] = "alive"
  /\ pc[d] \in Undecided => IsActive(l) /\ lease[l].owner = "none"
  /\ pc[d] = "claim" => lease[l].launch = "permission_issued"
  /\ pc[d] = "spawn" => lease[l].launch = "launching" /\ permits[l] > 0 /\ backend[l] = "none"
  /\ pc[d] = "bind" => lease[l].launch = "launching"
  /\ pc[d] \in {"bind", "watch", "unbound"} => backend[l] # "none"
  /\ pc[d] \in {"settle", "report", "release"} => backend[l] \in {"group", "down"}

Grip == \A d \in Dispatchers : pc[d] # "idle" => Knows(d, held[d])

SupervisionInv == HeldOnce /\ Grip

(* Until its child is bound, nobody takes the lease from a supervisor that *)
(* lives; and until the lease is released, the close event of the child is *)
(* accepted as the receipt of its exit (observeLocalExit).                 *)
SupervisorKeepsItsLease ==
  \A d \in Dispatchers :
    /\ pc[d] \in Undecided => FencedActive(held[d]) /\ lease[held[d]].owner = "none"
    /\ pc[d] \in {"watch", "unbound"} /\ lease[held[d]].status # "released" =>
         FencedActive(held[d]) /\ controller[held[d]] = "alive"
-----------------------------------------------------------------------------
(* No lease of a local task lends its process to a host agent.             *)
LEMMA LocalHostsNobody ==
  ASSUME NEW l \in LocalLeases
  PROVE  HostedBy(l) = {}
BY LedgerAssumption DEF HostedBy, LocalLeases, Leases, TaskOf

LEMMA LocalLeaseIsLease ==
  ASSUME NEW l \in LocalLeases
  PROVE  l \in Leases /\ TaskOf(l) \in Tasks /\ Adapter[TaskOf(l)] = "local"
BY LeaseShape DEF LocalLeases

LEMMA NoLeaseIsNone == NoLeaseHeld \notin LocalLeases
BY LocalAssumption DEF LocalLeases

(* Every call starts at its beginning.                                     *)
LEMMA LocalInitially == LocalInit => LocalInv /\ SupervisionInv
BY DEF LocalInit, Init, NewTask, LocalInv, LocalTypes, OnlyLocalLeases, HasLease, Positions,
   SupervisionInv, HeldOnce, Grip

(* A step of the ledger other than a reservation.                          *)
NoReservation ==
  \/ UNCHANGED vars
  \/ \E l \in Leases : LeaseStep(l)
  \/ \E t \in Tasks : AddTask(t)
  \/ \E r \in Runs : RunStep(r)
  \/ EnvironmentStep

(* signalKnownBackend: a leader that is stopped exits, and so do the last  *)
(* members of a group.                                                     *)
LEMMA SignalIsAnExit ==
  ASSUME TypeInv, LocalInv, NEW c \in Cancellers, Signal(c)
  PROVE  NoReservation
<1> DEFINE l == target[c]
<1>1. l \in LocalLeases /\ l \in Leases /\ Adapter[TaskOf(l)] # "host" /\ HostedBy(l) = {}
  BY LocalHostsNobody, LocalLeaseIsLease DEF Signal, LocalInv, LocalTypes
<1>2. CASE UNCHANGED backend
  BY <1>2 DEF Signal, vars, ledgerVars, NoReservation
<1>3. CASE backend[l] = "up" /\ backend' = [backend EXCEPT ![l] = "down"]
  <2>1. backend' = [k \in Leases |-> CASE k = l -> "down"
                                        [] k \in HostedBy(l) /\ backend[k] = "up" -> "down"
                                        [] OTHER -> backend[k]]
    BY <1>1, <1>3 DEF TypeInv, TypeOK
  <2>2. permits' = [k \in Leases |-> IF k \in HostedBy(l) THEN 0 ELSE permits[k]]
    BY <1>1 DEF Signal, TypeInv, TypeOK
  <2>3. BackendExit(l)
    BY <1>1, <1>3, <2>1, <2>2 DEF BackendExit, Signal
  <2>4. QED
    BY <1>1, <2>3 DEF NoReservation, EnvironmentStep
<1>4. CASE backend[l] = "group" /\ backend' = [backend EXCEPT ![l] = "down"]
  <2>1. GroupExit(l)
    BY <1>4 DEF GroupExit, Signal
  <2>2. QED
    BY <1>1, <2>1 DEF NoReservation, EnvironmentStep
<1>5. QED
  BY <1>2, <1>3, <1>4 DEF Signal

(* A step that a dispatch takes is one of the ledger, or none.             *)
LEMMA DispatchIsLedgerStep ==
  ASSUME LocalInv, NEW d \in Dispatchers, DispatchStep(d) \/ Die(d), ~Reserve(d)
  PROVE  NoReservation
<1>1. pc[d] # "idle" /\ held[d] \in Leases
  BY LocalLeaseIsLease DEF DispatchStep, Die, LocalInv, LocalTypes, Claim, LaunchFails, Launch,
     Bind, BindFails, StartCancel, Close, Settle, Report, ReleaseSlot, FinalizationFails
<1>2. CASE BindFails(d) \/ StartCancel(d) \/ Settle(d) \/ FinalizationFails(d)
  BY <1>2 DEF BindFails, StartCancel, Settle, FinalizationFails, NoReservation
<1>3. CASE Claim(d)
  BY <1>1, <1>3 DEF Claim, NoReservation, LeaseStep
<1>4. CASE LaunchFails(d)
  BY <1>1, <1>4 DEF LaunchFails, NoReservation, LeaseStep
<1>5. CASE Launch(d) \/ Die(d)
  BY <1>1, <1>5 DEF Launch, Die, NoReservation, EnvironmentStep
<1>6. CASE Bind(d)
  BY <1>1, <1>6 DEF Bind, NoReservation, LeaseStep
<1>7. CASE Close(d)
  BY <1>1, <1>7 DEF Close, NoReservation, LeaseStep
<1>8. CASE Report(d)
  BY <1>1, <1>8 DEF Report, NoReservation, LeaseStep
<1>9. CASE ReleaseSlot(d)
  BY <1>1, <1>9 DEF ReleaseSlot, NoReservation, LeaseStep
<1>10. QED
  BY <1>2, <1>3, <1>4, <1>5, <1>6, <1>7, <1>8, <1>9 DEF DispatchStep

(* A supervisor reserves as the process it is.                             *)
LEMMA ReserveIsAcquire ==
  ASSUME NEW d \in Dispatchers, Reserve(d)
  PROVE  [Next]_vars
BY DEF Reserve, Next, TaskStep

(* Every other step of the local runtime is one of the ledger, or none.    *)
LEMMA OthersReserveNothing ==
  ASSUME TypeInv, LocalInv, [LocalNext]_allVars, ~ \E d \in Dispatchers : Reserve(d)
  PROVE  NoReservation
<1>1. CASE UNCHANGED allVars
  BY <1>1 DEF allVars, vars, NoReservation
<1>2. ASSUME NEW c \in Commands, NEW t \in Tasks, AskToCancel(c, t) PROVE NoReservation
  BY <1>2 DEF AskToCancel, NoReservation
<1>3. ASSUME NEW c \in Cancellers, CancelStep(c) PROVE NoReservation
  <2>1. CASE Mark(c) \/ CancelFails(c) \/ ReleaseCancelled(c)
    <3>1. cpc[c] \in {"mark", "signal", "release"}
      BY <2>1 DEF Mark, CancelFails, ReleaseCancelled
    <3>2. target[c] \in Leases
      BY <3>1, LocalLeaseIsLease DEF LocalInv, LocalTypes
    <3>3. QED
      BY <2>1, <3>2 DEF Mark, CancelFails, ReleaseCancelled, NoReservation, LeaseStep
  <2>2. QED
    BY <1>3, <2>1, SignalIsAnExit DEF CancelStep
<1>4. CASE OtherStep
  BY <1>4 DEF OtherStep, NoReservation, RunStep, EnvironmentStep
<1>5. QED
  BY <1>1, <1>2, <1>3, <1>4, DispatchIsLedgerStep DEF LocalNext

LEMMA LocalIsLedgerStep ==
  ASSUME TypeInv, LocalInv, [LocalNext]_allVars
  PROVE  [Next]_vars
<1>1. NoReservation => [Next]_vars
  BY DEF NoReservation, Next, TaskStep
<1>2. QED
  BY <1>1, ReserveIsAcquire, OthersReserveNothing
-----------------------------------------------------------------------------
(* acquireTask on behalf of a supervisor numbers a local task.             *)
LEMMA ReserveNumbers ==
  ASSUME TypeInv, LocalInv, NEW d \in Dispatchers, Reserve(d)
  PROVE  LocalTypes' /\ OnlyLocalLeases'
<1>1. PICK t \in Tasks :
        /\ Adapter[t] = "local"
        /\ \E attempt \in {task[t].attempt, task[t].attempt + 1} : Acquire(t, attempt, "alive")
        /\ held' = [held EXCEPT ![d] = <<t, task[t].generation + 1>>]
  BY DEF Reserve
<1>2. /\ task[t].generation \in Nat /\ task[t].generation < MaxGeneration
      /\ \A u \in Tasks : u # t => task'[u] = task[u]
  BY <1>1 DEF Acquire, TypeInv, TypeOK, TaskType
<1>3. <<t, task[t].generation + 1>> \in LocalLeases
  BY <1>1, <1>2, LedgerAssumption DEF LocalLeases, Leases, Generations, TaskOf
<1>4. OnlyLocalLeases'
  BY <1>1, <1>2 DEF OnlyLocalLeases, LocalInv, HasLease
<1>5. LocalTypes'
  BY <1>1, <1>3 DEF LocalTypes, LocalInv, Reserve, Goto, NoCancelStep, Positions
<1>6. QED
  BY <1>4, <1>5

(* The calls stay where a call can stand.                                  *)
LEMMA LocalTypesKept ==
  ASSUME TypeInv, LocalInv, [LocalNext]_allVars,
         ~ \E d \in Dispatchers : Reserve(d)
  PROVE  LocalTypes'
<1> USE DEF LocalInv, LocalTypes, Positions, Cancellers
<1>1. CASE UNCHANGED local
  BY <1>1 DEF local
<1>2. ASSUME NEW c \in Commands, NEW t \in Tasks, AskToCancel(c, t) PROVE LocalTypes'
  <2>1. Current(t) \in LocalLeases
    BY <1>2, CurrentIsLease DEF AskToCancel, OnlyLocalLeases, LocalLeases
  <2>2. QED
    BY <1>2, <2>1 DEF AskToCancel, CGoto, NoDispatchStep
<1>3. ASSUME NEW c \in Cancellers, CancelStep(c) PROVE LocalTypes'
  <2>1. CASE Mark(c)
    BY <2>1 DEF Mark, CancelEnds, CGoto, NoDispatchStep
  <2>2. CASE CancelFails(c) \/ ReleaseCancelled(c)
    BY <2>2 DEF CancelFails, ReleaseCancelled, CancelEnds, CGoto, NoDispatchStep
  <2>3. CASE Signal(c)
    BY <2>3 DEF Signal, CGoto, NoDispatchStep
  <2>4. QED
    BY <1>3, <2>1, <2>2, <2>3 DEF CancelStep
<1>4. ASSUME NEW d \in Dispatchers, DispatchStep(d) \/ Die(d) PROVE LocalTypes'
  <2>1. CASE Claim(d) \/ LaunchFails(d) \/ Launch(d) \/ Bind(d)
    BY <2>1 DEF Claim, LaunchFails, Launch, Bind, Goto, NoCancelStep
  <2>2. CASE BindFails(d)
    BY <2>2 DEF BindFails, Goto, CGoto
  <2>3. CASE StartCancel(d)
    BY <2>3 DEF StartCancel, CGoto
  <2>4. CASE Close(d) \/ Settle(d)
    BY <2>4 DEF Close, Settle, Goto, NoCancelStep
  <2>5. CASE Report(d) \/ ReleaseSlot(d) \/ FinalizationFails(d)
    BY <2>5 DEF Report, ReleaseSlot, FinalizationFails, Goto, NoCancelStep
  <2>6. CASE Die(d)
    BY <2>6 DEF Die, CancelEnds, CGoto, Goto
  <2>7. QED
    BY <1>4, <2>1, <2>2, <2>3, <2>4, <2>5, <2>6 DEF DispatchStep
<1>5. QED
  BY <1>1, <1>2, <1>3, <1>4 DEF LocalNext, OtherStep, allVars

(* The invariant of the calls is inductive.                                *)
LEMMA LocalInvKept ==
  ASSUME TypeInv, LocalInv, [LocalNext]_allVars
  PROVE  LocalInv'
<1>1. CASE \E d \in Dispatchers : Reserve(d)
  BY <1>1, ReserveNumbers DEF LocalInv
<1>2. CASE ~ \E d \in Dispatchers : Reserve(d)
  <2>1. \A t \in Tasks : task'[t].generation = task[t].generation
    <3>1. ASSUME NEW t \in Tasks, AddTask(t)
          PROVE  \A u \in Tasks : task'[u].generation = task[u].generation
      BY <3>1 DEF AddTask, TypeInv, TypeOK, TaskType
    <3>2. QED
      BY <1>2, <3>1, OthersReserveNothing, LeaseStepReservesNothing, RunStepReservesNothing,
         EnvironmentReservesNothing DEF NoReservation, ReservesNothing
  <2>2. OnlyLocalLeases'
    BY <2>1 DEF LocalInv, OnlyLocalLeases, HasLease
  <2>3. QED
    BY <1>2, <2>2, LocalTypesKept DEF LocalInv
<1>3. QED
  BY <1>1, <1>2

(* The refinement: the supervisor of local-runtime.js and the cancellations*)
(* of cancelLocal, in their program order, with the copies of the lease    *)
(* they hold across awaits and with calls that fail as a whole, only do    *)
(* what the protocol of the ledger allows.                                 *)
THEOREM LocalRefinesLedger == LocalSpec => ImplementsLedger
<1>1. LocalInit => TypeInv /\ LocalInv /\ Init
  BY LocalInitially, TypeInit DEF LocalInit
<1>2. TypeInv /\ LocalInv /\ [LocalNext]_allVars => TypeInv' /\ LocalInv' /\ [Next]_vars
  BY LocalIsLedgerStep, LocalInvKept, TypeInvInductive
<1>3. QED
  BY <1>1, <1>2, PTL DEF LocalSpec, ImplementsLedger, Spec

(* What the transactions of runtime.js guarantee holds under the local     *)
(* supervisor: backends keep their slots, a reservation starts at most one *)
(* of them, and what is delivered was produced by the last attempt.        *)
THEOREM LocalKeepsTheLedgerSafe ==
  LocalSpec => [](TypeOK /\ Valid /\ BackendsHoldSlots /\ OneStart /\ DeliveredWork)
BY LocalRefinesLedger, TypeCorrect, ValidAlways, SlotsHeld, StartedOnce, WorkIsDelivered, PTL
   DEF ImplementsLedger
-----------------------------------------------------------------------------
(* What a step leaves to the dispatch that holds lease l: a slot with no   *)
(* owner and no verdict on its launch is not given back, and a backend     *)
(* neither appears nor comes back to life.                                 *)
KeptFor(l) ==
  /\ lease[l].status # "none" => lease'[l].status # "none"
  /\ lease'[l].launch = lease[l].launch /\ lease'[l].owner = lease[l].owner
  /\ permits'[l] = permits[l] /\ controller'[l] = controller[l]
  /\ backend'[l] = "none" <=> backend[l] = "none"
  /\ backend[l] \in {"group", "down"} => backend'[l] \in {"group", "down"}
  /\ IsActive(l) /\ lease[l].owner = "none" /\ lease[l].launch # "confirmed_not_started"
       => lease'[l].status \in ACTIVE

LEMMA KnowsKept ==
  ASSUME NEW d \in Dispatchers, NEW l \in Leases, pc'[d] = pc[d], Knows(d, l), KeptFor(l)
  PROVE  Knows(d, l)'
BY DEF Knows, KeptFor, IsActive, Undecided, Supervising

(* The parts of the world that a dispatch does not hold stay as they are.  *)
LEMMA OtherLeasesKept ==
  ASSUME TypeInv, NEW e \in Dispatchers, DispatchStep(e) \/ Die(e), ~Reserve(e),
         held[e] \in Leases, NEW l \in Leases, l # held[e]
  PROVE  KeptFor(l)
<1>1. /\ lease'[l] = lease[l] /\ permits'[l] = permits[l] /\ controller'[l] = controller[l]
      /\ backend'[l] = backend[l]
  <2> USE DEF TypeInv, TypeOK, vars, environment, ledgerVars
  <2>1. CASE Claim(e) \/ LaunchFails(e)
    BY <2>1 DEF Claim, ClaimLocalLaunch, LaunchFails, MarkLaunchFailed
  <2>2. CASE Launch(e) \/ Bind(e)
    BY <2>2 DEF Launch, Spawn, Bind, BindProcess
  <2>3. CASE BindFails(e) \/ StartCancel(e) \/ Settle(e) \/ FinalizationFails(e)
    BY <2>3 DEF BindFails, StartCancel, Settle, FinalizationFails
  <2>4. CASE Close(e) \/ Report(e)
    BY <2>4 DEF Close, ObserveLocalExit, Report, ReportResult
  <2>5. CASE ReleaseSlot(e)
    BY <2>5 DEF ReleaseSlot, ReleaseLease, Release
  <2>6. CASE Die(e)
    BY <2>6 DEF Die, ControllerDies
  <2>7. QED
    BY <2>1, <2>2, <2>3, <2>4, <2>5, <2>6 DEF DispatchStep
<1>2. QED
  BY <1>1 DEF KeptFor, IsActive

(* A slot is given back on a proof of its stop, which a lease without an   *)
(* owner has only if its launch is known to have failed.                   *)
LEMMA UnownedIsNotStopped ==
  ASSUME NEW l \in Leases, lease[l].owner = "none", Stopped(l)
  PROVE  lease[l].launch = "confirmed_not_started"
BY DEF Stopped

(* A cancellation takes no slot away before the child is bound either.     *)
LEMMA CancellingKeeps ==
  ASSUME TypeInv, LocalInv, NEW c \in Cancellers, CancelStep(c), NEW l \in Leases
  PROVE  KeptFor(l)
<1> USE DEF TypeInv, TypeOK
<1>1. CASE Mark(c)
  <2>1. CASE UNCHANGED vars
    BY <2>1 DEF vars, KeptFor, IsActive
  <2>2. CASE MarkCancelPending(target[c])
    BY <2>2 DEF MarkCancelPending, KeptFor, IsActive, environment, ACTIVE
  <2>3. QED
    BY <1>1, <2>1, <2>2 DEF Mark
<1>2. CASE CancelFails(c)
  BY <1>2 DEF CancelFails, vars, KeptFor, IsActive
<1>3. CASE Signal(c)
  BY <1>3 DEF Signal, ledgerVars, KeptFor, IsActive
<1>4. CASE ReleaseCancelled(c)
  <2>1. CASE UNCHANGED vars
    BY <2>1 DEF vars, KeptFor, IsActive
  <2>2. CASE ReleaseLease(target[c])
    BY <2>2, UnownedIsNotStopped DEF ReleaseLease, Release, KeptFor, IsActive, environment
  <2>3. QED
    BY <1>4, <2>1, <2>2 DEF ReleaseCancelled
<1>5. QED
  BY <1>1, <1>2, <1>3, <1>4 DEF CancelStep

(* Nor do a reconciliation, a new task or an exit.                         *)
LEMMA OthersKeep ==
  ASSUME TypeInv, LocalInv, OtherStep, NEW l \in LocalLeases
  PROVE  KeptFor(l)
<1>1. l \in Leases /\ TaskOf(l) \in Tasks /\ Adapter[TaskOf(l)] = "local"
  BY LocalLeaseIsLease
<1>2. ASSUME NEW t \in Tasks, AddTask(t) PROVE KeptFor(l)
  BY <1>2 DEF AddTask, environment, KeptFor, IsActive
<1>3. ASSUME NEW r \in Runs, ResumeRun(r) PROVE KeptFor(l)
  <2>1. UNCHANGED environment
    BY <1>3 DEF ResumeRun
  <2>2. \/ lease'[l] = lease[l]
        \/ lease'[l] = [lease[l] EXCEPT !.status = "orphaned"]
        \/ lease'[l] = [lease[l] EXCEPT !.status = "released"] /\ Stopped(l)
    BY <1>1, <1>3 DEF ResumeRun
  <2>3. lease[l] \in LeaseType
    BY <1>1 DEF TypeInv, TypeOK
  <2>4. QED
    BY <1>1, <2>1, <2>2, <2>3, UnownedIsNotStopped
    DEF KeptFor, IsActive, ACTIVE, LeaseType, environment
<1>4. ASSUME NEW k \in Leases, BackendExit(k) PROVE KeptFor(l)
  <2>1. l \notin HostedBy(k)
    BY <1>1 DEF HostedBy
  <2>2. permits'[l] = permits[l]
    BY <1>1, <1>4, <2>1 DEF BackendExit
  <2>3. \/ backend'[l] = backend[l]
        \/ backend[l] = "up" /\ backend'[l] \in {"group", "down"}
    BY <1>1, <1>4, <2>1 DEF BackendExit
  <2>4. QED
    BY <1>4, <2>2, <2>3 DEF BackendExit, KeptFor, IsActive, ledgerVars
<1>5. ASSUME NEW k \in Leases, GroupExit(k) PROVE KeptFor(l)
  BY <1>1, <1>5 DEF GroupExit, KeptFor, IsActive, ledgerVars, TypeInv, TypeOK
<1>6. QED
  BY <1>2, <1>3, <1>4, <1>5 DEF OtherStep

(* Only a dispatch itself leaves the beginning, and it keeps what it was   *)
(* granted.                                                                *)
LEMMA HeldStays ==
  ASSUME LocalInv, NEW d \in Dispatchers, DispatchStep(d) \/ Die(d), ~Reserve(d)
  PROVE  /\ held' = held /\ pc[d] # "idle" /\ pc'[d] # "idle"
         /\ \A e \in Dispatchers : e # d => pc'[e] = pc[e]
<1> USE DEF LocalInv, LocalTypes, Goto
<1>1. CASE Claim(d) \/ LaunchFails(d) \/ Launch(d) \/ Bind(d)
  BY <1>1 DEF Claim, LaunchFails, Launch, Bind
<1>2. CASE BindFails(d) \/ StartCancel(d) \/ Close(d) \/ Settle(d)
  BY <1>2 DEF BindFails, StartCancel, Close, Settle
<1>3. CASE Report(d) \/ ReleaseSlot(d) \/ FinalizationFails(d) \/ Die(d)
  BY <1>3 DEF Report, ReleaseSlot, FinalizationFails, Die
<1>4. QED
  BY <1>1, <1>2, <1>3 DEF DispatchStep

(* What a dispatch knows of its lease moves on with it.                    *)
LEMMA OwnStepKnows ==
  ASSUME TypeInv, SlotInv, LocalInv, Grip, NEW d \in Dispatchers,
         DispatchStep(d) \/ Die(d), ~Reserve(d)
  PROVE  Knows(d, held[d])'
<1> DEFINE l == held[d]
<1>1. /\ pc[d] # "idle" /\ l \in Leases /\ Adapter[TaskOf(l)] = "local" /\ Knows(d, l)
      /\ held' = held
  BY HeldStays, LocalLeaseIsLease DEF LocalInv, LocalTypes, Grip
<1>2. lease \in [Leases -> LeaseType] /\ permits \in [Leases -> Nat]
  BY DEF TypeInv, TypeOK
<1>3. pc \in [Dispatchers -> Positions]
  BY DEF LocalInv, LocalTypes
<1> USE <1>1, <1>2, <1>3 DEF Goto, Knows, Undecided, Supervising, Positions
<1>4. CASE Claim(d)
  <2>1. lease[l].launch = "permission_issued" => backend[l] = "none" /\ permits[l] = 0
    BY DEF SlotInv, Slot, Unclaimed
  <2>2. CASE Claimable(l)
    <3>1. /\ pc'[d] = "spawn" /\ lease'[l].launch = "launching" /\ lease'[l].status = "launching"
          /\ lease'[l].owner = lease[l].owner /\ permits'[l] = permits[l] + 1
          /\ backend' = backend /\ controller'[l] = controller[l]
      BY <1>4, <2>2 DEF Claim, ClaimLocalLaunch, LeaseType, TypeInv, TypeOK
    <3>2. QED
      BY <1>4, <2>1, <3>1 DEF Claim, IsActive, ACTIVE
  <2>3. CASE ~Claimable(l)
    BY <1>4, <2>3 DEF Claim, vars
  <2>4. QED
    BY <2>2, <2>3
<1>5. CASE LaunchFails(d)
  BY <1>5 DEF LaunchFails, MarkLaunchFailed, LeaseType
<1>6. CASE Launch(d)
  BY <1>6 DEF Launch, Spawn, ledgerVars, IsActive, TypeInv, TypeOK
<1>7. CASE Bind(d)
  BY <1>7 DEF Bind, BindProcess, environment, LeaseType
<1>8. CASE BindFails(d) \/ StartCancel(d) \/ Settle(d) \/ FinalizationFails(d)
  BY <1>8 DEF BindFails, StartCancel, Settle, FinalizationFails, vars, IsActive
<1>9. CASE Close(d)
  BY <1>9 DEF Close, ObserveLocalExit, vars, environment, LeaseType
<1>10. CASE Report(d)
  BY <1>10 DEF Report, ReportResult, vars, environment
<1>11. CASE ReleaseSlot(d)
  BY <1>11 DEF ReleaseSlot, ReleaseLease, Release, vars, environment, LeaseType
<1>12. CASE Die(d)
  BY <1>12 DEF Die, ControllerDies, ledgerVars
<1>13. QED
  BY <1>4, <1>5, <1>6, <1>7, <1>8, <1>9, <1>10, <1>11, <1>12 DEF DispatchStep

(* A lease that acquireTask grants was nobody's, and its holder may claim  *)
(* it.                                                                     *)
LEMMA ReserveKnows ==
  ASSUME TypeInv, SlotInv, LocalInv, SupervisionInv, NEW d \in Dispatchers, Reserve(d)
  PROVE  SupervisionInv'
<1>1. PICK t \in Tasks :
        /\ Adapter[t] = "local"
        /\ \E attempt \in {task[t].attempt, task[t].attempt + 1} : Acquire(t, attempt, "alive")
        /\ held' = [held EXCEPT ![d] = <<t, task[t].generation + 1>>]
  BY DEF Reserve
<1>2. PICK attempt \in {task[t].attempt, task[t].attempt + 1} : Acquire(t, attempt, "alive")
  BY <1>1
<1>3. PICK l \in LocalLeases :
        /\ l = <<t, task[t].generation + 1>>
        /\ l \in Leases /\ TaskOf(l) = t /\ GenerationOf(l) = task[t].generation + 1
  BY <1>1, <1>2, LedgerAssumption
  DEF Acquire, TypeInv, TypeOK, TaskType, LocalLeases, Leases, Generations, TaskOf, GenerationOf
<1>4. lease[l].status = "none"
  BY <1>1, <1>3 DEF SlotInv, Slot, Fresh, TypeInv, TypeOK, TaskType
<1>5. /\ pc'[d] = "claim" /\ held'[d] = l
      /\ \A e \in Dispatchers : e # d => pc'[e] = pc[e] /\ held'[e] = held[e]
  BY <1>1, <1>3 DEF Reserve, Goto, LocalInv, LocalTypes, Positions
<1>6. /\ lease' = [lease EXCEPT ![l] =
                    [NoLease EXCEPT !.status = "reserved", !.launch = "permission_issued",
                       !.attempt = attempt, !.owner = "none", !.group = FALSE, !.parent = 0]]
      /\ controller' = [controller EXCEPT ![l] = "alive"]
      /\ permits' = [permits EXCEPT ![l] = 0] /\ backend' = backend
  BY <1>1, <1>2, <1>3, Zenon DEF Acquire
<1>7. Knows(d, l)'
  BY <1>3, <1>5, <1>6 DEF Knows, NoLease, IsActive, ACTIVE, TypeInv, TypeOK, Undecided, Supervising
<1>8. ASSUME NEW e \in Dispatchers, e # d, pc[e] # "idle"
      PROVE  held[e] # l /\ Knows(e, held[e])'
  <2>1. held[e] \in Leases /\ Knows(e, held[e])
    BY <1>8, LocalLeaseIsLease DEF LocalInv, LocalTypes, SupervisionInv, Grip
  <2>2. held[e] # l
    BY <1>4, <2>1 DEF Knows
  <2>3. KeptFor(held[e])
    BY <1>3, <1>6, <2>1, <2>2 DEF KeptFor, IsActive, TypeInv, TypeOK
  <2>4. QED
    BY <1>5, <1>8, <2>1, <2>2, <2>3, KnowsKept
<1>9. HeldOnce'
  BY <1>5, <1>8 DEF HeldOnce, SupervisionInv
<1>10. Grip'
  BY <1>5, <1>7, <1>8 DEF Grip
<1>11. QED
  BY <1>9, <1>10 DEF SupervisionInv

(* The invariant of the supervisors is inductive.                          *)
LEMMA SupervisionKept ==
  ASSUME TypeInv, SlotInv, LocalInv, SupervisionInv, [LocalNext]_allVars
  PROVE  SupervisionInv'
<1>1. ASSUME UNCHANGED <<pc, held>>, \A l \in LocalLeases : KeptFor(l)
      PROVE  SupervisionInv'
  BY <1>1, KnowsKept, LocalLeaseIsLease DEF SupervisionInv, HeldOnce, Grip, LocalInv, LocalTypes
<1>2. CASE UNCHANGED vars /\ UNCHANGED <<pc, held>>
  BY <1>1, <1>2 DEF vars, KeptFor, IsActive
<1>3. ASSUME NEW c \in Cancellers, CancelStep(c) PROVE SupervisionInv'
  <2>1. UNCHANGED <<pc, held>>
    BY <1>3 DEF CancelStep, Mark, CancelFails, Signal, ReleaseCancelled, NoDispatchStep
  <2>2. QED
    BY <1>1, <1>3, <2>1, CancellingKeeps, LocalLeaseIsLease
<1>4. CASE OtherStep
  BY <1>1, <1>4, OthersKeep DEF OtherStep, local
<1>5. ASSUME NEW d \in Dispatchers, DispatchStep(d) \/ Die(d), ~Reserve(d)
      PROVE  SupervisionInv'
  <2>1. /\ held' = held /\ pc[d] # "idle" /\ pc'[d] # "idle"
        /\ \A e \in Dispatchers : e # d => pc'[e] = pc[e]
    BY <1>5, HeldStays
  <2>2. ASSUME NEW e \in Dispatchers, e # d, pc[e] # "idle" PROVE Knows(e, held[e])'
    <3>1. held[e] \in Leases /\ held[d] \in Leases /\ held[e] # held[d] /\ Knows(e, held[e])
      BY <2>1, <2>2, LocalLeaseIsLease DEF LocalInv, LocalTypes, SupervisionInv, Grip, HeldOnce
    <3>2. KeptFor(held[e])
      BY <1>5, <3>1, OtherLeasesKept
    <3>3. QED
      BY <2>1, <2>2, <3>1, <3>2, KnowsKept
  <2>3. Grip'
    BY <1>5, <2>1, <2>2, OwnStepKnows DEF Grip, SupervisionInv
  <2>4. HeldOnce'
    BY <2>1 DEF HeldOnce, SupervisionInv
  <2>5. QED
    BY <2>3, <2>4 DEF SupervisionInv
<1>6. ASSUME NEW c \in Commands, NEW t \in Tasks, AskToCancel(c, t) PROVE SupervisionInv'
  BY <1>2, <1>6 DEF AskToCancel, NoDispatchStep
<1>7. QED
  BY <1>2, <1>3, <1>4, <1>5, <1>6, ReserveKnows DEF LocalNext, allVars, local

(* A supervisor that lives keeps its lease: until its child is bound, no   *)
(* reconciliation, cancellation or other supervisor takes it away or binds *)
(* it (local-runtime.js dispatchLocal), and until the lease is released,   *)
(* observeLocalExit accepts the close event of the child.                  *)
THEOREM SupervisorsKeepTheirLeases == LocalSpec => []SupervisorKeepsItsLease
<1>1. LocalSpec => [](TypeInv /\ SlotInv /\ Valid)
  BY LocalRefinesLedger, TypeInvHolds, SlotInvHolds, ValidAlways, PTL DEF ImplementsLedger
<1>2. TypeInv /\ SlotInv /\ LocalInv /\ SupervisionInv /\ [LocalNext]_allVars
        => LocalInv' /\ SupervisionInv'
  BY LocalInvKept, SupervisionKept
<1>3. TypeInv /\ Valid /\ LocalInv /\ SupervisionInv => SupervisorKeepsItsLease
  <2>1. SUFFICES ASSUME TypeInv, Valid, LocalInv, SupervisionInv,
                        NEW d \in Dispatchers, pc[d] \in Supervising,
                        pc[d] \in Undecided \/ lease[held[d]].status # "released"
                 PROVE  /\ FencedActive(held[d]) /\ controller[held[d]] = "alive"
                        /\ pc[d] \in Undecided => lease[held[d]].owner = "none"
    BY DEF SupervisorKeepsItsLease, Supervising, Undecided, Positions
  <2>2. held[d] \in Leases /\ Knows(d, held[d])
    BY <2>1, LocalLeaseIsLease DEF SupervisionInv, Grip, LocalInv, LocalTypes, Supervising, Positions
  <2>3. IsActive(held[d])
    BY <2>1, <2>2 DEF Knows, IsActive, TypeInv, TypeOK, LeaseType
  <2>4. held[d] = Current(TaskOf(held[d])) /\ HasLease(TaskOf(held[d]))
    BY <2>1, <2>2, <2>3, LeaseShape DEF Valid, ActiveLeases, Current, HasLease
  <2>5. FencedActive(held[d])
    <3>1. TaskOf(held[d]) \in Tasks
      BY <2>2, LeaseShape
    <3>2. /\ task[TaskOf(held[d])].generation = GenerationOf(held[d])
          /\ task[TaskOf(held[d])].attempt = lease[held[d]].attempt
      <4>1. task[TaskOf(held[d])].attempt = lease[held[d]].attempt
        BY <2>1, <2>4, <3>1 DEF Valid
      <4>2. held[d] = <<TaskOf(held[d]), GenerationOf(held[d])>>
        BY <2>2, LeaseShape
      <4>3. QED
        BY <2>4, <4>1, <4>2 DEF Current
    <3>3. QED
      BY <2>3, <3>2 DEF FencedActive, Fenced, IsActive, ACTIVE
  <2>6. QED
    BY <2>1, <2>2, <2>5 DEF Knows
<1>4. QED
  BY <1>1, <1>2, <1>3, LocalInitially, PTL DEF LocalSpec
=============================================================================
