---------------------------- MODULE ServiceProofs ----------------------------
(***************************************************************************)
(* What the run services checks of adapters, queue and server on one small *)
(* instance, proved for every number of children, tabs, iterations, tasks  *)
(* and workers: a slot is never given back while what holds it may run, a  *)
(* result is earned, the queue keeps its rules, and nobody is cut off.     *)
(***************************************************************************)
EXTENDS MCServices, FiniteSetTheorems, TLAPS

(***************************************************************************)
(* The companion's job.  The lease is bound to whoever held the process id *)
(* when it was polled: the invariant relates that witness, the holder of   *)
(* the id and the life of the job's process.                               *)
(***************************************************************************)
JobStatuses == {"none", "queued", "running", "completed", "failed", "cancelled"}
LeaseStatuses == {"reserved", "launching", "running", "cancel_pending", "orphaned", "released"}
LaunchStates == {"permission_issued", "launching", "confirmed_not_started", "bound"}
JobTaskStatuses == {"reserved", "launching", "running", "cancel_pending", "orphaned",
                    "cancelled", "failed", "produced"}
Holders == {"none", "job", "stranger"}

JobLeases == [status : LeaseStatuses, launch : LaunchStates, cancel : BOOLEAN, bound : Holders,
              group : BOOLEAN]
JobTasks == [status : JobTaskStatuses, jobKnown : BOOLEAN, result : {"failed", "produced"}]
Jobs == [status : JobStatuses, content : BOOLEAN, process : {"none", "alive", "dead"},
         leader : BOOLEAN]

JobTypes ==
  /\ jobLease \in JobLeases /\ jobTask \in JobTasks /\ job \in Jobs
  /\ pidHolder \in {"nobody", "job", "stranger"}

(* Records keep their ranges under the updates of the actions.             *)
LEMMA LeaseUpdates ==
  ASSUME NEW l \in JobLeases
  PROVE  /\ \A s \in LeaseStatuses : [l EXCEPT !.status = s] \in JobLeases
         /\ \A p \in LaunchStates : [l EXCEPT !.launch = p] \in JobLeases
         /\ \A c \in BOOLEAN : [l EXCEPT !.cancel = c] \in JobLeases
         /\ \A h \in Holders : [l EXCEPT !.bound = h] \in JobLeases
         /\ \A g \in BOOLEAN : [l EXCEPT !.group = g] \in JobLeases
  BY DEF JobLeases

LEMMA JobUpdates ==
  ASSUME NEW j \in Jobs
  PROVE  /\ \A s \in JobStatuses : [j EXCEPT !.status = s] \in Jobs
         /\ \A c \in BOOLEAN : [j EXCEPT !.content = c] \in Jobs
         /\ [j EXCEPT !.process = "alive"] \in Jobs
         /\ \A b \in BOOLEAN : [j EXCEPT !.leader = b] \in Jobs
  BY DEF Jobs

LEMMA TaskUpdates ==
  ASSUME NEW t \in JobTasks
  PROVE  /\ \A s \in JobTaskStatuses : [t EXCEPT !.status = s] \in JobTasks
         /\ \A s \in JobTaskStatuses : \A r \in {"failed", "produced"} :
              [t EXCEPT !.status = s, !.result = r] \in JobTasks
  BY DEF JobTasks

(* Before its start is asked for there is no job; a lease released without *)
(* a bound process never had one.                                          *)
JobNotStarted ==
  /\ jobSupervisor \in {"spawned", "launching"} =>
       Active /\ jobLease.bound = "none" /\ job.status = "none"
  /\ jobTask.jobKnown => job.status # "none"
  /\ jobLease.launch = "confirmed_not_started" => ~Active
  /\ ~Active /\ jobLease.bound = "none" => job.status = "none"
  /\ job.status \in {"none", "queued"} => job.process = "none"

JobProcess ==
  /\ pidHolder = "job" <=> job.process = "alive"
  /\ pidHolder = "stranger" => job.process = "dead"
  /\ jobLease.bound # "none" => job.process # "none"
  /\ jobLease.bound = "stranger" => job.process = "dead"
  /\ ~Active => job.process # "alive"

JobEarned ==
  jobTask.status = "produced" \/ jobTask.result = "produced" => job.status = "completed" /\ job.content

JobInv == JobTypes /\ JobNotStarted /\ JobProcess /\ JobEarned

LEMMA JobInitially == JobInit => JobInv
  BY DEF JobInit, JobInv, JobTypes, JobLeases, JobTasks, Jobs, JobStatuses, LeaseStatuses,
      LaunchStates,
     JobTaskStatuses, Holders,
     JobNotStarted, JobProcess, JobEarned, Active

LEMMA TaskAfterRelease ==
  ASSUME JobTypes
  PROVE  AfterRelease \in JobTaskStatuses /\ (AfterRelease = "produced" => jobTask.result = "produced")
  BY DEF AfterRelease, JobTypes, JobTasks, JobTaskStatuses

LEMMA JobReleasingTyped ==
  ASSUME JobTypes, TryRelease, pidHolder' = pidHolder, job' = job
  PROVE  JobTypes'
  BY TaskAfterRelease, TaskUpdates, LeaseUpdates DEF TryRelease, JobReleased, JobTypes,
      LeaseStatuses

LEMMA JobTyped == ASSUME JobTypes, [JobNext]_jobVars PROVE JobTypes'
<1>1. CASE JobStarts
  <2>1. PICK leader \in BOOLEAN :
          job' = [[[job EXCEPT !.status = "running"] EXCEPT !.process = "alive"] EXCEPT !.leader = leader]
    BY <1>1 DEF JobStarts
  <2>2. job' \in Jobs
    BY <2>1, JobUpdates DEF JobTypes, JobStatuses
  <2>3. QED
    BY <1>1, <2>2 DEF JobStarts, JobTypes
<1>2. CASE JobReports
  <2>1. PICK s \in {"completed", "failed", "cancelled"}, c \in BOOLEAN :
          job' = [[job EXCEPT !.status = s] EXCEPT !.content = c]
    BY <1>2 DEF JobReports
  <2>2. job' \in Jobs
    BY <2>1, JobUpdates DEF JobTypes, JobStatuses
  <2>3. QED
    BY <1>2, <2>2 DEF JobReports, JobTypes
<1>3. CASE ProcessEnds \/ PidReused \/ StrangerEnds
  BY <1>3 DEF ProcessEnds, PidReused, StrangerEnds, JobTypes, JobLeases, JobTasks, Jobs,
      JobStatuses, LeaseStatuses, LaunchStates,
     JobTaskStatuses, Holders
<1>4. CASE ClaimLaunch
  <2>1. CASE UNCHANGED <<jobLease, jobTask>>
    BY <1>4, <2>1 DEF ClaimLaunch, JobTypes
  <2>2. CASE /\ jobLease' = [[jobLease EXCEPT !.launch = "launching"] EXCEPT !.status = "launching"]
             /\ jobTask' = [jobTask EXCEPT !.status = "launching"]
    <3>1. jobLease' \in JobLeases
      BY <2>2, LeaseUpdates DEF JobTypes, LaunchStates, LeaseStatuses
    <3>2. jobTask' \in JobTasks
      BY <2>2, TaskUpdates DEF JobTypes, JobTaskStatuses
    <3>3. QED
      BY <1>4, <3>1, <3>2 DEF ClaimLaunch, JobTypes
  <2>3. QED
    BY <1>4, <2>1, <2>2 DEF ClaimLaunch
<1>5. CASE PreflightFails
  BY <1>5 DEF PreflightFails, JobReleased, Stop, JobTypes, JobLeases, JobTasks, Jobs,
      JobStatuses, LeaseStatuses, LaunchStates,
     JobTaskStatuses, Holders
<1>6. CASE CommandFails
  BY <1>6 DEF CommandFails, Stop, JobTypes, JobLeases, JobTasks, Jobs, JobStatuses,
      LeaseStatuses, LaunchStates,
     JobTaskStatuses, Holders
<1>7. CASE StartJob
  BY <1>7 DEF StartJob, Stop, JobTypes, JobLeases, JobTasks, Jobs, JobStatuses,
      LeaseStatuses, LaunchStates,
     JobTaskStatuses, Holders
<1>8. CASE PollJob
  <2>1. Bound \in JobLeases
    <3>1. CASE Bound = jobLease
      BY <3>1 DEF JobTypes
    <3>2. CASE /\ pidHolder # "nobody"
               /\ Bound = [[[[jobLease EXCEPT !.bound = pidHolder] EXCEPT !.launch = "bound"]
                             EXCEPT !.group = IF pidHolder = "job" THEN job.leader ELSE TRUE]
                             EXCEPT !.status = IF jobLease.cancel THEN "cancel_pending" ELSE "running"]
      <4>1. (IF pidHolder = "job" THEN job.leader ELSE TRUE) \in BOOLEAN
        BY DEF JobTypes, Jobs
      <4>2. pidHolder \in Holders
        BY <3>2 DEF JobTypes, Holders
      <4>3. [[jobLease EXCEPT !.bound = pidHolder] EXCEPT !.launch = "bound"] \in JobLeases
        BY <4>2, LeaseUpdates DEF JobTypes, LaunchStates
      <4>4. QED
        BY <3>2, <4>1, <4>3, LeaseUpdates DEF LeaseStatuses
    <3>3. QED
      BY <3>1, <3>2 DEF Bound
  <2>2. jobLease' \in JobLeases
    BY <1>8, <2>1 DEF PollJob, JobTypes
  <2>3. Bound.status \in JobTaskStatuses \/ ~Active
    BY <2>1 DEF Bound, Active, JobTypes, JobLeases, LeaseStatuses, JobTaskStatuses
  <2>4. Outcome \in {"failed", "produced"} /\ Outcome \in JobTaskStatuses
    BY DEF Outcome, JobTaskStatuses
  <2>5. jobTask' \in JobTasks
    <3>1. CASE jobTask' = jobTask
      BY <3>1 DEF JobTypes
    <3>2. CASE jobTask' = [jobTask EXCEPT !.status = Outcome, !.result = Outcome]
      BY <3>2, <2>4, TaskUpdates DEF JobTypes
    <3>3. CASE Active /\ jobTask' = [jobTask EXCEPT !.status = Bound.status]
      BY <3>3, <2>3, TaskUpdates DEF JobTypes
    <3>4. QED
      BY <1>8, <3>1, <3>2, <3>3 DEF PollJob
  <2>6. QED
    BY <1>8, <2>2, <2>5 DEF PollJob, JobTypes
<1>9. CASE JobSupervisorReleases
  BY <1>9, JobReleasingTyped DEF JobSupervisorReleases
<1>10. CASE JobSupervisorDies \/ BeginCancel
  BY <1>10 DEF JobSupervisorDies, BeginCancel, Stop, JobTypes, JobLeases, JobTasks, Jobs,
      JobStatuses, LeaseStatuses, LaunchStates,
     JobTaskStatuses, Holders
<1>11. CASE MarkJobCancel
  <2>1. CASE UNCHANGED <<jobLease, jobTask>>
    BY <1>11, <2>1 DEF MarkJobCancel, JobTypes
  <2>2. CASE /\ jobLease' = [[jobLease EXCEPT !.cancel = TRUE] EXCEPT !.status = "cancel_pending"]
             /\ jobTask' = [jobTask EXCEPT !.status = "cancel_pending"]
    <3>1. jobLease' \in JobLeases
      BY <2>2, LeaseUpdates DEF JobTypes, LeaseStatuses
    <3>2. jobTask' \in JobTasks
      BY <2>2, TaskUpdates DEF JobTypes, JobTaskStatuses
    <3>3. QED
      BY <1>11, <3>1, <3>2 DEF MarkJobCancel, JobTypes
  <2>3. QED
    BY <1>11, <2>1, <2>2 DEF MarkJobCancel
<1>12. CASE AskUpstream
  BY <1>12 DEF AskUpstream, JobEnded, JobTypes, JobLeases, JobTasks, Jobs, JobStatuses,
      LeaseStatuses, LaunchStates,
     JobTaskStatuses, Holders
<1>13. CASE SignalBackend
  BY <1>13 DEF SignalBackend, JobTypes, JobLeases, JobTasks, Jobs, JobStatuses,
      LeaseStatuses, LaunchStates,
     JobTaskStatuses, Holders
<1>14. CASE JobCancelReleases
  BY <1>14, JobReleasingTyped DEF JobCancelReleases
<1>15. CASE ResumeJob /\ JobStopped
  BY <1>15, JobReleasingTyped DEF ResumeJob
<1>16. CASE ResumeJob /\ ~JobStopped
  BY <1>16 DEF ResumeJob, JobTypes, JobLeases, JobTasks, Jobs, JobStatuses, LeaseStatuses,
      LaunchStates,
     JobTaskStatuses, Holders
<1>17. CASE UNCHANGED jobVars
  BY <1>17 DEF jobVars, JobTypes, JobLeases, JobTasks, Jobs, JobStatuses, LeaseStatuses,
      LaunchStates,
     JobTaskStatuses, Holders
<1>18. QED
  BY <1>1, <1>2, <1>3, <1>4, <1>5, <1>6, <1>7, <1>8, <1>9, <1>10, <1>11, <1>12, <1>13,
      <1>14,
     <1>15, <1>16, <1>17 DEF JobNext

(* A release needs a stopped backend: the lease was bound and its process  *)
(* has ended.                                                              *)
LEMMA JobReleasing ==
  ASSUME JobInv, TryRelease, job' = job, pidHolder' = pidHolder,
         jobSupervisor' \in {jobSupervisor, "done"}
  PROVE  JobInv'
<1>1. JobTypes'
  BY JobReleasingTyped DEF JobInv
<1>2. CASE Active /\ JobStopped
  <2>1. job.process # "alive" /\ jobLease.bound # "none"
    BY <1>2 DEF JobInv, JobTypes, JobLeases, Jobs, Holders, JobNotStarted, JobProcess,
        JobStopped
  <2>2. /\ jobLease' = [jobLease EXCEPT !.status = "released"]
        /\ jobTask' = [jobTask EXCEPT !.status = AfterRelease]
    BY <1>2 DEF TryRelease, JobReleased
  <2>3. /\ jobTask'.jobKnown = jobTask.jobKnown /\ jobTask'.result = jobTask.result
        /\ jobTask'.status = "produced" => jobTask.result = "produced"
    BY <2>2, TaskAfterRelease DEF JobInv, JobTypes, JobTasks
  <2>4. JobNotStarted'
    BY <2>1, <2>2, <2>3 DEF JobInv, JobTypes, JobLeases, JobNotStarted, Active
  <2>5. JobProcess'
    BY <2>1, <2>2 DEF JobInv, JobTypes, JobLeases, JobProcess, Active
  <2>6. JobEarned'
    BY <2>3 DEF JobInv, JobEarned
  <2>7. QED
    BY <1>1, <2>4, <2>5, <2>6 DEF JobInv
<1>3. CASE ~(Active /\ JobStopped)
  BY <1>1, <1>3 DEF TryRelease, JobInv, JobNotStarted, JobProcess, JobEarned, Active
<1>4. QED
  BY <1>2, <1>3

LEMMA JobKept == ASSUME JobInv, [JobNext]_jobVars PROVE JobInv'
<1> USE DEF JobInv, JobTypes, JobLeases, JobTasks, Jobs, JobStatuses, LeaseStatuses, LaunchStates,
     JobTaskStatuses, Holders,
         JobNotStarted, JobProcess, JobEarned, Active
<1>1. JobTypes'
  BY JobTyped
<1>2. CASE JobStarts
  <2>1. JobNotStarted'
    BY <1>2 DEF JobStarts
  <2>2. JobProcess'
    BY <1>2 DEF JobStarts
  <2>3. JobEarned'
    BY <1>2 DEF JobStarts
  <2>4. QED
    BY <1>1, <2>1, <2>2, <2>3
<1>3. CASE JobReports
  <2>1. JobNotStarted'
    BY <1>3 DEF JobReports
  <2>2. JobProcess'
    BY <1>3 DEF JobReports
  <2>3. JobEarned'
    BY <1>3 DEF JobReports
  <2>4. QED
    BY <1>1, <2>1, <2>2, <2>3
<1>4. CASE ProcessEnds \/ PidReused \/ StrangerEnds
  BY <1>4, <1>1 DEF ProcessEnds, PidReused, StrangerEnds
<1>5. CASE ClaimLaunch
  <2>1. JobNotStarted'
    BY <1>5 DEF ClaimLaunch, Stop
  <2>2. JobProcess'
    BY <1>5 DEF ClaimLaunch, Stop
  <2>3. JobEarned'
    BY <1>5 DEF ClaimLaunch, Stop
  <2>4. QED
    BY <1>1, <2>1, <2>2, <2>3
<1>6. CASE PreflightFails
  BY <1>6, <1>1 DEF PreflightFails, JobReleased, Stop
<1>7. CASE CommandFails
  BY <1>7, <1>1 DEF CommandFails, Stop
<1>8. CASE StartJob
  BY <1>8, <1>1 DEF StartJob, Stop
<1>9. CASE PollJob
  <2>1. JobNotStarted'
    BY <1>9 DEF PollJob, Bound, Outcome, JobEnded, Stop
  <2>2. JobProcess'
    BY <1>9 DEF PollJob, Bound, Outcome, JobEnded, Stop
  <2>3. JobEarned'
    BY <1>9 DEF PollJob, Bound, Outcome, JobEnded, Stop
  <2>4. QED
    BY <1>1, <2>1, <2>2, <2>3
<1>10. CASE JobSupervisorReleases
  BY <1>10, JobReleasing DEF JobSupervisorReleases, Stop
<1>11. CASE JobSupervisorDies \/ BeginCancel
  BY <1>11, <1>1 DEF JobSupervisorDies, BeginCancel, Stop
<1>12. CASE MarkJobCancel
  <2>1. JobNotStarted'
    BY <1>12 DEF MarkJobCancel
  <2>2. JobProcess'
    BY <1>12 DEF MarkJobCancel
  <2>3. JobEarned'
    BY <1>12 DEF MarkJobCancel
  <2>4. QED
    BY <1>1, <2>1, <2>2, <2>3
<1>13. CASE AskUpstream
  <2>1. JobNotStarted'
    BY <1>13 DEF AskUpstream, JobEnded
  <2>2. JobProcess'
    BY <1>13 DEF AskUpstream, JobEnded
  <2>3. JobEarned'
    BY <1>13 DEF AskUpstream, JobEnded
  <2>4. QED
    BY <1>1, <2>1, <2>2, <2>3
<1>14. CASE SignalBackend
  BY <1>14, <1>1 DEF SignalBackend
<1>15. CASE JobCancelReleases
  BY <1>15, JobReleasing DEF JobCancelReleases
<1>16. CASE ResumeJob /\ JobStopped
  BY <1>16, JobReleasing DEF ResumeJob
<1>17. CASE ResumeJob /\ ~JobStopped
  BY <1>17, <1>1 DEF ResumeJob
<1>18. CASE UNCHANGED jobVars
  BY <1>18, <1>1 DEF jobVars
<1>19. QED
  BY <1>2, <1>3, <1>4, <1>5, <1>6, <1>7, <1>8, <1>9, <1>10, <1>11, <1>12, <1>13, <1>14,
      <1>15,
     <1>16, <1>17, <1>18 DEF JobNext

(* A lease of a companion's job is released only when the job never        *)
(* started or its process has ended, and a task counts as produced only    *)
(* with a completed, nonempty result (companion.js).                       *)
THEOREM JobReleasedStopped == JobSpec => [](ReleasedJobStopped /\ ProducedHasContent)
<1>1. JobInv => ReleasedJobStopped /\ ProducedHasContent
  BY DEF JobInv, JobNotStarted, JobProcess, JobEarned, ReleasedJobStopped,
      ProducedHasContent
<1>2. QED
  BY JobInitially, JobKept, <1>1, PTL DEF JobSpec

(***************************************************************************)
(* The native host.  Only what is bound, or was never started, counts as   *)
(* stopped: the invariant relates the lease, the agent and how far the     *)
(* command and the keeper are.                                             *)
(***************************************************************************)
Controllers == [active : BOOLEAN, cancel : BOOLEAN, bound : BOOLEAN,
                launch : {"launching", "started", "confirmed_not_started"},
                result : {"none", "produced", "failed"}]

NativeTypes ==
  /\ ctl \in Controllers
  /\ agent \in {"none", "alive", "dead"}
  /\ cli \in [at : {"launching", "spawned", "bound", "waiting", "reported", "settled", "done", "dead"},
              cancelling : BOOLEAN]
  /\ keeper \in {"none", "waiting", "term", "kill", "settle", "release", "gone"}
  /\ children \in [ChildTasks -> {"absent", "queued", "active", "released", "cancelled"}]

NativeLaunch ==
  /\ cli.at = "launching" => agent = "none" /\ ~ctl.bound /\ ctl.active /\ ctl.launch = "launching"
  /\ cli.at = "spawned" => agent # "none"
  /\ ctl.bound => agent # "none" /\ ctl.launch # "confirmed_not_started"
  /\ ctl.launch = "confirmed_not_started" => agent = "none" /\ ~ctl.active
  /\ ~ctl.active => agent # "alive"

(* Command and keeper settle only under a bound agent that has ended.      *)
NativeSettling ==
  /\ cli.at \in {"bound", "waiting", "reported", "settled"} => ctl.bound
  /\ keeper \in {"waiting", "term", "kill", "settle", "release"} => ctl.bound
  /\ cli.at \in {"reported", "settled"} \/ keeper \in {"settle", "release"} => agent = "dead"
  /\ cli.at = "settled" \/ keeper = "release" =>
       \A c \in ChildTasks : children[c] \notin {"queued", "active"}

NativeInv == NativeTypes /\ NativeLaunch /\ NativeSettling

LEMMA NativeInitially == NativeInit => NativeInv
  BY DEF NativeInit, NativeInv, NativeTypes, Controllers, NativeLaunch, NativeSettling

LEMMA ControllerReleased ==
  ASSUME NativeInv, ReleaseController
  PROVE  /\ ctl' \in {ctl, [ctl EXCEPT !.active = FALSE]}
         /\ ctl' # ctl => agent # "alive" /\ cli.at # "launching"
  BY DEF ReleaseController, AgentStopped, NativeInv, NativeTypes, NativeLaunch

LEMMA ChildrenSettled ==
  ASSUME NativeInv, SettleChildren
  PROVE  /\ children' \in [ChildTasks -> {"absent", "queued", "active", "released", "cancelled"}]
         /\ ctl.bound /\ agent = "dead" => \A c \in ChildTasks : children'[c] \notin {"queued", "active"}
         /\ \A c \in ChildTasks : children[c] \notin {"queued", "active"} =>
              children'[c] \notin {"queued", "active"}
  BY DEF SettleChildren, Settled, AgentStopped, NativeInv, NativeTypes

LEMMA CancelMarked ==
  ASSUME NativeTypes, MarkCancel
  PROVE  /\ ctl' \in Controllers /\ ctl'.active = ctl.active /\ ctl'.bound = ctl.bound
         /\ ctl'.launch = ctl.launch
<1>1. ctl' \in {ctl, [ctl EXCEPT !.cancel = TRUE]}
  BY DEF MarkCancel
<1>2. [ctl EXCEPT !.cancel = TRUE] \in Controllers
  BY DEF NativeTypes, Controllers
<1>3. QED
  BY <1>1, <1>2 DEF NativeTypes, Controllers

LEMMA ControllerBound ==
  ASSUME NativeTypes, ctl' = [ctl EXCEPT !.bound = TRUE, !.launch = "started"]
  PROVE  ctl' \in Controllers /\ ctl'.active = ctl.active /\ ctl'.bound /\ ctl'.launch = "started"
<1>1. [ctl EXCEPT !.bound = TRUE] \in Controllers
  BY DEF NativeTypes, Controllers
<1>2. \A d \in Controllers : [d EXCEPT !.launch = "started"] \in Controllers
  BY DEF Controllers
<1>3. ctl' = [[ctl EXCEPT !.bound = TRUE] EXCEPT !.launch = "started"]
  OBVIOUS
<1>4. ctl' \in Controllers
  BY <1>1, <1>2, <1>3
<1>5. QED
  BY <1>4 DEF NativeTypes, Controllers

LEMMA NativeKept == ASSUME NativeInv, [NativeNext]_nativeVars PROVE NativeInv'
<1> USE DEF NativeInv, NativeTypes, NativeLaunch, NativeSettling, CliGoes
<1>1. CASE SpawnAgent
  BY <1>1 DEF SpawnAgent, Controllers
<1>2. CASE BindAgent
  <2>1. CASE ctl.active
    <3>1. ctl' = [ctl EXCEPT !.bound = TRUE, !.launch = "started"]
      BY <1>2, <2>1 DEF BindAgent
    <3>2. ctl' \in Controllers /\ ctl'.active = ctl.active /\ ctl'.bound /\ ctl'.launch = "started"
      BY <3>1, ControllerBound
    <3>3. /\ cli' = [cli EXCEPT !.at = "bound"] /\ cli.at = "spawned"
          /\ UNCHANGED <<agent, keeper, children>>
      BY <1>2, <2>1 DEF BindAgent
    <3>4. QED
      BY <2>1, <3>2, <3>3
  <2>2. CASE ~ctl.active
    BY <1>2, <2>2 DEF BindAgent
  <2>3. QED
    BY <2>1, <2>2
<1>3. CASE StartKeeper
  BY <1>3 DEF StartKeeper
<1>4. CASE CliCancels
  <2>1. CASE MarkCancel /\ cli' = [cli EXCEPT !.cancelling = TRUE]
    BY <1>4, <2>1, CancelMarked DEF CliCancels
  <2>2. CASE cli' = [cli EXCEPT !.at = "dead"] /\ UNCHANGED <<ctl, agent>>
    BY <1>4, <2>2 DEF CliCancels
  <2>3. QED
    BY <1>4, <2>1, <2>2 DEF CliCancels
<1>5. CASE CliKills \/ AgentExits \/ DeadlinePasses
  BY <1>5 DEF CliKills, AgentExits, DeadlinePasses
<1>6. CASE AgentClosed
  BY <1>6 DEF AgentClosed, Controllers
<1>7. CASE CliSettles
  BY <1>7, ChildrenSettled DEF CliSettles
<1>8. CASE CliReleases
  BY <1>8, ControllerReleased DEF CliReleases, Controllers
<1>9. CASE CliDies
  BY <1>9 DEF CliDies
<1>10. CASE KeeperWakes
  BY <1>10, CancelMarked DEF KeeperWakes
<1>11. CASE KeeperSignals
  BY <1>11 DEF KeeperSignals, AgentStopped
<1>12. CASE KeeperSettles
  BY <1>12, ChildrenSettled DEF KeeperSettles
<1>13. CASE KeeperReleases
  BY <1>13, ControllerReleased DEF KeeperReleases, Controllers
<1>14. CASE \E c \in ChildTasks : QueueChild(c) \/ StartChild(c) \/ ChildReturns(c)
  BY <1>14 DEF QueueChild, StartChild, ChildReturns, ParentLives
<1>15. CASE UserCancels
  BY <1>15, CancelMarked DEF UserCancels
<1>16. CASE UserResumes
  <2>1. /\ \A c \in ChildTasks :
             /\ children'[c] \in {"absent", "queued", "active", "released", "cancelled"}
             /\ children'[c] \in {"queued", "active"} => children[c] = children'[c]
        /\ children' \in [ChildTasks -> {"absent", "queued", "active", "released", "cancelled"}]
    BY <1>16 DEF UserResumes
  <2>2. /\ ctl' \in {ctl, [ctl EXCEPT !.active = FALSE]} /\ (ctl' # ctl => agent # "alive" /\ cli.at # "launching")
        /\ UNCHANGED <<agent, cli, keeper>>
    BY <1>16, ControllerReleased DEF UserResumes
  <2>3. /\ ctl' \in Controllers /\ ctl'.bound = ctl.bound /\ ctl'.launch = ctl.launch
        /\ ctl'.active => ctl.active
        /\ ctl'.active # ctl.active => agent # "alive" /\ cli.at # "launching"
    <3>1. CASE ctl' = ctl
      BY <3>1
    <3>2. CASE ctl' = [ctl EXCEPT !.active = FALSE] /\ agent # "alive" /\ cli.at # "launching"
      <4> HIDE DEF NativeLaunch, NativeSettling
      <4>1. [ctl EXCEPT !.active = FALSE] \in Controllers
        BY DEF Controllers
      <4>2. QED
        BY <3>2, <4>1 DEF Controllers
    <3>3. QED
      BY <2>2, <3>1, <3>2
  <2>4. NativeTypes' /\ NativeLaunch'
    BY <2>1, <2>2, <2>3
  <2>5. NativeSettling'
    BY <2>1, <2>2, <2>3
  <2>6. QED
    BY <2>4, <2>5
<1>17. CASE UNCHANGED nativeVars
  BY <1>17 DEF nativeVars
<1>18. QED
  BY <1>1, <1>2, <1>3, <1>4, <1>5, <1>6, <1>7, <1>8, <1>9, <1>10, <1>11, <1>12, <1>13,
      <1>14,
     <1>15, <1>16, <1>17 DEF NativeNext, KeeperStep

(* A controller is released only when its agent has ended, whoever         *)
(* releases it, and no child waits or runs after the children were settled *)
(* (native-host.js, native-deadline.js).                                   *)
THEOREM AgentReleasedStopped == NativeSpec => [](ReleasedAgentStopped /\ SettledStaysSettled)
<1>1. NativeInv => ReleasedAgentStopped /\ SettledStaysSettled
  BY DEF NativeInv, NativeLaunch, NativeSettling, ReleasedAgentStopped, SettledStaysSettled
<1>2. QED
  BY NativeInitially, NativeKept, <1>1, PTL DEF NativeSpec

(***************************************************************************)
(* The experiment.  The worktree is checked after the process has gone:    *)
(* the invariant follows the launch state with the supervisor's position,  *)
(* and the outcome from the loop's verdict to the report.                  *)
(***************************************************************************)
ExLeases == [active : BOOLEAN, cancel : BOOLEAN,
           launch : {"permission_issued", "launching", "bound", "confirmed_not_started"},
           result : {"none", "produced", "failed"}]
Supervisors == [at : {"absent", "new", "claimed", "spawned", "bound", "running", "settling", "stopping",
                      "signalling", "checking", "checked", "reporting", "reported", "ended", "dead"},
                outcome : {"produced", "failed"}]
Processes == [process : {"none", "alive", "dead"}, streaming : BOOLEAN]

ExperimentTypes ==
  /\ exLease \in ExLeases /\ starter \in {"reserved", "done", "dead"}
  /\ supervisor \in Supervisors /\ pi \in Processes

ExperimentLaunch ==
  /\ starter = "reserved" =>
       supervisor.at = "absent" /\ exLease.active /\ exLease.launch = "permission_issued"
  /\ supervisor.at \in {"absent", "new", "claimed"} \/ exLease.launch = "confirmed_not_started" =>
       pi.process = "none"
  /\ exLease.launch = "confirmed_not_started" => supervisor.at = "absent" /\ starter # "reserved"
  /\ supervisor.at = "new" => exLease.launch = "permission_issued"
  /\ supervisor.at \in {"claimed", "spawned"} => exLease.launch = "launching"
  /\ supervisor.at \in {"new", "claimed", "spawned"} => exLease.active
  /\ supervisor.at = "spawned" \/ exLease.launch = "bound" => pi.process # "none"
  /\ ~exLease.active => pi.process # "alive"

ExperimentOutcome ==
  /\ supervisor.at \in {"bound", "running", "settling", "stopping", "signalling"} =>
       exLease.launch = "bound"
  /\ supervisor.at \in {"checking", "checked", "reporting", "reported"} => pi.process # "alive"
  /\ supervisor.outcome = "produced" => exLease.launch = "bound"
  /\ supervisor.at \in {"checked", "reporting", "reported"} /\ supervisor.outcome = "produced" =>
       ~worktree.tampered
  /\ exLease.result = "produced" =>
       ~worktree.tampered /\ pi.process = "dead" /\ supervisor.at \notin {"new", "claimed"}

ExperimentInv == ExperimentTypes /\ ExperimentLaunch /\ ExperimentOutcome

(* Records keep their ranges and their other fields under the updates.     *)
LEMMA LeaseEdits ==
  ASSUME NEW l \in ExLeases
  PROVE  /\ \A b \in BOOLEAN : [l EXCEPT !.active = b] \in ExLeases /\ [l EXCEPT !.cancel = b] \in ExLeases
         /\ \A p \in {"launching", "bound", "confirmed_not_started"} : [l EXCEPT !.launch = p] \in ExLeases
         /\ \A r \in {"produced", "failed"} : [l EXCEPT !.result = r] \in ExLeases
  BY DEF ExLeases

LEMMA Positions ==
  ASSUME NEW at \in {"new", "claimed", "spawned", "bound", "running", "settling", "stopping",
                     "signalling", "checking", "checked", "reporting", "reported", "ended", "dead"},
         ExperimentTypes, Supervisor(at)
  PROVE  supervisor' \in Supervisors /\ supervisor'.at = at /\ supervisor'.outcome = supervisor.outcome
  BY DEF Supervisor, ExperimentTypes, Supervisors

LEMMA PiKilled ==
  ASSUME ExperimentTypes
  PROVE  /\ Killed \in Processes
         /\ Killed.process = IF pi.process = "alive" THEN "dead" ELSE pi.process
         /\ \A b \in BOOLEAN : /\ [pi EXCEPT !.streaming = b] \in Processes
                               /\ [pi EXCEPT !.streaming = b].process = pi.process
<1>1. [pi EXCEPT !.process = IF @ = "alive" THEN "dead" ELSE @] \in Processes
  BY DEF ExperimentTypes, Processes
<1>2. \A p \in Processes : \A b \in BOOLEAN :
        [p EXCEPT !.streaming = b] \in Processes /\ [p EXCEPT !.streaming = b].process = p.process
  BY DEF Processes
<1>3. Killed = [[pi EXCEPT !.process = IF @ = "alive" THEN "dead" ELSE @] EXCEPT !.streaming = FALSE]
  BY DEF Killed
<1>4. QED
  BY <1>1, <1>2, <1>3 DEF ExperimentTypes, Processes

LEMMA ExperimentReleased ==
  ASSUME ExperimentInv, ReleaseExperiment
  PROVE  /\ exLease' \in ExLeases /\ exLease'.launch = exLease.launch /\ exLease'.result = exLease.result
         /\ exLease'.active => exLease.active
         /\ exLease'.active # exLease.active =>
              pi.process # "alive" /\ exLease.launch \in {"bound", "confirmed_not_started"}
  BY LeaseEdits DEF ReleaseExperiment, PiStopped, ExperimentInv, ExperimentTypes,
      ExperimentLaunch, ExLeases

LEMMA ExperimentInitially == ExperimentInit => ExperimentInv
  BY DEF ExperimentInit, ExperimentInv, ExperimentTypes, ExperimentLaunch,
      ExperimentOutcome,
     ExLeases, Supervisors, Processes

LEMMA ExperimentKept == ASSUME ExperimentInv, [ExperimentNext]_experimentVars PROVE ExperimentInv'
<1> USE DEF ExperimentInv, ExperimentTypes, ExperimentLaunch, ExperimentOutcome
<1>1. CASE PrepareExperiment
  <2>1. CASE starter' = "done" /\ Supervisor("new") /\ UNCHANGED exLease
    BY <1>1, <2>1, Positions DEF PrepareExperiment
  <2>2. CASE /\ exLease' = [exLease EXCEPT !.launch = "confirmed_not_started", !.result = "failed",
                                           !.active = FALSE]
             /\ starter' = "done" /\ UNCHANGED supervisor
    <3>1. exLease' = [[[exLease EXCEPT !.launch = "confirmed_not_started"] EXCEPT !.result = "failed"]
                       EXCEPT !.active = FALSE]
      BY <2>2
    <3>2. exLease' \in ExLeases
      BY <3>1, LeaseEdits
    <3>3. exLease'.launch = "confirmed_not_started" /\ exLease'.result = "failed"
      BY <2>2 DEF ExLeases
    <3>4. QED
      BY <1>1, <2>2, <3>2, <3>3 DEF PrepareExperiment
  <2>3. CASE starter' = "dead" /\ UNCHANGED <<exLease, supervisor>>
    BY <1>1, <2>3 DEF PrepareExperiment
  <2>4. QED
    BY <1>1, <2>1, <2>2, <2>3 DEF PrepareExperiment
<1>2. CASE ClaimExperiment
  BY <1>2, Positions, LeaseEdits DEF ClaimExperiment, ExLeases
<1>3. CASE SpawnPi
  <2>1. CASE pi' = [process |-> "alive", streaming |-> FALSE] /\ Supervisor("spawned")
    <3>1. pi' \in Processes /\ pi'.process = "alive"
      BY <2>1 DEF Processes
    <3>2. QED
      BY <1>3, <2>1, <3>1, Positions DEF SpawnPi
  <2>2. CASE Supervisor("checking") /\ UNCHANGED pi
    BY <1>3, <2>2, Positions DEF SpawnPi
  <2>3. QED
    BY <1>3, <2>1, <2>2 DEF SpawnPi
<1>4. CASE BindPi
  BY <1>4, Positions, LeaseEdits DEF BindPi, ExLeases
<1>5. CASE ActivateExtension
  BY <1>5, Positions, PiKilled DEF ActivateExtension
<1>6. CASE WatchExperiment
  BY <1>6, Positions DEF WatchExperiment
<1>7. CASE SettleExperiment
  BY <1>7 DEF SettleExperiment, Supervisors
<1>8. CASE TurnOff
  BY <1>8, Positions, PiKilled DEF TurnOff
<1>9. CASE SignalPi
  BY <1>9, Positions, PiKilled DEF SignalPi
<1>10. CASE RecheckProtected
  BY <1>10 DEF RecheckProtected, Supervisors
<1>11. CASE ReadLease
  BY <1>11, Positions DEF ReadLease
<1>12. CASE ReportExperiment
  <2>1. CASE exLease.active
    <3>1. exLease' = [exLease EXCEPT !.result = supervisor.outcome] /\ Supervisor("reported")
      BY <1>12, <2>1 DEF ReportExperiment
    <3>2. supervisor.outcome \in {"produced", "failed"}
      BY DEF Supervisors
    <3>3. exLease' \in ExLeases
      BY <3>1, <3>2, LeaseEdits
    <3>4. /\ exLease'.active = exLease.active /\ exLease'.launch = exLease.launch
          /\ exLease'.result = supervisor.outcome
      BY <3>1 DEF ExLeases
    <3>5. pi.process \in {"none", "alive", "dead"}
      BY DEF Processes
    <3>6. QED
      BY <1>12, <3>1, <3>3, <3>4, <3>5, Positions DEF ReportExperiment
  <2>2. CASE ~exLease.active
    BY <1>12, <2>2, Positions DEF ReportExperiment
  <2>3. QED
    BY <2>1, <2>2
<1>13. CASE SupervisorReleases
  BY <1>13, Positions, ExperimentReleased DEF SupervisorReleases
<1>14. CASE SupervisorDies
  BY <1>14, Positions DEF SupervisorDies
<1>15. CASE AskExperimentToEnd
  <2>1. exLease' = [exLease EXCEPT !.cancel = TRUE]
    BY <1>15 DEF AskExperimentToEnd
  <2>2. exLease' \in ExLeases
    BY <2>1, LeaseEdits
  <2>3. /\ exLease'.active = exLease.active /\ exLease'.launch = exLease.launch
        /\ exLease'.result = exLease.result
    BY <2>1 DEF ExLeases
  <2>4. QED
    BY <1>15, <2>2, <2>3 DEF AskExperimentToEnd
<1>16. CASE CancelSignals
  BY <1>16, PiKilled DEF CancelSignals
<1>17. CASE CancelReleases
  BY <1>17, ExperimentReleased DEF CancelReleases
<1>18. CASE PiWorks
  <2>1. pi' \in Processes /\ pi'.process = "alive" /\ pi.process = "alive"
    BY <1>18, PiKilled DEF PiWorks
  <2>2. UNCHANGED <<exLease, starter, supervisor>>
    BY <1>18 DEF PiWorks
  <2>3. QED
    BY <2>1, <2>2
<1>19. CASE PiRests
  BY <1>19, PiKilled DEF PiRests
<1>20. CASE TimePasses \/ UNCHANGED experimentVars
  BY <1>20 DEF TimePasses, experimentVars
<1>21. QED
  BY <1>1, <1>2, <1>3, <1>4, <1>5, <1>6, <1>7, <1>8, <1>9, <1>10, <1>11, <1>12, <1>13,
      <1>14,
     <1>15, <1>16, <1>17, <1>18, <1>19, <1>20 DEF ExperimentNext, SupervisorStep

(* An experiment's slot is not given back while Pi may work, and one that  *)
(* counts as produced has left its protected material untouched            *)
(* (session.js).                                                           *)
THEOREM PiReleasedStopped == ExperimentSpec => [](ReleasedPiStopped /\ ProducedIsProtected)
<1>1. ExperimentInv => ReleasedPiStopped /\ ProducedIsProtected
  BY DEF ExperimentInv, ExperimentLaunch, ExperimentOutcome, ReleasedPiStopped,
      ProducedIsProtected
<1>2. QED
  BY ExperimentInitially, ExperimentKept, <1>1, PTL DEF ExperimentSpec

(***************************************************************************)
(* The companion server.  A request counts as open from its arrival to its *)
(* answer; the command may return only without open requests, and none can *)
(* arrive afterwards.                                                      *)
(***************************************************************************)
Handled == {"received", "reading", "read", "calling"}

WellShaped(c) == "at" \in DOMAIN c /\ (c.at \in Handled => DOMAIN c = {"at", "token", "there", "ask"})

ServeInv ==
  /\ calling = [t \in Tabs |-> calling[t]]
  /\ \A t \in Tabs : WellShaped(calling[t])
  /\ bridge.closed => http \in {"failed", "stopped"}
  /\ http \in {"starting", "failed"} => \A t \in Tabs : tab[t] = Closed /\ calling[t] = NoRequest
  /\ http = "stopped" => \A t \in Tabs : ~Open(t)
  /\ DOMAIN bridge = {"refused", "closed"}
  /\ tab = [t \in Tabs |-> tab[t]]
  /\ http \in {"starting", "listening", "closing", "stopped", "failed"}

LEMMA ServeInitially == ServeInit => ServeInv
  BY DEF ServeInit, ServeInv, WellShaped, Handled, NoRequest, Open

LEMMA AnswerEndsRequest ==
  ASSUME NEW t \in Tabs, NEW status
  PROVE  Answered(t, status).at \notin Handled /\ "at" \in DOMAIN Answered(t, status)
  BY DEF Answered, NoRequest, Handled

(* A handler's step changes the one request it works on: it stays well     *)
(* formed, and is open afterwards only if it was before.                   *)
LEMMA HandlerSteps ==
  ASSUME ServeInv, NEW t \in Tabs, Handler(t)
  PROVE  /\ calling' = [calling EXCEPT ![t] = calling'[t]]
         /\ WellShaped(calling'[t])
         /\ calling'[t].at \in Handled => calling[t].at \in Handled /\ calling'[t].there = calling[t].there
         /\ calling[t] # NoRequest
         /\ DOMAIN bridge' = DOMAIN bridge /\ bridge'.closed = bridge.closed
         /\ UNCHANGED <<http, tab>>
<1>1. CASE Route(t)
  <2>1. /\ calling[t].at = "received" /\ UNCHANGED <<http, bridge, tab>>
        /\ \E status : calling' = [calling EXCEPT ![t] = IF calling[t].ask.path = "rpc" /\ status = "200"
                                                         THEN [@ EXCEPT !.at = "reading"]
                                                         ELSE Answered(t, status)]
    BY <1>1 DEF Route
  <2>2. calling'[t] = [calling[t] EXCEPT !.at = "reading"] \/ \E status : calling'[t] = Answered(t, status)
    BY <2>1 DEF ServeInv
  <2>3. DOMAIN calling[t] = {"at", "token", "there", "ask"}
    BY <2>1 DEF ServeInv, WellShaped, Handled
  <2>4. /\ calling' = [calling EXCEPT ![t] = calling'[t]] /\ calling[t] # NoRequest
        /\ calling[t].at \in Handled
    BY <2>1 DEF ServeInv, NoRequest, Handled
  <2>5. CASE calling'[t] = [calling[t] EXCEPT !.at = "reading"]
    BY <2>1, <2>3, <2>4, <2>5 DEF WellShaped
  <2>6. CASE \E status : calling'[t] = Answered(t, status)
    BY <2>1, <2>4, <2>6, AnswerEndsRequest DEF WellShaped
  <2>7. QED
    BY <2>2, <2>5, <2>6
<1>2. CASE ReadBody(t)
  BY <1>2 DEF ReadBody, ServeInv, WellShaped, Handled, NoRequest
<1>3. CASE Dispatch(t)
  <2>1. /\ calling[t].at = "read" /\ UNCHANGED <<http, tab>>
        /\ \E r : bridge' = [bridge EXCEPT !.refused = r]
        /\ \/ calling' = [calling EXCEPT ![t] = [@ EXCEPT !.at = "calling"]]
           \/ calling' = [calling EXCEPT ![t] = Answered(t, "error")]
    BY <1>3 DEF Dispatch
  <2>2. \/ calling'[t] = [calling[t] EXCEPT !.at = "calling"]
        \/ calling'[t] = Answered(t, "error")
    BY <2>1 DEF ServeInv
  <2>3. DOMAIN calling[t] = {"at", "token", "there", "ask"}
    BY <2>1 DEF ServeInv, WellShaped, Handled
  <2>4. /\ calling' = [calling EXCEPT ![t] = calling'[t]] /\ calling[t] # NoRequest
        /\ calling[t].at \in Handled
    BY <2>1 DEF ServeInv, NoRequest, Handled
  <2>5. DOMAIN bridge' = DOMAIN bridge /\ bridge'.closed = bridge.closed
    BY <2>1 DEF ServeInv
  <2>6. CASE calling'[t] = [calling[t] EXCEPT !.at = "calling"]
    BY <2>1, <2>3, <2>4, <2>5, <2>6 DEF WellShaped
  <2>7. CASE calling'[t] = Answered(t, "error")
    BY <2>1, <2>4, <2>5, <2>7, AnswerEndsRequest DEF WellShaped
  <2>8. QED
    BY <2>2, <2>6, <2>7
<1>4. CASE ProviderEnds(t)
  BY <1>4 DEF ProviderEnds, Answered, ServeInv, WellShaped, Handled, NoRequest
<1>5. QED
  BY <1>1, <1>2, <1>3, <1>4 DEF Handler

LEMMA ServeKept == ASSUME ServeInv, [ServeNext]_serveVars PROVE ServeInv'
<1>1. CASE Listen
  BY <1>1 DEF Listen, ServeInv, WellShaped, Open
<1>2. CASE SignalServer
  BY <1>2 DEF SignalServer, ServeInv, WellShaped, Open
<1>3. CASE Return
  BY <1>3 DEF Return, MayReturn, ServeInv, WellShaped, Open
<1>4. ASSUME NEW t \in Tabs, \E linked \in BOOLEAN : OpenPage(t, linked) PROVE ServeInv'
  BY <1>4 DEF OpenPage, ServeInv, WellShaped, Open
<1>5. ASSUME NEW t \in Tabs, Send(t) PROVE ServeInv'
  <2>1. PICK token, ask :
          calling' = [calling EXCEPT ![t] = [at |-> "received", token |-> token, there |-> TRUE, ask |-> ask]]
    BY <1>5 DEF Send
  <2>2. WellShaped(calling'[t])
    BY <2>1 DEF ServeInv, WellShaped
  <2>3. http = "listening" /\ UNCHANGED <<http, bridge, tab>>
    BY <1>5 DEF Send
  <2>4. QED
    BY <2>1, <2>2, <2>3 DEF ServeInv, Open
<1>6. ASSUME NEW t \in Tabs, Leave(t) PROVE ServeInv'
  <2>1. /\ tab[t].page # "none" /\ tab' = [tab EXCEPT ![t] = Closed] /\ UNCHANGED <<http, bridge>>
        /\ \/ calling' = [calling EXCEPT ![t] = NoRequest]
           \/ calling' = [calling EXCEPT ![t] = [@ EXCEPT !.there = FALSE]]
    BY <1>6 DEF Leave
  <2>2. http \notin {"starting", "failed"}
    BY <2>1 DEF ServeInv, Closed
  <2>3. CASE calling' = [calling EXCEPT ![t] = NoRequest]
    BY <2>1, <2>2, <2>3 DEF ServeInv, WellShaped, Open, NoRequest, Handled
  <2>4. CASE calling' = [calling EXCEPT ![t] = [@ EXCEPT !.there = FALSE]]
    <3>1. calling'[t] = [calling[t] EXCEPT !.there = FALSE]
      BY <2>4 DEF ServeInv
    <3>2. "at" \in DOMAIN calling[t] /\ DOMAIN calling'[t] = DOMAIN calling[t]
      BY <3>1 DEF ServeInv, WellShaped
    <3>3. calling'[t].at = calling[t].at
      BY <3>1, <3>2
    <3>4. WellShaped(calling'[t]) /\ (calling'[t].at \in Handled => ~calling'[t].there)
      BY <3>1, <3>2, <3>3 DEF ServeInv, WellShaped
    <3>5. QED
      BY <2>1, <2>2, <2>4, <3>3, <3>4 DEF ServeInv, Open, Handled
  <2>5. QED
    BY <2>1, <2>3, <2>4
<1>7. ASSUME NEW t \in Tabs, ReadAnswer(t) PROVE ServeInv'
  BY <1>7 DEF ReadAnswer, ServeInv, WellShaped, Open, NoRequest, Handled
<1>8. ASSUME NEW t \in Tabs, Handler(t) PROVE ServeInv'
  BY <1>8, HandlerSteps DEF ServeInv, Open, Handled
<1>9. CASE UNCHANGED serveVars
  BY <1>9 DEF serveVars, ServeInv, WellShaped, Open
<1>10. QED
  BY <1>1, <1>2, <1>3, <1>4, <1>5, <1>6, <1>7, <1>8, <1>9 DEF ServeNext

(* The server never returns, nor closes its bridge, under a tab that still *)
(* waits for an answer, for any number of tabs (serve.js).                 *)
THEOREM NobodyCutOff == ServeSpec => []NobodyIsCutOff
<1>1. ServeInv => NobodyIsCutOff
  BY DEF ServeInv, NobodyIsCutOff, Open, NoRequest
<1>2. QED
  BY ServeInitially, ServeKept, <1>1, PTL DEF ServeSpec

-----------------------------------------------------------------------------
(***************************************************************************)
(* The rules of the queue, proved for every set of tasks, callers and      *)
(* limits; and the theorems of the run services, whose behaviours are      *)
(* those of its components.                                                *)
(***************************************************************************)

(***************************************************************************)
(* The queue.  next decides on what it read before its transactions; what  *)
(* makes that safe is that no status it relies on is ever taken back.      *)
(***************************************************************************)
Statuses == {"absent", "queued", "reserved", "running", "produced", "failed"}

QueueTypes ==
  /\ queued = [t \in QueuedTasks |-> queued[t]]
  /\ taskStatus \in [QueuedTasks -> Statuses]
  /\ leased \in SUBSET QueuedTasks /\ IsFiniteSet(leased) /\ named \in SUBSET QueuedTasks
  /\ nextCalls = [c \in Callers |-> nextCalls[c]]
  /\ \A c \in Callers : /\ DOMAIN nextCalls[c] = {"todo", "seen", "chosen", "active"}
                        /\ nextCalls[c].todo \subseteq QueuedTasks
                        /\ nextCalls[c].chosen \subseteq QueuedTasks
                        /\ DOMAIN nextCalls[c].seen = QueuedTasks
  /\ \A t \in QueuedTasks : queued[t].deps \subseteq QueuedTasks
  /\ torn \in BOOLEAN

Produced(t) == \A d \in queued[t].deps : taskStatus[d] = "produced"

(* What was read as produced still is, and what was named or leased waits  *)
(* for nothing any more.                                                   *)
QueueReads ==
  /\ \A c \in Callers : \A d \in QueuedTasks :
       nextCalls[c].seen[d] = "produced" => taskStatus[d] = "produced"
  /\ \A t \in named \cup leased : taskStatus[t] # "absent" /\ Produced(t)
  /\ \A t \in QueuedTasks : taskStatus[t] = "absent" => queued[t] = NoSpec
  /\ Cardinality(leased) <= RunLimit

(* A native task that somebody has chosen is no longer queued.             *)
QueueChosen ==
  /\ \A c \in Callers : \A t \in nextCalls[c].chosen :
       /\ taskStatus[t] # "absent"
       /\ queued[t].adapter # "job" => taskStatus[t] # "queued"
  /\ OneDispatchEach

(* Until a call stops halfway the present tasks wait for present tasks.    *)
QueueClosed ==
  ~torn => /\ \A t \in Present : queued[t].deps \subseteq Present
           /\ NoCircularWait

QueueInv == QueueTypes /\ QueueReads /\ QueueChosen /\ QueueClosed

LEMMA QueueInitially == QueueInit => QueueInv
<1> SUFFICES ASSUME QueueInit PROVE QueueInv
  OBVIOUS
<1>1. QueueTypes
  BY FS_EmptySet DEF QueueInit, QueueTypes, NoCall, NoSpec, Statuses
<1>2. QueueReads
  <2>1. Cardinality(leased) <= RunLimit
    <3>1. leased = {} /\ Cardinality({}) = 0
      BY FS_EmptySet DEF QueueInit
    <3>2. QED
      BY <3>1, RunQueueAssumption DEF RunQueueAssumption
  <2>2. \A c \in Callers : \A d \in QueuedTasks : nextCalls[c].seen[d] # "produced"
    BY DEF QueueInit, NoCall
  <2>3. QED
    BY <2>1, <2>2 DEF QueueInit, QueueReads
<1>3. QueueChosen
  BY DEF QueueInit, QueueChosen, OneDispatchEach, NoCall
<1>4. QueueClosed
  <2>1. Present = {}
    BY DEF QueueInit, Present
  <2>2. NoCircularWait
    BY <2>1 DEF NoCircularWait
  <2>3. QED
    BY <2>1, <2>2 DEF QueueClosed
<1>5. QED
  BY <1>1, <1>2, <1>3, <1>4 DEF QueueInv

(* Steps that add no task keep the shape of the queue.                     *)
LEMMA ClosedKept ==
  ASSUME QueueClosed, UNCHANGED <<queued, torn>>, Present' = Present
  PROVE  QueueClosed'
  BY DEF QueueClosed, NoCircularWait

(* A status moves on: nothing present vanishes, nothing produced is lost.  *)
LEMMA QueueAdds ==
  ASSUME QueueInv, NEW S \in SUBSET QueuedTasks, NEW spec, QueueTasks(S, spec)
  PROVE  QueueInv'
<1>1. PICK added \in (SUBSET (S \ Present)) \ {{}} :
        /\ queued' = [t \in QueuedTasks |-> IF t \in added THEN spec[t] ELSE queued[t]]
        /\ taskStatus' = [t \in QueuedTasks |-> IF t \in added THEN "queued" ELSE taskStatus[t]]
        /\ torn' = (torn \/ added # S \ Present)
  BY DEF QueueTasks
<1>2. UNCHANGED <<leased, nextCalls, named>>
  BY DEF QueueTasks
<1>3. \A t \in QueuedTasks : taskStatus[t] # "absent" =>
        queued'[t] = queued[t] /\ taskStatus'[t] = taskStatus[t]
  BY <1>1 DEF Present
<1>4. Present' = Present \cup added
  BY <1>1 DEF Present
<1>5. \A t \in added : spec[t].deps \subseteq S \cup Present /\ added \subseteq S
  BY <1>1 DEF QueueTasks
<1>6. QueueTypes'
  BY <1>1, <1>2, <1>5 DEF QueueInv, QueueTypes, Statuses, Present
<1>7. QueueReads'
  <2>1. \A c \in Callers : \A d \in QueuedTasks :
          nextCalls'[c].seen[d] = "produced" => taskStatus'[d] = "produced"
    BY <1>2, <1>3 DEF QueueInv, QueueReads
  <2>2. ASSUME NEW t \in named' \cup leased' PROVE taskStatus'[t] # "absent" /\ Produced(t)'
    <3>1. t \in QueuedTasks /\ taskStatus[t] # "absent" /\ Produced(t)
      BY <1>2 DEF QueueInv, QueueTypes, QueueReads
    <3>2. queued'[t] = queued[t] /\ taskStatus'[t] = taskStatus[t]
      BY <3>1, <1>3
    <3>3. \A d \in queued[t].deps : d \in QueuedTasks /\ taskStatus[d] = "produced"
      BY <3>1 DEF QueueInv, QueueTypes, Produced
    <3>4. QED
      BY <3>1, <3>2, <3>3, <1>3 DEF Produced
  <2>3. \A t \in QueuedTasks : taskStatus'[t] = "absent" => queued'[t] = NoSpec
    BY <1>1 DEF QueueInv, QueueReads
  <2>4. QED
    BY <2>1, <2>2, <2>3, <1>2 DEF QueueInv, QueueReads
<1>8. QueueChosen'
  <2>1. \A c \in Callers : \A t \in nextCalls[c].chosen : t \in QueuedTasks /\ taskStatus[t] # "absent"
    BY DEF QueueInv, QueueTypes, QueueChosen
  <2>2. QED
    BY <2>1, <1>2, <1>3 DEF QueueInv, QueueChosen, OneDispatchEach
<1>9. QueueClosed'
  <2> SUFFICES ASSUME ~torn' PROVE /\ \A t \in Present' : queued'[t].deps \subseteq Present'
                                  /\ NoCircularWait'
    BY DEF QueueClosed
  <2>1. ~torn /\ added = S \ Present /\ Present' = Present \cup S
    BY <1>1, <1>4 DEF QueueInv, QueueTypes
  <2>2. \A t \in Present : queued'[t].deps = queued[t].deps /\ queued[t].deps \subseteq Present
    BY <2>1, <1>3 DEF QueueInv, QueueClosed, Present
  <2>3. \A t \in added : queued'[t] = spec[t] /\ spec[t].deps \subseteq S \cup Present
    BY <1>1, <1>5
  <2>4. ASSUME NEW circle \in (SUBSET Present') \ {{}}
        PROVE  \E t \in circle : queued'[t].deps \cap circle = {}
    <3>1. CASE circle \cap Present = {}
      <4>1. circle \in (SUBSET S) \ {{}} /\ circle \subseteq added
        BY <3>1, <2>1
      <4>2. PICK t \in circle : spec[t].deps \cap circle = {}
        BY <4>1 DEF QueueTasks, NoCycle
      <4>3. QED
        BY <4>1, <4>2, <2>3
    <3>2. CASE circle \cap Present # {}
      <4>1. PICK t \in circle \cap Present : queued[t].deps \cap (circle \cap Present) = {}
        BY <3>2, <2>1 DEF QueueInv, QueueClosed, NoCircularWait
      <4>2. QED
        BY <4>1, <2>2
    <3>3. QED
      BY <3>1, <3>2
  <2>5. QED
    BY <2>1, <2>2, <2>3, <2>4, <1>4 DEF NoCircularWait
<1>10. QED
  BY <1>6, <1>7, <1>8, <1>9 DEF QueueInv

(* Steps that add no task change statuses only forwards.                   *)
LEMMA QueueMoves ==
  ASSUME QueueInv, UNCHANGED <<queued, torn>>, NEW t \in QueuedTasks, taskStatus[t] # "absent",
         NEW s \in Statuses \ {"absent", "queued"}, taskStatus[t] # "produced",
         taskStatus' \in {taskStatus, [taskStatus EXCEPT ![t] = s]}
  PROVE  /\ taskStatus' \in [QueuedTasks -> Statuses]
         /\ \A d \in QueuedTasks : taskStatus[d] = "produced" => taskStatus'[d] = "produced"
         /\ \A d \in QueuedTasks : (taskStatus'[d] = "absent") <=> (taskStatus[d] = "absent")
         /\ \A d \in QueuedTasks : taskStatus'[d] = "queued" => taskStatus[d] = "queued"
         /\ \A d \in QueuedTasks : Produced(d) => Produced(d)'
         /\ QueueClosed'
<1>1. /\ taskStatus' \in [QueuedTasks -> Statuses]
      /\ \A d \in QueuedTasks : taskStatus[d] = "produced" => taskStatus'[d] = "produced"
      /\ \A d \in QueuedTasks : (taskStatus'[d] = "absent") <=> (taskStatus[d] = "absent")
      /\ \A d \in QueuedTasks : taskStatus'[d] = "queued" => taskStatus[d] = "queued"
  BY DEF QueueInv, QueueTypes, Statuses
<1>2. \A d \in QueuedTasks : Produced(d) => Produced(d)'
  BY <1>1 DEF QueueInv, QueueTypes, Produced
<1>3. QueueClosed'
  <2>1. Present' = Present
    BY <1>1 DEF Present
  <2>2. QED
    BY <2>1, ClosedKept DEF QueueInv
<1>4. QED
  BY <1>1, <1>2, <1>3

(* Calls that are not touched keep what they have read and chosen.         *)
LEMMA CallsKept ==
  ASSUME QueueInv, UNCHANGED <<queued, nextCalls, torn>>,
         taskStatus' \in [QueuedTasks -> Statuses],
         \A d \in QueuedTasks : taskStatus[d] = "produced" => taskStatus'[d] = "produced",
         \A d \in QueuedTasks : (taskStatus'[d] = "absent") <=> (taskStatus[d] = "absent"),
         \A d \in QueuedTasks : taskStatus'[d] = "queued" => taskStatus[d] = "queued",
         leased' \in SUBSET QueuedTasks, IsFiniteSet(leased'), Cardinality(leased') <= RunLimit,
         named' \in SUBSET QueuedTasks,
         \A u \in named' \cup leased' : taskStatus'[u] # "absent" /\ Produced(u)'
  PROVE  QueueTypes' /\ QueueReads' /\ QueueChosen'
<1>1. QueueTypes'
  BY DEF QueueInv, QueueTypes
<1>2. QueueReads'
  BY DEF QueueInv, QueueTypes, QueueReads
<1>3. OneDispatchEach'
  BY DEF QueueInv, QueueChosen, OneDispatchEach
<1>4. QueueChosen'
  BY <1>3 DEF QueueInv, QueueTypes, QueueChosen
<1>5. QED
  BY <1>1, <1>2, <1>4

(* A reservation adds one lease, of a task that waits for nothing.         *)
LEMMA QueueReserves ==
  ASSUME QueueInv, UNCHANGED <<queued, torn>>, NEW t \in QueuedTasks, ReserveQueued(t),
         taskStatus[t] = "queued", Produced(t), Cardinality(leased) < RunLimit
  PROVE  /\ leased' \in SUBSET QueuedTasks /\ IsFiniteSet(leased') /\ Cardinality(leased') <= RunLimit
         /\ \A u \in leased' : taskStatus'[u] # "absent" /\ Produced(u)'
         /\ taskStatus'[t] = "reserved"
<1>1. taskStatus' = [taskStatus EXCEPT ![t] = "reserved"] /\ leased' = leased \cup {t}
  BY DEF ReserveQueued
<1>2. "reserved" \in Statuses \ {"absent", "queued"}
  BY DEF Statuses
<1>3. /\ \A d \in QueuedTasks : (taskStatus'[d] = "absent") <=> (taskStatus[d] = "absent")
      /\ \A d \in QueuedTasks : Produced(d) => Produced(d)'
  BY <1>1, <1>2, QueueMoves
<1>4. IsFiniteSet(leased') /\ Cardinality(leased') <= Cardinality(leased) + 1
  <2>1. IsFiniteSet(leased)
    BY DEF QueueInv, QueueTypes
  <2>2. Cardinality(leased) \in Nat
    BY <2>1, FS_CardinalityType
  <2>3. /\ IsFiniteSet(leased \cup {t})
        /\ Cardinality(leased \cup {t}) = IF t \in leased THEN Cardinality(leased) ELSE Cardinality(leased) + 1
    BY <2>1, FS_AddElement
  <2>4. QED
    BY <1>1, <2>2, <2>3
<1>5. Cardinality(leased) \in Nat /\ Cardinality(leased') \in Nat
  BY <1>4, FS_CardinalityType DEF QueueInv, QueueTypes
<1>6. Cardinality(leased') <= RunLimit
  BY <1>4, <1>5, RunQueueAssumption DEF RunQueueAssumption
<1>7. QED
  BY <1>1, <1>3, <1>4, <1>6 DEF QueueInv, QueueTypes, QueueReads

(* A call's record changes to one with no more chosen than its own and t.  *)
LEMMA QueueTurn ==
  ASSUME QueueInv, NEW c \in Callers, NEW t \in QueuedTasks, NextTakes(c, t)
  PROVE  QueueInv'
<1>1. /\ nextCalls[c].active /\ UNCHANGED <<queued, torn>>
      /\ t \in nextCalls[c].todo
  BY DEF NextTakes
<1>2. \E r : /\ nextCalls' = [nextCalls EXCEPT ![c] = r]
             /\ DOMAIN r = {"todo", "seen", "chosen", "active"}
             /\ r.todo \subseteq QueuedTasks /\ r.seen = nextCalls[c].seen
             /\ \/ r.chosen = nextCalls[c].chosen /\ UNCHANGED <<taskStatus, leased, named>>
                \/ /\ r.chosen = nextCalls[c].chosen \cup {t} /\ Ready(c, t)
                   /\ \/ queued[t].adapter = "job" /\ named' = named \cup {t} /\ UNCHANGED <<taskStatus, leased>>
                      \/ queued[t].adapter # "job" /\ Fresh(t) /\ Room(c) /\ ReserveQueued(t) /\ UNCHANGED named
  <2>1. DOMAIN nextCalls[c] = {"todo", "seen", "chosen", "active"} /\ nextCalls[c].todo \subseteq QueuedTasks
    BY DEF QueueInv, QueueTypes
  <2> DEFINE rest == [nextCalls[c] EXCEPT !.todo = @ \ {t}]
             more == [rest EXCEPT !.chosen = @ \cup {t}]
  <2>2. /\ DOMAIN rest = {"todo", "seen", "chosen", "active"} /\ rest.todo \subseteq QueuedTasks
        /\ rest.seen = nextCalls[c].seen /\ rest.chosen = nextCalls[c].chosen
    BY <2>1
  <2>3. /\ DOMAIN more = {"todo", "seen", "chosen", "active"} /\ more.todo \subseteq QueuedTasks
        /\ more.seen = nextCalls[c].seen /\ more.chosen = nextCalls[c].chosen \cup {t}
    BY <2>2
  <2>4. \/ nextCalls' = [nextCalls EXCEPT ![c] = rest] /\ UNCHANGED <<taskStatus, leased, named>>
        \/ /\ nextCalls' = [nextCalls EXCEPT ![c] = more] /\ Ready(c, t)
           /\ \/ queued[t].adapter = "job" /\ named' = named \cup {t} /\ UNCHANGED <<taskStatus, leased>>
              \/ queued[t].adapter # "job" /\ Fresh(t) /\ Room(c) /\ ReserveQueued(t) /\ UNCHANGED named
    BY DEF NextTakes
  <2> HIDE DEF rest, more
  <2>5. QED
    BY <2>2, <2>3, <2>4
<1>3. PICK r : /\ nextCalls' = [nextCalls EXCEPT ![c] = r]
               /\ DOMAIN r = {"todo", "seen", "chosen", "active"}
               /\ r.todo \subseteq QueuedTasks /\ r.seen = nextCalls[c].seen
               /\ \/ r.chosen = nextCalls[c].chosen /\ UNCHANGED <<taskStatus, leased, named>>
                  \/ /\ r.chosen = nextCalls[c].chosen \cup {t} /\ Ready(c, t)
                     /\ \/ queued[t].adapter = "job" /\ named' = named \cup {t} /\ UNCHANGED <<taskStatus, leased>>
                        \/ queued[t].adapter # "job" /\ Fresh(t) /\ Room(c) /\ ReserveQueued(t) /\ UNCHANGED named
  BY <1>2
<1>4. r.chosen \subseteq QueuedTasks
  BY <1>3 DEF QueueInv, QueueTypes
<1>5. nextCalls'[c] = r /\ \A d \in Callers \ {c} : nextCalls'[d] = nextCalls[d]
  BY <1>3 DEF QueueInv, QueueTypes
<1>6. \A d \in Callers : nextCalls'[d].seen = nextCalls[d].seen
  BY <1>3, <1>5
<1>7. nextCalls' = [d \in Callers |-> nextCalls'[d]]
  BY <1>3 DEF QueueInv, QueueTypes
<1>8. Ready(c, t) => Produced(t)
  BY <1>1 DEF Ready, DependencyDone, Produced, QueueInv, QueueTypes, QueueReads
<1>9. CASE r.chosen = nextCalls[c].chosen /\ UNCHANGED <<taskStatus, leased, named>>
  <2>1. \A d \in Callers : nextCalls'[d].chosen = nextCalls[d].chosen
    BY <1>5, <1>9
  <2>2. QueueTypes'
    BY <1>1, <1>3, <1>4, <1>5, <1>6, <1>7, <1>9 DEF QueueInv, QueueTypes
  <2>3. QueueReads'
    BY <1>1, <1>6, <1>9 DEF QueueInv, QueueReads, Produced
  <2>4. QueueChosen'
    BY <1>1, <2>1, <1>9 DEF QueueInv, QueueChosen, OneDispatchEach
  <2>5. QueueClosed'
    BY <1>1, <1>9, ClosedKept DEF QueueInv, Present
  <2>6. QED
    BY <2>2, <2>3, <2>4, <2>5 DEF QueueInv
<1>10. CASE /\ r.chosen = nextCalls[c].chosen \cup {t} /\ Ready(c, t)
            /\ queued[t].adapter = "job" /\ named' = named \cup {t} /\ UNCHANGED <<taskStatus, leased>>
  <2>1. taskStatus[t] # "absent" /\ Produced(t)
    BY <1>8, <1>10 DEF QueueInv, QueueReads, NoSpec
  <2>2. QueueTypes'
    BY <1>1, <1>3, <1>4, <1>5, <1>6, <1>7, <1>10 DEF QueueInv, QueueTypes
  <2>3. QueueReads'
    BY <1>1, <1>6, <1>10, <2>1 DEF QueueInv, QueueReads, Produced
  <2>4. \A d \in Callers : nextCalls'[d].chosen \subseteq nextCalls[d].chosen \cup {t}
    BY <1>5, <1>10
  <2>5. QueueChosen'
    BY <1>1, <2>1, <2>4, <1>10 DEF QueueInv, QueueChosen, OneDispatchEach
  <2>6. QueueClosed'
    BY <1>1, <1>10, ClosedKept DEF QueueInv, Present
  <2>7. QED
    BY <2>2, <2>3, <2>5, <2>6 DEF QueueInv
<1>11. CASE /\ r.chosen = nextCalls[c].chosen \cup {t} /\ Ready(c, t)
            /\ queued[t].adapter # "job" /\ Fresh(t) /\ Room(c) /\ ReserveQueued(t) /\ UNCHANGED named
  <2>1. taskStatus[t] = "queued" /\ Produced(t) /\ Cardinality(leased) < RunLimit
    BY <1>8, <1>11 DEF Fresh, Room
  <2>2. /\ leased' \in SUBSET QueuedTasks /\ IsFiniteSet(leased') /\ Cardinality(leased') <= RunLimit
        /\ \A u \in leased' : taskStatus'[u] # "absent" /\ Produced(u)'
        /\ taskStatus'[t] = "reserved"
    BY <1>1, <1>11, <2>1, QueueReserves
  <2>3. /\ taskStatus' \in [QueuedTasks -> Statuses]
        /\ \A d \in QueuedTasks : taskStatus[d] = "produced" => taskStatus'[d] = "produced"
        /\ \A d \in QueuedTasks : (taskStatus'[d] = "absent") <=> (taskStatus[d] = "absent")
        /\ \A d \in QueuedTasks : taskStatus'[d] = "queued" => taskStatus[d] = "queued"
        /\ \A d \in QueuedTasks : Produced(d) => Produced(d)'
        /\ QueueClosed'
    BY <1>1, <1>11, <2>1, QueueMoves DEF ReserveQueued, Statuses
  <2>4. QueueTypes'
    BY <1>1, <1>3, <1>4, <1>5, <1>6, <1>7, <1>11, <2>2, <2>3 DEF QueueInv, QueueTypes
  <2>5. QueueReads'
    BY <1>1, <1>6, <1>11, <2>2, <2>3 DEF QueueInv, QueueTypes, QueueReads
  <2>6. \A d \in Callers : \A u \in nextCalls[d].chosen :
          u \in QueuedTasks /\ taskStatus[u] # "absent" /\ (queued[u].adapter # "job" => u # t)
    BY <2>1 DEF QueueInv, QueueTypes, QueueChosen
  <2>7. /\ \A d \in Callers : \A u \in nextCalls'[d].chosen : u = t \/ u \in nextCalls[d].chosen
        /\ \A d \in Callers \ {c} : nextCalls'[d].chosen = nextCalls[d].chosen
    BY <1>5, <1>11
  <2>8. QueueChosen'
    <3>1. OneDispatchEach
      BY DEF QueueInv, QueueChosen
    <3>2. OneDispatchEach'
      <4> SUFFICES ASSUME NEW a \in Callers, NEW b \in Callers, a # b,
                          NEW u \in nextCalls'[a].chosen \cap nextCalls'[b].chosen
                   PROVE  queued'[u].adapter = "job"
        BY DEF OneDispatchEach
      <4>1. \A d \in Callers : t \notin nextCalls[d].chosen
        BY <1>11, <2>6
      <4>2. u # t
        BY <2>7, <4>1
      <4>3. u \in nextCalls[a].chosen \cap nextCalls[b].chosen
        BY <2>7, <4>2
      <4>4. QED
        BY <1>1, <3>1, <4>3 DEF OneDispatchEach
    <3>3. ASSUME NEW d \in Callers, NEW u \in nextCalls'[d].chosen
          PROVE  taskStatus'[u] # "absent" /\ (queued'[u].adapter # "job" => taskStatus'[u] # "queued")
      <4>1. CASE u = t
        BY <4>1, <2>2
      <4>2. CASE u # t
        <5>1. u \in nextCalls[d].chosen /\ u \in QueuedTasks
          BY <4>2, <2>6, <2>7, <3>3
        <5>2. taskStatus[u] # "absent" /\ (queued[u].adapter # "job" => taskStatus[u] # "queued")
          BY <5>1 DEF QueueInv, QueueChosen
        <5>3. QED
          BY <1>1, <2>3, <5>1, <5>2
      <4>3. QED
        BY <4>1, <4>2
    <3>4. QED
      BY <3>2, <3>3 DEF QueueChosen
  <2>9. QED
    BY <2>3, <2>4, <2>5, <2>8 DEF QueueInv
<1>12. QED
  BY <1>3, <1>9, <1>10, <1>11

LEMMA QueueKept == ASSUME QueueInv, [QueueNext]_queueVars PROVE QueueInv'
<1>1. ASSUME NEW S \in SUBSET QueuedTasks, NEW spec, QueueTasks(S, spec) PROVE QueueInv'
  BY <1>1, QueueAdds
<1>2. ASSUME NEW c \in Callers, NextReads(c) \/ NextReturns(c) PROVE QueueInv'
  <2>1. /\ UNCHANGED <<queued, taskStatus, leased, named, torn>>
        /\ nextCalls' \in
             {[nextCalls EXCEPT ![c] = [todo |-> {t \in QueuedTasks : taskStatus[t] = "queued"},
                                        seen |-> taskStatus, chosen |-> {}, active |-> TRUE]],
              [nextCalls EXCEPT ![c] = NoCall]}
    BY <1>2 DEF NextReads, NextReturns
  <2>2. PICK r \in {[todo |-> {t \in QueuedTasks : taskStatus[t] = "queued"},
                     seen |-> taskStatus, chosen |-> {}, active |-> TRUE], NoCall} :
               nextCalls' = [nextCalls EXCEPT ![c] = r]
    BY <2>1
  <2>3. /\ DOMAIN r = {"todo", "seen", "chosen", "active"} /\ r.todo \subseteq QueuedTasks
        /\ r.chosen = {} /\ DOMAIN r.seen = QueuedTasks
        /\ \A d \in QueuedTasks : r.seen[d] = "produced" => taskStatus[d] = "produced"
    BY <2>2 DEF NoCall, QueueInv, QueueTypes
  <2>4. nextCalls'[c] = r /\ \A d \in Callers \ {c} : nextCalls'[d] = nextCalls[d]
    BY <2>2 DEF QueueInv, QueueTypes
  <2>5. QueueTypes'
    BY <2>1, <2>2, <2>3, <2>4 DEF QueueInv, QueueTypes
  <2>6. QueueReads'
    BY <2>1, <2>3, <2>4 DEF QueueInv, QueueReads, Produced
  <2>7. QueueChosen'
    BY <2>1, <2>3, <2>4 DEF QueueInv, QueueChosen, OneDispatchEach
  <2>8. QueueClosed'
    BY <2>1, ClosedKept DEF QueueInv, Present
  <2>9. QED
    BY <2>5, <2>6, <2>7, <2>8 DEF QueueInv
<1>3. ASSUME NEW c \in Callers, NEW t \in QueuedTasks, NextTakes(c, t) PROVE QueueInv'
  BY <1>3, QueueTurn
<1>4. ASSUME NEW t \in QueuedTasks, AdapterStarts(t) PROVE QueueInv'
  <2>1. /\ t \in named /\ taskStatus[t] = "queued" /\ Cardinality(leased) < RunLimit
        /\ ReserveQueued(t) /\ UNCHANGED <<queued, nextCalls, named, torn>> /\ Produced(t)
    BY <1>4 DEF AdapterStarts, QueueInv, QueueReads
  <2>2. /\ leased' \in SUBSET QueuedTasks /\ IsFiniteSet(leased') /\ Cardinality(leased') <= RunLimit
        /\ \A u \in leased' : taskStatus'[u] # "absent" /\ Produced(u)'
    BY <2>1, QueueReserves
  <2>3. /\ taskStatus' \in [QueuedTasks -> Statuses]
        /\ \A d \in QueuedTasks : taskStatus[d] = "produced" => taskStatus'[d] = "produced"
        /\ \A d \in QueuedTasks : (taskStatus'[d] = "absent") <=> (taskStatus[d] = "absent")
        /\ \A d \in QueuedTasks : taskStatus'[d] = "queued" => taskStatus[d] = "queued"
        /\ \A d \in QueuedTasks : Produced(d) => Produced(d)'
        /\ QueueClosed'
    BY <2>1, QueueMoves DEF ReserveQueued, Statuses
  <2>4. \A u \in named : u \in QueuedTasks /\ taskStatus[u] # "absent" /\ Produced(u)
    BY DEF QueueInv, QueueTypes, QueueReads
  <2>5. QED
    BY <2>1, <2>2, <2>3, <2>4, CallsKept DEF QueueInv, QueueTypes
<1>5. ASSUME NEW t \in QueuedTasks, Launched(t) \/ Reported(t) PROVE QueueInv'
  <2>1. /\ taskStatus[t] \in {"reserved", "running"} /\ UNCHANGED <<queued, leased, nextCalls, named, torn>>
        /\ \E s \in {"running", "produced", "failed"} : taskStatus' = [taskStatus EXCEPT ![t] = s]
    BY <1>5 DEF Launched, Reported
  <2>2. PICK s \in {"running", "produced", "failed"} : taskStatus' = [taskStatus EXCEPT ![t] = s]
    BY <2>1
  <2>3. /\ taskStatus' \in [QueuedTasks -> Statuses]
        /\ \A d \in QueuedTasks : taskStatus[d] = "produced" => taskStatus'[d] = "produced"
        /\ \A d \in QueuedTasks : (taskStatus'[d] = "absent") <=> (taskStatus[d] = "absent")
        /\ \A d \in QueuedTasks : taskStatus'[d] = "queued" => taskStatus[d] = "queued"
        /\ \A d \in QueuedTasks : Produced(d) => Produced(d)'
        /\ QueueClosed'
    BY <2>1, <2>2, QueueMoves DEF Statuses
  <2>4. \A u \in named \cup leased : u \in QueuedTasks /\ taskStatus[u] # "absent" /\ Produced(u)
    BY DEF QueueInv, QueueTypes, QueueReads
  <2>5. QED
    BY <2>1, <2>3, <2>4, CallsKept DEF QueueInv, QueueTypes, QueueReads
<1>6. ASSUME NEW t \in QueuedTasks, QueueReleased(t) PROVE QueueInv'
  <2>1. /\ t \in leased /\ leased' = leased \ {t}
        /\ UNCHANGED <<queued, taskStatus, nextCalls, named, torn>>
    BY <1>6 DEF QueueReleased
  <2>2. IsFiniteSet(leased) /\ Cardinality(leased) \in Nat /\ Cardinality(leased) <= RunLimit
    BY FS_CardinalityType DEF QueueInv, QueueTypes, QueueReads
  <2>3. IsFiniteSet(leased') /\ Cardinality(leased') = Cardinality(leased) - 1
    BY <2>1, <2>2, FS_RemoveElement
  <2>4. Cardinality(leased') <= RunLimit
    BY <2>2, <2>3, RunQueueAssumption DEF RunQueueAssumption
  <2>5. QueueClosed'
    BY <2>1, ClosedKept DEF QueueInv, Present
  <2>6. \A u \in QueuedTasks : Produced(u) => Produced(u)'
    BY <2>1 DEF Produced
  <2>7. \A u \in named \cup leased : u \in QueuedTasks /\ taskStatus[u] # "absent" /\ Produced(u)
    BY DEF QueueInv, QueueTypes, QueueReads
  <2>8. QueueTypes' /\ QueueReads' /\ QueueChosen'
    BY <2>1, <2>3, <2>4, <2>6, <2>7, CallsKept DEF QueueInv, QueueTypes
  <2>9. QED
    BY <2>5, <2>8 DEF QueueInv
<1>7. CASE UNCHANGED queueVars
  <2>1. QueueClosed'
    BY <1>7, ClosedKept DEF queueVars, QueueInv, Present
  <2>2. QueueTypes'
    BY <1>7 DEF queueVars, QueueInv, QueueTypes
  <2>3. QueueReads'
    BY <1>7 DEF queueVars, QueueInv, QueueReads, Produced
  <2>4. QueueChosen'
    BY <1>7 DEF queueVars, QueueInv, QueueChosen, OneDispatchEach
  <2>5. QED
    BY <2>1, <2>2, <2>3, <2>4 DEF QueueInv
<1>8. QED
  BY <1>1, <1>2, <1>3, <1>4, <1>5, <1>6, <1>7 DEF QueueNext, CallStep, QueuedTaskStep

(* Dependencies are delivered first, the run's limit holds, each native    *)
(* task has one dispatcher, and tasks wait in a circle only after a queue  *)
(* call that stopped halfway: for any number of callers and tasks, however *)
(* old what they read is (run-cli.js).                                     *)
THEOREM QueueRules == QueueSpec => []QueueRulesHold
<1>1. QueueInv => QueueRulesHold
  BY DEF QueueInv, QueueTypes, QueueReads, QueueChosen, QueueClosed, Produced,
      QueueRulesHold,
     DependenciesDelivered, RunLimitHolds, CirclesNeedATear
<1>2. QED
  BY QueueInitially, QueueKept, <1>1, PTL DEF QueueSpec

(***************************************************************************)
(* The run services: each step of a behaviour is a step of one component   *)
(* that leaves the others alone, so each invariant is kept.                *)
(***************************************************************************)
ServicesInv == JobInv /\ NativeInv /\ ExperimentInv /\ ServeInv /\ QueueInv

(* A step of the services is, for each component, a step of its own or     *)
(* one that leaves it alone.                                               *)
LEMMA EachComponentSteps ==
  ASSUME [UnionNext]_unionVars
  PROVE  /\ [JobNext]_jobVars /\ [NativeNext]_nativeVars /\ [ExperimentNext]_experimentVars
         /\ [ServeNext]_serveVars /\ [QueueNext]_queueVars
  BY DEF UnionNext, unionVars

LEMMA ServicesKept == ServicesInv /\ [UnionNext]_unionVars => ServicesInv'
<1>1. SUFFICES ASSUME ServicesInv, [UnionNext]_unionVars PROVE ServicesInv'
  OBVIOUS
<1>2. /\ [JobNext]_jobVars /\ [NativeNext]_nativeVars /\ [ExperimentNext]_experimentVars
      /\ [ServeNext]_serveVars /\ [QueueNext]_queueVars
  BY <1>1, EachComponentSteps
<1>3. JobInv' /\ NativeInv'
  BY <1>1, <1>2, JobKept, NativeKept DEF ServicesInv
<1>4. ExperimentInv' /\ ServeInv' /\ QueueInv'
  BY <1>1, <1>2, ExperimentKept, ServeKept, QueueKept DEF ServicesInv
<1>5. QED
  BY <1>3, <1>4 DEF ServicesInv

LEMMA ServicesInvariant == UnionSpec => []ServicesInv
<1>1. UnionInit => ServicesInv
  BY JobInitially, NativeInitially, ExperimentInitially, ServeInitially, QueueInitially
  DEF UnionInit, ServicesInv
<1>2. QED
  BY <1>1, ServicesKept, PTL DEF UnionSpec

(* The canceller compares the owner of the id with the one it bound and    *)
(* signals only that one, so a stranger that took the id over lives.       *)
LEMMA OnlyTheBoundIsSignalled ==
  ASSUME JobNext, jobCanceller = "signal", jobCanceller' = "release",
         jobLease.bound = "job", pidHolder = "stranger"
  PROVE  pidHolder' = pidHolder
<1>1. CASE SignalBackend
  BY <1>1 DEF SignalBackend
<1>2. CASE BeginCancel \/ MarkJobCancel \/ AskUpstream \/ JobCancelReleases \/ ResumeJob
  BY <1>2 DEF BeginCancel, MarkJobCancel, AskUpstream, JobCancelReleases, ResumeJob
<1>3. CASE JobStarts \/ JobReports \/ ProcessEnds \/ PidReused \/ StrangerEnds
  BY <1>3 DEF JobStarts, JobReports, ProcessEnds, PidReused, StrangerEnds
<1>4. CASE ClaimLaunch \/ PreflightFails \/ CommandFails \/ StartJob \/ PollJob
  BY <1>4 DEF ClaimLaunch, PreflightFails, CommandFails, StartJob, PollJob
<1>5. CASE JobSupervisorReleases \/ JobSupervisorDies
  BY <1>5 DEF JobSupervisorReleases, JobSupervisorDies
<1>6. QED
  BY <1>1, <1>2, <1>3, <1>4, <1>5 DEF JobNext

(* In every behaviour of the services, for every number of children, tabs  *)
(* and iterations, a slot is given back only when what held it has stopped *)
(* (adapters/companion.js, native-host.js, autoresearch/session.js).       *)
THEOREM ServicesReleaseWhatStopped == UnionSpec => []ReleasedMeansStopped
<1>1. ServicesInv => ReleasedMeansStopped
  BY DEF ServicesInv, JobInv, JobNotStarted, JobProcess, NativeInv, NativeLaunch, NativeSettling,
     ExperimentInv, ExperimentLaunch, ReleasedMeansStopped, ReleasedJobStopped,
     ReleasedAgentStopped, ReleasedPiStopped
<1>2. QED
  BY ServicesInvariant, <1>1, PTL

(* In every behaviour of the services no tab is cut off while it waits     *)
(* for an answer (serve.js).                                               *)
THEOREM ServicesCutNobodyOff == UnionSpec => []NobodyIsCutOff
<1>1. ServicesInv => NobodyIsCutOff
  BY DEF ServicesInv, ServeInv, NobodyIsCutOff, Open, NoRequest
<1>2. QED
  BY ServicesInvariant, <1>1, PTL

(* In every behaviour of the services the rules of the queue hold          *)
(* (run-cli.js).                                                           *)
THEOREM ServicesKeepQueueRules == UnionSpec => []QueueRulesHold
<1>1. ServicesInv => QueueRulesHold
  BY DEF ServicesInv, QueueInv, QueueTypes, QueueReads, QueueChosen, QueueClosed, Produced,
     QueueRulesHold, DependenciesDelivered, RunLimitHolds, CirclesNeedATear
<1>2. QED
  BY ServicesInvariant, <1>1, PTL

(* In every behaviour of the services a produced result was earned, what   *)
(* was settled stays settled, and no process that merely took over an id   *)
(* is signalled for a bound job (adapters/companion.js, native-host.js,    *)
(* autoresearch/session.js).                                               *)
THEOREM ServicesEarnTheirResults == UnionSpec => ResultsAreEarned
<1>1. ServicesInv => ProducedHasContent /\ ProducedIsProtected /\ SettledStaysSettled
  BY DEF ServicesInv, JobInv, JobEarned, NativeInv, NativeLaunch, NativeSettling, ExperimentInv,
     ExperimentOutcome, ProducedHasContent, ProducedIsProtected, SettledStaysSettled
<1>2. [UnionNext]_unionVars =>
        [jobCanceller = "signal" /\ jobCanceller' = "release" /\ jobLease.bound = "job"
           /\ pidHolder = "stranger" => pidHolder' = pidHolder]_jobVars
  BY EachComponentSteps, OnlyTheBoundIsSignalled DEF jobVars
<1>3. QED
  BY ServicesInvariant, <1>1, <1>2, PTL DEF UnionSpec, ResultsAreEarned, StrangersAreSpared

=============================================================================
