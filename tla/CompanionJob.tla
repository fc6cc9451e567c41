----------------------------- MODULE CompanionJob -----------------------------
(***************************************************************************)
(* src/adapters/companion.js on Linux: one attempt of a task is run as a   *)
(* background job of an external companion.  A detached supervisor claims  *)
(* the lease, starts the job, polls it, binds its process when it sees     *)
(* one, reports its result and releases the lease; a user may cancel or    *)
(* reconcile meanwhile.  The companion owns the job: its status and its    *)
(* process may end in either order, and process ids are reused.            *)
(***************************************************************************)
EXTENDS Naturals

VARIABLES
  jobLease,      \* the ledger's view: status, launch state, cancellation, what is bound
  jobTask,       \* task.status, task.result and whether the job's id is recorded
  job,        \* the companion's job: status, content, process, group leader or not
  pidHolder,  \* who has the job's process id now
  jobSupervisor, \* the worker: where it is in superviseCompanion
  jobCanceller   \* a cancelCompanion in progress

jobVars == <<jobLease, jobTask, job, pidHolder, jobSupervisor, jobCanceller>>

JobInit ==
  /\ jobLease = [status |-> "reserved", launch |-> "permission_issued", cancel |-> FALSE,
              bound |-> "none", group |-> FALSE]
  /\ jobTask = [status |-> "reserved", jobKnown |-> FALSE, result |-> "failed"]
  /\ job = [status |-> "none", content |-> FALSE, process |-> "none", leader |-> FALSE]
  /\ pidHolder = "nobody"
  /\ jobSupervisor = "spawned"
  /\ jobCanceller = "idle"

Active == jobLease.status # "released"
JobEnded == job.status \in {"completed", "failed", "cancelled"}

(* Mutant: what the companion says is taken for the end of the process.    *)
UpstreamSaysSo ==
  \/ jobLease.launch = "confirmed_not_started"
  \/ jobLease.bound # "none" /\ JobEnded

(* backendStopped: only the recorded process and its group are evidence.   *)
JobStopped ==
  IF jobLease.bound = "none" THEN jobLease.launch = "confirmed_not_started"
  ELSE jobLease.group /\ pidHolder # jobLease.bound

JobReleased(l) == [l EXCEPT !.status = "released"]
AfterRelease == IF jobLease.cancel THEN "cancelled" ELSE jobTask.result  \* "failed" when there is none

TryRelease ==
  IF Active /\ JobStopped
  THEN jobLease' = JobReleased(jobLease) /\ jobTask' = [jobTask EXCEPT !.status = AfterRelease]
  ELSE UNCHANGED <<jobLease, jobTask>>

(***************************************************************************)
(* The companion and the operating system.                                 *)
(***************************************************************************)
JobStarts ==
  /\ job.status = "queued"
  /\ \E leader \in BOOLEAN :
       job' = [job EXCEPT !.status = "running", !.process = "alive", !.leader = leader]
  /\ pidHolder' = "job"
  /\ UNCHANGED <<jobLease, jobTask, jobSupervisor, jobCanceller>>

JobReports ==
  /\ job.status \in {"queued", "running"}
  /\ \E s \in {"completed", "failed", "cancelled"}, c \in BOOLEAN :
       job' = [job EXCEPT !.status = s, !.content = c]
  /\ UNCHANGED <<jobLease, jobTask, pidHolder, jobSupervisor, jobCanceller>>

ProcessEnds ==
  /\ job.process = "alive"
  /\ job' = [job EXCEPT !.process = "dead"]
  /\ pidHolder' = "nobody"
  /\ UNCHANGED <<jobLease, jobTask, jobSupervisor, jobCanceller>>

PidReused == /\ job.process = "dead" /\ pidHolder = "nobody"
             /\ pidHolder' = "stranger"
             /\ UNCHANGED <<jobLease, jobTask, job, jobSupervisor, jobCanceller>>

StrangerEnds == /\ pidHolder = "stranger" /\ pidHolder' = "nobody"
                /\ UNCHANGED <<jobLease, jobTask, job, jobSupervisor, jobCanceller>>

(***************************************************************************)
(* superviseCompanion.                                                     *)
(***************************************************************************)
Stop == jobSupervisor' = "done"

ClaimLaunch ==
  /\ jobSupervisor = "spawned"
  /\ IF Active /\ ~jobLease.cancel /\ jobLease.launch = "permission_issued"
     THEN /\ jobLease' = [jobLease EXCEPT !.launch = "launching", !.status = "launching"]
          /\ jobTask' = [jobTask EXCEPT !.status = "launching"]
          /\ jobSupervisor' = "launching"
     ELSE Stop /\ UNCHANGED <<jobLease, jobTask>>
  /\ UNCHANGED <<job, pidHolder, jobCanceller>>

(* The second preflight of a Pi adapter fails: no prompt was sent.         *)
PreflightFails ==
  /\ jobSupervisor = "launching" /\ Active /\ jobLease.bound = "none"
  /\ jobLease' = JobReleased([jobLease EXCEPT !.launch = "confirmed_not_started"])
  /\ jobTask' = [jobTask EXCEPT !.status = IF jobLease.cancel THEN "cancelled" ELSE "failed"]
  /\ Stop
  /\ UNCHANGED <<job, pidHolder, jobCanceller>>

(* The companion's answer is missing or wrong, whether or not it started   *)
(* the job: the supervisor gives up and the lease is kept.                 *)
CommandFails ==
  /\ jobSupervisor \in {"launching", "polling"}
  /\ \/ jobSupervisor = "launching" /\ job' = [job EXCEPT !.status = "queued"]
     \/ UNCHANGED job
  /\ Stop
  /\ UNCHANGED <<jobLease, jobTask, pidHolder, jobCanceller>>

StartJob ==
  /\ jobSupervisor = "launching"
  /\ job' = [job EXCEPT !.status = "queued"]
  /\ IF Active THEN jobTask' = [jobTask EXCEPT !.jobKnown = TRUE] /\ jobSupervisor' = "polling"
     ELSE Stop /\ UNCHANGED jobTask
  /\ UNCHANGED <<jobLease, pidHolder, jobCanceller>>

(* bindJob takes the identity of whoever has the pid when it is called.    *)
Bound == IF jobLease.bound = "none" /\ job.process # "none" /\ pidHolder # "nobody"
         THEN [jobLease EXCEPT !.bound = pidHolder, !.launch = "bound",
                            !.group = IF pidHolder = "job" THEN job.leader ELSE TRUE,
                            !.status = IF jobLease.cancel THEN "cancel_pending" ELSE "running"]
         ELSE jobLease

(* Mutant: completion is enough.                                           *)
CompletedIsProduced == IF job.status = "completed" THEN "produced" ELSE "failed"

Outcome == IF job.status = "completed" /\ job.content THEN "produced" ELSE "failed"

(* One round: a cancellation or the deadline is turned into a cancel, else *)
(* the job's status is read, its process bound and its result reported.    *)
PollJob ==
  /\ jobSupervisor = "polling"
  /\ \/ ~Active /\ Stop /\ UNCHANGED <<jobLease, jobTask, jobCanceller>>
     \/ /\ Active  \* cancel requested, or the deadline has passed
        /\ jobCanceller = "idle"
        /\ jobCanceller' = "mark" /\ Stop /\ UNCHANGED <<jobLease, jobTask>>
     \/ /\ Active /\ ~jobLease.cancel
        /\ jobLease' = Bound
        /\ IF JobEnded
           THEN jobTask' = [jobTask EXCEPT !.status = Outcome, !.result = Outcome] /\ jobSupervisor' = "releasing"
           ELSE jobTask' = [jobTask EXCEPT !.status = Bound.status] /\ UNCHANGED jobSupervisor
        /\ UNCHANGED jobCanceller
  /\ UNCHANGED <<job, pidHolder>>

(* After three seconds of waiting, or as soon as the process has ended.    *)
JobSupervisorReleases ==
  /\ jobSupervisor = "releasing"
  /\ TryRelease
  /\ Stop
  /\ UNCHANGED <<job, pidHolder, jobCanceller>>

JobSupervisorDies ==
  /\ jobSupervisor \notin {"done"} /\ Stop
  /\ UNCHANGED <<jobLease, jobTask, job, pidHolder, jobCanceller>>

(***************************************************************************)
(* cancelCompanion, by the user or the supervisor, and resumeRun.          *)
(***************************************************************************)
BeginCancel ==
  /\ jobCanceller = "idle" /\ Active
  /\ jobCanceller' = "mark"
  /\ UNCHANGED <<jobLease, jobTask, job, pidHolder, jobSupervisor>>

MarkJobCancel ==
  /\ jobCanceller = "mark"
  /\ IF Active THEN /\ jobLease' = [jobLease EXCEPT !.cancel = TRUE, !.status = "cancel_pending"]
                    /\ jobTask' = [jobTask EXCEPT !.status = "cancel_pending"]
                    /\ jobCanceller' = "ask"
     ELSE jobCanceller' = "idle" /\ UNCHANGED <<jobLease, jobTask>>
  /\ UNCHANGED <<job, pidHolder, jobSupervisor>>

(* The companion is asked to cancel a job it has named; its answer, or     *)
(* failure, is only recorded.                                              *)
AskUpstream ==
  /\ jobCanceller = "ask"
  /\ \/ jobTask.jobKnown /\ ~JobEnded /\ job' = [job EXCEPT !.status = "cancelled"]
     \/ UNCHANGED job
  /\ jobCanceller' = "signal"
  /\ UNCHANGED <<jobLease, jobTask, pidHolder, jobSupervisor>>

(* Mutant: the group is signalled by its number.                           *)
SignalByNumber ==
  /\ jobCanceller = "signal"
  /\ jobCanceller' = "release"
  /\ \/ UNCHANGED <<job, pidHolder>>
     \/ /\ jobLease.bound # "none" /\ jobLease.group /\ pidHolder # "nobody"
        /\ pidHolder' = "nobody"
        /\ job' = IF pidHolder = "job" THEN [job EXCEPT !.process = "dead"] ELSE job
  /\ UNCHANGED <<jobLease, jobTask, jobSupervisor>>

(* Only a live process with the recorded identity is signalled.            *)
SignalBackend ==
  /\ jobCanceller = "signal"
  /\ jobCanceller' = "release"
  /\ \/ UNCHANGED <<job, pidHolder>>
     \/ /\ jobLease.bound # "none" /\ jobLease.group /\ jobLease.bound = pidHolder
        /\ pidHolder' = "nobody"
        /\ job' = IF pidHolder = "job" THEN [job EXCEPT !.process = "dead"] ELSE job
  /\ UNCHANGED <<jobLease, jobTask, jobSupervisor>>

JobCancelReleases ==
  /\ jobCanceller = "release"
  /\ TryRelease
  /\ jobCanceller' = "idle"
  /\ UNCHANGED <<job, pidHolder, jobSupervisor>>

ResumeJob ==
  /\ Active
  /\ IF JobStopped THEN TryRelease
     ELSE /\ jobLease' = [jobLease EXCEPT !.status = IF jobLease.bound = "none" \/ jobSupervisor = "done"
                                               THEN "orphaned" ELSE @]
          /\ jobTask' = [jobTask EXCEPT !.status = IF jobLease.bound = "none" \/ jobSupervisor = "done"
                                             THEN "orphaned" ELSE @]
  /\ UNCHANGED <<job, pidHolder, jobSupervisor, jobCanceller>>

JobNext ==
  \/ JobStarts \/ JobReports \/ ProcessEnds \/ PidReused \/ StrangerEnds
  \/ ClaimLaunch \/ PreflightFails \/ CommandFails \/ StartJob \/ PollJob
  \/ JobSupervisorReleases \/ JobSupervisorDies
  \/ BeginCancel \/ MarkJobCancel \/ AskUpstream \/ SignalBackend \/ JobCancelReleases \/ ResumeJob

JobSpec == JobInit /\ [][JobNext]_jobVars

-----------------------------------------------------------------------------
(* A released lease leaves nothing running: whatever the companion said,   *)
(* whoever died and however a start failed, the job never started or its   *)
(* process has ended.                                                      *)
ReleasedJobStopped ==
  ~Active => job.process # "alive" /\ (job.status = "queued" => jobLease.bound # "none")

(* A task is produced only by a nonempty result of the job, also when the  *)
(* result races with a cancellation.                                       *)
ProducedHasContent == jobTask.status = "produced" => job.status = "completed" /\ job.content

(* A process that took over the id of an ended job is never signalled      *)
(* once the job had been bound.                                            *)
StrangersAreSpared ==
  [][jobCanceller = "signal" /\ jobCanceller' = "release" /\ jobLease.bound = "job" /\ pidHolder = "stranger"
     => pidHolder' = pidHolder]_jobVars
=============================================================================
