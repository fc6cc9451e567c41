---------------------------- MODULE Autoresearch ----------------------------
(***************************************************************************)
(* src/autoresearch/session.js with adapters/pi-rpc.js: startExperiment    *)
(* reserves the task, makes an exclusive worktree and spawns a supervisor; *)
(* the supervisor runs Pi over RPC, watches the worktree, the deadline and *)
(* the lease, and reports; cancelExperiment asks the supervisor to stop    *)
(* and signals the recorded process itself when it does not.               *)
(***************************************************************************)
EXTENDS Naturals

CONSTANT MaxIterations

ASSUME IterationsAssumption == MaxIterations \in Nat \ {0}

VARIABLES
  exLease,     \* the attempt: active, cancel asked, launch state, result
  starter,     \* where startExperiment is
  supervisor,  \* where superviseExperiment is, and its outcome
  canceller,   \* where cancelExperiment is
  pi,          \* the Pi process, and whether it streams an answer
  worktree,    \* what the worktree shows: results logged, changes, a line half written
  expired      \* the deadline has passed

experimentVars == <<exLease, starter, supervisor, canceller, pi, worktree, expired>>

ExperimentInit ==
  /\ exLease = [active |-> TRUE, cancel |-> FALSE, launch |-> "permission_issued", result |-> "none"]
  /\ starter = "reserved" /\ canceller = "idle" /\ expired = FALSE
  /\ supervisor = [at |-> "absent", outcome |-> "failed"]
  /\ pi = [process |-> "none", streaming |-> FALSE]
  /\ worktree = [results |-> 0, tampered |-> FALSE, drift |-> FALSE, dirty |-> FALSE, torn |-> FALSE]

Supervisor(at) == supervisor' = [supervisor EXCEPT !.at = at]

(* Mutant: a launch nobody bound counts as stopped.                        *)
StoppedUnlessBound == exLease.launch # "bound" \/ pi.process = "dead"

(* backendStopped: an unbound launch may still have started.               *)
PiStopped == \/ exLease.launch = "bound" /\ pi.process = "dead"
             \/ exLease.launch = "confirmed_not_started"

ReleaseExperiment == exLease' = IF exLease.active /\ PiStopped
                                THEN [exLease EXCEPT !.active = FALSE] ELSE exLease

(***************************************************************************)
(* startExperiment.  A failed preparation settles the attempt; a starter   *)
(* that dies before the spawn leaves it reserved.                          *)
(***************************************************************************)
PrepareExperiment ==
  /\ starter = "reserved"
  /\ \/ starter' = "done" /\ Supervisor("new") /\ UNCHANGED exLease
     \/ /\ exLease' = [exLease EXCEPT !.launch = "confirmed_not_started", !.result = "failed",
                                      !.active = FALSE]
        /\ starter' = "done" /\ UNCHANGED supervisor
     \/ starter' = "dead" /\ UNCHANGED <<exLease, supervisor>>
  /\ UNCHANGED <<canceller, pi, worktree, expired>>

(***************************************************************************)
(* superviseExperiment, up to the activation of the extension.             *)
(***************************************************************************)
ClaimExperiment ==
  /\ supervisor.at = "new"
  /\ IF exLease.cancel \/ ~exLease.active
     THEN Supervisor("ended") /\ UNCHANGED exLease
     ELSE exLease' = [exLease EXCEPT !.launch = "launching"] /\ Supervisor("claimed")
  /\ UNCHANGED <<starter, canceller, pi, worktree, expired>>

SpawnPi ==
  /\ supervisor.at = "claimed"
  /\ \/ pi' = [process |-> "alive", streaming |-> FALSE] /\ Supervisor("spawned")
     \/ Supervisor("checking") /\ UNCHANGED pi
  /\ UNCHANGED <<exLease, starter, canceller, worktree, expired>>

BindPi ==
  /\ supervisor.at = "spawned"
  /\ exLease' = [exLease EXCEPT !.launch = "bound"] /\ Supervisor("bound")
  /\ UNCHANGED <<starter, canceller, pi, worktree, expired>>

(* Commands, session and model are asked for and compared, then protected  *)
(* material is checked once more before the objective is sent.             *)
ActivateExtension ==
  /\ supervisor.at = "bound"
  /\ \/ /\ pi.process = "alive" /\ ~worktree.tampered
        /\ Supervisor("running") /\ pi' = [pi EXCEPT !.streaming = TRUE]
     \/ Supervisor("stopping") /\ UNCHANGED pi
  /\ UNCHANGED <<exLease, starter, canceller, worktree, expired>>

(***************************************************************************)
(* One turn of the loop.  A log line read while it is being written does   *)
(* not parse and ends the experiment.                                      *)
(***************************************************************************)
(* Mutant: the loop relies on Pi to keep the deadline.                     *)
TrustsTheAgent == worktree.tampered \/ pi.process = "dead" \/ exLease.cancel \/ worktree.torn

MustEnd == worktree.tampered \/ pi.process = "dead" \/ exLease.cancel \/ expired \/ worktree.torn

WatchExperiment ==
  /\ supervisor.at = "running"
  /\ CASE MustEnd -> Supervisor("stopping")
       [] ~MustEnd /\ (worktree.results >= MaxIterations \/ ~pi.streaming) -> Supervisor("settling")
       [] OTHER -> FALSE
  /\ UNCHANGED <<exLease, starter, canceller, pi, worktree, expired>>

SufficientWork == ~worktree.dirty /\ worktree.results >= 2 /\ ~worktree.drift

SettleExperiment ==
  /\ supervisor.at = "settling"
  /\ supervisor' = CASE pi.process = "dead" -> [supervisor EXCEPT !.at = "stopping"]
                     [] pi.process = "alive" /\ pi.streaming -> [supervisor EXCEPT !.at = "running"]
                     [] OTHER -> [at |-> "stopping",
                                  outcome |-> IF SufficientWork THEN "produced" ELSE "failed"]
  /\ UNCHANGED <<exLease, starter, canceller, pi, worktree, expired>>

(***************************************************************************)
(* The finally block: the loop is turned off over RPC, then what is still  *)
(* alive is signalled if it was bound.                                     *)
(***************************************************************************)
Killed == [pi EXCEPT !.process = IF @ = "alive" THEN "dead" ELSE @, !.streaming = FALSE]

TurnOff ==
  /\ supervisor.at = "stopping" /\ Supervisor("signalling")
  /\ pi' \in {[pi EXCEPT !.streaming = FALSE], pi, Killed}
  /\ UNCHANGED <<exLease, starter, canceller, worktree, expired>>

SignalPi ==
  /\ supervisor.at = "signalling" /\ Supervisor("checking")
  /\ pi' = IF exLease.launch = "bound" THEN Killed ELSE pi
  /\ UNCHANGED <<exLease, starter, canceller, worktree, expired>>

(* Mutant: the verdict of the loop stands.                                 *)
TrustsTheLoop ==
  /\ supervisor.at = "checking" /\ Supervisor("checked")
  /\ UNCHANGED <<exLease, starter, canceller, pi, worktree, expired>>

RecheckProtected ==
  /\ supervisor.at = "checking"
  /\ supervisor' = [at |-> "checked", outcome |-> IF worktree.tampered THEN "failed"
                                                  ELSE supervisor.outcome]
  /\ UNCHANGED <<exLease, starter, canceller, pi, worktree, expired>>

(* Two transactions: the lease is read, then the result is reported.       *)
ReadLease ==
  /\ supervisor.at = "checked"
  /\ Supervisor(IF exLease.active THEN "reporting" ELSE "ended")
  /\ UNCHANGED <<exLease, starter, canceller, pi, worktree, expired>>

ReportExperiment ==
  /\ supervisor.at = "reporting"
  /\ IF exLease.active
     THEN exLease' = [exLease EXCEPT !.result = supervisor.outcome] /\ Supervisor("reported")
     ELSE Supervisor("ended") /\ UNCHANGED exLease
  /\ UNCHANGED <<starter, canceller, pi, worktree, expired>>

SupervisorReleases ==
  /\ supervisor.at = "reported" /\ ReleaseExperiment /\ Supervisor("ended")
  /\ UNCHANGED <<starter, canceller, pi, worktree, expired>>

SupervisorDies ==
  /\ supervisor.at \notin {"absent", "ended", "dead"} /\ Supervisor("dead")
  /\ UNCHANGED <<exLease, starter, canceller, pi, worktree, expired>>

SupervisorStep ==
  \/ ClaimExperiment \/ SpawnPi \/ BindPi \/ ActivateExtension \/ WatchExperiment
  \/ SettleExperiment \/ TurnOff \/ SignalPi \/ RecheckProtected \/ ReadLease
  \/ ReportExperiment \/ SupervisorReleases

(***************************************************************************)
(* cancelExperiment: mark, wait for the supervisor, signal, release.       *)
(***************************************************************************)
AskExperimentToEnd ==
  /\ canceller = "idle" /\ exLease.active
  /\ exLease' = [exLease EXCEPT !.cancel = TRUE] /\ canceller' = "waiting"
  /\ UNCHANGED <<starter, supervisor, pi, worktree, expired>>

CancelSignals ==
  /\ canceller = "waiting"
  /\ IF ~exLease.active THEN canceller' = "done" /\ UNCHANGED pi
     ELSE /\ canceller' = "signalled"
          /\ pi' = IF exLease.launch = "bound" THEN Killed ELSE pi
  /\ UNCHANGED <<exLease, starter, supervisor, worktree, expired>>

CancelReleases ==
  /\ canceller = "signalled" /\ ReleaseExperiment /\ canceller' = "done"
  /\ UNCHANGED <<starter, supervisor, pi, worktree, expired>>

(***************************************************************************)
(* Pi and its extension: it logs results, commits in or out of the scope,  *)
(* may touch protected files, falls idle, starts again, or exits.          *)
(***************************************************************************)
PiWorks ==
  /\ pi.process = "alive" /\ supervisor.at # "spawned"
  /\ \/ worktree.results < MaxIterations /\ worktree' = [worktree EXCEPT !.results = @ + 1]
     \/ \E field \in {"tampered", "drift"} : worktree' = [worktree EXCEPT ![field] = TRUE]
     \/ \E field \in {"dirty", "torn"} : worktree' = [worktree EXCEPT ![field] = ~@]
  /\ pi' = [pi EXCEPT !.streaming = TRUE]
  /\ UNCHANGED <<exLease, starter, supervisor, canceller, expired>>

PiRests ==
  /\ pi.process = "alive" /\ pi' \in {[pi EXCEPT !.streaming = FALSE], Killed} /\ pi' # pi
  /\ UNCHANGED <<exLease, starter, supervisor, canceller, worktree, expired>>

TimePasses ==
  /\ ~expired /\ supervisor.at \notin {"absent", "new"} /\ expired' = TRUE
  /\ UNCHANGED <<exLease, starter, supervisor, canceller, pi, worktree>>

ExperimentNext ==
  \/ PrepareExperiment \/ SupervisorStep \/ SupervisorDies
  \/ AskExperimentToEnd \/ CancelSignals \/ CancelReleases
  \/ PiWorks \/ PiRests \/ TimePasses

ExperimentSpec == ExperimentInit /\ [][ExperimentNext]_experimentVars

(* Each process keeps taking its steps; Pi owes nothing, and a supervisor  *)
(* need not live.                                                          *)
ExperimentFairness == WF_experimentVars(SupervisorStep)
                      /\ WF_experimentVars(CancelSignals \/ CancelReleases)

(***************************************************************************)
(* Properties                                                              *)
(***************************************************************************)
(* An experiment reported as produced left its protected material as it    *)
(* was when the worktree was made, and its process is gone: nothing can    *)
(* change the material after the last check (session.js:179-190).          *)
ProducedIsProtected ==
  exLease.result = "produced" => ~worktree.tampered /\ pi.process = "dead"

(* The slot of an experiment is never given back while its Pi process may  *)
(* still work, whoever releases it: the supervisor, the canceller or a     *)
(* failed preparation (session.js:95, :109, :192).                         *)
ReleasedPiStopped == ~exLease.active => pi.process # "alive"

(* A deadline that passes while the supervisor watches, or a cancellation  *)
(* it can see, ends the process whatever Pi does, unless the supervisor    *)
(* itself dies (session.js:150-181).                                       *)
ExperimentEnds ==
  (supervisor.at = "running" /\ (expired \/ exLease.cancel))
    ~> (pi.process = "dead" \/ supervisor.at = "dead")
=============================================================================
