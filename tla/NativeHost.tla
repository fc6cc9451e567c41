------------------------------ MODULE NativeHost ------------------------------
(***************************************************************************)
(* src/native-host.js and src/native-deadline.js on Linux: `mawf run`      *)
(* starts the host agent as the controller of a run.  The agent queues and *)
(* starts children that live in its own process group.  The command waits  *)
(* for the agent, reports, settles what is left of the children and        *)
(* releases the lease; a keeper in a process of its own does the same when *)
(* the deadline has passed, whatever became of the command.  The user may  *)
(* cancel the controller or reconcile the run at any time.                 *)
(***************************************************************************)
EXTENDS Naturals

CONSTANT ChildTasks

VARIABLES
  ctl,       \* the controller's lease and task: active, cancel asked, bound, result
  agent,     \* the host process and its group
  cli,       \* where executeNative is, and its cancelling flag
  keeper,    \* where the deadline keeper is
  children,  \* child task -> absent, queued, active, released or cancelled
  late       \* the deadline has passed

nativeVars == <<ctl, agent, cli, keeper, children, late>>

NativeInit ==
  /\ ctl = [active |-> TRUE, cancel |-> FALSE, launch |-> "launching", bound |-> FALSE, result |-> "none"]
  /\ agent = "none"
  /\ cli = [at |-> "launching", cancelling |-> FALSE]
  /\ keeper = "none"
  /\ children = [c \in ChildTasks |-> "absent"]
  /\ late = FALSE

(* Mutant: the end of the command counts as the end of an unbound agent.   *)
StoppedWithCommand == IF ctl.bound THEN agent = "dead"
                      ELSE ctl.launch = "confirmed_not_started" \/ cli.at = "dead"

(* backendStopped, for the controller and the children bound to its group. *)
AgentStopped == IF ctl.bound THEN agent = "dead" ELSE ctl.launch = "confirmed_not_started"

(***************************************************************************)
(* executeNative.                                                          *)
(***************************************************************************)
CliGoes(at) == cli' = [cli EXCEPT !.at = at]

SpawnAgent ==
  /\ cli.at = "launching"
  /\ \/ agent' = "alive" /\ CliGoes("spawned") /\ UNCHANGED ctl
     \/ /\ ctl' = [ctl EXCEPT !.launch = "confirmed_not_started", !.active = FALSE]
        /\ CliGoes("done") /\ UNCHANGED agent
  /\ UNCHANGED <<keeper, children, late>>

BindAgent ==
  /\ cli.at = "spawned"
  /\ IF ctl.active
     THEN ctl' = [ctl EXCEPT !.bound = TRUE, !.launch = "started"] /\ CliGoes("bound")
     ELSE CliGoes("dead") /\ UNCHANGED ctl   \* bindJob refuses a released lease, and nothing catches it
  /\ UNCHANGED <<agent, keeper, children, late>>

StartKeeper ==
  /\ cli.at = "bound" /\ CliGoes("waiting") /\ keeper' = "waiting"
  /\ UNCHANGED <<ctl, agent, children, late>>

MarkCancel == ctl' = IF ctl.active THEN [ctl EXCEPT !.cancel = TRUE] ELSE ctl

(* cancel: a signal, the deadline, a refused model, too much output, or a  *)
(* cancellation read from the ledger.  When the ledger cannot be written   *)
(* the rejection is not handled and ends the command.                      *)
CliCancels ==
  /\ cli.at = "waiting" /\ ~cli.cancelling
  /\ \/ /\ MarkCancel /\ cli' = [cli EXCEPT !.cancelling = TRUE]
        /\ agent' \in {agent, "dead"}
     \/ CliGoes("dead") /\ UNCHANGED <<ctl, agent>>
  /\ UNCHANGED <<keeper, children, late>>

CliKills ==
  /\ cli.at = "waiting" /\ cli.cancelling /\ agent = "alive"
  /\ agent' = "dead"
  /\ UNCHANGED <<ctl, cli, keeper, children, late>>

AgentClosed ==
  /\ cli.at = "waiting" /\ agent = "dead"
  /\ IF ~ctl.active THEN CliGoes("done") /\ UNCHANGED ctl
     ELSE /\ \E r \in {"produced", "failed"} : ctl' = [ctl EXCEPT !.result = r]
          /\ CliGoes("reported")
  /\ UNCHANGED <<agent, keeper, children, late>>

(* settleControlledHostChildren: what was never started is cancelled, what *)
(* ran in the stopped group is released.                                   *)
Settled == [c \in ChildTasks |-> CASE children[c] = "queued" -> "cancelled"
                                   [] children[c] = "active" -> "released"
                                   [] OTHER -> children[c]]
SettleChildren == children' = IF AgentStopped THEN Settled ELSE children

CliSettles ==
  /\ cli.at = "reported" /\ SettleChildren /\ CliGoes("settled")
  /\ UNCHANGED <<ctl, agent, keeper, late>>

ReleaseController == ctl' = IF ctl.active /\ AgentStopped THEN [ctl EXCEPT !.active = FALSE] ELSE ctl

CliReleases ==
  /\ cli.at = "settled" /\ ReleaseController /\ CliGoes("done")
  /\ UNCHANGED <<agent, keeper, children, late>>

CliDies ==
  /\ cli.at \notin {"done", "dead"} /\ CliGoes("dead")
  /\ UNCHANGED <<ctl, agent, keeper, children, late>>

(***************************************************************************)
(* native-deadline.js.                                                     *)
(***************************************************************************)
KeeperWakes ==
  /\ keeper = "waiting"
  /\ \/ ~ctl.active /\ keeper' = "gone" /\ UNCHANGED ctl
     \/ ctl.active /\ late /\ MarkCancel /\ keeper' = "term"
  /\ UNCHANGED <<agent, cli, children, late>>

(* Mutant: only the polite signal is sent.                                 *)
OnlyTerminates ==
  /\ keeper \in {"term", "kill"}
  /\ agent' \in {agent, "dead"} /\ keeper' = "settle"
  /\ UNCHANGED <<ctl, cli, children, late>>

(* SIGTERM may be ignored; SIGKILL to the recorded group is not.           *)
KeeperSignals ==
  /\ keeper \in {"term", "kill"}
  /\ \/ AgentStopped /\ keeper' = "settle" /\ UNCHANGED agent
     \/ /\ ~AgentStopped /\ keeper = "term"
        /\ agent' \in {agent, "dead"} /\ keeper' = "kill"
     \/ /\ ~AgentStopped /\ keeper = "kill"
        /\ agent' = "dead" /\ keeper' = "settle"
  /\ UNCHANGED <<ctl, cli, children, late>>

KeeperSettles ==
  /\ keeper = "settle" /\ SettleChildren /\ keeper' = "release"
  /\ UNCHANGED <<ctl, agent, cli, late>>

KeeperReleases ==
  /\ keeper = "release" /\ ReleaseController /\ keeper' = "gone"
  /\ UNCHANGED <<agent, cli, children, late>>

(***************************************************************************)
(* The agent, and coordinators outside it: addTask and acquireTask check   *)
(* that the parent's lease is live and its process is still there.         *)
(***************************************************************************)
(* Mutant: the lease alone vouches for the parent.                         *)
LeaseVouches == ctl.active /\ ~ctl.cancel /\ ctl.bound /\ ~late
ParentLives == ctl.active /\ ~ctl.cancel /\ ctl.bound /\ ~late /\ agent = "alive"

QueueChild(c) == /\ children[c] = "absent" /\ ParentLives
                 /\ children' = [children EXCEPT ![c] = "queued"]
                 /\ UNCHANGED <<ctl, agent, cli, keeper, late>>
StartChild(c) == /\ children[c] = "queued" /\ ParentLives
                 /\ children' = [children EXCEPT ![c] = "active"]
                 /\ UNCHANGED <<ctl, agent, cli, keeper, late>>
ChildReturns(c) == /\ children[c] = "active" /\ agent = "alive"
                   /\ children' = [children EXCEPT ![c] = "released"]
                   /\ UNCHANGED <<ctl, agent, cli, keeper, late>>
AgentExits == /\ agent = "alive" /\ agent' = "dead"
              /\ UNCHANGED <<ctl, cli, keeper, children, late>>
DeadlinePasses == /\ ~late /\ late' = TRUE
                  /\ UNCHANGED <<ctl, agent, cli, keeper, children>>

(* `task cancel` of another adapter only marks; `run resume` releases what *)
(* has stopped, the controller and the children that were running.         *)
UserCancels == /\ ctl.active /\ ~ctl.cancel /\ MarkCancel
               /\ UNCHANGED <<agent, cli, keeper, children, late>>
UserResumes == /\ AgentStopped /\ ctl.active /\ ReleaseController
               /\ children' = [c \in ChildTasks |-> IF children[c] = "active" THEN "released" ELSE children[c]]
               /\ UNCHANGED <<agent, cli, keeper, late>>

KeeperStep == KeeperWakes \/ KeeperSignals \/ KeeperSettles \/ KeeperReleases
NativeNext ==
  \/ SpawnAgent \/ BindAgent \/ StartKeeper \/ CliCancels \/ CliKills \/ AgentClosed
  \/ CliSettles \/ CliReleases \/ CliDies \/ KeeperStep
  \/ \E c \in ChildTasks : QueueChild(c) \/ StartChild(c) \/ ChildReturns(c)
  \/ AgentExits \/ DeadlinePasses \/ UserCancels \/ UserResumes

NativeSpec == NativeInit /\ [][NativeNext]_nativeVars

(* Time passes, and the keeper is a process of its own nobody waits for.   *)
NativeFairness == WF_nativeVars(KeeperStep) /\ WF_nativeVars(DeadlinePasses)

(***************************************************************************)
(* Properties.                                                             *)
(***************************************************************************)
(* Whoever releases the controller, command, keeper or user, and whatever  *)
(* died before, its process and the children in its group are stopped.     *)
ReleasedAgentStopped == ~ctl.active => agent # "alive"

(* Once the command has settled the children no child waits or runs: none  *)
(* can be queued under a controller whose process is gone.                 *)
SettledStaysSettled ==
  (cli.at = "settled" \/ keeper = "release") /\ AgentStopped =>
    \A c \in ChildTasks : children[c] \notin {"queued", "active"}

(* With the command dead, a keeper that was started still ends the agent   *)
(* at the deadline and gives its slot back.                                *)
DeadlineIsKept == (keeper = "waiting") ~> (agent # "alive" /\ ~ctl.active)
===============================================================================
