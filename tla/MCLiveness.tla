----------------------------- MODULE MCLiveness -----------------------------
(***************************************************************************)
(* What must eventually happen, component by component, in one run.  The   *)
(* components do not share state: a behaviour is a behaviour of one of     *)
(* them, the subject.  The others rest where nothing is due: no watchdog   *)
(* runs, no host controller is active.                                     *)
(***************************************************************************)
EXTENDS LocalRuntime, NativeHost, Autoresearch, RunQueue, Watchdog, RuntimeFeed,
        SshTransport, CompanionServer, TLC

CONSTANTS r1, x1, d1, d2, c1, none, nocause, q1, k1, k2, t1, t2, t3, u1

(* One local task, two supervisors and a cancelling command.               *)
MCRunOf == [t \in Tasks |-> r1]
MCAdapter == [t \in Tasks |-> "local"]
MCControllerOf == [t \in Tasks |-> none]
MCRunCap == [r \in Runs |-> 1]

MCHostOrder == <<"claude", "pi", "codex">>
MCTaskOrder == (t1 :> 1) @@ (t2 :> 2) @@ (t3 :> 3)

Specified(deps, scope, writes, adapter) ==
  [deps |-> deps, scope |-> scope, writes |-> writes, adapter |-> adapter]
MCSpecs ==
  (t1 :> {Specified({}, {"p"}, TRUE, "host"), Specified({}, {"p"}, TRUE, "job")}) @@
  (t2 :> {Specified({t1}, {}, FALSE, "host"), Specified({t3}, {}, FALSE, "host"),
          Specified({}, {"p"}, TRUE, "host")}) @@
  (t3 :> {Specified({t2}, {"p"}, TRUE, "host")})

VARIABLE subject  \* the component that moves in this behaviour

Subjects ==
  {"LocalRuntime", "NativeHost", "Autoresearch",
   "RunQueue", "Watchdog", "RuntimeFeed",
   "SshTransport", "CompanionServer"}

(* A component that is not the subject rests in one state.                 *)
Pinned ==
  /\ IF subject = "RuntimeFeed" THEN TRUE
     ELSE sessionFiles = [holds |-> "c1", changes |-> 0]

UnionInit ==
  /\ subject \in Subjects /\ Pinned
  /\ IF subject = "NativeHost" THEN NativeInit
     ELSE /\ ctl = [active |-> FALSE, cancel |-> FALSE, launch |-> "launching", bound |-> FALSE,
                  result |-> "none"]
          /\ agent = "none" /\ cli = [at |-> "done", cancelling |-> FALSE]
          /\ keeper = "gone" /\ children = [c \in ChildTasks |-> "absent"] /\ late = TRUE
  /\ IF subject = "Watchdog" THEN WatchdogInit
     ELSE /\ hostSession = [host |-> "claude", git |-> TRUE, condition |-> "blocked"]
          /\ available = {} /\ incidents = <<>> /\ failures = 0 /\ kills = 0
          /\ watchdog = [at |-> "off", inc |-> NoIncident, dry |-> FALSE]
  /\ LocalInit /\ ExperimentInit /\ QueueInit
  /\ FeedInit /\ SshInit /\ ServeInit

UnionNext ==
  \/ /\ subject = "LocalRuntime" /\ LocalNext
     /\ UNCHANGED <<subject, nativeVars, experimentVars, queueVars,
                   watchdogVars, feedVars, sshVars, serveVars>>
  \/ /\ subject = "NativeHost" /\ NativeNext
     /\ UNCHANGED <<subject, allVars, experimentVars, queueVars,
                   watchdogVars, feedVars, sshVars, serveVars>>
  \/ /\ subject = "Autoresearch" /\ ExperimentNext
     /\ UNCHANGED <<subject, allVars, nativeVars, queueVars, watchdogVars,
                   feedVars, sshVars, serveVars>>
  \/ /\ subject = "RunQueue" /\ QueueNext
     /\ UNCHANGED <<subject, allVars, nativeVars, experimentVars,
                   watchdogVars, feedVars, sshVars, serveVars>>
  \/ /\ subject = "Watchdog" /\ WatchdogNext
     /\ UNCHANGED <<subject, allVars, nativeVars, experimentVars,
                   queueVars, feedVars, sshVars, serveVars>>
  \/ /\ subject = "RuntimeFeed" /\ FeedNext
     /\ UNCHANGED <<subject, allVars, nativeVars, experimentVars,
                   queueVars, watchdogVars, sshVars, serveVars>>
  \/ /\ subject = "SshTransport" /\ SshNext
     /\ UNCHANGED <<subject, allVars, nativeVars, experimentVars,
                   queueVars, watchdogVars, feedVars, serveVars>>
  \/ /\ subject = "CompanionServer" /\ ServeNext
     /\ UNCHANGED <<subject, allVars, nativeVars, experimentVars,
                   queueVars, watchdogVars, feedVars, sshVars>>

unionVars == <<subject, allVars, nativeVars, experimentVars, queueVars,
         watchdogVars, feedVars, sshVars, serveVars>>

UnionSpec == UnionInit /\ [][UnionNext]_unionVars

FairSpec ==
  /\ UnionSpec
  /\ LocalFairness /\ NativeFairness /\ ExperimentFairness /\ QueueFairness
  /\ WatchdogFairness /\ FeedFairness /\ SshFairness /\ ServeFairness

(* Work ends: a local child or an experiment by its deadline, whatever     *)
(* else went wrong; a spawned child gives its slot back, also when it      *)
(* exits at once; a keeper ends an orphaned host agent; a queue that is    *)
(* asked often enough is worked off; an incident is closed.                *)
WorkEnds ==
  /\ DeadlineStops /\ SpawnedIsReleased /\ DeadlineIsKept /\ ExperimentEnds
  /\ QueueDrains /\ IncidentsClose

(* Whoever waits gets an answer: a client its change, its connection and   *)
(* its calls, a stopped server its shutdown.                               *)
RequestsSettle ==
  /\ ChangesArrive /\ ConnectSettles /\ CallsSettle /\ ShutdownEnds
=============================================================================
