----------------------------- MODULE MCServices -----------------------------
(***************************************************************************)
(* The components that run processes, connections and timers, checked in   *)
(* one run.  They do not share state: a behaviour is a behaviour of one of *)
(* them, the subject.                                                      *)
(***************************************************************************)
EXTENDS RuntimeFeed, SshTransport, CompanionJob, Watchdog, RunQueue, NativeHost,
        CompanionServer, Autoresearch, TLC

CONSTANTS q1, q2, k1, k2, t1, t2, t3, u1, u2

MCHostOrder == <<"claude", "pi", "codex">>
MCTaskOrder == (t1 :> 1) @@ (t2 :> 2) @@ (t3 :> 3)

(* Chains, a cycle that is only closed by a second call, and scopes that   *)
(* overlap or not.                                                         *)
Specified(deps, scope, writes, adapter) ==
  [deps |-> deps, scope |-> scope, writes |-> writes, adapter |-> adapter]
MCSpecs ==
  (t1 :> {Specified({}, {"p"}, TRUE, "host"), Specified({}, {"p"}, TRUE, "job")}) @@
  (t2 :> {Specified({t1}, {}, FALSE, "host"), Specified({t3}, {}, FALSE, "host"),
          Specified({}, {"p"}, TRUE, "host")}) @@
  (t3 :> {Specified({t2}, {"p"}, TRUE, "host")})

VARIABLE subject  \* the component that moves in this behaviour

Subjects ==
  {"RuntimeFeed", "SshTransport", "CompanionJob",
   "Watchdog", "RunQueue", "NativeHost",
   "CompanionServer", "Autoresearch"}

(* A component that is not the subject rests in one state.                 *)
Pinned ==
  /\ IF subject = "RuntimeFeed" THEN TRUE
     ELSE sessionFiles = [holds |-> "c1", changes |-> 0]
  /\ IF subject = "Watchdog" THEN TRUE
     ELSE /\ hostSession = [host |-> "claude", git |-> TRUE, condition |-> "blocked"]
          /\ available = {}

UnionInit ==
  /\ subject \in Subjects /\ Pinned
  /\ FeedInit /\ SshInit /\ JobInit
  /\ WatchdogInit /\ QueueInit /\ NativeInit
  /\ ServeInit /\ ExperimentInit

UnionNext ==
  \/ /\ subject = "RuntimeFeed" /\ FeedNext
     /\ UNCHANGED <<subject, sshVars, jobVars, watchdogVars, queueVars,
                   nativeVars, serveVars, experimentVars>>
  \/ /\ subject = "SshTransport" /\ SshNext
     /\ UNCHANGED <<subject, feedVars, jobVars, watchdogVars, queueVars,
                   nativeVars, serveVars, experimentVars>>
  \/ /\ subject = "CompanionJob" /\ JobNext
     /\ UNCHANGED <<subject, feedVars, sshVars, watchdogVars, queueVars,
                   nativeVars, serveVars, experimentVars>>
  \/ /\ subject = "Watchdog" /\ WatchdogNext
     /\ UNCHANGED <<subject, feedVars, sshVars, jobVars, queueVars,
                   nativeVars, serveVars, experimentVars>>
  \/ /\ subject = "RunQueue" /\ QueueNext
     /\ UNCHANGED <<subject, feedVars, sshVars, jobVars, watchdogVars,
                   nativeVars, serveVars, experimentVars>>
  \/ /\ subject = "NativeHost" /\ NativeNext
     /\ UNCHANGED <<subject, feedVars, sshVars, jobVars, watchdogVars,
                   queueVars, serveVars, experimentVars>>
  \/ /\ subject = "CompanionServer" /\ ServeNext
     /\ UNCHANGED <<subject, feedVars, sshVars, jobVars, watchdogVars,
                   queueVars, nativeVars, experimentVars>>
  \/ /\ subject = "Autoresearch" /\ ExperimentNext
     /\ UNCHANGED <<subject, feedVars, sshVars, jobVars, watchdogVars,
                   queueVars, nativeVars, serveVars>>

unionVars == <<subject, feedVars, sshVars, jobVars, watchdogVars,
         queueVars, nativeVars, serveVars, experimentVars>>

UnionSpec == UnionInit /\ [][UnionNext]_unionVars

(* A slot is given back only when what held it has stopped, whoever gives  *)
(* it back: a companion's job, a native host agent and its group, or Pi.   *)
ReleasedMeansStopped == ReleasedJobStopped /\ ReleasedAgentStopped /\ ReleasedPiStopped

(* What an adapter reports was earned, what it settled stays settled, and  *)
(* nobody else's process pays for it.                                      *)
ResultsAreEarned ==
  StrangersAreSpared /\ [](ProducedHasContent /\ ProducedIsProtected /\ SettledStaysSettled)
=============================================================================
