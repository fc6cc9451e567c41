------------------------------- MODULE Watchdog -------------------------------
(***************************************************************************)
(* src/watchdog: `mawf watchdog` scans the agent sessions of a project,    *)
(* opens an incident for a session that is blocked, and sends another      *)
(* agent to its rescue: first to unblock it without writing (phase a),     *)
(* then to take its task over (phase b).  Incidents are files; a rescue    *)
(* runs for up to a quarter of an hour inside the watchdog's own process,  *)
(* which holds the incident in memory meanwhile and may be killed.  One    *)
(* session of one project, one watchdog at a time.                         *)
(***************************************************************************)
EXTENDS Naturals, Sequences

CONSTANTS
  HostOrder,     \* readWatchdogConfig's hostOrder
  SessionHosts,  \* hosts the blocked session may belong to
  CostCap,       \* incidentBudgetUsd
  DryRuns,       \* {FALSE}, or BOOLEAN when `--dry-run` may be given
  MaxCost,       \* bound: what one rescue may cost
  MaxIncidents,  \* bound on incident files
  MaxFailures,   \* bound on snapshots that fail for another reason than git's absence
  MaxKills       \* bound on watchdogs killed in the middle of a rescue

(* Zero stands for the default in readWatchdogConfig.                      *)
ASSUME WatchdogAssumption ==
  /\ HostOrder \in Seq(STRING) /\ SessionHosts \subseteq STRING
  /\ CostCap \in Nat \ {0} /\ MaxCost \in Nat /\ DryRuns \subseteq BOOLEAN
  /\ MaxIncidents \in Nat

VARIABLES
  hostSession,    \* its host, whether its project is a git repository, and its condition
  available,  \* hosts that are enabled and installed
  incidents,  \* the incident files, oldest first
  watchdog,   \* the process: where it is, the incident in its memory, a dry run or not
  failures, kills

watchdogVars == <<hostSession, available, incidents, watchdog, failures, kills>>

RescueHosts == {HostOrder[i] : i \in DOMAIN HostOrder}
LiveStates == {"open", "rescuing-a", "rescuing-b"}
NoIncident == [state |-> "none", phases |-> <<>>, budget |-> 0, tried |-> {}, snapshot |-> FALSE]
NewIncident == [NoIncident EXCEPT !.state = "open"]

WatchdogInit ==
  /\ hostSession \in [host : SessionHosts, git : BOOLEAN, condition : {"blocked"}]
  /\ available \in SUBSET RescueHosts
  /\ incidents = <<>>
  /\ watchdog = [at |-> "idle", inc |-> NoIncident, dry |-> FALSE]
  /\ failures = 0 /\ kills = 0

(* transition: the states an event is accepted in, and where it leads.     *)
AcceptedIn(event) ==
  CASE event \in {"dispatch-a", "dispatch-b", "diagnose-only"} -> {"open"}
    [] event \in {"phase-a-timeout", "phase-a-failed"} -> {"rescuing-a"}
    [] event = "phase-b-failed" -> {"rescuing-b"}
    [] event = "resolved" -> {"rescuing-a", "rescuing-b"}
    [] event = "hosts-exhausted" -> {"open", "rescuing-b"}
    [] OTHER -> LiveStates

LeadsTo(event) ==
  CASE event = "dispatch-a" -> "rescuing-a"
    [] event = "dispatch-b" -> "rescuing-b"
    [] event \in {"phase-a-timeout", "phase-a-failed", "phase-b-failed"} -> "open"
    [] event = "hosts-exhausted" -> "human-alert"
    [] OTHER -> event

Apply(inc, event) ==
  IF inc.state \in AcceptedIn(event) THEN [inc EXCEPT !.state = LeadsTo(event)] ELSE inc

(* Mutant: the budget may be reached, and one more rescue started.         *)
PastCap(inc) == inc.budget > CostCap
OverBudget(inc) == inc.budget >= CostCap

(* reconcilePhaseTimeout: a recorded rescue without an end, when it is old.*)
TimedOut(inc) ==
  LET n == Len(inc.phases) IN
  IF n = 0 \/ inc.phases[n].ended THEN inc
  ELSE Apply([inc EXCEPT !.phases[n].ended = TRUE],
             IF inc.phases[n].phase = "a" THEN "phase-a-timeout" ELSE "hosts-exhausted")

Reconciled(inc, old, spend) ==
  IF ~old \/ TimedOut(inc) = inc THEN inc
  ELSE LET late == [TimedOut(inc) EXCEPT !.budget = @ + spend]
       IN  IF OverBudget(late) THEN Apply(late, "budget-stop") ELSE late

WhenRecovered(inc) ==
  IF inc.state \in LiveStates /\ hostSession.condition # "blocked"
  THEN Apply(inc, "original-recovered") ELSE inc

(* Mutant: an incident under rescue does not count for its session.        *)
HasOpenIncident(files) == \E i \in DOMAIN files : files[i].state = "open"

HasIncident(files) == \E i \in DOMAIN files : files[i].state \in LiveStates

(* scanOnce, until the open incidents are dispatched.                      *)
Scan ==
  /\ watchdog.at = "idle"
  /\ \E old \in BOOLEAN, spend \in 0..MaxCost, dry \in DryRuns :
       LET seen == [i \in DOMAIN incidents |->
                      WhenRecovered(Reconciled(incidents[i], old, spend))]
           opens == hostSession.condition = "blocked" /\ ~HasIncident(seen)
       IN  /\ opens => Len(seen) < MaxIncidents
           /\ incidents' = IF opens THEN Append(seen, NewIncident) ELSE seen
           /\ watchdog' = [watchdog EXCEPT !.at = "listing", !.dry = dry]
  /\ UNCHANGED <<hostSession, available, failures, kills>>

ListOpen ==
  /\ watchdog.at = "listing"
  /\ LET open == {i \in DOMAIN incidents : incidents[i].state = "open"}
     IN  watchdog' = IF open = {} THEN [watchdog EXCEPT !.at = "idle"]
                     ELSE [watchdog EXCEPT !.at = "dispatching",
                                           !.inc = incidents[CHOOSE i \in open : TRUE]]
  /\ UNCHANGED <<hostSession, available, incidents, failures, kills>>

(***************************************************************************)
(* dispatchIncident works on the incident in memory.  A single incident is *)
(* live at a time, so its file is the last one.                            *)
(***************************************************************************)
SaveIncident(inc) == incidents' = [incidents EXCEPT ![Len(incidents)] = inc]
Leaves(inc) == SaveIncident(inc) /\ watchdog' = [watchdog EXCEPT !.at = "idle", !.inc = NoIncident]
Gives(inc) == incidents' = incidents /\ watchdog' = [watchdog EXCEPT !.at = "idle", !.inc = NoIncident]

(* applyEvent saves nothing when the event is not accepted.                *)
Ends(inc, event) == IF Apply(inc, event) = inc THEN Gives(inc) ELSE Leaves(Apply(inc, event))

PhaseOf(inc) == IF \E i \in DOMAIN inc.phases : inc.phases[i].phase = "a" /\ inc.phases[i].ended
                THEN "b" ELSE "a"

(* Mutant: only the stalled host and missing ones are skipped.             *)
ForgetsTried(inc) ==
  {i \in DOMAIN HostOrder : HostOrder[i] # hostSession.host /\ HostOrder[i] \in available}

(* The places of the rotation whose hosts are left; the first is sent.     *)
SelectRescueHosts(inc) ==
  {i \in DOMAIN HostOrder : /\ HostOrder[i] # hostSession.host
                            /\ HostOrder[i] \notin inc.tried /\ HostOrder[i] \in available}

FirstInRotation(inc) ==
  {HostOrder[i] : i \in {k \in SelectRescueHosts(inc) : \A j \in SelectRescueHosts(inc) : k <= j}}

PhaseRec(phase, host, native) == [phase |-> phase, host |-> host, native |-> native, ended |-> FALSE]
WithPhase(inc, rec) == [inc EXCEPT !.phases = Append(@, rec)]

Kept == UNCHANGED <<hostSession, available, failures, kills>>

BudgetStops ==
  /\ watchdog.at = "dispatching" /\ OverBudget(watchdog.inc)
  /\ Ends(watchdog.inc, "budget-stop") /\ Kept

NativeFirst(inc) == /\ PhaseOf(inc) = "b" /\ hostSession.host = "codex"
                    /\ \A i \in DOMAIN inc.phases : inc.phases[i].native = "no"

(* dispatch-b is applied, and saved if accepted, before the phase is noted.*)
Begin(inc, event, rec, tried, at) ==
  LET begun == WithPhase([Apply(inc, event) EXCEPT !.tried = @ \cup tried], rec) IN
  IF watchdog.dry
  THEN Leaves([begun EXCEPT !.phases[Len(begun.phases)].ended = TRUE])
  ELSE /\ IF Apply(inc, event) = inc THEN UNCHANGED incidents ELSE SaveIncident(Apply(inc, event))
       /\ watchdog' = [watchdog EXCEPT !.at = at, !.inc = begun]

StartResume ==
  /\ watchdog.at = "dispatching" /\ ~OverBudget(watchdog.inc) /\ NativeFirst(watchdog.inc)
  /\ Begin(watchdog.inc, "dispatch-b", PhaseRec("b", "codex", "resume"), {}, "native")
  /\ Kept

PhaseEnded(spend) ==
  LET inc == watchdog.inc IN [inc EXCEPT !.phases[Len(inc.phases)].ended = TRUE, !.budget = @ + spend]

(* The session's own codex resumes, then forks, before another host may.   *)
NativeEnds ==
  /\ watchdog.at = "native"
  /\ \E spend \in 0..MaxCost, outcome \in {"resolved", "failed", "blocked"} :
       LET inc == PhaseEnded(spend)
           forked == WithPhase(inc, PhaseRec("b", "codex", "fork"))
       IN  CASE outcome = "resolved" -> Leaves(Apply(inc, "resolved"))
             [] outcome = "blocked" -> Leaves(Apply(inc, "hosts-exhausted"))
             [] OTHER ->
                  /\ SaveIncident(inc)
                  /\ watchdog' = IF inc.phases[Len(inc.phases)].native = "resume"
                                 THEN [watchdog EXCEPT !.inc = forked]
                                 ELSE [watchdog EXCEPT !.inc = inc, !.at = "gate"]
  /\ Kept

EntersGate == \/ watchdog.at = "gate"
              \/ /\ watchdog.at = "dispatching" /\ ~OverBudget(watchdog.inc)
                 /\ PhaseOf(watchdog.inc) = "b" /\ ~NativeFirst(watchdog.inc)

(* Mutant: the gate lets a project without git through.                    *)
GateStandsOpen ==
  /\ EntersGate
  /\ watchdog' = [watchdog EXCEPT !.at = "choosing"]
  /\ UNCHANGED <<hostSession, available, incidents, failures, kills>>

(* Before another host writes, the project is snapshot in git.             *)
SnapshotGate ==
  /\ EntersGate
  /\ \/ /\ ~hostSession.git
        /\ Ends(watchdog.inc, "diagnose-only") /\ UNCHANGED failures
     \/ /\ hostSession.git /\ failures < MaxFailures
        /\ Gives(watchdog.inc) /\ failures' = failures + 1
     \/ /\ hostSession.git
        /\ LET inc == [watchdog.inc EXCEPT !.snapshot = TRUE]
           IN  SaveIncident(inc) /\ watchdog' = [watchdog EXCEPT !.inc = inc, !.at = "choosing"]
        /\ UNCHANGED failures
  /\ UNCHANGED <<hostSession, available, kills>>

Chooses == \/ watchdog.at = "choosing"
           \/ /\ watchdog.at = "dispatching" /\ ~OverBudget(watchdog.inc)
              /\ PhaseOf(watchdog.inc) = "a"

NoHostLeft ==
  /\ Chooses /\ SelectRescueHosts(watchdog.inc) = {}
  /\ Ends(watchdog.inc, "hosts-exhausted") /\ Kept

(* Mutant: the host without a usable model is not marked.                  *)
ValveForgets ==
  /\ Chooses /\ FirstInRotation(watchdog.inc) \cap {"claude", "codex"} # {}
  /\ Leaves(watchdog.inc) /\ Kept

(* The price valve: no model of this host may be used; the next scan goes on. *)
PriceValve ==
  /\ Chooses
  /\ \E host \in FirstInRotation(watchdog.inc) \cap {"claude", "codex"} :
       LET inc == [watchdog.inc EXCEPT !.tried = @ \cup {host}]
       IN  Leaves(IF SelectRescueHosts(inc) = {} THEN Apply(inc, "hosts-exhausted") ELSE inc)
  /\ Kept

StartRescue ==
  /\ Chooses
  /\ \E host \in FirstInRotation(watchdog.inc) :
       LET inc == watchdog.inc
       IN  Begin(inc, IF PhaseOf(inc) = "a" THEN "dispatch-a" ELSE "dispatch-b",
                 PhaseRec(PhaseOf(inc), host, "no"), {host}, "running")
  /\ Kept

RescueEnds ==
  /\ watchdog.at = "running"
  /\ \E spend \in 0..MaxCost, outcome \in {"resolved", "failed"} :
       LET inc == PhaseEnded(spend)
           phase == inc.phases[Len(inc.phases)].phase
           failed == Apply(inc, IF phase = "a" THEN "phase-a-failed" ELSE "phase-b-failed")
       IN  Leaves(IF outcome = "resolved" THEN Apply(inc, "resolved")
                  ELSE IF OverBudget(inc) THEN Apply(inc, "budget-stop")
                  ELSE IF phase = "b" /\ SelectRescueHosts(inc) = {}
                       THEN Apply(failed, "hosts-exhausted") ELSE failed)
  /\ Kept

(***************************************************************************)
(* The session, and the death of the watchdog.                             *)
(***************************************************************************)
SessionChanges ==
  /\ \E c \in {"blocked", "healthy", "gone"} \ {hostSession.condition} :
       hostSession' = [hostSession EXCEPT !.condition = c]
  /\ UNCHANGED <<available, incidents, watchdog, failures, kills>>

WatchdogKilled ==
  /\ watchdog.at \in {"native", "running"} /\ kills < MaxKills
  /\ watchdog' = [watchdog EXCEPT !.at = "idle", !.inc = NoIncident]
  /\ kills' = kills + 1
  /\ UNCHANGED <<hostSession, available, incidents, failures>>

WatchdogStep == \/ Scan \/ ListOpen \/ BudgetStops \/ StartResume \/ NativeEnds \/ SnapshotGate
                \/ NoHostLeft \/ PriceValve \/ StartRescue \/ RescueEnds
WatchdogNext == WatchdogStep \/ SessionChanges \/ WatchdogKilled

WatchdogSpec == WatchdogInit /\ [][WatchdogNext]_watchdogVars
WatchdogFairness == WF_watchdogVars(WatchdogStep)

(***************************************************************************)
(* Properties.                                                             *)
(***************************************************************************)
InMemory == IF watchdog.at = "idle" THEN {} ELSE {watchdog.inc}
Known == {incidents[i] : i \in DOMAIN incidents} \cup InMemory

(* A session is rescued under one incident at a time: a rescue that was    *)
(* cut short keeps the next scan from sending a second agent.              *)
OneRescueAtATime ==
  \A i, j \in DOMAIN incidents :
    incidents[i].state \in LiveStates /\ incidents[j].state \in LiveStates => i = j

(* Within an incident no host is sent twice, the stalled host is only sent *)
(* as its own resume and fork, and nobody takes the task over before an    *)
(* attempt to unblock it ended.                                            *)
NoHostIsSentTwice ==
  \A inc \in Known : \A i \in DOMAIN inc.phases :
    LET p == inc.phases[i] IN
    /\ p.native = "no" => p.host # hostSession.host
    /\ \A j \in DOMAIN inc.phases :
         (inc.phases[j].host = p.host /\ inc.phases[j].native = p.native) => i = j
    /\ p.phase = "b" => \E j \in 1..(i - 1) : inc.phases[j].phase = "a" /\ inc.phases[j].ended

(* Another host only takes over a project whose state was saved in git.    *)
StrangersNeedASnapshot ==
  \A inc \in Known : \A i \in DOMAIN inc.phases :
    (inc.phases[i].phase = "b" /\ inc.phases[i].native = "no") => inc.snapshot /\ hostSession.git

(* The cap is checked before and after a dispatch, so it is exceeded by at *)
(* most what one dispatch can start: a resume, a fork and another host.    *)
OneDispatchPastTheCap == \A inc \in Known : inc.budget < CostCap + 3 * MaxCost

(* Scanned again and again by a watchdog nobody kills, an incident is      *)
(* closed: every turn closes it, uses a host up or waits for a snapshot.   *)
IsLive(i) == i \in DOMAIN incidents /\ incidents[i].state \in LiveStates
IncidentsClose == \A i \in 1..MaxIncidents : IsLive(i) ~> ~IsLive(i)

(* What the watchdog may do to a session it takes for blocked, through     *)
(* kills and failures of the watchdog itself (src/watchdog).               *)
RescuesAreBounded ==
  OneRescueAtATime /\ NoHostIsSentTwice /\ StrangersNeedASnapshot /\ OneDispatchPastTheCap
=============================================================================
