-------------------------- MODULE ConnectionProofs --------------------------
(***************************************************************************)
(* The services that watch or connect, proved for every number of files,   *)
(* lines, hosts and calls: the watchdog (src/watchdog), the feed of the    *)
(* bridge (src/workspace/bridge.js, protocol.js, providers.js) and the ssh *)
(* transport (src/workspace/ssh.js).                                       *)
(***************************************************************************)
EXTENDS ServiceProofs, SequenceTheorems

(***************************************************************************)
(* The watchdog.  What is in its memory runs ahead of the incident's file: *)
(* by the rescue that is being run, which is in no file before it ended.   *)
(* The files therefore only ever hold rescues that ended, one incident is  *)
(* live in them, and how much of the budget may be spent depends on how    *)
(* far the dispatch in memory has come.                                    *)
(***************************************************************************)
DeadStates == {"none", "resolved", "original-recovered", "budget-stop", "human-alert", "diagnose-only"}
Hosts == RescueHosts \cup SessionHosts \cup {"codex"}
PhaseRecs == [phase : {"a", "b"}, host : Hosts, native : {"no", "resume", "fork"}, ended : BOOLEAN]
Incidents == [state : LiveStates \cup DeadStates, phases : Seq(PhaseRecs), budget : Nat,
              tried : SUBSET Hosts, snapshot : BOOLEAN]

(* What the phases of an incident say of one another and of session s.     *)
PhaseFits(s, inc, i) ==
  LET p == inc.phases[i] IN
  /\ p.native = "no" => p.host # s.host /\ p.host \in inc.tried
  /\ p.native # "no" => p.host = "codex" /\ p.phase = "b"
  /\ p.phase = "b" => \E j \in 1..(i - 1) : inc.phases[j].phase = "a" /\ inc.phases[j].ended
  /\ p.phase = "b" /\ p.native = "no" => inc.snapshot
  /\ \A j \in 1..Len(inc.phases) :
       inc.phases[j].host = p.host /\ inc.phases[j].native = p.native => i = j

Consistent(s, inc) ==
  /\ inc \in Incidents
  /\ inc.snapshot => s.git
  /\ \A i \in 1..Len(inc.phases) : PhaseFits(s, inc, i)

AllEnded(inc) == \A i \in 1..Len(inc.phases) : inc.phases[i].ended

(* A rescue is under way: the last phase, which has not ended.             *)
UnderWay(inc) ==
  /\ Len(inc.phases) > 0
  /\ \A i \in 1..(Len(inc.phases) - 1) : inc.phases[i].ended

Within(inc, dispatches) == inc.budget < CostCap + dispatches * MaxCost

OnFile(s, inc) == Consistent(s, inc) /\ AllEnded(inc) /\ Within(inc, 3)

(* The native attempts of codex: its resume comes first, then its fork.    *)
NativeInHand(inc) ==
  LET n == Len(inc.phases) IN
  /\ UnderWay(inc)
  /\ \/ /\ inc.phases[n].native = "resume" /\ Within(inc, 0)
        /\ \A i \in 1..(n - 1) : inc.phases[i].native = "no"
     \/ inc.phases[n].native = "fork" /\ Within(inc, 1)

(* What the watchdog has in memory, by where it is.                        *)
InHand(s, w) ==
  /\ w.at \in {"idle", "listing"} => w.inc = NoIncident
  /\ w.at = "dispatching" => OnFile(s, w.inc)
  /\ w.at = "native" => Consistent(s, w.inc) /\ NativeInHand(w.inc)
  /\ w.at \in {"gate", "choosing"} => Consistent(s, w.inc) /\ AllEnded(w.inc) /\ Within(w.inc, 2)
  /\ w.at = "choosing" => w.inc.snapshot
  /\ w.at = "running" => Consistent(s, w.inc) /\ UnderWay(w.inc) /\ Within(w.inc, 2)

FilesInv(s, files) ==
  /\ files \in Seq(Incidents)
  /\ \A i \in 1..Len(files) : OnFile(s, files[i])
  /\ \A i \in 1..(Len(files) - 1) : files[i].state \notin LiveStates

WatchdogInv ==
  /\ hostSession \in [host : Hosts, git : BOOLEAN, condition : {"blocked", "healthy", "gone"}]
  /\ available \subseteq Hosts
  /\ watchdog \in [at : {"idle", "listing", "dispatching", "native", "gate", "choosing", "running"},
                   inc : Incidents, dry : BOOLEAN]
  /\ FilesInv(hostSession, incidents)
  /\ InHand(hostSession, watchdog)

Events == {"dispatch-a", "dispatch-b", "diagnose-only", "phase-a-timeout", "phase-a-failed",
           "phase-b-failed", "resolved", "hosts-exhausted", "budget-stop", "original-recovered"}

(* transition moves live incidents only, and nothing but their state.      *)
LEMMA Transition ==
  ASSUME NEW inc \in Incidents, NEW event \in Events
  PROVE  LET new == Apply(inc, event) IN
         /\ new \in Incidents /\ new.phases = inc.phases /\ new.budget = inc.budget
         /\ new.tried = inc.tried /\ new.snapshot = inc.snapshot
         /\ inc.state \notin LiveStates => new = inc
<1>1. LeadsTo(event) \in LiveStates \cup DeadStates
  BY DEF LeadsTo, Events, LiveStates, DeadStates
<1>2. AcceptedIn(event) \subseteq LiveStates
  BY DEF AcceptedIn, Events, LiveStates
<1>3. QED
  BY <1>1, <1>2 DEF Apply, Incidents

(* What is known of an incident does not depend on its state.              *)
LEMMA StateAside ==
  ASSUME NEW s, NEW inc \in Incidents, NEW new \in Incidents,
         new.phases = inc.phases, new.budget = inc.budget,
         new.tried = inc.tried, new.snapshot = inc.snapshot
  PROVE  /\ Consistent(s, inc) => Consistent(s, new)
         /\ OnFile(s, inc) => OnFile(s, new)
         /\ AllEnded(inc) => AllEnded(new)
BY DEF OnFile, Consistent, PhaseFits, AllEnded, Within

(* A new phase after those that ended.                                     *)
LEMMA PhaseAdded ==
  ASSUME NEW s, NEW inc, Consistent(s, inc), AllEnded(inc),
         NEW rec \in PhaseRecs, NEW new \in Incidents,
         new.phases = Append(inc.phases, rec), new.snapshot = inc.snapshot,
         inc.tried \subseteq new.tried,
         rec.native = "no" => rec.host # s.host /\ rec.host \in new.tried \ inc.tried,
         rec.native # "no" =>
           /\ rec.host = "codex" /\ rec.phase = "b"
           /\ \A i \in 1..Len(inc.phases) : inc.phases[i].native # rec.native,
         rec.phase = "b" => PhaseOf(inc) = "b" /\ (rec.native = "no" => inc.snapshot)
  PROVE  /\ Consistent(s, new) /\ UnderWay(new)
         /\ Len(new.phases) = Len(inc.phases) + 1 /\ new.phases[Len(new.phases)] = rec
         /\ \A i \in 1..Len(inc.phases) : new.phases[i] = inc.phases[i]
         /\ rec.ended => AllEnded(new)
<1>1. inc \in Incidents /\ inc.phases \in Seq(PhaseRecs)
  BY DEF Consistent, Incidents
<1>2. /\ Len(new.phases) = Len(inc.phases) + 1 /\ new.phases[Len(new.phases)] = rec
      /\ Len(inc.phases) \in Nat
      /\ \A i \in 1..Len(inc.phases) : new.phases[i] = inc.phases[i]
  BY <1>1
<1>3. UnderWay(new) /\ (rec.ended => AllEnded(new))
  BY <1>2 DEF AllEnded, UnderWay
<1>4. ASSUME NEW i \in 1..Len(inc.phases) PROVE PhaseFits(s, new, i)
  <2>1. PhaseFits(s, inc, i)
    BY DEF Consistent
  <2>2. new.phases[i] = inc.phases[i] /\ i # Len(new.phases)
    BY <1>2
  <2>3. ~(rec.host = inc.phases[i].host /\ rec.native = inc.phases[i].native)
    BY <2>1 DEF PhaseFits
  <2>4. \A j \in 1..Len(new.phases) :
          new.phases[j].host = inc.phases[i].host /\ new.phases[j].native = inc.phases[i].native
            => i = j
    BY <1>2, <2>1, <2>2, <2>3 DEF PhaseFits
  <2>5. inc.phases[i].phase = "b" =>
          \E j \in 1..(i - 1) : new.phases[j].phase = "a" /\ new.phases[j].ended
    BY <1>2, <2>1 DEF PhaseFits
  <2>6. QED
    BY <2>1, <2>2, <2>4, <2>5 DEF PhaseFits
<1>5. PhaseFits(s, new, Len(new.phases))
  <2>1. \A j \in 1..Len(inc.phases) :
          ~(rec.host = inc.phases[j].host /\ rec.native = inc.phases[j].native)
    BY DEF PhaseFits, Consistent
  <2>2. rec.phase = "b" =>
          \E j \in 1..Len(inc.phases) : new.phases[j].phase = "a" /\ new.phases[j].ended
    BY <1>1, <1>2 DEF PhaseOf
  <2>3. QED
    BY <1>2, <2>1, <2>2 DEF PhaseFits
<1>6. QED
  BY <1>2, <1>3, <1>4, <1>5 DEF Consistent

(* The phase under way ends.                                               *)
LEMMA PhaseEnds ==
  ASSUME NEW s, NEW inc, Consistent(s, inc), UnderWay(inc), NEW new \in Incidents,
         new.phases = [inc.phases EXCEPT ![Len(inc.phases)].ended = TRUE],
         new.tried = inc.tried, new.snapshot = inc.snapshot
  PROVE  Consistent(s, new) /\ AllEnded(new) /\ Len(new.phases) = Len(inc.phases)
<1>1. inc.phases \in Seq(PhaseRecs)
  BY DEF Consistent, Incidents
<1>2. /\ Len(new.phases) = Len(inc.phases) /\ Len(inc.phases) \in Nat
      /\ \A i \in 1..Len(inc.phases) :
           /\ new.phases[i].phase = inc.phases[i].phase /\ new.phases[i].host = inc.phases[i].host
           /\ new.phases[i].native = inc.phases[i].native
           /\ inc.phases[i].ended => new.phases[i].ended
           /\ i = Len(inc.phases) => new.phases[i].ended
  BY <1>1 DEF PhaseRecs, UnderWay
<1>3. AllEnded(new)
  BY <1>2, SMTT(30) DEF AllEnded, UnderWay
<1>4. QED
  BY <1>2, <1>3 DEF Consistent, PhaseFits

(* Saving an incident, which is the last one, leaves the others alone.     *)
LEMMA FileSaved ==
  ASSUME NEW s, NEW files, FilesInv(s, files), NEW inc, OnFile(s, inc)
  PROVE  FilesInv(s, [files EXCEPT ![Len(files)] = inc])
<1> DEFINE new == [files EXCEPT ![Len(files)] = inc]
<1>1. files \in Seq(Incidents) /\ inc \in Incidents
  BY DEF FilesInv, OnFile, Consistent
<1>2. /\ new \in Seq(Incidents) /\ Len(new) = Len(files) /\ Len(files) \in Nat
      /\ \A i \in 1..Len(files) : new[i] = IF i = Len(files) THEN inc ELSE files[i]
  <2>1. CASE Len(files) = 0
    <3>1. files = <<>> /\ new = files
      BY <1>1, <2>1
    <3> HIDE DEF new
    <3>2. QED
      BY <1>1, <2>1, <3>1
  <2>2. CASE Len(files) # 0
    <3>1. Len(files) \in 1..Len(files) /\ DOMAIN files = 1..Len(files) /\ Len(files) \in Nat
      BY <1>1, <2>2
    <3>2. new \in [1..Len(files) -> Incidents]
      BY <1>1, <3>1
    <3>3. QED
      BY <1>1, <3>1, <3>2
  <2>3. QED
    BY <2>1, <2>2
<1> HIDE DEF new
<1>3. \A i \in 1..Len(new) : OnFile(s, new[i])
  BY <1>2 DEF FilesInv
<1>4. \A i \in 1..(Len(new) - 1) : new[i].state \notin LiveStates
  BY <1>2 DEF FilesInv
<1>5. QED
  BY <1>2, <1>3, <1>4 DEF FilesInv, new

LEMMA EventKept ==
  ASSUME NEW s, NEW inc, NEW event \in Events
  PROVE  /\ OnFile(s, inc) => OnFile(s, Apply(inc, event))
         /\ Consistent(s, inc) => /\ Apply(inc, event) \in Incidents
                                  /\ Consistent(s, Apply(inc, event))
                                  /\ Apply(inc, event).phases = inc.phases
                                  /\ Apply(inc, event).budget = inc.budget
                                  /\ Apply(inc, event).tried = inc.tried
                                  /\ Apply(inc, event).snapshot = inc.snapshot
<1>1. SUFFICES ASSUME Consistent(s, inc)
               PROVE  /\ OnFile(s, inc) => OnFile(s, Apply(inc, event))
                      /\ Apply(inc, event) \in Incidents
                      /\ Consistent(s, Apply(inc, event))
                      /\ Apply(inc, event).phases = inc.phases
                      /\ Apply(inc, event).budget = inc.budget
                      /\ Apply(inc, event).tried = inc.tried
                      /\ Apply(inc, event).snapshot = inc.snapshot
  BY DEF OnFile
<1>2. inc \in Incidents
  BY <1>1 DEF Consistent
<1>3. QED
  BY <1>1, <1>2, Transition, StateAside

LEMMA FreshIncident ==
  ASSUME NEW s
  PROVE  /\ NoIncident \in Incidents /\ NewIncident \in Incidents
         /\ OnFile(s, NewIncident) /\ ~NewIncident.snapshot
<1>1. /\ NewIncident.state = "open" /\ NewIncident.phases = <<>> /\ NewIncident.budget = 0
      /\ NewIncident.snapshot = FALSE /\ NewIncident.tried = {}
      /\ NewIncident \in Incidents /\ NoIncident \in Incidents
  <2>1. NoIncident \in Incidents
    BY DEF NoIncident, Incidents, DeadStates
  <2>2. NewIncident \in Incidents
    BY <2>1 DEF NewIncident, Incidents, LiveStates
  <2>3. QED
    BY <2>1, <2>2 DEF NewIncident, NoIncident
<1>2. QED
  BY <1>1, WatchdogAssumption DEF OnFile, Consistent, AllEnded, Within

LEMMA WatchdogStarts == WatchdogInit => WatchdogInv
<1>1. SUFFICES ASSUME WatchdogInit PROVE WatchdogInv
  OBVIOUS
<1>2. /\ hostSession \in [host : Hosts, git : BOOLEAN, condition : {"blocked", "healthy", "gone"}]
      /\ available \subseteq Hosts
  <2>1. RescueHosts \subseteq Hosts /\ SessionHosts \subseteq Hosts
    BY DEF Hosts
  <2>2. PICK s \in [host : SessionHosts, git : BOOLEAN, condition : {"blocked"}] :
          hostSession = s
    BY <1>1 DEF WatchdogInit
  <2>3. hostSession \in [host : Hosts, git : BOOLEAN, condition : {"blocked", "healthy", "gone"}]
    BY <2>1, <2>2
  <2>4. QED
    BY <1>1, <2>1, <2>3 DEF WatchdogInit
<1>3. FilesInv(hostSession, incidents)
  BY <1>1 DEF WatchdogInit, FilesInv
<1>4. QED
  BY <1>1, <1>2, <1>3, FreshIncident DEF WatchdogInit, WatchdogInv, InHand

(* The watchdog leaves an incident, saved or as it was.                    *)
LEMMA LeavesIt ==
  ASSUME WatchdogInv, NEW inc, OnFile(hostSession, inc), Leaves(inc),
         UNCHANGED <<hostSession, available>>
  PROVE  WatchdogInv'
<1>1. FilesInv(hostSession, incidents')
  BY FileSaved DEF WatchdogInv, Leaves, SaveIncident
<1>2. InHand(hostSession, watchdog') /\ watchdog'.inc \in Incidents
  BY FreshIncident DEF WatchdogInv, Leaves, InHand
<1>3. QED
  BY <1>1, <1>2 DEF WatchdogInv, Leaves

LEMMA GivesIt ==
  ASSUME WatchdogInv, NEW inc, Gives(inc), UNCHANGED <<hostSession, available>>
  PROVE  WatchdogInv'
<1>1. InHand(hostSession, watchdog') /\ watchdog'.inc \in Incidents
  BY FreshIncident DEF WatchdogInv, Gives, InHand
<1>2. QED
  BY <1>1 DEF WatchdogInv, Gives

LEMMA EndsIt ==
  ASSUME WatchdogInv, NEW inc, OnFile(hostSession, inc), NEW event \in Events, Ends(inc, event),
         UNCHANGED <<hostSession, available>>
  PROVE  WatchdogInv'
<1>1. CASE Apply(inc, event) = inc
  BY <1>1, GivesIt DEF Ends
<1>2. CASE Apply(inc, event) # inc
  <2>1. OnFile(hostSession, Apply(inc, event))
    BY EventKept
  <2>2. Leaves(Apply(inc, event))
    BY <1>2 DEF Ends
  <2>3. QED
    BY <2>1, <2>2, LeavesIt
<1>3. QED
  BY <1>1, <1>2

(* No file holds a rescue without an end, so the re-entry reconciliation   *)
(* of a scan (reconcilePhaseTimeout) finds nothing to do.                  *)
LEMMA NothingToReconcile ==
  ASSUME NEW inc, AllEnded(inc), inc.phases \in Seq(PhaseRecs)
  PROVE  TimedOut(inc) = inc
BY DEF TimedOut, AllEnded

LEMMA ScanKeeps == WatchdogInv /\ Scan => WatchdogInv'
<1>1. SUFFICES ASSUME WatchdogInv, Scan PROVE WatchdogInv'
  OBVIOUS
<1>2. PICK old \in BOOLEAN, spend \in 0..MaxCost, dry \in DryRuns :
        LET seen == [i \in DOMAIN incidents |->
                       WhenRecovered(Reconciled(incidents[i], old, spend))]
            opens == hostSession.condition = "blocked" /\ ~HasIncident(seen)
        IN  /\ incidents' = IF opens THEN Append(seen, NewIncident) ELSE seen
            /\ watchdog' = [watchdog EXCEPT !.at = "listing", !.dry = dry]
  BY <1>1 DEF Scan
<1> DEFINE seen == [i \in DOMAIN incidents |->
                      WhenRecovered(Reconciled(incidents[i], old, spend))]
<1>3. incidents \in Seq(Incidents) /\ DOMAIN incidents = 1..Len(incidents)
  BY <1>1 DEF WatchdogInv, FilesInv
<1>4. ASSUME NEW i \in 1..Len(incidents)
      PROVE  /\ OnFile(hostSession, seen[i])
             /\ incidents[i].state \notin LiveStates => seen[i].state \notin LiveStates
  <2> DEFINE inc == incidents[i]
  <2>1. OnFile(hostSession, inc) /\ Consistent(hostSession, inc)
    BY <1>1 DEF WatchdogInv, FilesInv, OnFile
  <2>2. TimedOut(inc) = inc
    BY <2>1, NothingToReconcile DEF OnFile, Consistent, Incidents
  <2>3. seen[i] = WhenRecovered(inc)
    BY <1>3, <2>2 DEF Reconciled
  <2>4. "original-recovered" \in Events
    BY DEF Events
  <2>5. OnFile(hostSession, WhenRecovered(inc))
    BY <2>1, <2>4, EventKept DEF WhenRecovered
  <2>6. inc.state \notin LiveStates => WhenRecovered(inc) = inc
    BY DEF WhenRecovered
  <2>7. QED
    BY <2>3, <2>5, <2>6
<1>5. seen \in Seq(Incidents) /\ Len(seen) = Len(incidents) /\ Len(incidents) \in Nat
  <2>1. \A i \in 1..Len(incidents) : seen[i] \in Incidents
    BY <1>4 DEF OnFile, Consistent
  <2>2. QED
    BY <1>3, <2>1
<1>6. FilesInv(hostSession, seen)
  BY <1>1, <1>3, <1>4, <1>5 DEF FilesInv, WatchdogInv
<1>7. ASSUME ~HasIncident(seen) PROVE FilesInv(hostSession, Append(seen, NewIncident))
  <2>1. \A i \in 1..Len(seen) : seen[i].state \notin LiveStates /\ OnFile(hostSession, seen[i])
    BY <1>5, <1>6, <1>7 DEF HasIncident, FilesInv
  <2> DEFINE new == NewIncident
             longer == Append(seen, new)
  <2>2. new \in Incidents /\ OnFile(hostSession, new)
    BY FreshIncident
  <2> HIDE DEF new, seen
  <2>3. /\ longer \in Seq(Incidents) /\ Len(longer) = Len(seen) + 1 /\ longer[Len(seen) + 1] = new
        /\ \A i \in 1..Len(seen) : longer[i] = seen[i]
    BY <1>5, <2>2
  <2> HIDE DEF longer
  <2>4. \A i \in 1..Len(longer) : OnFile(hostSession, longer[i])
    BY <1>5, <2>1, <2>2, <2>3
  <2>5. \A i \in 1..(Len(longer) - 1) : longer[i].state \notin LiveStates
    BY <1>5, <2>1, <2>3
  <2>6. FilesInv(hostSession, longer)
    BY <2>3, <2>4, <2>5 DEF FilesInv
  <2>7. QED
    BY <2>6 DEF longer, new
<1>8. FilesInv(hostSession, incidents')
  BY <1>2, <1>6, <1>7
<1>9. dry \in BOOLEAN
  BY WatchdogAssumption
<1>10. UNCHANGED <<hostSession, available>> /\ watchdog.at = "idle"
  BY <1>1 DEF Scan
<1>11. InHand(hostSession, watchdog')
  BY <1>1, <1>2, <1>10 DEF WatchdogInv, InHand
<1>12. QED
  BY <1>1, <1>2, <1>8, <1>9, <1>10, <1>11 DEF WatchdogInv

LEMMA ListOpenKeeps == WatchdogInv /\ ListOpen => WatchdogInv'
<1>1. SUFFICES ASSUME WatchdogInv, ListOpen PROVE WatchdogInv'
  OBVIOUS
<1>2. UNCHANGED <<hostSession, available, incidents>> /\ watchdog.at = "listing"
  BY <1>1 DEF ListOpen
<1>3. CASE watchdog' = [watchdog EXCEPT !.at = "idle"]
  BY <1>1, <1>2, <1>3 DEF WatchdogInv, InHand
<1>4. CASE \E i \in DOMAIN incidents :
             watchdog' = [watchdog EXCEPT !.at = "dispatching", !.inc = incidents[i]]
  <2>1. PICK i \in DOMAIN incidents :
          watchdog' = [watchdog EXCEPT !.at = "dispatching", !.inc = incidents[i]]
    BY <1>4
  <2>2. OnFile(hostSession, incidents[i]) /\ incidents[i] \in Incidents
    BY <1>1 DEF WatchdogInv, FilesInv
  <2>3. InHand(hostSession, watchdog')
    BY <1>1, <2>1, <2>2 DEF WatchdogInv, InHand
  <2>4. QED
    BY <1>1, <1>2, <2>1, <2>2, <2>3 DEF WatchdogInv
<1>5. QED
  <2> DEFINE open == {i \in DOMAIN incidents : incidents[i].state = "open"}
  <2>1. open # {} => (CHOOSE i \in open : TRUE) \in open
    OBVIOUS
  <2>2. QED
    BY <1>1, <1>3, <1>4, <2>1 DEF ListOpen

(* What the watchdog has in hand while it runs a dispatch.                 *)
LEMMA Dispatching ==
  ASSUME WatchdogInv, watchdog.at = "dispatching"
  PROVE  /\ watchdog.inc \in Incidents /\ OnFile(hostSession, watchdog.inc)
         /\ Consistent(hostSession, watchdog.inc) /\ AllEnded(watchdog.inc)
         /\ ~OverBudget(watchdog.inc) => Within(watchdog.inc, 0)
<1>1. watchdog.inc \in Incidents /\ OnFile(hostSession, watchdog.inc)
  BY DEF WatchdogInv, InHand
<1>2. watchdog.inc.budget \in Nat
  BY <1>1 DEF Incidents
<1>3. QED
  BY <1>1, <1>2, WatchdogAssumption DEF OnFile, OverBudget, Within

LEMMA MoreMayBeSpent ==
  ASSUME NEW inc \in Incidents
  PROVE  /\ Within(inc, 0) => Within(inc, 1) /\ Within(inc, 2) /\ Within(inc, 3)
         /\ Within(inc, 1) => Within(inc, 2)
         /\ Within(inc, 2) => Within(inc, 3)
<1>1. inc.budget \in Nat
  BY DEF Incidents
<1>2. QED
  BY <1>1, WatchdogAssumption DEF Within

LEMMA BudgetStopsKeeps == WatchdogInv /\ BudgetStops => WatchdogInv'
<1>1. SUFFICES ASSUME WatchdogInv, BudgetStops PROVE WatchdogInv'
  OBVIOUS
<1>2. UNCHANGED <<hostSession, available>> /\ "budget-stop" \in Events
  BY <1>1 DEF BudgetStops, Kept, Events
<1>3. QED
  BY <1>1, <1>2, Dispatching, EndsIt DEF BudgetStops

(* A rescue begins: dry, and then it is left; or run, and what is saved is *)
(* the event alone.                                                        *)
LEMMA BeginKeeps ==
  ASSUME WatchdogInv, NEW inc, Consistent(hostSession, inc), AllEnded(inc),
         NEW event \in Events, NEW rec \in PhaseRecs, ~rec.ended, NEW tried \in SUBSET Hosts,
         Within(inc, 2),
         NEW at, Begin(inc, event, rec, tried, at), UNCHANGED <<hostSession, available>>,
         rec.native = "no" => rec.host # hostSession.host /\ rec.host \in tried \ inc.tried,
         rec.native # "no" =>
           /\ rec.host = "codex" /\ rec.phase = "b"
           /\ \A i \in 1..Len(inc.phases) : inc.phases[i].native # rec.native,
         rec.phase = "b" => PhaseOf(inc) = "b" /\ (rec.native = "no" => inc.snapshot),
         \/ at = "running"
         \/ /\ at = "native" /\ rec.native = "resume" /\ Within(inc, 0)
            /\ \A i \in 1..Len(inc.phases) : inc.phases[i].native = "no"
  PROVE  WatchdogInv'
<1> DEFINE moved == Apply(inc, event)
           begun == WithPhase([moved EXCEPT !.tried = @ \cup tried], rec)
           dry == [begun EXCEPT !.phases[Len(begun.phases)].ended = TRUE]
           kept == [rec EXCEPT !.ended = TRUE]
<1>1. /\ moved \in Incidents /\ moved.phases = inc.phases /\ moved.budget = inc.budget
      /\ moved.tried = inc.tried /\ moved.snapshot = inc.snapshot
      /\ Consistent(hostSession, moved)
  BY EventKept
<1>2. inc \in Incidents /\ inc.phases \in Seq(PhaseRecs) /\ inc.tried \subseteq Hosts
  BY DEF Consistent, Incidents
<1>3. OnFile(hostSession, inc) /\ OnFile(hostSession, moved)
  BY <1>2, MoreMayBeSpent, EventKept DEF OnFile
<1> HIDE DEF moved
<1>4. /\ begun \in Incidents /\ begun.phases = Append(inc.phases, rec)
      /\ begun.tried = inc.tried \cup tried /\ begun.snapshot = inc.snapshot
      /\ begun.budget = inc.budget
  <2>1. Append(inc.phases, rec) \in Seq(PhaseRecs)
    BY <1>2
  <2>2. QED
    BY <1>1, <1>2, <2>1 DEF WithPhase, Incidents
<1> HIDE DEF begun
<1>5. /\ Consistent(hostSession, begun) /\ UnderWay(begun)
      /\ Len(begun.phases) = Len(inc.phases) + 1 /\ begun.phases[Len(begun.phases)] = rec
      /\ \A i \in 1..Len(inc.phases) : begun.phases[i] = inc.phases[i]
  BY <1>4, PhaseAdded
<1>6. CASE watchdog.dry
  <2>1. Leaves(dry)
    BY <1>6 DEF Begin, begun, moved
  <2>2. dry.phases = [begun.phases EXCEPT ![Len(begun.phases)].ended = TRUE]
        /\ dry.tried = begun.tried /\ dry.snapshot = begun.snapshot /\ dry.budget = begun.budget
        /\ dry \in Incidents
    <3>1. begun.phases \in Seq(PhaseRecs) /\ begun \in Incidents
      BY <1>4 DEF Incidents
    <3>2. [begun.phases EXCEPT ![Len(begun.phases)].ended = TRUE] \in Seq(PhaseRecs)
      <4>1. Len(begun.phases) \in 1..Len(begun.phases) /\ begun.phases[Len(begun.phases)] = rec
        BY <1>2, <1>5
      <4>2. kept \in PhaseRecs
        BY DEF PhaseRecs
      <4>3. [begun.phases EXCEPT ![Len(begun.phases)] = kept] \in Seq(PhaseRecs)
        BY <3>1, <4>1, <4>2, ExceptSeq
      <4>4. QED
        BY <4>1, <4>3
    <3>3. QED
      BY <3>1, <3>2 DEF Incidents
  <2> HIDE DEF dry
  <2>3. Consistent(hostSession, dry) /\ AllEnded(dry)
    BY <1>5, <2>2, PhaseEnds, SMTT(30)
  <2>4. OnFile(hostSession, dry)
    BY <1>2, <1>4, <2>2, <2>3, MoreMayBeSpent DEF OnFile, Within
  <2>5. QED
    BY <2>1, <2>4, LeavesIt
<1>7. CASE ~watchdog.dry
  <2>1. incidents' = incidents \/ SaveIncident(moved)
    BY <1>7 DEF Begin, moved
  <2>2. FilesInv(hostSession, incidents')
    BY <1>3, <2>1, FileSaved DEF WatchdogInv, SaveIncident
  <2>3. watchdog' = [watchdog EXCEPT !.at = at, !.inc = begun]
    BY <1>7 DEF Begin, begun, moved
  <2>4. watchdog'.at = at /\ watchdog'.inc = begun /\ watchdog'.dry = watchdog.dry
    BY <2>3 DEF WatchdogInv
  <2>5. Within(begun, 2) /\ (Within(inc, 0) => Within(begun, 0))
    BY <1>4 DEF Within
  <2>6. at = "native" => NativeInHand(begun)
    BY <1>2, <1>5, <2>5 DEF NativeInHand
  <2>7. InHand(hostSession, watchdog')
    BY <1>5, <2>4, <2>5, <2>6 DEF InHand
  <2>8. QED
    BY <1>4, <2>2, <2>3, <2>7 DEF WatchdogInv
<1>8. QED
  BY <1>6, <1>7

LEMMA StartResumeKeeps == WatchdogInv /\ StartResume => WatchdogInv'
<1>1. SUFFICES ASSUME WatchdogInv, StartResume PROVE WatchdogInv'
  OBVIOUS
<1> DEFINE inc == watchdog.inc
           rec == PhaseRec("b", "codex", "resume")
<1>2. /\ Consistent(hostSession, inc) /\ AllEnded(inc) /\ Within(inc, 0) /\ inc \in Incidents
      /\ Within(inc, 2)
  BY <1>1, Dispatching, MoreMayBeSpent DEF StartResume
<1>3. /\ PhaseOf(inc) = "b" /\ hostSession.host = "codex"
      /\ \A i \in 1..Len(inc.phases) : inc.phases[i].native = "no"
  BY <1>1, <1>2 DEF StartResume, NativeFirst, Consistent, Incidents
<1>4. /\ rec \in PhaseRecs /\ ~rec.ended /\ rec.native = "resume" /\ rec.host = "codex"
      /\ rec.phase = "b"
  <2>1. "codex" \in Hosts
    BY DEF Hosts
  <2>2. rec = [phase |-> "b", host |-> "codex", native |-> "resume", ended |-> FALSE]
    BY DEF PhaseRec
  <2> HIDE DEF rec
  <2>3. QED
    BY <2>1, <2>2 DEF PhaseRecs
<1>5. /\ Begin(inc, "dispatch-b", rec, {}, "native") /\ UNCHANGED <<hostSession, available>>
      /\ "dispatch-b" \in Events
  BY <1>1 DEF StartResume, Kept, Events
<1> HIDE DEF rec, inc
<1>6. QED
  BY <1>1, <1>2, <1>3, <1>4, <1>5, BeginKeeps

LEMMA FirstIsLeft ==
  ASSUME NEW inc, NEW host \in FirstInRotation(inc)
  PROVE  host \in Hosts /\ host # hostSession.host /\ host \notin inc.tried
BY WatchdogAssumption DEF FirstInRotation, SelectRescueHosts, Hosts, RescueHosts

(* Who chooses a host has an incident whose rescues ended, and a snapshot  *)
(* before another host may write.                                          *)
LEMMA Choosing ==
  ASSUME WatchdogInv, Chooses
  PROVE  LET inc == watchdog.inc IN
         /\ inc \in Incidents /\ Consistent(hostSession, inc) /\ AllEnded(inc) /\ Within(inc, 2)
         /\ OnFile(hostSession, inc)
         /\ PhaseOf(inc) = "b" => inc.snapshot
<1>1. CASE watchdog.at = "choosing"
  BY <1>1, MoreMayBeSpent DEF WatchdogInv, InHand, OnFile
<1>2. CASE watchdog.at = "dispatching" /\ ~OverBudget(watchdog.inc) /\ PhaseOf(watchdog.inc) = "a"
  BY <1>2, Dispatching, MoreMayBeSpent
<1>3. QED
  BY <1>1, <1>2 DEF Chooses

LEMMA StartRescueKeeps == WatchdogInv /\ StartRescue => WatchdogInv'
<1>1. SUFFICES ASSUME WatchdogInv, StartRescue PROVE WatchdogInv'
  OBVIOUS
<1> DEFINE inc == watchdog.inc
           event == IF PhaseOf(inc) = "a" THEN "dispatch-a" ELSE "dispatch-b"
<1>2. PICK host \in FirstInRotation(inc) :
        Begin(inc, event, PhaseRec(PhaseOf(inc), host, "no"), {host}, "running")
  BY <1>1 DEF StartRescue
<1> DEFINE rec == PhaseRec(PhaseOf(inc), host, "no")
<1>3. host \in Hosts /\ host # hostSession.host /\ host \notin inc.tried
  BY FirstIsLeft
<1>4. /\ Consistent(hostSession, inc) /\ AllEnded(inc) /\ Within(inc, 2)
      /\ PhaseOf(inc) = "b" => inc.snapshot
  BY <1>1, Choosing DEF StartRescue
<1>5. /\ rec \in PhaseRecs /\ ~rec.ended /\ rec.native = "no" /\ rec.host = host
      /\ rec.phase = PhaseOf(inc)
  BY <1>3 DEF PhaseRec, PhaseRecs, PhaseOf
<1>6. event \in Events /\ {host} \in SUBSET Hosts /\ UNCHANGED <<hostSession, available>>
  BY <1>1, <1>3 DEF StartRescue, Kept, Events
<1>7. Begin(inc, event, rec, {host}, "running")
  BY <1>2
<1> HIDE DEF rec, event, inc
<1>8. QED
  BY <1>1, <1>3, <1>4, <1>5, <1>6, <1>7, BeginKeeps

LEMMA NoHostLeftKeeps == WatchdogInv /\ NoHostLeft => WatchdogInv'
<1>1. SUFFICES ASSUME WatchdogInv, NoHostLeft PROVE WatchdogInv'
  OBVIOUS
<1>2. UNCHANGED <<hostSession, available>> /\ "hosts-exhausted" \in Events
  BY <1>1 DEF NoHostLeft, Kept, Events
<1>3. QED
  BY <1>1, <1>2, Choosing, EndsIt DEF NoHostLeft

LEMMA PriceValveKeeps == WatchdogInv /\ PriceValve => WatchdogInv'
<1>1. SUFFICES ASSUME WatchdogInv, PriceValve PROVE WatchdogInv'
  OBVIOUS
<1>2. PICK host \in FirstInRotation(watchdog.inc) :
        LET inc == [watchdog.inc EXCEPT !.tried = @ \cup {host}]
        IN  Leaves(IF SelectRescueHosts(inc) = {} THEN Apply(inc, "hosts-exhausted") ELSE inc)
  BY <1>1 DEF PriceValve
<1> DEFINE old == watchdog.inc
           inc == [old EXCEPT !.tried = @ \cup {host}]
<1>3. OnFile(hostSession, old) /\ old \in Incidents
  BY <1>1, Choosing DEF PriceValve
<1>4. host \in Hosts
  BY FirstIsLeft
<1>5. /\ inc \in Incidents /\ inc.phases = old.phases /\ inc.snapshot = old.snapshot
      /\ inc.budget = old.budget /\ old.tried \subseteq inc.tried
  BY <1>3, <1>4 DEF Incidents
<1>6. Leaves(IF SelectRescueHosts(inc) = {} THEN Apply(inc, "hosts-exhausted") ELSE inc)
  BY <1>2
<1> HIDE DEF inc, old
<1>7. OnFile(hostSession, inc)
  BY <1>3, <1>5 DEF OnFile, Consistent, PhaseFits, AllEnded, Within
<1>8. "hosts-exhausted" \in Events /\ UNCHANGED <<hostSession, available>>
  BY <1>1 DEF Events, PriceValve, Kept
<1>9. OnFile(hostSession, IF SelectRescueHosts(inc) = {} THEN Apply(inc, "hosts-exhausted") ELSE inc)
  BY <1>7, <1>8, EventKept
<1>10. QED
  BY <1>1, <1>6, <1>8, <1>9, LeavesIt

(* A rescue that is under way ends, and costs something.                   *)
LEMMA RescueEnded ==
  ASSUME WatchdogInv, Consistent(hostSession, watchdog.inc), UnderWay(watchdog.inc),
         NEW spend \in 0..MaxCost
  PROVE  LET inc == watchdog.inc
             new == PhaseEnded(spend) IN
         /\ new \in Incidents /\ Consistent(hostSession, new) /\ AllEnded(new)
         /\ Len(new.phases) = Len(inc.phases) /\ Len(inc.phases) \in Nat \ {0}
         /\ \A i \in 1..Len(inc.phases) : /\ new.phases[i].native = inc.phases[i].native
                                          /\ new.phases[i].phase = inc.phases[i].phase
         /\ Within(inc, 0) => Within(new, 1)
         /\ Within(inc, 1) => Within(new, 2)
         /\ Within(inc, 2) => Within(new, 3)
<1> DEFINE inc == watchdog.inc
           new == PhaseEnded(spend)
           n == Len(inc.phases)
           kept == [inc.phases[n] EXCEPT !.ended = TRUE]
<1>1. inc \in Incidents /\ inc.phases \in Seq(PhaseRecs) /\ inc.budget \in Nat
  BY DEF Consistent, Incidents
<1>2. n \in Nat \ {0} /\ n \in 1..n
  BY <1>1 DEF UnderWay
<1>3. inc.phases[n] \in PhaseRecs
  BY <1>1, <1>2
<1>4. kept \in PhaseRecs /\ kept.native = inc.phases[n].native /\ kept.phase = inc.phases[n].phase
  BY <1>3 DEF PhaseRecs
<1>5. /\ [inc.phases EXCEPT ![n] = kept] \in Seq(PhaseRecs)
      /\ Len([inc.phases EXCEPT ![n] = kept]) = n
      /\ \A i \in 1..n : [inc.phases EXCEPT ![n] = kept][i] = IF i = n THEN kept ELSE inc.phases[i]
  BY <1>1, <1>2, <1>4, ExceptSeq
<1>6. /\ new.phases = [inc.phases EXCEPT ![n] = kept] /\ new.budget = inc.budget + spend
      /\ new.tried = inc.tried /\ new.snapshot = inc.snapshot /\ new \in Incidents
  <2>1. [inc.phases EXCEPT ![n].ended = TRUE] = [inc.phases EXCEPT ![n] = kept]
    OBVIOUS
  <2>2. new = [inc EXCEPT !.phases = [inc.phases EXCEPT ![n] = kept], !.budget = inc.budget + spend]
    BY <1>1, <2>1 DEF PhaseEnded
  <2>3. inc.budget + spend \in Nat
    BY <1>1, WatchdogAssumption
  <2> HIDE DEF new, inc, n, kept
  <2>4. QED
    BY <1>1, <1>5, <2>2, <2>3 DEF Incidents
<1>7. new.phases = [inc.phases EXCEPT ![n].ended = TRUE]
  BY <1>6
<1>8. Consistent(hostSession, new) /\ AllEnded(new)
  BY <1>6, <1>7, PhaseEnds
<1>9. \A i \in 1..n : /\ new.phases[i].native = inc.phases[i].native
                      /\ new.phases[i].phase = inc.phases[i].phase
  BY <1>4, <1>5, <1>6
<1>10. /\ Within(inc, 0) => Within(new, 1)
       /\ Within(inc, 1) => Within(new, 2)
       /\ Within(inc, 2) => Within(new, 3)
  <2> HIDE DEF new, inc
  <2>1. new.budget = inc.budget + spend
    BY <1>6
  <2>2. QED
    BY <1>1, <2>1, WatchdogAssumption DEF Within
<1> HIDE DEF new
<1>11. QED
  BY <1>2, <1>5, <1>6, <1>8, <1>9, <1>10 DEF new

LEMMA RescueEndsKeeps == WatchdogInv /\ RescueEnds => WatchdogInv'
<1>1. SUFFICES ASSUME WatchdogInv, RescueEnds PROVE WatchdogInv'
  OBVIOUS
<1>2. PICK spend \in 0..MaxCost, outcome \in {"resolved", "failed"} :
        LET inc == PhaseEnded(spend)
            phase == inc.phases[Len(inc.phases)].phase
            failed == Apply(inc, IF phase = "a" THEN "phase-a-failed" ELSE "phase-b-failed")
        IN  Leaves(IF outcome = "resolved" THEN Apply(inc, "resolved")
                   ELSE IF OverBudget(inc) THEN Apply(inc, "budget-stop")
                   ELSE IF phase = "b" /\ SelectRescueHosts(inc) = {}
                        THEN Apply(failed, "hosts-exhausted") ELSE failed)
  BY <1>1 DEF RescueEnds
<1> DEFINE inc == PhaseEnded(spend)
<1>3. /\ Consistent(hostSession, watchdog.inc) /\ UnderWay(watchdog.inc) /\ Within(watchdog.inc, 2)
  BY <1>1 DEF WatchdogInv, InHand, RescueEnds
<1>4. OnFile(hostSession, inc)
  BY <1>1, <1>3, RescueEnded DEF OnFile
<1>5. PICK new : /\ Leaves(new)
                 /\ \/ \E event \in {"resolved", "budget-stop", "phase-a-failed", "phase-b-failed"} :
                         new = Apply(inc, event)
                    \/ \E event \in {"phase-a-failed", "phase-b-failed"} :
                         new = Apply(Apply(inc, event), "hosts-exhausted")
  <2> HIDE DEF inc
  <2>1. CASE outcome = "resolved"
    BY <1>2, <2>1 DEF inc
  <2>2. CASE outcome # "resolved" /\ OverBudget(inc)
    BY <1>2, <2>2 DEF inc
  <2>3. CASE outcome # "resolved" /\ ~OverBudget(inc)
    <3> DEFINE phase == inc.phases[Len(inc.phases)].phase
               failed == Apply(inc, IF phase = "a" THEN "phase-a-failed" ELSE "phase-b-failed")
    <3>1. Leaves(IF phase = "b" /\ SelectRescueHosts(inc) = {}
                 THEN Apply(failed, "hosts-exhausted") ELSE failed)
      BY <1>2, <2>3 DEF inc
    <3>2. failed = Apply(inc, "phase-a-failed") \/ failed = Apply(inc, "phase-b-failed")
      OBVIOUS
    <3> HIDE DEF failed, phase
    <3>3. QED
      BY <3>1, <3>2
  <2>4. QED
    BY <2>1, <2>2, <2>3
<1> HIDE DEF inc
<1>6. {"resolved", "budget-stop", "phase-a-failed", "phase-b-failed", "hosts-exhausted"} \subseteq Events
  BY DEF Events
<1>7. OnFile(hostSession, new)
  BY <1>4, <1>5, <1>6, EventKept
<1>8. UNCHANGED <<hostSession, available>>
  BY <1>1 DEF RescueEnds, Kept
<1>9. QED
  BY <1>1, <1>5, <1>7, <1>8, LeavesIt

LEMMA NativeEndsKeeps == WatchdogInv /\ NativeEnds => WatchdogInv'
<1>1. SUFFICES ASSUME WatchdogInv, NativeEnds PROVE WatchdogInv'
  OBVIOUS
<1> DEFINE old == watchdog.inc
           n == Len(old.phases)
<1>2. /\ Consistent(hostSession, old) /\ NativeInHand(old) /\ UnderWay(old)
      /\ watchdog.at = "native" /\ UNCHANGED <<hostSession, available>>
  BY <1>1 DEF WatchdogInv, InHand, NativeEnds, Kept, NativeInHand
<1>3. PICK spend \in 0..MaxCost, outcome \in {"resolved", "failed", "blocked"} :
        LET inc == PhaseEnded(spend)
            forked == WithPhase(inc, PhaseRec("b", "codex", "fork"))
        IN  CASE outcome = "resolved" -> Leaves(Apply(inc, "resolved"))
              [] outcome = "blocked" -> Leaves(Apply(inc, "hosts-exhausted"))
              [] OTHER ->
                   /\ SaveIncident(inc)
                   /\ watchdog' = IF inc.phases[Len(inc.phases)].native = "resume"
                                  THEN [watchdog EXCEPT !.inc = forked]
                                  ELSE [watchdog EXCEPT !.inc = inc, !.at = "gate"]
  BY <1>1 DEF NativeEnds
<1> DEFINE inc == PhaseEnded(spend)
           rec == PhaseRec("b", "codex", "fork")
           forked == WithPhase(inc, rec)
<1>4. /\ inc \in Incidents /\ Consistent(hostSession, inc) /\ AllEnded(inc)
      /\ Len(inc.phases) = n /\ n \in Nat \ {0}
      /\ \A i \in 1..n : /\ inc.phases[i].native = old.phases[i].native
                         /\ inc.phases[i].phase = old.phases[i].phase
      /\ Within(old, 0) => Within(inc, 1)
      /\ Within(old, 1) => Within(inc, 2)
  BY <1>1, <1>2, RescueEnded
<1>5. Within(inc, 2) /\ Within(inc, 3) /\ OnFile(hostSession, inc)
  BY <1>2, <1>4, MoreMayBeSpent DEF NativeInHand, OnFile
<1>6. CASE outcome # "failed"
  <2>1. Leaves(Apply(inc, "resolved")) \/ Leaves(Apply(inc, "hosts-exhausted"))
    BY <1>3, <1>6
  <2>2. "resolved" \in Events /\ "hosts-exhausted" \in Events
    BY DEF Events
  <2> HIDE DEF inc
  <2>3. OnFile(hostSession, Apply(inc, "resolved"))
        /\ OnFile(hostSession, Apply(inc, "hosts-exhausted"))
    BY <1>5, <2>2, EventKept
  <2>4. QED
    BY <1>1, <1>2, <2>1, <2>3, LeavesIt
<1>7. CASE outcome = "failed"
  <2>1. /\ SaveIncident(inc)
        /\ watchdog' = IF inc.phases[Len(inc.phases)].native = "resume"
                       THEN [watchdog EXCEPT !.inc = forked]
                       ELSE [watchdog EXCEPT !.inc = inc, !.at = "gate"]
    BY <1>3, <1>7
  <2>2. FilesInv(hostSession, incidents')
    BY <1>1, <1>5, <2>1, FileSaved DEF WatchdogInv, SaveIncident
  <2>3. CASE inc.phases[Len(inc.phases)].native = "resume"
    <3>1. watchdog' = [watchdog EXCEPT !.inc = forked]
      BY <2>1, <2>3
    <3>2. /\ rec \in PhaseRecs /\ rec.native = "fork" /\ rec.host = "codex" /\ rec.phase = "b"
      <4>1. rec = [phase |-> "b", host |-> "codex", native |-> "fork", ended |-> FALSE]
        BY DEF PhaseRec
      <4>2. "codex" \in Hosts
        BY DEF Hosts
      <4> HIDE DEF rec
      <4>3. QED
        BY <4>1, <4>2 DEF PhaseRecs
    <3>3. /\ Within(inc, 1) /\ inc.phases[n].native = "resume" /\ n \in 1..n
          /\ old.phases[n].native = "resume"
          /\ \A i \in 1..(n - 1) : old.phases[i].native = "no"
      <4>1. n \in 1..n /\ inc.phases[n].native = "resume" /\ old.phases[n].native = "resume"
        BY <1>4, <2>3
      <4>2. QED
        BY <1>2, <1>4, <4>1 DEF NativeInHand
    <3>4. \A i \in 1..n : inc.phases[i].native # "fork"
      BY <1>4, <3>3
    <3>5. PhaseOf(inc) = "b"
      <4>1. PhaseFits(hostSession, inc, n) /\ inc.phases[n].phase = "b"
        BY <1>4, <3>3 DEF Consistent, PhaseFits
      <4>2. PICK j \in 1..(n - 1) : inc.phases[j].phase = "a" /\ inc.phases[j].ended
        BY <1>4, <4>1 DEF PhaseFits
      <4>3. inc.phases \in Seq(PhaseRecs) /\ j \in DOMAIN inc.phases
        BY <1>4, <4>2 DEF Incidents
      <4>4. QED
        BY <4>2, <4>3 DEF PhaseOf
    <3> HIDE DEF rec, inc, n, old
    <3>6. /\ forked \in Incidents /\ forked.phases = Append(inc.phases, rec)
          /\ forked.snapshot = inc.snapshot /\ forked.tried = inc.tried
          /\ forked.budget = inc.budget
      <4>1. inc.phases \in Seq(PhaseRecs) /\ Append(inc.phases, rec) \in Seq(PhaseRecs)
        BY <1>4, <3>2 DEF Incidents
      <4>2. forked = [inc EXCEPT !.phases = Append(inc.phases, rec)]
        BY <1>4 DEF WithPhase, Incidents, forked
      <4> HIDE DEF forked
      <4>3. QED
        BY <1>4, <4>1, <4>2 DEF Incidents
    <3> HIDE DEF forked
    <3>7. /\ Consistent(hostSession, forked) /\ UnderWay(forked)
          /\ forked.phases[Len(forked.phases)] = rec
      BY <1>4, <3>2, <3>4, <3>5, <3>6, PhaseAdded
    <3>8. NativeInHand(forked)
      BY <3>2, <3>3, <3>6, <3>7 DEF NativeInHand, Within
    <3>9. InHand(hostSession, watchdog')
      BY <1>1, <1>2, <3>1, <3>7, <3>8 DEF InHand, WatchdogInv
    <3>10. QED
      BY <1>1, <1>2, <2>2, <3>1, <3>6, <3>9 DEF WatchdogInv
  <2>4. CASE inc.phases[Len(inc.phases)].native # "resume"
    <3> HIDE DEF inc
    <3>1. watchdog' = [watchdog EXCEPT !.inc = inc, !.at = "gate"]
      BY <2>1, <2>4
    <3>2. InHand(hostSession, watchdog')
      BY <1>1, <1>4, <1>5, <3>1 DEF InHand, WatchdogInv
    <3>3. QED
      BY <1>1, <1>2, <1>4, <2>2, <3>1, <3>2 DEF WatchdogInv
  <2>5. QED
    BY <2>3, <2>4
<1>8. QED
  BY <1>6, <1>7

LEMMA SnapshotGateKeeps == WatchdogInv /\ SnapshotGate => WatchdogInv'
<1>1. SUFFICES ASSUME WatchdogInv, SnapshotGate PROVE WatchdogInv'
  OBVIOUS
<1> DEFINE old == watchdog.inc
<1>2. /\ old \in Incidents /\ Consistent(hostSession, old) /\ AllEnded(old) /\ Within(old, 2)
      /\ OnFile(hostSession, old)
  <2>1. CASE watchdog.at = "gate"
    BY <1>1, <2>1, MoreMayBeSpent DEF WatchdogInv, InHand, OnFile
  <2>2. CASE watchdog.at = "dispatching" /\ ~OverBudget(old)
    BY <1>1, <2>2, Dispatching, MoreMayBeSpent
  <2>3. QED
    BY <1>1, <2>1, <2>2 DEF SnapshotGate, EntersGate
<1>3. UNCHANGED <<hostSession, available>> /\ "diagnose-only" \in Events
  BY <1>1 DEF SnapshotGate, Events
<1>4. CASE Ends(old, "diagnose-only") \/ Gives(old)
  BY <1>1, <1>2, <1>3, <1>4, EndsIt, GivesIt
<1>5. ASSUME hostSession.git, NEW new, new = [old EXCEPT !.snapshot = TRUE],
             SaveIncident(new), watchdog' = [watchdog EXCEPT !.inc = new, !.at = "choosing"]
      PROVE  WatchdogInv'
  <2>1. /\ new \in Incidents /\ new.phases = old.phases /\ new.budget = old.budget
        /\ new.tried = old.tried /\ new.snapshot
    BY <1>2, <1>5 DEF Incidents
  <2>2. /\ Consistent(hostSession, new) /\ AllEnded(new) /\ Within(new, 2) /\ Within(new, 3)
        /\ OnFile(hostSession, new)
    BY <1>2, <1>5, <2>1, MoreMayBeSpent DEF OnFile, Consistent, PhaseFits, AllEnded, Within
  <2>3. FilesInv(hostSession, incidents')
    BY <1>1, <1>5, <2>2, FileSaved DEF WatchdogInv, SaveIncident
  <2>4. InHand(hostSession, watchdog')
    BY <1>1, <1>5, <2>1, <2>2 DEF WatchdogInv, InHand
  <2>5. QED
    BY <1>1, <1>3, <1>5, <2>1, <2>3, <2>4 DEF WatchdogInv
<1>6. QED
  BY <1>1, <1>4, <1>5 DEF SnapshotGate

LEMMA SessionChangesKeeps == WatchdogInv /\ SessionChanges => WatchdogInv'
<1>1. SUFFICES ASSUME WatchdogInv, SessionChanges PROVE WatchdogInv'
  OBVIOUS
<1>2. PICK c \in {"blocked", "healthy", "gone"} :
        hostSession' = [hostSession EXCEPT !.condition = c]
  BY <1>1 DEF SessionChanges
<1>3. /\ hostSession' \in [host : Hosts, git : BOOLEAN, condition : {"blocked", "healthy", "gone"}]
      /\ hostSession'.host = hostSession.host /\ hostSession'.git = hostSession.git
  BY <1>1, <1>2 DEF WatchdogInv
<1>4. ASSUME NEW inc PROVE /\ Consistent(hostSession, inc) => Consistent(hostSession', inc)
                           /\ OnFile(hostSession, inc) => OnFile(hostSession', inc)
  BY <1>3 DEF OnFile, Consistent, PhaseFits
<1>5. FilesInv(hostSession', incidents) /\ InHand(hostSession', watchdog)
  BY <1>1, <1>4 DEF WatchdogInv, FilesInv, InHand
<1>6. QED
  BY <1>1, <1>3, <1>5 DEF WatchdogInv, SessionChanges

LEMMA WatchdogKilledKeeps == WatchdogInv /\ WatchdogKilled => WatchdogInv'
BY FreshIncident DEF WatchdogInv, WatchdogKilled, InHand

LEMMA WatchdogSteps == WatchdogInv /\ [WatchdogNext]_watchdogVars => WatchdogInv'
<1>1. WatchdogInv /\ UNCHANGED watchdogVars => WatchdogInv'
  BY DEF WatchdogInv, watchdogVars
<1>2. QED
  BY <1>1, ScanKeeps, ListOpenKeeps, BudgetStopsKeeps, StartResumeKeeps, NativeEndsKeeps,
     SnapshotGateKeeps, NoHostLeftKeeps, PriceValveKeeps, StartRescueKeeps, RescueEndsKeeps,
     SessionChangesKeeps, WatchdogKilledKeeps DEF WatchdogNext, WatchdogStep

LEMMA InvBoundsRescues == WatchdogInv => RescuesAreBounded
<1>1. SUFFICES ASSUME WatchdogInv PROVE RescuesAreBounded
  OBVIOUS
<1>2. incidents \in Seq(Incidents) /\ DOMAIN incidents = 1..Len(incidents) /\ Len(incidents) \in Nat
  BY <1>1 DEF WatchdogInv, FilesInv
<1>3. \A inc \in Known : Consistent(hostSession, inc) /\ Within(inc, 3)
  <2>1. ASSUME NEW i \in DOMAIN incidents
        PROVE  Consistent(hostSession, incidents[i]) /\ Within(incidents[i], 3)
    BY <1>1, <1>2 DEF WatchdogInv, FilesInv, OnFile
  <2>2. watchdog.inc \in Incidents /\ InHand(hostSession, watchdog)
    BY <1>1 DEF WatchdogInv
  <2>3. Consistent(hostSession, NoIncident) /\ Within(NoIncident, 3)
    BY FreshIncident, WatchdogAssumption DEF NoIncident, Consistent, Within
  <2>4. Consistent(hostSession, watchdog.inc) /\ Within(watchdog.inc, 3)
    BY <1>1, <2>2, <2>3, MoreMayBeSpent DEF WatchdogInv, InHand, OnFile, NativeInHand
  <2>5. QED
    BY <2>1, <2>4 DEF Known, InMemory
<1>4. OneRescueAtATime
  <2>1. \A i \in DOMAIN incidents : incidents[i].state \in LiveStates => i = Len(incidents)
    BY <1>1, <1>2 DEF WatchdogInv, FilesInv
  <2>2. QED
    BY <2>1 DEF OneRescueAtATime
<1>5. ASSUME NEW inc \in Known
      PROVE  /\ DOMAIN inc.phases = 1..Len(inc.phases)
             /\ \A i \in DOMAIN inc.phases : PhaseFits(hostSession, inc, i)
             /\ inc.snapshot => hostSession.git
             /\ inc.budget < CostCap + 3 * MaxCost
  BY <1>3 DEF Consistent, Incidents, Within
<1>6. NoHostIsSentTwice
  BY <1>5, SMTT(30) DEF NoHostIsSentTwice, PhaseFits
<1>7. StrangersNeedASnapshot /\ OneDispatchPastTheCap
  BY <1>5 DEF StrangersNeedASnapshot, OneDispatchPastTheCap, PhaseFits
<1>8. QED
  BY <1>4, <1>6, <1>7 DEF RescuesAreBounded

(* However the watchdog is killed, its snapshots fail and the session      *)
(* changes, over any number of incidents and hosts: one rescue at a time,  *)
(* no host twice, nobody before the attempt to unblock, no stranger        *)
(* without a snapshot, and no dispatch past the cap (src/watchdog).        *)
THEOREM WatchdogBoundsRescues == WatchdogSpec => []RescuesAreBounded
<1>1. WatchdogSpec => []WatchdogInv
  BY WatchdogStarts, WatchdogSteps, PTL DEF WatchdogSpec
<1>2. QED
  BY <1>1, InvBoundsRescues, PTL

(* The reconciliation that a scan runs first (reconcilePhaseTimeout: a     *)
(* rescue without a recorded outcome counts as failed after its time)      *)
(* never finds one: dispatchIncident saves no rescue before it ended.      *)
NothingTimesOut == \A i \in DOMAIN incidents : TimedOut(incidents[i]) = incidents[i]

THEOREM NoRescueIsEverReconciled == WatchdogSpec => []NothingTimesOut
<1>1. WatchdogSpec => []WatchdogInv
  BY WatchdogStarts, WatchdogSteps, PTL DEF WatchdogSpec
<1>2. WatchdogInv => NothingTimesOut
  <2>1. ASSUME WatchdogInv, NEW i \in DOMAIN incidents
        PROVE  TimedOut(incidents[i]) = incidents[i]
    <3>1. OnFile(hostSession, incidents[i])
      BY <2>1 DEF WatchdogInv, FilesInv
    <3>2. QED
      BY <3>1, NothingToReconcile DEF OnFile, Consistent, Incidents
  <2>2. QED
    BY <2>1 DEF NothingTimesOut
<1>3. QED
  BY <1>1, <1>2, PTL

(***************************************************************************)
(* The feed of the bridge.  Numbers: what a client may count on is the     *)
(* last frame that set its cursor, read or still under way, and the next   *)
(* event carries the number after it.  Readings: the epoch only moves when *)
(* the reading does, so whoever knows the epoch knows the reading.         *)
(***************************************************************************)
Readings == [epoch : Nat, state : FileContents]
Cursors == [epoch : Nat, cursor : Nat \cup {-1}]
Frames == [type : {"event"}, a : Readings, b : Nat]
          \cup [type : {"snapshot"}, a : Readings, b : {0}]
          \cup [type : {"subscribed"}, a : Cursors, b : {0}]
          \cup [type : {"unsubscribed", "refused", "accepted", "described", "error"},
                a : {NoData}, b : {0}]

Marks(f) == f.type \in {"event", "subscribed", "unsubscribed"}
CursorOf(f) == IF f.type = "event" THEN f.b
               ELSE IF f.type = "subscribed" THEN f.a.cursor ELSE -9
ResumeCursor(resume) == IF resume = <<>> THEN -9 ELSE resume[1].cursor

(* The last frame before place i that sets the cursor sets it to n; if     *)
(* there is none, c is n.                                                  *)
Follows(fs, c, i, n) ==
  \E j \in 0..(i - 1) :
    /\ \A k \in (j + 1)..(i - 1) : ~Marks(fs[k])
    /\ j = 0 => c = n
    /\ j # 0 => Marks(fs[j]) /\ CursorOf(fs[j]) = n

FeedTypes ==
  /\ sessionFiles \in [holds : FileContents, changes : Nat]
  /\ server \in [handshaked : BOOLEAN, refused : BOOLEAN, closed : BOOLEAN, seq : Nat \cup {-1}]
  /\ runtime \in [epoch : Nat, state : FileContents \cup {Unread}, subscribed : BOOLEAN,
                  timer : BOOLEAN]
  /\ frames \in Seq(Frames)
  /\ client \in [hungUp : BOOLEAN, resume : Seq(Cursors), knows : Seq(Readings),
                 verdict : {"none", "resync", "duplicate", "apply"}]

EventsFollow ==
  LET c == ResumeCursor(client.resume) IN
  /\ \A i \in 1..Len(frames) :
       frames[i].type = "event" => Follows(frames, c, i, frames[i].b - 1)
  /\ runtime.subscribed => Follows(frames, c, Len(frames) + 1, server.seq)

HoldsIn(reading, rt) ==
  /\ reading \in Readings
  /\ reading.epoch <= rt.epoch
  /\ reading.epoch = rt.epoch => reading.state = rt.state

ReadingsHold ==
  /\ runtime.state = Unread => runtime.epoch = 0
  /\ client.knows # <<>> => HoldsIn(client.knows[1], runtime)
  /\ \A i \in 1..Len(frames) :
       frames[i].type \in {"event", "snapshot"} => HoldsIn(frames[i].a, runtime)

FeedInv == FeedTypes /\ EventsFollow /\ ReadingsHold /\ TimerHasASubscriber

LEMMA FollowsAppended ==
  ASSUME NEW fs \in Seq(Frames), NEW f \in Frames, NEW c, NEW n
  PROVE  LET new == Append(fs, f) IN
         /\ \A i \in 1..(Len(fs) + 1) : Follows(fs, c, i, n) => Follows(new, c, i, n)
         /\ ~Marks(f) /\ Follows(fs, c, Len(fs) + 1, n) => Follows(new, c, Len(new) + 1, n)
         /\ Marks(f) /\ CursorOf(f) = n => Follows(new, c, Len(new) + 1, n)
<1> DEFINE new == Append(fs, f)
<1>1. /\ Len(fs) \in Nat /\ Len(new) = Len(fs) + 1 /\ new[Len(fs) + 1] = f
      /\ \A k \in 1..Len(fs) : new[k] = fs[k]
  OBVIOUS
<1> HIDE DEF new
<1>2. ASSUME NEW i \in 1..(Len(fs) + 1), Follows(fs, c, i, n) PROVE Follows(new, c, i, n)
  BY <1>1, <1>2 DEF Follows
<1>3. ASSUME ~Marks(f), Follows(fs, c, Len(fs) + 1, n) PROVE Follows(new, c, Len(new) + 1, n)
  <2>1. PICK j \in 0..Len(fs) : /\ \A k \in (j + 1)..Len(fs) : ~Marks(fs[k])
                                /\ j = 0 => c = n
                                /\ j # 0 => Marks(fs[j]) /\ CursorOf(fs[j]) = n
    BY <1>1, <1>3 DEF Follows
  <2>2. \A k \in (j + 1)..Len(new) : ~Marks(new[k])
    BY <1>1, <1>3, <2>1
  <2>3. j # 0 => Marks(new[j]) /\ CursorOf(new[j]) = n
    BY <1>1, <2>1
  <2>4. j \in 0..((Len(new) + 1) - 1) /\ (Len(new) + 1) - 1 = Len(new)
    BY <1>1, <2>1
  <2>5. QED
    BY <2>1, <2>2, <2>3, <2>4 DEF Follows
<1>4. ASSUME Marks(f), CursorOf(f) = n PROVE Follows(new, c, Len(new) + 1, n)
  <2>1. /\ Len(new) \in 0..((Len(new) + 1) - 1) /\ Len(new) # 0
        /\ \A k \in (Len(new) + 1)..((Len(new) + 1) - 1) : FALSE
        /\ Marks(new[Len(new)]) /\ CursorOf(new[Len(new)]) = n
    BY <1>1, <1>4
  <2>2. QED
    BY <2>1 DEF Follows
<1>5. QED
  BY <1>2, <1>3, <1>4 DEF new

LEMMA FollowsRead ==
  ASSUME NEW fs \in Seq(Frames), fs # <<>>, NEW c, NEW n, NEW i \in 2..(Len(fs) + 1),
         Follows(fs, c, i, n),
         NEW d, d = IF Marks(Head(fs)) THEN CursorOf(Head(fs)) ELSE c
  PROVE  Follows(Tail(fs), d, i - 1, n)
<1> DEFINE rest == Tail(fs)
<1>1. /\ Len(fs) \in Nat /\ Len(rest) = Len(fs) - 1 /\ Head(fs) = fs[1]
      /\ \A k \in 1..Len(rest) : rest[k] = fs[k + 1]
  OBVIOUS
<1> HIDE DEF rest
<1>2. PICK j \in 0..(i - 1) : /\ \A k \in (j + 1)..(i - 1) : ~Marks(fs[k])
                              /\ j = 0 => c = n
                              /\ j # 0 => Marks(fs[j]) /\ CursorOf(fs[j]) = n
  BY DEF Follows
<1>3. CASE j = 0
  <2>1. d = n /\ \A k \in 1..((i - 1) - 1) : ~Marks(rest[k])
    BY <1>1, <1>2, <1>3
  <2>2. QED
    BY <2>1 DEF Follows, rest
<1>4. CASE j # 0
  <2>1. /\ j - 1 \in 0..((i - 1) - 1)
        /\ \A k \in ((j - 1) + 1)..((i - 1) - 1) : ~Marks(rest[k])
        /\ j - 1 = 0 => d = n
        /\ j - 1 # 0 => Marks(rest[j - 1]) /\ CursorOf(rest[j - 1]) = n
    BY <1>1, <1>2, <1>4, SMTT(30)
  <2>2. QED
    BY <2>1 DEF Follows, rest
<1>5. QED
  BY <1>3, <1>4

LEMMA FeedStarts == FeedInit => FeedInv
BY FeedAssumption DEF FeedInit, FeedInv, FeedTypes, EventsFollow, ReadingsHold, TimerHasASubscriber, Unread

(* A reading of the files leaves what is known true, and is itself known.  *)
LEMMA Refreshing ==
  ASSUME FeedTypes, ReadingsHold
  PROVE  LET r == RefreshedFeed IN
         /\ r \in [epoch : Nat, state : FileContents \cup {Unread}, subscribed : BOOLEAN, timer : BOOLEAN]
         /\ r.state = Unread => r.epoch = 0
         /\ HoldsIn(KnownChange(r), r)
         /\ \A known : HoldsIn(known, runtime) => HoldsIn(known, r)
         /\ r.subscribed = runtime.subscribed /\ r.timer = runtime.timer
<1> DEFINE r == RefreshedFeed
<1>1. /\ r.state = sessionFiles.holds /\ r.state \in FileContents /\ r.state # Unread
      /\ r.epoch = IF runtime.state \notin {Unread, sessionFiles.holds} THEN runtime.epoch + 1
                   ELSE runtime.epoch
      /\ r.subscribed = runtime.subscribed /\ r.timer = runtime.timer
      /\ r \in [epoch : Nat, state : FileContents \cup {Unread}, subscribed : BOOLEAN, timer : BOOLEAN]
  <2> DEFINE e == IF runtime.state \notin {Unread, sessionFiles.holds} THEN runtime.epoch + 1
                  ELSE runtime.epoch
  <2>1. r = [runtime EXCEPT !.state = sessionFiles.holds, !.epoch = e]
    BY DEF RefreshedFeed
  <2>2. e \in Nat /\ sessionFiles.holds \in FileContents /\ sessionFiles.holds # Unread
    BY FeedAssumption DEF FeedTypes, Unread
  <2> HIDE DEF r, e
  <2>3. /\ r.state = sessionFiles.holds /\ r.epoch = e
        /\ r.subscribed = runtime.subscribed /\ r.timer = runtime.timer
        /\ r \in [epoch : Nat, state : FileContents \cup {Unread}, subscribed : BOOLEAN,
                  timer : BOOLEAN]
    BY <2>1, <2>2 DEF FeedTypes
  <2>4. QED
    BY <2>2, <2>3 DEF e
<1> HIDE DEF r
<1>2. HoldsIn(KnownChange(r), r)
  BY <1>1 DEF HoldsIn, KnownChange, Readings
<1>3. ASSUME NEW known, HoldsIn(known, runtime) PROVE HoldsIn(known, r)
  <2>1. known.epoch \in Nat /\ known.state \in FileContents /\ runtime.epoch \in Nat
    BY <1>3 DEF HoldsIn, Readings, FeedTypes
  <2>2. known.state # Unread
    BY <2>1, FeedAssumption DEF Unread
  <2>3. QED
    BY <1>1, <1>3, <2>1, <2>2 DEF HoldsIn, ReadingsHold
<1>4. QED
  BY <1>1, <1>2, <1>3 DEF r

(* A frame is written, and what it tells is true.                          *)
LEMMA FrameWritten ==
  ASSUME FeedInv, NEW f \in Frames, Write(f), UNCHANGED client,
         UNCHANGED sessionFiles, server' \in [handshaked : BOOLEAN, refused : BOOLEAN, closed : BOOLEAN,
                                             seq : Nat \cup {-1}],
         runtime' \in [epoch : Nat, state : FileContents \cup {Unread}, subscribed : BOOLEAN,
                       timer : BOOLEAN],
         runtime'.state = Unread => runtime'.epoch = 0,
         \A known : HoldsIn(known, runtime) => HoldsIn(known, runtime'),
         f.type \in {"event", "snapshot"} => HoldsIn(f.a, runtime'),
         f.type = "event" => runtime.subscribed /\ f.b - 1 = server.seq,
         runtime'.subscribed =>
           IF Marks(f) THEN CursorOf(f) = server'.seq
           ELSE runtime.subscribed /\ server'.seq = server.seq,
         runtime'.timer => runtime'.subscribed /\ ~server'.closed
  PROVE  FeedInv'
<1> DEFINE c == ResumeCursor(client.resume)
<1>1. frames \in Seq(Frames) /\ frames' = Append(frames, f)
  BY DEF FeedInv, FeedTypes, Write
<1>2. /\ frames' \in Seq(Frames) /\ Len(frames') = Len(frames) + 1 /\ Len(frames) \in Nat
      /\ frames'[Len(frames) + 1] = f
      /\ \A i \in 1..Len(frames) : frames'[i] = frames[i]
  BY <1>1
<1>3. FeedTypes'
  BY <1>2 DEF FeedInv, FeedTypes
<1>4. ASSUME NEW i \in 1..Len(frames'), frames'[i].type = "event"
      PROVE  Follows(frames', c, i, frames'[i].b - 1)
  <2>1. CASE i \in 1..Len(frames)
    <3>1. Follows(frames, c, i, frames'[i].b - 1)
      BY <1>2, <1>4, <2>1 DEF FeedInv, EventsFollow
    <3>2. QED
      BY <1>1, <1>2, <2>1, <3>1, FollowsAppended
  <2>2. CASE i = Len(frames) + 1
    <3>1. Follows(frames, c, i, frames'[i].b - 1)
      BY <1>2, <1>4, <2>2 DEF FeedInv, EventsFollow
    <3>2. QED
      BY <1>1, <1>2, <2>2, <3>1, FollowsAppended
  <2>3. QED
    BY <1>2, <2>1, <2>2
<1>5. ASSUME runtime'.subscribed PROVE Follows(frames', c, Len(frames') + 1, server'.seq)
  <2>1. CASE Marks(f)
    BY <1>1, <1>5, <2>1, FollowsAppended
  <2>2. CASE ~Marks(f)
    <3>1. Follows(frames, c, Len(frames) + 1, server'.seq)
      BY <1>5, <2>2 DEF FeedInv, EventsFollow
    <3>2. QED
      BY <1>1, <2>2, <3>1, FollowsAppended
  <2>3. QED
    BY <2>1, <2>2
<1>6. EventsFollow'
  BY <1>4, <1>5 DEF EventsFollow
<1>7. ReadingsHold'
  <2>1. \A i \in 1..Len(frames') :
          frames'[i].type \in {"event", "snapshot"} => HoldsIn(frames'[i].a, runtime')
    BY <1>2 DEF FeedInv, ReadingsHold
  <2>2. client.knows # <<>> => HoldsIn(client.knows[1], runtime')
    BY DEF FeedInv, ReadingsHold
  <2>3. QED
    BY <2>1, <2>2 DEF ReadingsHold, HoldsIn
<1>8. TimerHasASubscriber'
  BY DEF TimerHasASubscriber
<1>9. QED
  BY <1>3, <1>6, <1>7, <1>8 DEF FeedInv

(* A frame that tells nothing and changes no cursor.                       *)
LEMMA PlainAnswer ==
  ASSUME FeedInv, NEW type \in {"refused", "accepted", "described", "error"},
         Answer(Frame(type, NoData, 0)), UNCHANGED <<sessionFiles, runtime, client>>,
         server' \in [handshaked : BOOLEAN, refused : BOOLEAN, closed : BOOLEAN, seq : Nat \cup {-1}],
         server'.closed = server.closed, server'.seq = server.seq
  PROVE  FeedInv'
<1> DEFINE f == Frame(type, NoData, 0)
<1>1. f \in Frames /\ f.type = type /\ ~Marks(f) /\ Write(f)
  BY DEF Frame, Frames, Marks, Answer
<1> HIDE DEF f
<1>2. QED
  BY <1>1, FrameWritten DEF FeedInv, FeedTypes, ReadingsHold, TimerHasASubscriber

LEMMA AnswersKeep ==
  FeedInv /\ (HandleHello \/ HandleRefused \/ Describe) => FeedInv'
<1>1. SUFFICES ASSUME FeedInv, HandleHello \/ HandleRefused \/ Describe PROVE FeedInv'
  OBVIOUS
<1>2. server \in [handshaked : BOOLEAN, refused : BOOLEAN, closed : BOOLEAN, seq : Nat \cup {-1}]
  BY <1>1 DEF FeedInv, FeedTypes
<1>3. CASE HandleHello
  <2>1. /\ UNCHANGED <<sessionFiles, runtime, client>>
        /\ \E type \in {"refused", "accepted", "error"} : Answer(Frame(type, NoData, 0))
        /\ \/ server' = server
           \/ server' = [server EXCEPT !.refused = TRUE]
           \/ server' = [server EXCEPT !.handshaked = TRUE, !.refused = TRUE]
           \/ server' = [server EXCEPT !.handshaked = TRUE]
    BY <1>3 DEF HandleHello, Hellos, Error
  <2>2. /\ server' \in [handshaked : BOOLEAN, refused : BOOLEAN, closed : BOOLEAN, seq : Nat \cup {-1}]
        /\ server'.closed = server.closed /\ server'.seq = server.seq
    BY <1>2, <2>1
  <2>3. QED
    BY <1>1, <2>1, <2>2, PlainAnswer
<1>4. CASE HandleRefused
  BY <1>1, <1>2, <1>4, PlainAnswer DEF HandleRefused, Error
<1>5. CASE Describe
  BY <1>1, <1>2, <1>5, PlainAnswer DEF Describe
<1>6. QED
  BY <1>1, <1>3, <1>4, <1>5

LEMMA SnapshotKeeps == FeedInv /\ RuntimeSnapshot => FeedInv'
<1>1. SUFFICES ASSUME FeedInv, RuntimeSnapshot PROVE FeedInv'
  OBVIOUS
<1> DEFINE r == RefreshedFeed
           f == Frame("snapshot", KnownChange(r), 0)
<1>2. /\ r \in [epoch : Nat, state : FileContents \cup {Unread}, subscribed : BOOLEAN, timer : BOOLEAN]
      /\ r.state = Unread => r.epoch = 0
      /\ HoldsIn(KnownChange(r), r)
      /\ \A known : HoldsIn(known, runtime) => HoldsIn(known, r)
      /\ r.subscribed = runtime.subscribed /\ r.timer = runtime.timer
  BY <1>1, Refreshing DEF FeedInv
<1>3. /\ runtime' = r /\ Write(f) /\ UNCHANGED <<sessionFiles, server, client>>
  BY <1>1 DEF RuntimeSnapshot, Answer
<1> HIDE DEF r
<1>4. f \in Frames /\ f.type = "snapshot" /\ ~Marks(f) /\ f.a = KnownChange(r)
  BY <1>2 DEF Frame, Frames, Marks, HoldsIn
<1> HIDE DEF f
<1>5. server' \in [handshaked : BOOLEAN, refused : BOOLEAN, closed : BOOLEAN, seq : Nat \cup {-1}]
      /\ (runtime.timer => runtime.subscribed /\ ~server.closed)
  BY <1>1, <1>3 DEF FeedInv, FeedTypes, TimerHasASubscriber
<1>6. QED
  BY <1>1, <1>2, <1>3, <1>4, <1>5, FrameWritten

LEMMA SubscribeKeeps == FeedInv /\ Subscribe => FeedInv'
<1>1. SUFFICES ASSUME FeedInv, Subscribe PROVE FeedInv'
  OBVIOUS
<1>2. CASE server.closed
  BY <1>1, <1>2, PlainAnswer DEF Subscribe, Error, FeedInv, FeedTypes
<1>3. CASE ~server.closed
  <2> DEFINE r == RefreshedFeed
             s == [r EXCEPT !.subscribed = TRUE, !.timer = TRUE]
             f == Frame("subscribed", [epoch |-> r.epoch, cursor |-> server.seq], 0)
  <2>1. /\ r \in [epoch : Nat, state : FileContents \cup {Unread}, subscribed : BOOLEAN, timer : BOOLEAN]
        /\ r.state = Unread => r.epoch = 0
        /\ \A known : HoldsIn(known, runtime) => HoldsIn(known, r)
    BY <1>1, Refreshing DEF FeedInv
  <2>2. /\ runtime' = s /\ Write(f) /\ UNCHANGED <<sessionFiles, server, client>>
    BY <1>1, <1>3 DEF Subscribe, Answer
  <2> HIDE DEF r
  <2>3. /\ s \in [epoch : Nat, state : FileContents \cup {Unread}, subscribed : BOOLEAN, timer : BOOLEAN]
        /\ s.state = r.state /\ s.epoch = r.epoch
    BY <2>1
  <2>4. server \in [handshaked : BOOLEAN, refused : BOOLEAN, closed : BOOLEAN, seq : Nat \cup {-1}]
    BY <1>1 DEF FeedInv, FeedTypes
  <2>5. f \in Frames /\ f.type = "subscribed" /\ Marks(f) /\ CursorOf(f) = server.seq
    BY <2>1, <2>4 DEF Frame, Frames, Marks, CursorOf, Cursors
  <2> HIDE DEF f, s
  <2>6. \A known : HoldsIn(known, runtime) => HoldsIn(known, s)
    BY <2>1, <2>3 DEF HoldsIn
  <2>7. s.subscribed
    BY <2>1 DEF s
  <2>8. QED
    BY <1>1, <1>3, <2>1, <2>2, <2>3, <2>4, <2>5, <2>6, <2>7, FrameWritten
<1>4. QED
  BY <1>2, <1>3

LEMMA UnsubscribeKeeps == FeedInv /\ Unsubscribe => FeedInv'
<1>1. SUFFICES ASSUME FeedInv, Unsubscribe PROVE FeedInv'
  OBVIOUS
<1> DEFINE f == Frame("unsubscribed", NoData, 0)
<1>2. /\ runtime' = [runtime EXCEPT !.subscribed = FALSE, !.timer = FALSE] /\ Write(f)
      /\ UNCHANGED <<sessionFiles, server, client>>
  BY <1>1 DEF Unsubscribe, Answer
<1>3. f \in Frames /\ f.type = "unsubscribed"
  BY DEF Frame, Frames
<1> HIDE DEF f
<1>4. /\ runtime \in [epoch : Nat, state : FileContents \cup {Unread}, subscribed : BOOLEAN, timer : BOOLEAN]
      /\ server \in [handshaked : BOOLEAN, refused : BOOLEAN, closed : BOOLEAN, seq : Nat \cup {-1}]
      /\ runtime.state = Unread => runtime.epoch = 0
  BY <1>1 DEF FeedInv, FeedTypes, ReadingsHold
<1>5. /\ runtime' \in [epoch : Nat, state : FileContents \cup {Unread}, subscribed : BOOLEAN,
                       timer : BOOLEAN]
      /\ ~runtime'.subscribed /\ ~runtime'.timer
      /\ runtime'.state = runtime.state /\ runtime'.epoch = runtime.epoch
  BY <1>2, <1>4
<1>6. \A known : HoldsIn(known, runtime) => HoldsIn(known, runtime')
  BY <1>5 DEF HoldsIn
<1>7. QED
  BY <1>1, <1>2, <1>3, <1>4, <1>5, <1>6, FrameWritten

LEMMA PollKeeps == FeedInv /\ PollRuntime => FeedInv'
<1>1. SUFFICES ASSUME FeedInv, PollRuntime PROVE FeedInv'
  OBVIOUS
<1>2. ~server.closed /\ runtime.subscribed
  BY <1>1 DEF FeedInv, TimerHasASubscriber, PollRuntime
<1>3. CASE RefreshedFeed.epoch # runtime.epoch
  <2> DEFINE r == RefreshedFeed
             f == Frame("event", KnownChange(r), server.seq + 1)
  <2>1. /\ r \in [epoch : Nat, state : FileContents \cup {Unread}, subscribed : BOOLEAN, timer : BOOLEAN]
        /\ r.state = Unread => r.epoch = 0
        /\ HoldsIn(KnownChange(r), r)
        /\ \A known : HoldsIn(known, runtime) => HoldsIn(known, r)
        /\ r.subscribed = runtime.subscribed /\ r.timer = runtime.timer
    BY <1>1, Refreshing DEF FeedInv
  <2>2. /\ runtime' = r /\ Write(f) /\ UNCHANGED <<sessionFiles, client>>
        /\ server' = [server EXCEPT !.seq = @ + 1]
    BY <1>1, <1>2, <1>3 DEF PollRuntime
  <2> HIDE DEF r
  <2>3. /\ server \in [handshaked : BOOLEAN, refused : BOOLEAN, closed : BOOLEAN, seq : Nat \cup {-1}]
        /\ server.seq \in Nat \cup {-1}
    BY <1>1 DEF FeedInv, FeedTypes
  <2>4. /\ server' \in [handshaked : BOOLEAN, refused : BOOLEAN, closed : BOOLEAN, seq : Nat \cup {-1}]
        /\ server'.seq = server.seq + 1 /\ ~server'.closed /\ server.seq + 1 \in Nat
    BY <1>2, <2>2, <2>3
  <2>5. /\ f \in Frames /\ f.type = "event" /\ Marks(f) /\ f.a = KnownChange(r)
        /\ f.b = server.seq + 1 /\ CursorOf(f) = server.seq + 1 /\ f.b - 1 = server.seq
    BY <2>1, <2>3, <2>4 DEF Frame, Frames, Marks, HoldsIn, CursorOf
  <2> HIDE DEF f
  <2>6. QED
    BY <1>1, <1>2, <2>1, <2>2, <2>4, <2>5, FrameWritten
<1>4. CASE RefreshedFeed.epoch = runtime.epoch
  BY <1>1, <1>4 DEF PollRuntime, FeedInv, FeedTypes, EventsFollow, ReadingsHold, TimerHasASubscriber
<1>5. QED
  BY <1>3, <1>4

LEMMA ReadsKeep == FeedInv /\ ClientReads => FeedInv'
<1>1. SUFFICES ASSUME FeedInv, ClientReads PROVE FeedInv'
  OBVIOUS
<1> DEFINE f == Head(frames)
           c == ResumeCursor(client.resume)
<1>2. /\ frames # <<>> /\ frames' = Tail(frames)
      /\ UNCHANGED <<sessionFiles, server, runtime>>
      /\ client' = CASE f.type = "event" ->
                      [client EXCEPT !.verdict = ResumeDecision(f, client.resume),
                                     !.resume = IF @ = <<>> THEN @ ELSE <<[@[1] EXCEPT !.cursor = f.b]>>,
                                     !.knows = <<f.a>>]
                 [] f.type = "snapshot" -> [client EXCEPT !.knows = <<f.a>>]
                 [] f.type = "subscribed" -> [client EXCEPT !.resume = <<f.a>>]
                 [] f.type = "unsubscribed" -> [client EXCEPT !.resume = <<>>]
                 [] OTHER -> client
  BY <1>1 DEF ClientReads
<1>3. /\ frames \in Seq(Frames) /\ Len(frames) \in Nat \ {0} /\ f = frames[1] /\ f \in Frames
      /\ client \in [hungUp : BOOLEAN, resume : Seq(Cursors), knows : Seq(Readings),
                     verdict : {"none", "resync", "duplicate", "apply"}]
  BY <1>1, <1>2 DEF FeedInv, FeedTypes
<1>4. /\ frames' \in Seq(Frames) /\ Len(frames') = Len(frames) - 1
      /\ \A i \in 1..Len(frames') : frames'[i] = frames[i + 1]
  BY <1>2, <1>3
<1>5. f.type = "event" => client.resume # <<>>
  <2>1. SUFFICES ASSUME f.type = "event", client.resume = <<>> PROVE FALSE
    OBVIOUS
  <2>2. Follows(frames, c, 1, f.b - 1) /\ f.b \in Nat
    BY <1>1, <1>3, <2>1, SMTT(30) DEF FeedInv, EventsFollow, Frames
  <2>3. c = f.b - 1
    BY <2>2 DEF Follows
  <2>4. c = -9
    BY <2>1 DEF ResumeCursor
  <2>5. QED
    BY <2>2, <2>3, <2>4
<1>6. /\ client' \in [hungUp : BOOLEAN, resume : Seq(Cursors), knows : Seq(Readings),
                      verdict : {"none", "resync", "duplicate", "apply"}]
      /\ ResumeCursor(client'.resume) = IF Marks(f) THEN CursorOf(f) ELSE c
      /\ client'.knows = IF f.type \in {"event", "snapshot"} THEN <<f.a>> ELSE client.knows
  <2> HIDE DEF f, c
  <2>1. CASE f.type = "event"
    <3> DEFINE new == [client.resume[1] EXCEPT !.cursor = f.b]
    <3>1. f.a \in Readings /\ f.b \in Nat
      BY <1>3, <2>1 DEF Frames
    <3>2. client.resume[1] \in Cursors
      BY <1>3, <1>5, <2>1
    <3>3. new \in Cursors /\ new.cursor = f.b
      BY <3>1, <3>2 DEF Cursors
    <3>4. ResumeDecision(f, client.resume) \in {"none", "resync", "duplicate", "apply"}
      BY DEF ResumeDecision
    <3> HIDE DEF new
    <3>5. client' = [client EXCEPT !.verdict = ResumeDecision(f, client.resume),
                                   !.resume = <<new>>, !.knows = <<f.a>>]
      BY <1>2, <1>3, <1>5, <2>1 DEF new
    <3>6. <<new>> \in Seq(Cursors) /\ <<f.a>> \in Seq(Readings) /\ <<new>>[1] = new /\ <<new>> # <<>>
      BY <3>1, <3>3
    <3>7. /\ client'.resume = <<new>> /\ client'.knows = <<f.a>>
          /\ client' \in [hungUp : BOOLEAN, resume : Seq(Cursors), knows : Seq(Readings),
                          verdict : {"none", "resync", "duplicate", "apply"}]
      BY <1>3, <3>4, <3>5, <3>6
    <3>8. QED
      BY <2>1, <3>3, <3>6, <3>7 DEF ResumeCursor, Marks, CursorOf
  <2>2. CASE f.type = "snapshot"
    <3>1. f.a \in Readings /\ <<f.a>> \in Seq(Readings)
      BY <1>3, <2>2 DEF Frames
    <3>2. client' = [client EXCEPT !.knows = <<f.a>>]
      BY <1>2, <2>2
    <3>3. QED
      BY <1>3, <2>2, <3>1, <3>2 DEF Marks, c
  <2>3. CASE f.type = "subscribed"
    <3>1. f.a \in Cursors /\ <<f.a>> \in Seq(Cursors) /\ <<f.a>>[1] = f.a /\ <<f.a>> # <<>>
      BY <1>3, <2>3 DEF Frames
    <3>2. client' = [client EXCEPT !.resume = <<f.a>>]
      BY <1>2, <2>3
    <3>3. QED
      BY <1>3, <2>3, <3>1, <3>2 DEF Marks, CursorOf, ResumeCursor
  <2>4. CASE f.type = "unsubscribed"
    <3>1. client' = [client EXCEPT !.resume = <<>>] /\ <<>> \in Seq(Cursors)
      BY <1>2, <2>4
    <3>2. QED
      BY <1>3, <2>4, <3>1 DEF Marks, CursorOf, ResumeCursor
  <2>5. CASE f.type \notin {"event", "snapshot", "subscribed", "unsubscribed"}
    <3>1. client' = client
      BY <1>2, <2>5
    <3>2. QED
      BY <1>3, <2>5, <3>1 DEF Marks, c
  <2>6. QED
    BY <2>1, <2>2, <2>3, <2>4, <2>5
<1>7. FeedTypes'
  BY <1>1, <1>2, <1>4, <1>6 DEF FeedInv, FeedTypes
<1> DEFINE d == ResumeCursor(client'.resume)
<1>8. ASSUME NEW i \in 2..(Len(frames) + 1), NEW n, Follows(frames, c, i, n)
      PROVE  Follows(frames', d, i - 1, n)
  <2> HIDE DEF c, d
  <2>1. d = IF Marks(Head(frames)) THEN CursorOf(Head(frames)) ELSE c
    BY <1>6 DEF d
  <2>2. QED
    BY <1>2, <1>3, <1>8, <2>1, FollowsRead
<1>9. EventsFollow'
  <2> HIDE DEF c, d
  <2>1. ASSUME NEW i \in 1..Len(frames'), frames'[i].type = "event"
        PROVE  Follows(frames', d, i, frames'[i].b - 1)
    <3>1. i + 1 \in 2..(Len(frames) + 1) /\ i + 1 \in 1..Len(frames) /\ (i + 1) - 1 = i
      BY <1>3, <1>4
    <3>2. Follows(frames, c, i + 1, frames[i + 1].b - 1)
      BY <1>1, <1>4, <2>1, <3>1 DEF FeedInv, EventsFollow, c
    <3>3. Follows(frames', d, (i + 1) - 1, frames[i + 1].b - 1)
      BY <1>8, <3>1, <3>2
    <3>4. QED
      BY <1>4, <3>1, <3>3
  <2>2. ASSUME runtime'.subscribed PROVE Follows(frames', d, Len(frames') + 1, server'.seq)
    <3>1. Follows(frames, c, Len(frames) + 1, server.seq)
      BY <1>1, <1>2, <2>2 DEF FeedInv, EventsFollow, c
    <3>2. /\ Len(frames) + 1 \in 2..(Len(frames) + 1) /\ (Len(frames) + 1) - 1 = Len(frames') + 1
      BY <1>3, <1>4
    <3>3. QED
      BY <1>2, <1>8, <3>1, <3>2
  <2>3. QED
    BY <2>1, <2>2 DEF EventsFollow, d
<1>10. ReadingsHold'
  <2>1. f.type \in {"event", "snapshot"} => HoldsIn(f.a, runtime)
    BY <1>1, <1>3 DEF FeedInv, ReadingsHold
  <2>2. \A i \in 1..Len(frames') :
          frames'[i].type \in {"event", "snapshot"} => HoldsIn(frames'[i].a, runtime)
    BY <1>1, <1>3, <1>4, SMTT(30) DEF FeedInv, ReadingsHold
  <2> HIDE DEF f
  <2>3. client'.knows # <<>> => HoldsIn(client'.knows[1], runtime)
    BY <1>1, <1>6, <2>1 DEF FeedInv, ReadingsHold
  <2>4. QED
    BY <1>1, <1>2, <2>2, <2>3 DEF FeedInv, ReadingsHold, HoldsIn
<1>11. QED
  BY <1>1, <1>2, <1>7, <1>9, <1>10 DEF FeedInv, TimerHasASubscriber

(* The files, the client's lines, its hanging up and the end of input.     *)
LEMMA OthersKeep == FeedInv /\ (FilesChange \/ ClientSends \/ HangUp \/ CloseServer) => FeedInv'
<1>1. FeedInv /\ FilesChange => FeedInv'
  <2>1. SUFFICES ASSUME FeedInv, FilesChange PROVE FeedInv'
    OBVIOUS
  <2>2. sessionFiles' \in [holds : FileContents, changes : Nat]
    BY <2>1 DEF FilesChange, FeedInv, FeedTypes
  <2>3. QED
    BY <2>1, <2>2 DEF FilesChange, FeedInv, FeedTypes, EventsFollow, ReadingsHold, HoldsIn,
                      TimerHasASubscriber
<1>2. FeedInv /\ ClientSends => FeedInv'
  BY DEF ClientSends, FeedInv, FeedTypes, EventsFollow, ReadingsHold, HoldsIn, TimerHasASubscriber
<1>3. FeedInv /\ HangUp => FeedInv'
  <2>1. SUFFICES ASSUME FeedInv, HangUp PROVE FeedInv'
    OBVIOUS
  <2>2. client'.resume = client.resume /\ client'.knows = client.knows /\ FeedTypes'
    BY <2>1 DEF HangUp, FeedInv, FeedTypes
  <2>3. QED
    BY <2>1, <2>2 DEF HangUp, FeedInv, EventsFollow, ReadingsHold, HoldsIn, TimerHasASubscriber
<1>4. FeedInv /\ CloseServer => FeedInv'
  <2>1. SUFFICES ASSUME FeedInv, CloseServer PROVE FeedInv'
    OBVIOUS
  <2>2. /\ FeedTypes' /\ runtime'.epoch = runtime.epoch /\ runtime'.state = runtime.state
        /\ runtime'.subscribed = runtime.subscribed /\ ~runtime'.timer /\ server'.seq = server.seq
        /\ UNCHANGED <<sessionFiles, frames, client>>
    BY <2>1 DEF CloseServer, FeedInv, FeedTypes
  <2>3. QED
    BY <2>1, <2>2 DEF FeedInv, EventsFollow, ReadingsHold, HoldsIn, TimerHasASubscriber
<1>5. QED
  BY <1>1, <1>2, <1>3, <1>4

LEMMA FeedSteps == FeedInv /\ [FeedNext]_feedVars => FeedInv'
<1>1. FeedInv /\ UNCHANGED feedVars => FeedInv'
  BY DEF feedVars, FeedInv, FeedTypes, EventsFollow, ReadingsHold, HoldsIn, TimerHasASubscriber
<1>2. QED
  BY <1>1, AnswersKeep, SnapshotKeeps, SubscribeKeeps, UnsubscribeKeeps, PollKeeps, ReadsKeep,
     OthersKeep DEF FeedNext, HandleLine

LEMMA InvTellsTheTruth == FeedInv => FeedIsTrue
<1>1. SUFFICES ASSUME FeedInv PROVE FeedIsTrue
  OBVIOUS
<1>2. frames \in Seq(Frames) /\ Len(frames) \in Nat
  BY <1>1 DEF FeedInv, FeedTypes
<1>3. NoEventIsMissing
  <2> DEFINE before(i) == {j \in 1..(i - 1) : frames[j].type \in {"event", "subscribed"}}
             last(i) == CHOOSE j \in before(i) : \A k \in before(i) : k <= j
             c == ResumeCursor(client.resume)
             cursor(i) == IF before(i) = {} THEN c
                          ELSE IF frames[last(i)].type = "event" THEN frames[last(i)].b
                          ELSE frames[last(i)].a.cursor
  <2>1. ASSUME NEW i \in 1..Len(frames), frames[i].type = "event"
        PROVE  frames[i].b = cursor(i) + 1
    <3>1. frames[i].b \in Nat /\ Follows(frames, c, i, frames[i].b - 1)
      BY <1>1, <1>2, <2>1 DEF FeedInv, EventsFollow, Frames
    <3>2. PICK j \in 0..(i - 1) :
            /\ \A k \in (j + 1)..(i - 1) : ~Marks(frames[k])
            /\ j = 0 => c = frames[i].b - 1
            /\ j # 0 => Marks(frames[j]) /\ CursorOf(frames[j]) = frames[i].b - 1
      BY <3>1 DEF Follows
    <3>3. CASE j = 0
      <4>1. before(i) = {}
        BY <3>2, <3>3 DEF Marks
      <4>2. QED
        BY <3>1, <3>2, <3>3, <4>1
    <3>4. CASE j # 0
      <4>1. frames[j].type # "unsubscribed"
        BY <3>1, <3>2, <3>4 DEF CursorOf
      <4>2. j \in before(i) /\ \A k \in before(i) : k <= j
        BY <1>2, <3>2, <3>4, <4>1 DEF Marks
      <4>3. last(i) \in before(i) /\ \A k \in before(i) : k <= last(i)
        BY <4>2
      <4>4. last(i) = j
        BY <4>2, <4>3
      <4>5. cursor(i) = CursorOf(frames[j])
        <5>1. frames[j].type \in {"event", "subscribed"} /\ before(i) # {}
          BY <4>2
        <5> HIDE DEF before, last
        <5>2. QED
          BY <4>4, <5>1 DEF CursorOf
      <4> HIDE DEF cursor
      <4>6. QED
        BY <3>1, <3>2, <3>4, <4>5
    <3>5. QED
      BY <3>3, <3>4
  <2>2. QED
    BY <2>1 DEF NoEventIsMissing, ResumeCursor
<1>4. EpochNamesReading
  BY <1>1 DEF FeedInv, ReadingsHold, HoldsIn, EpochNamesReading
<1>5. QED
  BY <1>1, <1>3, <1>4 DEF FeedIsTrue, FeedInv

(* Whatever is asked of the bridge, in whatever order, before or after the *)
(* end of input: no event is missing from a subscription, an epoch names   *)
(* one reading, and nothing polls for nobody (bridge.js, providers.js).    *)
THEOREM FeedTellsTheTruth == FeedSpec => []FeedIsTrue
<1>1. FeedSpec => []FeedInv
  BY FeedStarts, FeedSteps, PTL DEF FeedSpec
<1>2. QED
  BY <1>1, InvTellsTheTruth, PTL

(***************************************************************************)
(* The ssh transport.  What is in flight, from the child's pipe to the     *)
(* listeners, is a suffix of what the helper wrote; an id is asked for and *)
(* answered once, and whose answer may still come tells what became of its *)
(* request.  None of it need hold of a transport that is closed.           *)
(***************************************************************************)
Ids == [call : Calls, cancel : BOOLEAN]
HelperLines == [type : {"banner", "refusal", "event", "hello", "broken"}, id : {<<>>}, n : Nat]
               \cup [type : {"answer"}, id : {<<id>> : id \in Ids}, n : Nat]

LinkRecs == [promise : {"none", "pending", "resolved", "rejected"}, ready : BOOLEAN,
             closed : BOOLEAN, failed : BOOLEAN, helloTimer : BOOLEAN]
ChildRecs == [is : {"none", "alive", "killed", "exited", "gone"}, asked : Seq(Ids), wrote : Nat,
              wire : Seq(HelperLines), greeted : BOOLEAN]
StreamRecs == [noise : Nat, kept : Seq(HelperLines), queue : Seq(HelperLines), paused : BOOLEAN,
               pump : BOOLEAN, seen : Nat]

SshTypes ==
  /\ link \in LinkRecs
  /\ child \in ChildRecs
  /\ stream \in StreamRecs
  /\ callFate \in [Calls -> {"new", "waiting", "answered", "failed"}]
  /\ timers \subseteq Calls /\ forgotten \subseteq Ids /\ warned \subseteq Ids

(* What is in flight between the helper and the listeners.                 *)
Flight(st, ch) == st.queue \o st.kept \o ch.wire

(* g is f without its first k lines.                                       *)
Drops(f, g, k) ==
  /\ k \in 0..Len(f) /\ Len(g) = Len(f) - k
  /\ \A i \in 1..Len(g) : g[i] = f[i + k]

Awaited(id, fate, fire) ==
  IF id.cancel THEN id \in fire /\ fate[id.call] = "failed"
  ELSE fate[id.call] \in {"waiting", "failed"}

IsAnswer(line) == line.type = "answer"

(* Lines carry consecutive numbers up to the last one written.             *)
Numbered(f, wrote) == \A i \in 1..Len(f) : f[i].n = wrote - Len(f) + i

AnsweredOnce(f, asked, fate, fire) ==
  /\ \A i \in 1..Len(f) : IsAnswer(f[i]) => Awaited(f[i].id[1], fate, fire)
  /\ \A i, j \in 1..Len(f) :
       IsAnswer(f[i]) /\ IsAnswer(f[j]) /\ f[i].id[1] = f[j].id[1] => i = j
  /\ \A i \in 1..Len(f), a \in 1..Len(asked) : IsAnswer(f[i]) => f[i].id[1] # asked[a]

AskedOnce(asked, fate, fire) ==
  /\ \A a \in 1..Len(asked) : Awaited(asked[a], fate, fire)
  /\ \A a, b \in 1..Len(asked) : asked[a] = asked[b] => a = b

OpenLink ==
  LET f == Flight(stream, child) IN
  /\ Numbered(f, child.wrote)
  /\ AnsweredOnce(f, child.asked, callFate, forgotten)
  /\ AskedOnce(child.asked, callFate, forgotten)
  /\ link.ready => stream.seen = child.wrote - Len(f)
  /\ ~link.ready => /\ stream.queue = <<>> /\ stream.kept = <<>>
                    /\ ~stream.pump /\ ~stream.paused

SshInv ==
  /\ SshTypes
  /\ link.failed => link.closed
  /\ link.ready => ~link.helloTimer /\ child.is # "none"
  /\ ~link.closed => OpenLink
  /\ PausedIsPumped
  /\ NothingOutlivesClose
  /\ OnlyLateAnswersWarn

LEMMA Joined ==
  ASSUME NEW S, NEW a \in Seq(S), NEW b \in Seq(S), NEW c \in Seq(S)
  PROVE  LET f == a \o b \o c IN
         /\ f \in Seq(S) /\ Len(f) = Len(a) + Len(b) + Len(c)
         /\ Len(a) \in Nat /\ Len(b) \in Nat /\ Len(c) \in Nat
         /\ \A i \in 1..Len(a) : f[i] = a[i]
         /\ \A i \in (Len(a) + 1)..(Len(a) + Len(b)) : f[i] = b[i - Len(a)]
         /\ \A i \in (Len(a) + Len(b) + 1)..(Len(a) + Len(b) + Len(c)) :
              f[i] = c[i - Len(a) - Len(b)]
<1> DEFINE d == a \o b
           f == d \o c
<1>1. /\ d \in Seq(S) /\ Len(d) = Len(a) + Len(b) /\ Len(a) \in Nat /\ Len(b) \in Nat
      /\ \A i \in 1..Len(a) : d[i] = a[i]
      /\ \A i \in (Len(a) + 1)..(Len(a) + Len(b)) : d[i] = b[i - Len(a)]
  OBVIOUS
<1> HIDE DEF d
<1>2. /\ f \in Seq(S) /\ Len(f) = Len(d) + Len(c) /\ Len(c) \in Nat
      /\ \A i \in 1..Len(d) : f[i] = d[i]
      /\ \A i \in (Len(d) + 1)..(Len(d) + Len(c)) : f[i] = c[i - Len(d)]
  <2>1. d \in Seq(S)
    BY <1>1
  <2>2. QED
    BY <2>1
<1> HIDE DEF f
<1>3. /\ f \in Seq(S) /\ Len(f) = Len(a) + Len(b) + Len(c) /\ Len(a) \in Nat /\ Len(b) \in Nat
      /\ Len(c) \in Nat
  BY <1>1, <1>2
<1>4. \A i \in 1..Len(a) : f[i] = a[i]
  BY <1>1, <1>2
<1>5. \A i \in (Len(a) + 1)..(Len(a) + Len(b)) : f[i] = b[i - Len(a)]
  BY <1>1, <1>2
<1>6. \A i \in (Len(a) + Len(b) + 1)..(Len(a) + Len(b) + Len(c)) :
        f[i] = c[i - Len(a) - Len(b)]
  <2>1. TAKE i \in (Len(a) + Len(b) + 1)..(Len(a) + Len(b) + Len(c))
  <2>2. i \in (Len(d) + 1)..(Len(d) + Len(c)) /\ i - Len(d) = i - Len(a) - Len(b)
    BY <1>1, <1>2
  <2>3. QED
    BY <1>2, <2>2
<1>7. f = a \o b \o c
  BY DEF f, d
<1>8. QED
  BY <1>3, <1>4, <1>5, <1>6, <1>7, Zenon

LEMMA FlightParts ==
  ASSUME NEW a \in Seq(HelperLines), NEW b \in Seq(HelperLines), NEW c \in Seq(HelperLines),
         NEW f, f = a \o b \o c
  PROVE  /\ f \in Seq(HelperLines) /\ Len(f) = Len(a) + Len(b) + Len(c)
         /\ Len(a) \in Nat /\ Len(b) \in Nat /\ Len(c) \in Nat
         /\ \A i \in 1..Len(a) : f[i] = a[i]
         /\ \A i \in (Len(a) + 1)..(Len(a) + Len(b)) : f[i] = b[i - Len(a)]
         /\ \A i \in (Len(a) + Len(b) + 1)..(Len(a) + Len(b) + Len(c)) :
              f[i] = c[i - Len(a) - Len(b)]
BY Joined

(* A prefix of what is queued leaves the flight.                           *)
LEMMA PrefixDropped ==
  ASSUME NEW a \in Seq(HelperLines), NEW b \in Seq(HelperLines), NEW c \in Seq(HelperLines),
         NEW f, f = a \o b \o c, NEW g, g = <<>> \o b \o c
  PROVE  Drops(f, g, Len(a)) /\ g \in Seq(HelperLines)
<1>1. PICK e : e = <<>>
  OBVIOUS
<1>2. e \in Seq(HelperLines) /\ Len(e) = 0
  BY <1>1
<1>3. /\ Len(f) = Len(a) + Len(b) + Len(c)
      /\ Len(a) \in Nat /\ Len(b) \in Nat /\ Len(c) \in Nat
      /\ \A i \in (Len(a) + 1)..(Len(a) + Len(b)) : f[i] = b[i - Len(a)]
      /\ \A i \in (Len(a) + Len(b) + 1)..(Len(a) + Len(b) + Len(c)) :
           f[i] = c[i - Len(a) - Len(b)]
  BY FlightParts
<1>4. /\ g \in Seq(HelperLines) /\ Len(g) = 0 + Len(b) + Len(c)
      /\ \A i \in (0 + 1)..(0 + Len(b)) : g[i] = b[i - 0]
      /\ \A i \in (0 + Len(b) + 1)..(0 + Len(b) + Len(c)) : g[i] = c[i - 0 - Len(b)]
  BY <1>1, <1>2, FlightParts
<1>5. ASSUME NEW i \in 1..Len(g) PROVE g[i] = f[i + Len(a)]
  <2>1. CASE i \in 1..Len(b)
    <3>1. i + Len(a) \in (Len(a) + 1)..(Len(a) + Len(b)) /\ (i + Len(a)) - Len(a) = i /\ i - 0 = i
      BY <1>3, <2>1
    <3>2. QED
      BY <1>3, <1>4, <2>1, <3>1
  <2>2. CASE i \in (Len(b) + 1)..(Len(b) + Len(c))
    <3>1. /\ i + Len(a) \in (Len(a) + Len(b) + 1)..(Len(a) + Len(b) + Len(c))
          /\ (i + Len(a)) - Len(a) - Len(b) = i - Len(b) /\ i - 0 - Len(b) = i - Len(b)
      BY <1>3, <2>2
    <3>2. QED
      BY <1>3, <1>4, <2>2, <3>1
  <2>3. QED
    BY <1>3, <1>4, <2>1, <2>2
<1>6. QED
  BY <1>3, <1>4, <1>5 DEF Drops

LEMMA Sliced ==
  ASSUME NEW S, NEW s \in Seq(S), NEW k \in 0..Len(s)
  PROVE  /\ SubSeq(s, 1, k) \in Seq(S) /\ Len(SubSeq(s, 1, k)) = k
         /\ \A i \in 1..k : SubSeq(s, 1, k)[i] = s[i]
         /\ SubSeq(s, k + 1, Len(s)) \in Seq(S) /\ Len(SubSeq(s, k + 1, Len(s))) = Len(s) - k
         /\ \A i \in 1..(Len(s) - k) : SubSeq(s, k + 1, Len(s))[i] = s[i + k]
OBVIOUS

(* What has left the flight takes nothing from what is still in it.        *)
LEMMA Dropped ==
  ASSUME NEW f \in Seq(HelperLines), NEW g, NEW k, Drops(f, g, k), NEW wrote \in Nat, NEW asked,
         NEW fate, NEW fire
  PROVE  /\ Numbered(f, wrote) => Numbered(g, wrote)
         /\ AnsweredOnce(f, asked, fate, fire) => AnsweredOnce(g, asked, fate, fire)
<1>1. /\ Len(f) \in Nat /\ k \in 0..Len(f) /\ Len(g) = Len(f) - k
      /\ \A i \in 1..Len(g) : g[i] = f[i + k] /\ i + k \in 1..Len(f)
  BY DEF Drops
<1>2. ASSUME Numbered(f, wrote) PROVE Numbered(g, wrote)
  BY <1>1, <1>2 DEF Numbered
<1>3. ASSUME AnsweredOnce(f, asked, fate, fire) PROVE AnsweredOnce(g, asked, fate, fire)
  <2>1. \A i \in 1..Len(g) : IsAnswer(g[i]) => Awaited(g[i].id[1], fate, fire)
    BY <1>1, <1>3 DEF AnsweredOnce
  <2>2. \A i, j \in 1..Len(g) :
          IsAnswer(g[i]) /\ IsAnswer(g[j]) /\ g[i].id[1] = g[j].id[1] => i = j
    <3>1. SUFFICES ASSUME NEW i \in 1..Len(g), NEW j \in 1..Len(g), IsAnswer(g[i]), IsAnswer(g[j]),
                          g[i].id[1] = g[j].id[1]
                   PROVE  i = j
      OBVIOUS
    <3>2. i + k = j + k
      BY <1>1, <1>3, <3>1 DEF AnsweredOnce
    <3>3. QED
      BY <1>1, <3>2
  <2>3. \A i \in 1..Len(g), a \in 1..Len(asked) : IsAnswer(g[i]) => g[i].id[1] # asked[a]
    BY <1>1, <1>3 DEF AnsweredOnce
  <2>4. QED
    BY <2>1, <2>2, <2>3 DEF AnsweredOnce
<1>4. QED
  BY <1>2, <1>3

LEMMA FlightTypes ==
  ASSUME SshTypes
  PROVE  /\ stream.queue \in Seq(HelperLines) /\ stream.kept \in Seq(HelperLines)
         /\ child.wire \in Seq(HelperLines) /\ Flight(stream, child) \in Seq(HelperLines)
         /\ child.wrote \in Nat /\ child.asked \in Seq(Ids)
BY Joined DEF SshTypes, LinkRecs, ChildRecs, StreamRecs, Flight

LEMMA SshStarts == SshInit => SshInv
<1>1. SUFFICES ASSUME SshInit PROVE SshInv
  OBVIOUS
<1>2. SshTypes
  BY <1>1 DEF SshInit, SshTypes, LinkRecs, ChildRecs, StreamRecs
<1>3. Len(Flight(stream, child)) = 0 /\ Len(child.asked) = 0 /\ child.wrote = 0
  <2>1. stream.queue = <<>> /\ stream.kept = <<>> /\ child.wire = <<>>
    BY <1>1 DEF SshInit
  <2>2. QED
    BY <1>1, <1>2, <2>1, FlightTypes, Joined DEF SshInit, Flight
<1>4. OpenLink
  BY <1>1, <1>3 DEF SshInit, OpenLink, Numbered, AnsweredOnce, AskedOnce
<1>5. NothingOutlivesClose
  BY <1>1 DEF SshInit, NothingOutlivesClose, Waiting
<1>6. QED
  BY <1>1, <1>2, <1>4, <1>5 DEF SshInit, SshInv, PausedIsPumped, OnlyLateAnswersWarn

(* Once closed, little is left to keep.                                    *)
LEMMA ClosedIsQuiet ==
  ASSUME SshTypes', link'.closed, ~link'.helloTimer, link'.ready => child'.is # "none",
         timers' = {}, \A c \in Calls : callFate'[c] # "waiting", OnlyLateAnswersWarn'
  PROVE  SshInv'
<1>1. Waiting' = {}
  BY DEF Waiting
<1>2. QED
  BY <1>1 DEF SshInv, PausedIsPumped, NothingOutlivesClose

(* close() and _fail, called wherever it may be.                           *)
LEMMA Closing ==
  ASSUME SshInv, NEW failing \in BOOLEAN, CloseLink(failing),
         NEW process \in ChildRecs,
         process.is = child.is, child' = ChildKilled(process),
         stream' = Emptied, UNCHANGED <<forgotten, warned>>
  PROVE  SshInv'
<1>1. /\ link' \in LinkRecs
      /\ link'.closed /\ ~link'.helloTimer /\ link'.ready = link.ready
  BY DEF CloseLink, SshInv, SshTypes, LinkRecs
<1>2. /\ child' \in ChildRecs
      /\ child.is # "none" => child'.is # "none"
  BY DEF ChildKilled, ChildRecs
<1>3. stream' \in StreamRecs
  <2>1. stream \in StreamRecs
    BY DEF SshInv, SshTypes
  <2>2. stream' = [stream EXCEPT !.queue = <<>>] /\ <<>> \in Seq(HelperLines)
    BY DEF Emptied
  <2>3. QED
    BY <2>1, <2>2 DEF StreamRecs
<1>4. /\ callFate' \in [Calls -> {"new", "waiting", "answered", "failed"}]
      /\ \A c \in Calls : /\ callFate'[c] # "waiting"
                          /\ callFate[c] = "failed" => callFate'[c] = "failed"
  BY DEF CloseLink, SshInv, SshTypes, Waiting
<1>5. timers' = {}
  BY DEF CloseLink
<1>6. SshTypes'
  BY <1>1, <1>2, <1>3, <1>4, <1>5 DEF SshInv, SshTypes
<1>7. OnlyLateAnswersWarn'
  <2>1. \A id \in warned : id.call \in Calls
    BY DEF SshInv, SshTypes, Ids
  <2>2. QED
    BY <1>4, <2>1 DEF SshInv, OnlyLateAnswersWarn
<1>8. link'.ready => child'.is # "none"
  BY <1>1, <1>2 DEF SshInv
<1>9. QED
  BY <1>1, <1>4, <1>5, <1>6, <1>7, <1>8, ClosedIsQuiet

LEMMA EndsClose == SshInv /\ (UserCloses \/ HelloTimeout \/ ChildError) => SshInv'
<1>1. SUFFICES ASSUME SshInv, UserCloses \/ HelloTimeout \/ ChildError PROVE SshInv'
  OBVIOUS
<1>2. /\ CloseLink(TRUE) \/ CloseLink(FALSE)
      /\ child' = ChildKilled(child) /\ stream' = Emptied /\ UNCHANGED <<forgotten, warned>>
  BY <1>1 DEF UserCloses, HelloTimeout, ChildError
<1>3. child \in ChildRecs
  BY <1>1 DEF SshInv, SshTypes
<1>4. QED
  BY <1>1, <1>2, <1>3, Closing

LEMMA ChildClosesKeeps == SshInv /\ ChildCloses => SshInv'
<1>1. SUFFICES ASSUME SshInv, ChildCloses PROVE SshInv'
  OBVIOUS
<1>2. /\ link' \in LinkRecs
      /\ link'.closed /\ ~link'.helloTimer /\ ~link'.ready
  BY <1>1 DEF ChildCloses, SshInv, SshTypes, LinkRecs
<1>3. child' \in ChildRecs
  BY <1>1 DEF ChildCloses, SshInv, SshTypes, ChildRecs
<1>4. stream' \in StreamRecs
  <2>1. stream \in StreamRecs /\ <<>> \in Seq(HelperLines)
    BY <1>1 DEF SshInv, SshTypes
  <2>2. stream' = [stream EXCEPT !.queue = <<>>]
    BY <1>1 DEF ChildCloses, Emptied
  <2>3. QED
    BY <2>1, <2>2 DEF StreamRecs
<1>5. /\ callFate' \in [Calls -> {"new", "waiting", "answered", "failed"}]
      /\ \A c \in Calls : /\ callFate'[c] # "waiting"
                          /\ callFate[c] = "failed" => callFate'[c] = "failed"
  BY <1>1 DEF ChildCloses, SshInv, SshTypes, Waiting
<1>6. SshTypes' /\ timers' = {}
  BY <1>1, <1>2, <1>3, <1>4, <1>5 DEF ChildCloses, SshInv, SshTypes
<1>7. OnlyLateAnswersWarn'
  <2>1. \A id \in warned : id.call \in Calls
    BY <1>1 DEF SshInv, SshTypes, Ids
  <2>2. QED
    BY <1>1, <1>5, <2>1 DEF ChildCloses, SshInv, OnlyLateAnswersWarn
<1>8. QED
  BY <1>2, <1>5, <1>6, <1>7, ClosedIsQuiet

LEMMA ConnectKeeps == SshInv /\ Connect => SshInv'
<1>1. SUFFICES ASSUME SshInv, Connect PROVE SshInv'
  OBVIOUS
<1>2. ~link.closed /\ child.is = "none" /\ ~link.ready
      /\ UNCHANGED <<stream, callFate, timers, forgotten, warned>>
  BY <1>1 DEF Connect, SshInv
<1>3. /\ link' \in LinkRecs
      /\ link'.closed = link.closed /\ link'.ready = link.ready /\ link'.failed = link.failed
  <2>1. link \in LinkRecs
    BY <1>1 DEF SshInv, SshTypes
  <2>2. \/ link' = [link EXCEPT !.promise = "pending", !.helloTimer = TRUE]
        \/ link' = [link EXCEPT !.promise = "rejected"]
    BY <1>1 DEF Connect
  <2>3. QED
    BY <2>1, <2>2 DEF LinkRecs
<1>4. /\ child' \in ChildRecs
      /\ child'.wire = child.wire /\ child'.asked = child.asked /\ child'.wrote = child.wrote
  <2>1. child \in ChildRecs
    BY <1>1 DEF SshInv, SshTypes
  <2>2. child' = child \/ child' = [child EXCEPT !.is = "alive"]
    BY <1>1 DEF Connect
  <2>3. QED
    BY <2>1, <2>2 DEF ChildRecs
<1>5. SshTypes'
  BY <1>1, <1>2, <1>3, <1>4 DEF SshInv, SshTypes
<1>6. OpenLink'
  <2>1. Flight(stream', child') = Flight(stream, child)
    BY <1>2, <1>4 DEF Flight
  <2>2. QED
    BY <1>1, <1>2, <1>3, <1>4, <2>1 DEF SshInv, OpenLink
<1>7. Waiting' = Waiting
  BY <1>2 DEF Waiting
<1>8. QED
  BY <1>1, <1>2, <1>3, <1>5, <1>6, <1>7 DEF SshInv, PausedIsPumped, NothingOutlivesClose,
     OnlyLateAnswersWarn

(* An id is asked for once, and the other requests stay as far as they are.*)
LEMMA AskedFor ==
  ASSUME NEW f \in Seq(HelperLines), NEW asked \in Seq(Ids), NEW fate, NEW fire, NEW fate2, NEW fire2,
         AnsweredOnce(f, asked, fate, fire), AskedOnce(asked, fate, fire),
         \A id \in Ids : Awaited(id, fate, fire) => Awaited(id, fate2, fire2)
  PROVE  /\ AnsweredOnce(f, asked, fate2, fire2) /\ AskedOnce(asked, fate2, fire2)
         /\ \A id \in Ids : ~Awaited(id, fate, fire) /\ Awaited(id, fate2, fire2) =>
              AnsweredOnce(f, Append(asked, id), fate2, fire2)
              /\ AskedOnce(Append(asked, id), fate2, fire2)
<1>1. \A i \in 1..Len(f) : IsAnswer(f[i]) => f[i].id[1] \in Ids
  BY DEF IsAnswer, HelperLines
<1>2. /\ \A i \in 1..Len(f) : IsAnswer(f[i]) => Awaited(f[i].id[1], fate2, fire2)
      /\ \A a \in 1..Len(asked) : asked[a] \in Ids /\ Awaited(asked[a], fate2, fire2)
  BY <1>1 DEF AnsweredOnce, AskedOnce
<1>3. AnsweredOnce(f, asked, fate2, fire2) /\ AskedOnce(asked, fate2, fire2)
  BY <1>2 DEF AnsweredOnce, AskedOnce
<1>4. ASSUME NEW id \in Ids, ~Awaited(id, fate, fire), Awaited(id, fate2, fire2)
      PROVE  /\ AnsweredOnce(f, Append(asked, id), fate2, fire2)
             /\ AskedOnce(Append(asked, id), fate2, fire2)
  <2> DEFINE more == Append(asked, id)
  <2>1. /\ Len(more) = Len(asked) + 1 /\ Len(asked) \in Nat /\ more[Len(asked) + 1] = id
        /\ \A a \in 1..Len(asked) : more[a] = asked[a]
    OBVIOUS
  <2> HIDE DEF more
  <2>2. /\ \A i \in 1..Len(f) : IsAnswer(f[i]) => f[i].id[1] # id
        /\ \A a \in 1..Len(asked) : asked[a] # id
    BY <1>4 DEF AnsweredOnce, AskedOnce
  <2>3. \A i \in 1..Len(f), a \in 1..Len(more) : IsAnswer(f[i]) => f[i].id[1] # more[a]
    BY <2>1, <2>2 DEF AnsweredOnce
  <2>4. \A a, b \in 1..Len(more) : more[a] = more[b] => a = b
    BY <2>1, <2>2 DEF AskedOnce
  <2>5. \A a \in 1..Len(more) : Awaited(more[a], fate2, fire2)
    BY <1>2, <1>4, <2>1
  <2>6. QED
    BY <1>3, <2>3, <2>4, <2>5 DEF AnsweredOnce, AskedOnce, more
<1>5. QED
  BY <1>3, <1>4

(* The helper writes a line: news of its own, or the answer that is due.   *)
LEMMA LineAdded ==
  ASSUME NEW f \in Seq(HelperLines), NEW g, NEW line, NEW wrote \in Nat,
         Len(g) = Len(f) + 1, g[Len(f) + 1] = line, line.n = wrote + 1,
         \A i \in 1..Len(f) : g[i] = f[i],
         NEW asked \in Seq(Ids), NEW fate, NEW fire,
         AnsweredOnce(f, asked, fate, fire), AskedOnce(asked, fate, fire), Numbered(f, wrote)
  PROVE  /\ Numbered(g, wrote + 1)
         /\ ~IsAnswer(line) => AnsweredOnce(g, asked, fate, fire)
         /\ asked # <<>> /\ line.id = <<Head(asked)>> =>
              AnsweredOnce(g, Tail(asked), fate, fire) /\ AskedOnce(Tail(asked), fate, fire)
<1>1. Len(f) \in Nat
  OBVIOUS
<1>2. Numbered(g, wrote + 1)
  <2>1. ASSUME NEW i \in 1..Len(g) PROVE g[i].n = (wrote + 1) - Len(g) + i
    <3>1. CASE i \in 1..Len(f)
      BY <1>1, <3>1 DEF Numbered
    <3>2. CASE i = Len(f) + 1
      BY <1>1, <3>2
    <3>3. QED
      BY <1>1, <3>1, <3>2
  <2>2. QED
    BY <2>1 DEF Numbered
<1>3. ASSUME ~IsAnswer(line) PROVE AnsweredOnce(g, asked, fate, fire)
  <2>1. \A i \in 1..Len(g) : IsAnswer(g[i]) => i \in 1..Len(f) /\ g[i] = f[i]
    BY <1>1, <1>3
  <2> HIDE DEF IsAnswer, Awaited
  <2>2. QED
    BY <2>1, SMTT(30) DEF AnsweredOnce
<1>4. ASSUME asked # <<>>, line.id = <<Head(asked)>>
      PROVE  AnsweredOnce(g, Tail(asked), fate, fire) /\ AskedOnce(Tail(asked), fate, fire)
  <2> DEFINE rest == Tail(asked)
  <2>1. /\ Len(rest) = Len(asked) - 1 /\ Len(asked) \in Nat \ {0} /\ Head(asked) = asked[1]
        /\ \A a \in 1..Len(rest) : rest[a] = asked[a + 1] /\ a + 1 \in 1..Len(asked) /\ a + 1 # 1
    BY <1>4
  <2> HIDE DEF rest
  <2>2. line.id[1] = asked[1] /\ 1 \in 1..Len(asked)
    BY <1>4, <2>1
  <2>3. AskedOnce(rest, fate, fire)
    <3>1. \A a \in 1..Len(rest) : Awaited(rest[a], fate, fire)
      BY <2>1 DEF AskedOnce
    <3>2. ASSUME NEW a \in 1..Len(rest), NEW b \in 1..Len(rest), rest[a] = rest[b] PROVE a = b
      <4>1. a + 1 = b + 1
        BY <2>1, <3>2, SMTT(30) DEF AskedOnce
      <4>2. QED
        BY <2>1, <4>1
    <3>3. QED
      BY <3>1, <3>2 DEF AskedOnce
  <2>4. \A i \in 1..Len(g) : IsAnswer(g[i]) => Awaited(g[i].id[1], fate, fire)
    BY <1>1, <2>2 DEF AnsweredOnce, AskedOnce
  <2>5. \A i \in 1..Len(f) : IsAnswer(f[i]) => f[i].id[1] # line.id[1]
    BY <2>2 DEF AnsweredOnce
  <2>6. ASSUME NEW i \in 1..Len(g), NEW j \in 1..Len(g), IsAnswer(g[i]), IsAnswer(g[j]),
               g[i].id[1] = g[j].id[1]
        PROVE  i = j
    <3>1. CASE i \in 1..Len(f) /\ j \in 1..Len(f)
      BY <2>6, <3>1 DEF AnsweredOnce
    <3>2. CASE i = Len(f) + 1 \/ j = Len(f) + 1
      BY <1>1, <2>5, <2>6, <3>2
    <3>3. QED
      BY <1>1, <3>1, <3>2
  <2>7. \A i \in 1..Len(g), a \in 1..Len(rest) : IsAnswer(g[i]) => g[i].id[1] # rest[a]
    <3>1. SUFFICES ASSUME NEW i \in 1..Len(g), NEW a \in 1..Len(rest), IsAnswer(g[i])
                   PROVE  g[i].id[1] # asked[a + 1]
      BY <2>1, SMTT(30)
    <3>2. CASE i \in 1..Len(f)
      BY <2>1, <3>1, <3>2 DEF AnsweredOnce
    <3>3. CASE i = Len(f) + 1
      BY <2>1, <2>2, <3>3 DEF AskedOnce
    <3>4. QED
      BY <1>1, <3>2, <3>3
  <2>8. QED
    BY <2>3, <2>4, <2>6, <2>7 DEF AnsweredOnce, rest
<1>5. QED
  BY <1>2, <1>3, <1>4

(* A step of an open link that leaves its flags and timers alone.          *)
LEMMA HelperStep ==
  ASSUME SshInv, child' \in ChildRecs, child.is # "none" => child'.is # "none",
         UNCHANGED <<link, stream, callFate, timers, forgotten, warned>>,
         ~link.closed => OpenLink'
  PROVE  SshInv'
<1>1. SshTypes' /\ Waiting' = Waiting
  BY DEF SshInv, SshTypes, Waiting
<1>2. QED
  BY <1>1 DEF SshInv, PausedIsPumped, NothingOutlivesClose, OnlyLateAnswersWarn

LEMMA Concatenated ==
  ASSUME NEW S, NEW d \in Seq(S), NEW c \in Seq(S)
  PROVE  /\ Len(d \o c) = Len(d) + Len(c) /\ Len(d) \in Nat /\ Len(c) \in Nat
         /\ \A i \in 1..Len(d) : (d \o c)[i] = d[i]
         /\ \A i \in (Len(d) + 1)..(Len(d) + Len(c)) : (d \o c)[i] = c[i - Len(d)]
OBVIOUS

LEMMA JoinedLonger ==
  ASSUME NEW S, NEW a \in Seq(S), NEW b \in Seq(S), NEW c \in Seq(S), NEW x \in S,
         NEW f, f = a \o b \o c, NEW g, g = a \o b \o Append(c, x)
  PROVE  /\ Len(g) = Len(f) + 1 /\ g[Len(f) + 1] = x
         /\ \A i \in 1..Len(f) : g[i] = f[i]
<1> DEFINE d == a \o b
           more == Append(c, x)
<1>1. d \in Seq(S) /\ f = d \o c /\ g = d \o more
  OBVIOUS
<1>2. /\ more \in Seq(S) /\ Len(more) = Len(c) + 1 /\ more[Len(c) + 1] = x /\ Len(c) \in Nat
      /\ \A i \in 1..Len(c) : more[i] = c[i]
  OBVIOUS
<1> HIDE DEF d, more
<1>3. /\ Len(f) = Len(d) + Len(c) /\ Len(d) \in Nat
      /\ \A i \in 1..Len(d) : f[i] = d[i]
      /\ \A i \in (Len(d) + 1)..(Len(d) + Len(c)) : f[i] = c[i - Len(d)]
  BY <1>1, Concatenated
<1>4. /\ Len(g) = Len(d) + Len(more)
      /\ \A i \in 1..Len(d) : g[i] = d[i]
      /\ \A i \in (Len(d) + 1)..(Len(d) + Len(more)) : g[i] = more[i - Len(d)]
  <2>1. more \in Seq(S)
    BY <1>2
  <2>2. QED
    BY <1>1, <2>1, Concatenated
<1>5. Len(g) = Len(f) + 1 /\ g[Len(f) + 1] = x
  <2>1. (Len(f) + 1) - Len(d) = Len(c) + 1 /\ Len(f) + 1 \in (Len(d) + 1)..(Len(d) + Len(more))
    BY <1>2, <1>3
  <2>2. QED
    BY <1>2, <1>3, <1>4, <2>1
<1>6. ASSUME NEW i \in 1..Len(f) PROVE g[i] = f[i]
  <2>1. CASE i \in 1..Len(d)
    BY <1>3, <1>4, <2>1
  <2>2. CASE i \in (Len(d) + 1)..(Len(d) + Len(c))
    <3>1. i - Len(d) \in 1..Len(c) /\ i \in (Len(d) + 1)..(Len(d) + Len(more))
      BY <1>2, <1>3, <2>2
    <3>2. QED
      BY <1>2, <1>3, <1>4, <2>2, <3>1
  <2>3. QED
    <3>1. i \in 1..(Len(d) + Len(c)) /\ Len(d) \in Nat /\ Len(c) \in Nat
      BY <1>2, <1>3
    <3>2. i \in 1..Len(d) \/ i \in (Len(d) + 1)..(Len(d) + Len(c))
      BY <3>1
    <3>3. QED
      BY <2>1, <2>2, <3>2
<1>7. QED
  BY <1>5, <1>6

LEMMA HelperWritesKeeps == SshInv /\ HelperWrites => SshInv'
<1>1. SUFFICES ASSUME SshInv, HelperWrites PROVE SshInv'
  OBVIOUS
<1>2. /\ child \in ChildRecs /\ child.is = "alive" /\ child.wrote \in Nat
      /\ child.wire \in Seq(HelperLines) /\ child.asked \in Seq(Ids)
      /\ UNCHANGED <<link, stream, callFate, timers, forgotten, warned>>
  BY <1>1 DEF HelperWrites, SshInv, SshTypes, ChildRecs
<1>3. PICK line \in HelperLines :
        /\ line.n = child.wrote + 1
        /\ child'.wire = Append(child.wire, line) /\ child'.wrote = child.wrote + 1
        /\ child' \in ChildRecs /\ child'.is = child.is
        /\ \/ ~IsAnswer(line) /\ child'.asked = child.asked
           \/ /\ child.asked # <<>> /\ line.id = <<Head(child.asked)>>
              /\ child'.asked = Tail(child.asked)
  <2> DEFINE L(type, id) == FramesWritten(type, id, child.wrote + 1)
  <2>1. ASSUME NEW type, NEW id, L(type, id) \in HelperLines
        PROVE  LET said == Says(type, id) IN
               /\ said \in ChildRecs /\ said.is = child.is /\ said.asked = child.asked
               /\ said.wire = Append(child.wire, L(type, id)) /\ said.wrote = child.wrote + 1
    <3>1. Append(child.wire, L(type, id)) \in Seq(HelperLines)
      BY <1>2, <2>1
    <3> DEFINE wire == Append(child.wire, L(type, id))
               wrote == child.wrote + 1
    <3>2. Says(type, id) = [child EXCEPT !.wire = wire, !.wrote = wrote]
      BY <1>2 DEF Says, ChildRecs
    <3>3. wrote \in Nat
      BY <1>2
    <3> HIDE DEF wire, wrote
    <3>4. LET said == [child EXCEPT !.wire = wire, !.wrote = wrote] IN
          /\ said \in ChildRecs /\ said.is = child.is /\ said.asked = child.asked
          /\ said.wire = wire /\ said.wrote = wrote
      BY <1>2, <3>1, <3>3 DEF ChildRecs, wire
    <3>5. QED
      BY <3>2, <3>4 DEF wire, wrote
  <2>2. CASE \E type \in {"banner", "refusal", "event", "broken"} : child' = Says(type, <<>>)
    <3>1. PICK type \in {"banner", "refusal", "event", "broken"} : child' = Says(type, <<>>)
      BY <2>2
    <3>2. /\ L(type, <<>>) \in HelperLines /\ L(type, <<>>).n = child.wrote + 1
          /\ ~IsAnswer(L(type, <<>>))
      BY <1>2 DEF HelperLines, FramesWritten, IsAnswer
    <3>3. QED
      BY <2>1, <3>1, <3>2
  <2>3. CASE child' = [Says("hello", <<>>) EXCEPT !.greeted = TRUE]
    <3>1. /\ L("hello", <<>>) \in HelperLines /\ L("hello", <<>>).n = child.wrote + 1
          /\ ~IsAnswer(L("hello", <<>>))
      BY <1>2 DEF HelperLines, FramesWritten, IsAnswer
    <3> DEFINE said == Says("hello", <<>>)
    <3>2. /\ said \in ChildRecs /\ said.is = child.is /\ said.asked = child.asked
          /\ said.wire = Append(child.wire, L("hello", <<>>)) /\ said.wrote = child.wrote + 1
      BY <2>1, <3>1
    <3> HIDE DEF said, L
    <3>3. /\ child' \in ChildRecs /\ child'.is = child.is /\ child'.asked = child.asked
          /\ child'.wire = Append(child.wire, L("hello", <<>>)) /\ child'.wrote = child.wrote + 1
      BY <2>3, <3>2 DEF ChildRecs, said
    <3>4. QED
      BY <3>1, <3>3
  <2>4. CASE /\ child.asked # <<>>
             /\ child' = [Says("answer", <<Head(child.asked)>>) EXCEPT !.asked = Tail(@)]
    <3> DEFINE id == <<Head(child.asked)>>
               said == Says("answer", id)
    <3>1. Head(child.asked) \in Ids /\ Tail(child.asked) \in Seq(Ids)
      BY <1>2, <2>4
    <3>2. /\ L("answer", id) \in HelperLines /\ L("answer", id).n = child.wrote + 1
          /\ L("answer", id).id = id
      BY <1>2, <3>1 DEF HelperLines, FramesWritten
    <3>3. /\ said \in ChildRecs /\ said.is = child.is /\ said.asked = child.asked
          /\ said.wire = Append(child.wire, L("answer", id)) /\ said.wrote = child.wrote + 1
      BY <2>1, <3>2
    <3>4. child' = [said EXCEPT !.asked = Tail(@)]
      BY <2>4
    <3> HIDE DEF said, L
    <3>5. /\ child' \in ChildRecs /\ child'.is = child.is /\ child'.asked = Tail(child.asked)
          /\ child'.wire = Append(child.wire, L("answer", id)) /\ child'.wrote = child.wrote + 1
      BY <3>1, <3>3, <3>4 DEF ChildRecs
    <3>6. QED
      BY <2>4, <3>2, <3>5
  <2>5. QED
    BY <1>1, <2>2, <2>3, <2>4 DEF HelperWrites
<1>4. ASSUME ~link.closed PROVE OpenLink'
  <2>1. PICK f : f = Flight(stream, child)
    OBVIOUS
  <2>2. PICK g : g = Flight(stream', child')
    OBVIOUS
  <2>3. /\ stream.queue \in Seq(HelperLines) /\ stream.kept \in Seq(HelperLines)
        /\ f \in Seq(HelperLines) /\ Len(f) \in Nat
    BY <1>1, <2>1, FlightTypes DEF SshInv
  <2>4. /\ f = stream.queue \o stream.kept \o child.wire
        /\ g = stream.queue \o stream.kept \o Append(child.wire, line)
    BY <1>2, <1>3, <2>1, <2>2 DEF Flight
  <2>5. /\ Len(g) = Len(f) + 1 /\ g[Len(f) + 1] = line
        /\ \A i \in 1..Len(f) : g[i] = f[i]
    <3> DEFINE a == stream.queue
               b == stream.kept
               c == child.wire
    <3>1. /\ a \in Seq(HelperLines) /\ b \in Seq(HelperLines) /\ c \in Seq(HelperLines)
          /\ line \in HelperLines
          /\ f = a \o b \o c /\ g = a \o b \o Append(c, line)
      BY <1>2, <2>3, <2>4
    <3> HIDE DEF a, b, c
    <3>2. QED
      BY <3>1, JoinedLonger
  <2>6. OpenLink
    BY <1>1, <1>4 DEF SshInv
  <2>7. /\ Numbered(f, child.wrote) /\ AnsweredOnce(f, child.asked, callFate, forgotten)
        /\ AskedOnce(child.asked, callFate, forgotten)
        /\ link.ready => stream.seen = child.wrote - Len(f)
    BY <2>1, <2>6 DEF OpenLink
  <2>8. /\ Numbered(g, child.wrote + 1)
        /\ ~IsAnswer(line) => AnsweredOnce(g, child.asked, callFate, forgotten)
        /\ child.asked # <<>> /\ line.id = <<Head(child.asked)>> =>
             /\ AnsweredOnce(g, Tail(child.asked), callFate, forgotten)
             /\ AskedOnce(Tail(child.asked), callFate, forgotten)
    <3>1. /\ line.n = child.wrote + 1 /\ child.wrote \in Nat /\ child.asked \in Seq(Ids)
          /\ f \in Seq(HelperLines)
      BY <1>2, <1>3, <2>3
    <3>2. QED
      BY <2>5, <2>7, <3>1, LineAdded, SMTT(30)
  <2>9. AnsweredOnce(g, child'.asked, callFate, forgotten) /\ AskedOnce(child'.asked, callFate, forgotten)
    BY <1>3, <2>7, <2>8
  <2>10. link.ready => stream.seen = child'.wrote - Len(g)
    <3>1. child'.wrote = child.wrote + 1 /\ child.wrote \in Nat
      BY <1>2, <1>3
    <3>2. link.ready => stream.seen = child.wrote - Len(f)
      BY <2>7
    <3>3. Len(g) = Len(f) + 1 /\ Len(f) \in Nat
      BY <2>3, <2>5
    <3>4. QED
      BY <3>1, <3>2, <3>3
  <2>11. QED
    BY <1>2, <1>3, <2>2, <2>6, <2>8, <2>9, <2>10 DEF OpenLink
<1>5. QED
  BY <1>1, <1>2, <1>3, <1>4, HelperStep

LEMMA ChildExitsKeeps == SshInv /\ ChildExits => SshInv'
<1>1. SUFFICES ASSUME SshInv, ChildExits PROVE SshInv'
  OBVIOUS
<1>2. child \in ChildRecs /\ <<>> \in Seq(Ids)
  BY <1>1 DEF SshInv, SshTypes
<1>3. /\ child' \in ChildRecs /\ child'.is = "exited" /\ child'.asked = <<>>
      /\ child'.wire = child.wire /\ child'.wrote = child.wrote
      /\ UNCHANGED <<link, stream, callFate, timers, forgotten, warned>>
  BY <1>1, <1>2 DEF ChildExits, ChildRecs
<1>4. ASSUME ~link.closed PROVE OpenLink'
  <2>1. Flight(stream', child') = Flight(stream, child)
    BY <1>3 DEF Flight
  <2>2. OpenLink
    BY <1>1, <1>4 DEF SshInv
  <2>3. \A f : AnsweredOnce(f, child.asked, callFate, forgotten) =>
                 AnsweredOnce(f, <<>>, callFate, forgotten)
    BY DEF AnsweredOnce
  <2>4. AskedOnce(<<>>, callFate, forgotten)
    BY DEF AskedOnce
  <2>5. QED
    BY <1>3, <2>1, <2>2, <2>3, <2>4 DEF OpenLink
<1>5. QED
  BY <1>1, <1>3, <1>4, HelperStep

(* What is asked of the child is on its way, once.                         *)
LEMMA Asking ==
  ASSUME SshInv, ~link.closed, NEW id \in Ids,
         child' = Asked(id), UNCHANGED <<link, stream>>,
         \A i \in Ids : Awaited(i, callFate, forgotten) => Awaited(i, callFate', forgotten'),
         ~Awaited(id, callFate, forgotten), Awaited(id, callFate', forgotten')
  PROVE  child' \in ChildRecs /\ child'.is = child.is /\ OpenLink'
<1>1. /\ child \in ChildRecs /\ child.asked \in Seq(Ids)
      /\ Append(child.asked, id) \in Seq(Ids)
  BY DEF SshInv, SshTypes, ChildRecs
<1>2. /\ child' \in ChildRecs /\ child'.is = child.is /\ child'.wire = child.wire
      /\ child'.wrote = child.wrote
      /\ child'.asked = child.asked \/ child'.asked = Append(child.asked, id)
  BY <1>1 DEF Asked, ChildRecs
<1>3. PICK f : f = Flight(stream, child)
  OBVIOUS
<1>4. f \in Seq(HelperLines) /\ f = Flight(stream', child')
  BY <1>2, <1>3, FlightTypes DEF SshInv, Flight
<1>5. OpenLink
  BY DEF SshInv
<1>6. AnsweredOnce(f, child.asked, callFate, forgotten) /\ AskedOnce(child.asked, callFate, forgotten)
  BY <1>3, <1>5 DEF OpenLink
<1>7. PICK fate, fire : fate = callFate' /\ fire = forgotten'
  OBVIOUS
<1>8. /\ AnsweredOnce(f, child.asked, fate, fire) /\ AskedOnce(child.asked, fate, fire)
      /\ AnsweredOnce(f, Append(child.asked, id), fate, fire)
      /\ AskedOnce(Append(child.asked, id), fate, fire)
  BY <1>1, <1>4, <1>6, <1>7, AskedFor
<1>9. AnsweredOnce(f, child'.asked, fate, fire) /\ AskedOnce(child'.asked, fate, fire)
  BY <1>2, <1>8
<1>10. QED
  BY <1>2, <1>3, <1>4, <1>5, <1>7, <1>9 DEF OpenLink

LEMMA RequestKeeps == ASSUME NEW c \in Calls PROVE SshInv /\ Request(c) => SshInv'
<1>1. SUFFICES ASSUME SshInv, Request(c) PROVE SshInv'
  OBVIOUS
<1>2. /\ callFate \in [Calls -> {"new", "waiting", "answered", "failed"}] /\ callFate[c] = "new"
      /\ UNCHANGED <<link, stream, forgotten, warned>>
  BY <1>1 DEF SshInv, SshTypes, Request
<1>3. OnlyLateAnswersWarn'
  <2>1. \A id \in warned : callFate[id.call] = "failed" /\ ~id.cancel
    BY <1>1 DEF SshInv, OnlyLateAnswersWarn
  <2>2. \A d \in Calls : callFate[d] = "failed" => callFate'[d] = "failed"
    BY <1>1, <1>2 DEF Request
  <2>3. \A id \in warned : id.call \in Calls
    BY <1>1 DEF SshInv, SshTypes, Ids
  <2>4. QED
    BY <1>2, <2>1, <2>2, <2>3 DEF OnlyLateAnswersWarn
<1>4. CASE ~link.ready \/ link.closed
  <2>1. callFate' = [callFate EXCEPT ![c] = "failed"] /\ UNCHANGED <<timers, child>>
    BY <1>1, <1>4 DEF Request
  <2>2. Waiting' = Waiting /\ SshTypes'
    BY <1>1, <1>2, <2>1 DEF Waiting, SshInv, SshTypes
  <2>3. ASSUME ~link.closed PROVE OpenLink'
    <3>1. PICK f, fate : f = Flight(stream, child) /\ fate = callFate'
      OBVIOUS
    <3>2. f \in Seq(HelperLines) /\ child.asked \in Seq(Ids)
      BY <1>1, <3>1, FlightTypes DEF SshInv
    <3>3. \A id \in Ids : Awaited(id, callFate, forgotten) => Awaited(id, fate, forgotten)
      BY <1>2, <2>1, <3>1 DEF Awaited, Ids
    <3>4. OpenLink
      BY <1>1, <2>3 DEF SshInv
    <3>5. AnsweredOnce(f, child.asked, callFate, forgotten) /\ AskedOnce(child.asked, callFate, forgotten)
      BY <3>1, <3>4 DEF OpenLink
    <3>6. AnsweredOnce(f, child.asked, fate, forgotten) /\ AskedOnce(child.asked, fate, forgotten)
      BY <3>2, <3>3, <3>5, AskedFor
    <3>7. QED
      BY <1>2, <2>1, <3>1, <3>4, <3>6 DEF OpenLink
  <2>4. QED
    BY <1>1, <1>2, <1>3, <2>1, <2>2, <2>3 DEF SshInv, PausedIsPumped, NothingOutlivesClose
<1>5. CASE link.ready /\ ~link.closed
  <2>1. /\ callFate' = [callFate EXCEPT ![c] = "waiting"] /\ timers' = timers \cup {c}
        /\ child' = Asked(Id(c))
    BY <1>1, <1>5 DEF Request
  <2>2. /\ Id(c) \in Ids /\ Id(c).call = c /\ Id(c).cancel = FALSE
    BY DEF Id, Ids
  <2>3. \A id \in Ids : Awaited(id, callFate, forgotten) => Awaited(id, callFate', forgotten')
    BY <1>2, <2>1 DEF Awaited, Ids
  <2>4. ~Awaited(Id(c), callFate, forgotten) /\ Awaited(Id(c), callFate', forgotten')
    BY <1>2, <2>1, <2>2 DEF Awaited
  <2>5. child' \in ChildRecs /\ child'.is = child.is /\ OpenLink'
    BY <1>1, <1>2, <1>5, <2>1, <2>2, <2>3, <2>4, Asking
  <2>6. timers' = Waiting'
    BY <1>1, <1>2, <2>1 DEF Waiting, SshInv, NothingOutlivesClose
  <2>7. SshTypes'
    BY <1>1, <1>2, <2>1, <2>5 DEF SshInv, SshTypes
  <2>8. QED
    BY <1>1, <1>2, <1>3, <1>5, <2>5, <2>6, <2>7 DEF SshInv, PausedIsPumped, NothingOutlivesClose
<1>6. QED
  BY <1>4, <1>5

LEMMA RequestTimeoutKeeps == ASSUME NEW c \in Calls PROVE SshInv /\ RequestTimeout(c) => SshInv'
<1>1. SUFFICES ASSUME SshInv, RequestTimeout(c) PROVE SshInv'
  OBVIOUS
<1>2. /\ callFate \in [Calls -> {"new", "waiting", "answered", "failed"}]
      /\ callFate[c] = "waiting" /\ ~link.closed /\ timers = Waiting
      /\ UNCHANGED <<link, stream, warned>>
      /\ callFate' = [callFate EXCEPT ![c] = "failed"] /\ timers' = timers \ {c}
  BY <1>1 DEF SshInv, SshTypes, RequestTimeout, NothingOutlivesClose, Waiting
<1>3. OnlyLateAnswersWarn'
  <2>1. \A id \in warned : callFate[id.call] = "failed" /\ ~id.cancel
    BY <1>1 DEF SshInv, OnlyLateAnswersWarn
  <2>2. \A d \in Calls : callFate[d] = "failed" => callFate'[d] = "failed"
    BY <1>2
  <2>3. \A id \in warned : id.call \in Calls
    BY <1>1 DEF SshInv, SshTypes, Ids
  <2>4. QED
    BY <1>2, <2>1, <2>2, <2>3 DEF OnlyLateAnswersWarn
<1>4. timers' = Waiting'
  BY <1>2 DEF Waiting
<1>5. /\ CancelOf(c) \in Ids /\ CancelOf(c).call = c /\ CancelOf(c).cancel = TRUE
  BY DEF CancelOf, Ids
<1>6. child' \in ChildRecs /\ child'.is = child.is /\ OpenLink' /\ forgotten' \subseteq Ids
  <2>1. CASE link.ready
    <3>1. child' = Asked(CancelOf(c)) /\ forgotten' = forgotten \cup {CancelOf(c)}
      BY <1>1, <1>2, <2>1 DEF RequestTimeout
    <3>2. \A id \in Ids : Awaited(id, callFate, forgotten) => Awaited(id, callFate', forgotten')
      BY <1>2, <3>1 DEF Awaited, Ids
    <3>3. ~Awaited(CancelOf(c), callFate, forgotten) /\ Awaited(CancelOf(c), callFate', forgotten')
      BY <1>2, <1>5, <3>1 DEF Awaited
    <3>4. child' \in ChildRecs /\ child'.is = child.is /\ OpenLink'
      BY <1>1, <1>2, <1>5, <3>1, <3>2, <3>3, Asking
    <3>5. QED
      BY <1>1, <1>5, <3>1, <3>4 DEF SshInv, SshTypes
  <2>2. CASE ~link.ready
    <3>1. UNCHANGED <<child, forgotten>>
      BY <1>1, <2>2 DEF RequestTimeout
    <3>2. PICK f, fate : f = Flight(stream, child) /\ fate = callFate'
      OBVIOUS
    <3>3. f \in Seq(HelperLines) /\ child.asked \in Seq(Ids)
      BY <1>1, <3>2, FlightTypes DEF SshInv
    <3>4. \A id \in Ids : Awaited(id, callFate, forgotten) => Awaited(id, fate, forgotten)
      BY <1>2, <3>2 DEF Awaited, Ids
    <3>5. OpenLink
      BY <1>1, <1>2 DEF SshInv
    <3>6. AnsweredOnce(f, child.asked, callFate, forgotten) /\ AskedOnce(child.asked, callFate, forgotten)
      BY <3>2, <3>5 DEF OpenLink
    <3>7. AnsweredOnce(f, child.asked, fate, forgotten) /\ AskedOnce(child.asked, fate, forgotten)
      BY <3>3, <3>4, <3>6, AskedFor
    <3>8. OpenLink'
      BY <1>2, <3>1, <3>2, <3>5, <3>7 DEF OpenLink
    <3>9. QED
      BY <1>1, <3>1, <3>8 DEF SshInv, SshTypes
  <2>3. QED
    BY <2>1, <2>2
<1>7. SshTypes'
  BY <1>1, <1>2, <1>6 DEF SshInv, SshTypes
<1>8. QED
  BY <1>1, <1>2, <1>3, <1>4, <1>6, <1>7 DEF SshInv, PausedIsPumped, NothingOutlivesClose

(* The queue as a whole is dispatched, or nothing is left to dispatch it   *)
(* for.                                                                    *)
LEMMA PumpKeeps == SshInv /\ Pump => SshInv'
<1>1. SUFFICES ASSUME SshInv, Pump PROVE SshInv'
  OBVIOUS
<1>2. /\ link \in LinkRecs /\ child \in ChildRecs /\ stream \in StreamRecs
      /\ callFate \in [Calls -> {"new", "waiting", "answered", "failed"}]
      /\ stream.queue \in Seq(HelperLines) /\ stream.kept \in Seq(HelperLines)
      /\ child.wire \in Seq(HelperLines) /\ stream.seen \in Nat /\ <<>> \in Seq(HelperLines)
      /\ stream.pump
  <2>1. link \in LinkRecs /\ child \in ChildRecs /\ stream \in StreamRecs
        /\ callFate \in [Calls -> {"new", "waiting", "answered", "failed"}]
    BY <1>1 DEF SshInv, SshTypes
  <2>2. stream.seen \in Nat
    BY <2>1 DEF StreamRecs
  <2>3. QED
    <3>1. SshTypes /\ stream.pump
      BY <1>1 DEF SshInv, Pump
    <3>2. /\ stream.queue \in Seq(HelperLines) /\ stream.kept \in Seq(HelperLines)
          /\ child.wire \in Seq(HelperLines)
      BY <3>1, FlightTypes
    <3>3. <<>> \in Seq(HelperLines)
      OBVIOUS
    <3>4. QED
      BY <2>1, <2>2, <3>1, <3>2, <3>3
<1>3. CASE link.closed
  <2>1. stream' = [stream EXCEPT !.queue = <<>>, !.pump = FALSE]
        /\ UNCHANGED <<link, child, callFate, timers, forgotten, warned>>
    BY <1>1, <1>3 DEF Pump, Emptied
  <2>2. stream' \in StreamRecs
    BY <1>2, <2>1 DEF StreamRecs
  <2>3. SshTypes' /\ Waiting' = Waiting
    BY <1>1, <2>1, <2>2 DEF SshInv, SshTypes, Waiting
  <2>4. QED
    BY <1>1, <1>3, <2>1, <2>3 DEF SshInv, PausedIsPumped, NothingOutlivesClose, OnlyLateAnswersWarn
<1>4. CASE ~link.closed
  <2>1. PICK k \in 0..Len(stream.queue) :
          LET chunk == SubSeq(stream.queue, 1, k)
              calledClose == k < Len(stream.queue) IN
          /\ k = 0 => stream.queue = <<>>
          /\ stream' = [stream EXCEPT !.queue = <<>>, !.pump = FALSE, !.seen = @ + k,
                                      !.paused = @ /\ Len(stream.queue) - k > Watermark]
          /\ callFate' = [c \in Calls |-> IF calledClose /\ CallSettled(chunk)[c] = "waiting"
                                          THEN "failed" ELSE CallSettled(chunk)[c]]
          /\ timers' = IF calledClose THEN {}
                       ELSE timers \ {c \in Calls : Id(c) \in Answers(chunk)}
          /\ forgotten' = forgotten \ Answers(chunk)
          /\ warned' = warned \cup Unknown(chunk)
          /\ link' = [link EXCEPT !.closed = calledClose]
          /\ child' = IF calledClose THEN ChildKilled(child) ELSE child
    BY <1>1, <1>4 DEF Pump
  <2>2. PICK chunk : chunk = SubSeq(stream.queue, 1, k)
    OBVIOUS
  <2>3. /\ chunk \in Seq(HelperLines) /\ Len(chunk) = k /\ k \in Nat /\ Len(stream.queue) \in Nat
        /\ \A i \in 1..k : chunk[i] = stream.queue[i] /\ i \in 1..Len(stream.queue)
    BY <1>2, <2>1, <2>2, Sliced
  <2>4. OpenLink /\ link.ready /\ ~link.helloTimer /\ child.is # "none"
    BY <1>1, <1>2, <1>4 DEF SshInv, OpenLink
  <2>5. PICK f : f = Flight(stream, child)
    OBVIOUS
  <2>6. /\ f \in Seq(HelperLines) /\ \A i \in 1..Len(stream.queue) : f[i] = stream.queue[i]
        /\ Len(f) = Len(stream.queue) + Len(stream.kept) + Len(child.wire)
        /\ Len(stream.kept) \in Nat /\ Len(child.wire) \in Nat
    <3> DEFINE a == stream.queue
               b == stream.kept
               c == child.wire
    <3>1. f = a \o b \o c
      BY <2>5 DEF Flight
    <3>2. a \in Seq(HelperLines) /\ b \in Seq(HelperLines) /\ c \in Seq(HelperLines)
      BY <1>2
    <3> HIDE DEF a, b, c
    <3>3. /\ f \in Seq(HelperLines) /\ Len(f) = Len(a) + Len(b) + Len(c)
          /\ Len(a) \in Nat /\ Len(b) \in Nat /\ Len(c) \in Nat
          /\ \A i \in 1..Len(a) : f[i] = a[i]
      BY <3>1, <3>2, FlightParts
    <3>4. QED
      BY <3>3 DEF a, b, c
  <2>7. f \in Seq(HelperLines)
    BY <2>6
  <2>8. Len(stream.queue) <= Len(f) /\ Len(f) \in Nat
    <3> DEFINE x == Len(stream.queue)
               y == Len(stream.kept)
               z == Len(child.wire)
    <3>1. x \in Nat /\ y \in Nat /\ z \in Nat /\ Len(f) = x + y + z
      BY <2>3, <2>6
    <3> HIDE DEF x, y, z
    <3>2. x <= Len(f) /\ Len(f) \in Nat
      BY <3>1
    <3>3. QED
      BY <3>2 DEF x
  <2>9. /\ Numbered(f, child.wrote) /\ AnsweredOnce(f, child.asked, callFate, forgotten)
        /\ AskedOnce(child.asked, callFate, forgotten) /\ stream.seen = child.wrote - Len(f)
    BY <2>4, <2>5 DEF OpenLink
  <2>10. \A id \in Answers(chunk) : \E i \in 1..k : IsAnswer(f[i]) /\ f[i].id[1] = id
    <3>1. DOMAIN chunk = 1..k
      BY <2>3
    <3>2. ASSUME NEW i \in 1..k, chunk[i].type = "answer"
          PROVE  IsAnswer(f[i]) /\ f[i].id[1] = chunk[i].id[1]
      BY <2>3, <2>6, <3>2 DEF IsAnswer
    <3>3. QED
      BY <3>1, <3>2 DEF Answers
  <2>11. k <= Len(f) /\ \A i \in 1..k : i \in 1..Len(f)
    <3>1. k \in Nat /\ k <= Len(stream.queue) /\ Len(stream.queue) \in Nat
      BY <2>1, <2>3
    <3>2. QED
      BY <2>8, <3>1
  <2>12. \A id \in Answers(chunk) : id \in Ids /\ Awaited(id, callFate, forgotten)
    <3>1. \A i \in 1..Len(f) : IsAnswer(f[i]) => f[i].id[1] \in Ids
      BY <2>7 DEF IsAnswer, HelperLines
    <3>2. QED
      BY <2>9, <2>10, <2>11, <3>1 DEF AnsweredOnce
  <2>13. ASSUME NEW c \in Calls
         PROVE  /\ callFate'[c] \in {"new", "waiting", "answered", "failed"}
                /\ callFate[c] = "failed" => callFate'[c] = "failed"
                /\ k < Len(stream.queue) => callFate'[c] # "waiting"
                /\ k = Len(stream.queue) =>
                     callFate'[c] = IF Id(c) \in Answers(chunk) /\ callFate[c] = "waiting"
                                    THEN "answered" ELSE callFate[c]
    <3> DEFINE settled == IF Id(c) \in Answers(chunk) /\ callFate[c] = "waiting"
                          THEN "answered" ELSE callFate[c]
    <3>1. CallSettled(chunk)[c] = settled
      BY DEF CallSettled, Waiting
    <3>2. callFate'[c] = IF k < Len(stream.queue) /\ settled = "waiting" THEN "failed" ELSE settled
      BY <2>1, <2>2, <3>1
    <3>3. QED
      BY <1>2, <2>3, <3>2
  <2>14. callFate' \in [Calls -> {"new", "waiting", "answered", "failed"}]
    BY <2>1, <2>13
  <2>15. OnlyLateAnswersWarn' /\ warned' \subseteq Ids
    <3>1. \A id \in warned : id \in Ids /\ ~id.cancel /\ callFate[id.call] = "failed"
      BY <1>1 DEF SshInv, SshTypes, OnlyLateAnswersWarn
    <3>2. ASSUME NEW id \in Unknown(chunk)
          PROVE  id \in Ids /\ ~id.cancel /\ callFate[id.call] = "failed"
      <4>1. /\ id \in Answers(chunk) /\ id \notin forgotten
            /\ id.cancel \/ id.call \notin Waiting
        BY DEF Unknown
      <4>2. id \in Ids /\ Awaited(id, callFate, forgotten)
        BY <2>12, <4>1
      <4>3. ~id.cancel /\ callFate[id.call] \in {"waiting", "failed"}
        BY <4>1, <4>2 DEF Awaited, Ids
      <4>4. id.call \in Calls /\ callFate[id.call] # "waiting"
        BY <4>1, <4>2, <4>3 DEF Ids, Waiting
      <4>5. QED
        BY <4>2, <4>3, <4>4
    <3>3. warned' = warned \cup Unknown(chunk)
      BY <2>1, <2>2
    <3>4. \A id \in warned' : id \in Ids /\ ~id.cancel /\ callFate'[id.call] = "failed"
      BY <2>13, <3>1, <3>2, <3>3 DEF Ids
    <3>5. QED
      BY <3>4 DEF OnlyLateAnswersWarn
  <2>16. stream' \in StreamRecs /\ stream'.queue = <<>> /\ ~stream'.pump
         /\ stream'.seen = stream.seen + k /\ stream'.kept = stream.kept
         /\ (k = Len(stream.queue) => ~stream'.paused)
    <3> DEFINE paused == stream.paused /\ Len(stream.queue) - k > Watermark
               seen == stream.seen + k
    <3>1. paused \in BOOLEAN /\ seen \in Nat /\ (k = Len(stream.queue) => ~paused)
      BY <1>2, <2>3, QueueAssumption
    <3>2. stream' = [stream EXCEPT !.queue = <<>>, !.pump = FALSE, !.seen = seen, !.paused = paused]
      BY <2>1
    <3> HIDE DEF paused, seen
    <3>3. /\ stream' \in StreamRecs /\ stream'.queue = <<>> /\ ~stream'.pump
          /\ stream'.seen = seen /\ stream'.kept = stream.kept /\ stream'.paused = paused
      BY <1>2, <3>1, <3>2 DEF StreamRecs
    <3>4. QED
      BY <3>1, <3>3 DEF seen
  <2>17. forgotten' = forgotten \ Answers(chunk) /\ forgotten' \subseteq Ids
    BY <1>1, <2>1, <2>2 DEF SshInv, SshTypes
  <2>18. CASE k < Len(stream.queue)
    <3>1. /\ link' = [link EXCEPT !.closed = TRUE] /\ timers' = {} /\ child' = ChildKilled(child)
      BY <2>1, <2>18
    <3>2. link' \in LinkRecs /\ link'.closed /\ ~link'.helloTimer
      BY <1>2, <2>4, <3>1 DEF LinkRecs
    <3>3. child' \in ChildRecs /\ child'.is # "none"
      BY <1>2, <2>4, <3>1 DEF ChildKilled, ChildRecs
    <3>4. SshTypes'
      BY <2>14, <2>15, <2>16, <2>17, <3>1, <3>2, <3>3 DEF SshTypes
    <3>5. QED
      BY <2>13, <2>15, <2>18, <3>1, <3>2, <3>3, <3>4, ClosedIsQuiet
  <2>19. CASE k = Len(stream.queue)
    <3>1. /\ link' = [link EXCEPT !.closed = FALSE] /\ child' = child
          /\ timers' = timers \ {c \in Calls : Id(c) \in Answers(chunk)}
      <4>1. (k < Len(stream.queue)) = FALSE
        BY <2>3, <2>19
      <4>2. QED
        BY <2>1, <2>2, <4>1
    <3>2. link' = link
      BY <1>2, <1>4, <3>1 DEF LinkRecs
    <3>3. timers = Waiting /\ timers' = Waiting'
      BY <1>1, <2>13, <2>19, <3>1 DEF SshInv, NothingOutlivesClose, Waiting
    <3>4. PICK g : g = Flight(stream', child')
      OBVIOUS
    <3>5. Drops(f, g, k) /\ g \in Seq(HelperLines)
      <4> DEFINE a == stream.queue
                 b == stream.kept
                 c == child.wire
      <4>1. f = a \o b \o c /\ g = <<>> \o b \o c
        BY <2>5, <2>16, <3>1, <3>4 DEF Flight
      <4>2. a \in Seq(HelperLines) /\ b \in Seq(HelperLines) /\ c \in Seq(HelperLines)
        BY <1>2
      <4> HIDE DEF b, c
      <4>3. Drops(f, g, Len(a))
        BY <4>1, <4>2, PrefixDropped
      <4>4. g \in Seq(HelperLines)
        BY <4>1, <4>2, PrefixDropped
      <4>5. QED
        BY <2>19, <4>3, <4>4
    <3>6. Len(g) = Len(f) - k /\ child.wrote \in Nat /\ \A i \in 1..Len(g) : g[i] = f[i + k]
      BY <1>2, <3>5 DEF Drops, ChildRecs
    <3>7. Numbered(g, child.wrote) /\ AnsweredOnce(g, child.asked, callFate, forgotten)
      BY <2>7, <2>9, <3>5, <3>6, Dropped
    <3>8. PICK fate, fire : fate = callFate' /\ fire = forgotten'
      OBVIOUS
    <3>9. \A id \in Ids : id \notin Answers(chunk) /\ Awaited(id, callFate, forgotten)
                          => Awaited(id, fate, fire)
      <4>1. \A id \in Ids : ~id.cancel => id = Id(id.call)
        BY DEF Ids, Id
      <4>2. \A id \in Ids : id.call \in Calls /\ id.cancel \in BOOLEAN
        BY DEF Ids
      <4>3. QED
        BY <2>13, <2>17, <2>19, <3>8, <4>1, <4>2 DEF Awaited
    <3>10. ASSUME NEW i \in 1..Len(g), IsAnswer(g[i])
           PROVE  g[i].id[1] \in Ids /\ Awaited(g[i].id[1], fate, fire)
      <4>1. g[i].id[1] \in Ids /\ Awaited(g[i].id[1], callFate, forgotten)
        BY <3>5, <3>7, <3>10 DEF AnsweredOnce, HelperLines, IsAnswer
      <4>2. g[i].id[1] \notin Answers(chunk)
        <5>1. g[i] = f[i + k] /\ i + k \in 1..Len(f) /\ i + k \notin 1..k
          <6>1. i + k \in 1..Len(f) /\ i + k \notin 1..k
            BY <2>3, <2>8, <2>11, <3>6
          <6>2. QED
            BY <3>6, <6>1
        <5>2. \A j \in 1..k : IsAnswer(f[j]) => f[j].id[1] # g[i].id[1]
          BY <2>9, <2>11, <3>10, <5>1 DEF AnsweredOnce
        <5>3. QED
          BY <2>10, <5>2
      <4>3. QED
        BY <3>9, <4>1, <4>2
    <3>11. ASSUME NEW a \in 1..Len(child.asked)
           PROVE  Awaited(child.asked[a], fate, fire)
      <4>1. child.asked[a] \in Ids /\ Awaited(child.asked[a], callFate, forgotten)
        BY <1>1, <2>9 DEF AskedOnce, SshInv, SshTypes, ChildRecs
      <4>2. child.asked[a] \notin Answers(chunk)
        BY <2>9, <2>10, <2>11 DEF AnsweredOnce
      <4>3. QED
        BY <3>9, <4>1, <4>2
    <3>12. AnsweredOnce(g, child.asked, fate, fire) /\ AskedOnce(child.asked, fate, fire)
      BY <2>9, <3>7, <3>10, <3>11 DEF AnsweredOnce, AskedOnce
    <3>13. stream'.seen = child.wrote - Len(g)
      <4>1. stream'.seen = stream.seen + k /\ stream.seen = child.wrote - Len(f)
        BY <2>9, <2>16
      <4>2. Len(g) = Len(f) - k /\ child.wrote \in Nat /\ k \in Nat /\ Len(f) \in Nat
        BY <2>3, <2>8, <3>6
      <4>3. QED
        BY <4>1, <4>2
    <3>14. OpenLink'
      BY <2>4, <3>1, <3>2, <3>4, <3>7, <3>8, <3>12, <3>13 DEF OpenLink
    <3>15. SshTypes'
      BY <1>1, <2>14, <2>15, <2>16, <2>17, <3>1, <3>2 DEF SshTypes, SshInv
    <3>16. QED
      BY <1>1, <1>4, <2>15, <2>16, <2>19, <3>1, <3>2, <3>3, <3>14, <3>15
      DEF SshInv, PausedIsPumped, NothingOutlivesClose
  <2>20. QED
    BY <2>3, <2>18, <2>19
<1>5. QED
  BY <1>3, <1>4

LEMMA LinesAssociate ==
  \A s, t, u \in Seq(HelperLines) : (s \o t) \o u = s \o (t \o u)
BY ConcatAssociative, SMTT(30)

(* A chunk of the pipe joins what is queued: nothing leaves the flight.    *)
LEMMA ChunkQueued ==
  ASSUME NEW a \in Seq(HelperLines), NEW b \in Seq(HelperLines), NEW c \in Seq(HelperLines),
         NEW k \in 0..Len(c)
  PROVE  LET p == SubSeq(c, 1, k)
             r == SubSeq(c, k + 1, Len(c))
             q == a \o b \o p
         IN  q \in Seq(HelperLines) /\ q \o <<>> \o r = a \o b \o c
<1> DEFINE p == SubSeq(c, 1, k)
           r == SubSeq(c, k + 1, Len(c))
           d == a \o b
<1>1. p \in Seq(HelperLines) /\ r \in Seq(HelperLines) /\ d \in Seq(HelperLines)
  BY Sliced, ConcatProperties
<1>2. p \o r = c
  <2>1. 1 \in 1..(Len(c) + 1) /\ k \in (1 - 1)..Len(c) /\ Len(c) \in k..Len(c)
    OBVIOUS
  <2>2. p \o r = SubSeq(c, 1, Len(c))
    BY <2>1, ConcatAdjacentSubSeq
  <2>3. QED
    BY <2>2, SubSeqFull
<1> HIDE DEF p, r, d
<1>3. (d \o p) \o r = d \o (p \o r)
  <2>1. \A t, u \in Seq(HelperLines) : (d \o t) \o u = d \o (t \o u)
    BY <1>1, LinesAssociate, Zenon
  <2>2. \A u \in Seq(HelperLines) : (d \o p) \o u = d \o (p \o u)
    BY <1>1, <2>1, Zenon
  <2>3. QED
    BY <1>1, <2>2, Zenon
<1>4. d \o p \in Seq(HelperLines) /\ (d \o p) \o <<>> = d \o p
  BY <1>1, ConcatProperties, ConcatEmptySeq
<1>5. QED
  BY <1>2, <1>3, <1>4 DEF p, r, d

(* Before the hello all that is in flight is in the pipe; j lines leave it.*)
LEMMA PipeRead ==
  ASSUME NEW c \in Seq(HelperLines), NEW k \in 0..Len(c), NEW j \in 0..k
  PROVE  LET f == <<>> \o <<>> \o c
             g == <<>> \o SubSeq(c, j + 1, k) \o SubSeq(c, k + 1, Len(c))
         IN  f = c /\ g \in Seq(HelperLines) /\ Drops(f, g, j)
<1> DEFINE b == SubSeq(c, j + 1, k)
           r == SubSeq(c, k + 1, Len(c))
           h == SubSeq(c, j + 1, Len(c))
<1>1. <<>> \o <<>> \o c = c
  <2>1. <<>> \in Seq(HelperLines)
    BY EmptySeq
  <2>2. <<>> \o <<>> = <<>>
    BY <2>1, ConcatEmptySeq
  <2>3. QED
    BY <2>2, ConcatEmptySeq
<1>2. b \in Seq(HelperLines)
  <2>1. \A i \in (j + 1)..k : c[i] \in HelperLines
    OBVIOUS
  <2>2. QED
    BY <2>1, SubSeqProperties
<1>3. <<>> \o b = b
  BY <1>2, ConcatEmptySeq
<1>4. b \o r = h
  <2>1. j + 1 \in 1..(Len(c) + 1) /\ k \in ((j + 1) - 1)..Len(c) /\ Len(c) \in k..Len(c)
    OBVIOUS
  <2>2. QED
    BY <2>1, ConcatAdjacentSubSeq
<1>5. j \in 0..Len(c)
  OBVIOUS
<1>6. /\ h \in Seq(HelperLines) /\ Len(h) = Len(c) - j
      /\ \A i \in 1..(Len(c) - j) : h[i] = c[i + j]
  BY <1>5, Sliced
<1> HIDE DEF b, r, h
<1>7. Drops(c, h, j)
  BY <1>5, <1>6 DEF Drops
<1>8. QED
  BY <1>1, <1>3, <1>4, <1>6, <1>7 DEF b, r, h

(* Lines are read from the pipe of an open link.                           *)
LEMMA LinesRead ==
  ASSUME SshInv, ~link.closed, link' \in LinkRecs, child' \in ChildRecs, stream' \in StreamRecs,
         ~link'.closed, ~link'.failed, UNCHANGED <<callFate, timers, forgotten, warned>>,
         child'.asked = child.asked, child'.wrote = child.wrote, child'.is # "none",
         link'.ready => ~link'.helloTimer,
         NEW k, Drops(Flight(stream, child), Flight(stream', child'), k),
         link'.ready => stream'.seen = child.wrote - Len(Flight(stream', child')),
         ~link'.ready => /\ stream'.queue = <<>> /\ stream'.kept = <<>>
                         /\ ~stream'.pump /\ ~stream'.paused,
         stream'.paused => stream'.pump
  PROVE  SshInv'
<1>1. SshTypes' /\ Waiting' = Waiting
  BY DEF SshInv, SshTypes, Waiting
<1>2. PICK f, g : f = Flight(stream, child) /\ g = Flight(stream', child')
  OBVIOUS
<1>3. f \in Seq(HelperLines) /\ child.wrote \in Nat
  BY <1>2, FlightTypes DEF SshInv
<1>4. OpenLink
  BY DEF SshInv
<1>5. Numbered(f, child.wrote) /\ AnsweredOnce(f, child.asked, callFate, forgotten)
  BY <1>2, <1>4 DEF OpenLink
<1>6. Drops(f, g, k)
  BY <1>2
<1>7. Numbered(g, child.wrote) /\ AnsweredOnce(g, child.asked, callFate, forgotten)
  BY <1>3, <1>5, <1>6, Dropped
<1>8. OpenLink'
  BY <1>2, <1>4, <1>7 DEF OpenLink
<1>9. QED
  BY <1>1, <1>8 DEF SshInv, PausedIsPumped, NothingOutlivesClose, OnlyLateAnswersWarn

(* The first line that is not noise: the CHOOSE of BeforeHello has one.    *)
LEMMA FirstLine ==
  ASSUME NEW chunk \in Seq(HelperLines), NEW Noise
  PROVE  \E i \in 1..(Len(chunk) + 1) : /\ i > Len(chunk) \/ chunk[i].type \notin Noise
                                        /\ \A j \in 1..(i - 1) : chunk[j].type \in Noise
<1> DEFINE T == {i \in 1..(Len(chunk) + 1) : i > Len(chunk) \/ chunk[i].type \notin Noise}
<1>1. Len(chunk) \in Nat
  OBVIOUS
<1>2. T \subseteq Nat /\ Len(chunk) + 1 \in T
  BY <1>1
<1>3. PICK i \in T : \A j \in T : ~(<<j, i>> \in OpToRel(<, Nat))
  <2> HIDE DEF T
  <2>1. T # {}
    BY <1>2
  <2>2. QED
    BY <1>2, <2>1, NatLessThanWellFounded, WFMin
<1>4. ASSUME NEW j \in 1..(i - 1) PROVE chunk[j].type \in Noise
  <2>1. i \in 1..(Len(chunk) + 1)
    BY <1>3
  <2>2. j \in 1..Len(chunk) /\ i \in Nat /\ j \in Nat /\ j < i
    BY <1>1, <2>1
  <2>3. <<j, i>> \in OpToRel(<, Nat)
    BY <2>2 DEF OpToRel
  <2>4. j \notin T
    BY <1>3, <2>3
  <2>5. QED
    BY <1>1, <2>2, <2>4
<1>5. QED
  BY <1>3, <1>4

(* What a read leaves of the child.                                        *)
LEMMA ReadFrom ==
  ASSUME SshTypes, NEW k \in 1..Len(child.wire), NEW read,
         read = [child EXCEPT !.wire = SubSeq(@, k + 1, Len(@))]
  PROVE  /\ read \in ChildRecs /\ read.wire = SubSeq(child.wire, k + 1, Len(child.wire))
         /\ read.is = child.is /\ read.asked = child.asked /\ read.wrote = child.wrote
         /\ k \in 0..Len(child.wire) /\ SubSeq(child.wire, 1, k) \in Seq(HelperLines)
         /\ Len(SubSeq(child.wire, 1, k)) = k
<1>1. child \in ChildRecs /\ child.wire \in Seq(HelperLines)
  BY FlightTypes DEF SshTypes
<1>2. k \in 0..Len(child.wire)
  BY <1>1
<1>3. PICK rest : rest = SubSeq(child.wire, k + 1, Len(child.wire))
  OBVIOUS
<1>4. rest \in Seq(HelperLines) /\ SubSeq(child.wire, 1, k) \in Seq(HelperLines)
      /\ Len(SubSeq(child.wire, 1, k)) = k
  BY <1>1, <1>2, <1>3, Sliced
<1>5. read = [child EXCEPT !.wire = rest]
  BY <1>3
<1>6. /\ read \in ChildRecs /\ read.wire = rest
      /\ read.is = child.is /\ read.asked = child.asked /\ read.wrote = child.wrote
  BY <1>1, <1>4, <1>5 DEF ChildRecs
<1>7. QED
  BY <1>2, <1>3, <1>4, <1>6

(* Lines that join the queue.                                              *)
LEMMA EnqueuedKeeps ==
  ASSUME SshInv, ~link.closed, ~link.failed, link.ready, child.is # "none",
         NEW k \in 1..Len(child.wire),
         stream' = Enqueued(SubSeq(child.wire, 1, k)),
         child' = [child EXCEPT !.wire = SubSeq(@, k + 1, Len(@))],
         UNCHANGED <<link, callFate, timers, forgotten, warned>>
  PROVE  SshInv'
<1>1. /\ link \in LinkRecs /\ stream \in StreamRecs /\ stream.queue \in Seq(HelperLines)
      /\ stream.kept \in Seq(HelperLines) /\ child.wire \in Seq(HelperLines)
  BY FlightTypes DEF SshInv, SshTypes
<1>2. /\ child' \in ChildRecs /\ child'.wire = SubSeq(child.wire, k + 1, Len(child.wire))
      /\ child'.is = child.is /\ child'.asked = child.asked /\ child'.wrote = child.wrote
      /\ k \in 0..Len(child.wire)
  BY ReadFrom DEF SshInv
<1>3. PICK q : q = stream.queue \o stream.kept \o SubSeq(child.wire, 1, k)
  OBVIOUS
<1>4. /\ q \in Seq(HelperLines)
      /\ q \o <<>> \o SubSeq(child.wire, k + 1, Len(child.wire)) = Flight(stream, child)
  <2>1. PICK a, b, c : a = stream.queue /\ b = stream.kept /\ c = child.wire
    OBVIOUS
  <2>2. a \in Seq(HelperLines) /\ b \in Seq(HelperLines) /\ c \in Seq(HelperLines)
        /\ k \in 0..Len(c)
    BY <1>1, <1>2, <2>1
  <2>3. /\ a \o b \o SubSeq(c, 1, k) \in Seq(HelperLines)
        /\ (a \o b \o SubSeq(c, 1, k)) \o <<>> \o SubSeq(c, k + 1, Len(c)) = a \o b \o c
    BY <2>2, ChunkQueued
  <2>4. QED
    BY <1>3, <2>1, <2>3 DEF Flight
<1>5. PICK full \in BOOLEAN :
        stream' = [stream EXCEPT !.kept = <<>>, !.queue = q, !.pump = TRUE, !.paused = @ \/ full]
  BY <1>3 DEF Enqueued
<1>6. /\ stream' \in StreamRecs /\ stream'.queue = q /\ stream'.kept = <<>> /\ stream'.pump
      /\ stream'.seen = stream.seen
  BY <1>1, <1>4, <1>5, EmptySeq DEF StreamRecs
<1>7. Flight(stream', child') = Flight(stream, child)
  BY <1>2, <1>4, <1>6 DEF Flight
<1>8. Drops(Flight(stream, child), Flight(stream', child'), 0)
  <2>1. PICK f : f = Flight(stream, child)
    OBVIOUS
  <2>2. f \in Seq(HelperLines)
    BY <2>1, FlightTypes DEF SshInv
  <2>3. Drops(f, f, 0)
    BY <2>2 DEF Drops
  <2>4. QED
    BY <1>7, <2>1, <2>3
<1>9. stream'.seen = child.wrote - Len(Flight(stream', child'))
  BY <1>6, <1>7 DEF SshInv, OpenLink
<1>10. link.ready /\ ~link.helloTimer
  BY DEF SshInv
<1>11. QED
  BY <1>1, <1>2, <1>6, <1>8, <1>9, <1>10, LinesRead

(* Before the hello, the flight is the pipe.                               *)
LEMMA BeforeTheHello ==
  ASSUME SshInv, ~link.closed, ~link.ready
  PROVE  /\ stream.queue = <<>> /\ stream.kept = <<>> /\ ~stream.pump /\ ~stream.paused
         /\ Flight(stream, child) = <<>> \o <<>> \o child.wire
         /\ Numbered(Flight(stream, child), child.wrote)
BY DEF SshInv, OpenLink, Flight

(* Noise is counted and forgotten.                                         *)
LEMMA NoiseKeeps ==
  ASSUME SshInv, ~link.closed, ~link.failed, ~link.ready, child.is # "none",
         NEW k \in 1..Len(child.wire), NEW noise \in Nat,
         stream' = [stream EXCEPT !.noise = noise],
         child' = [child EXCEPT !.wire = SubSeq(@, k + 1, Len(@))],
         UNCHANGED <<link, callFate, timers, forgotten, warned>>
  PROVE  SshInv'
<1>1. link \in LinkRecs /\ stream \in StreamRecs /\ child.wire \in Seq(HelperLines)
  BY FlightTypes DEF SshInv, SshTypes
<1>2. /\ child' \in ChildRecs /\ child'.wire = SubSeq(child.wire, k + 1, Len(child.wire))
      /\ child'.is = child.is /\ child'.asked = child.asked /\ child'.wrote = child.wrote
      /\ k \in 0..Len(child.wire)
  BY ReadFrom DEF SshInv
<1>3. /\ stream' \in StreamRecs /\ stream'.queue = stream.queue /\ stream'.kept = stream.kept
      /\ stream'.pump = stream.pump /\ stream'.paused = stream.paused
  BY <1>1 DEF StreamRecs
<1>4. SubSeq(child.wire, k + 1, k) = <<>>
  <2>1. k + 1 \in Int /\ k \in Int /\ k < k + 1
    OBVIOUS
  <2>2. QED
    BY <2>1, SubSeqEmpty
<1>5. Flight(stream', child') =
        <<>> \o SubSeq(child.wire, k + 1, k) \o SubSeq(child.wire, k + 1, Len(child.wire))
  BY <1>2, <1>3, <1>4, BeforeTheHello DEF Flight
<1>6. Drops(Flight(stream, child), Flight(stream', child'), k)
  <2>1. k \in 0..k
    OBVIOUS
  <2>2. QED
    BY <1>1, <1>2, <1>5, <2>1, BeforeTheHello, PipeRead
<1>7. stream'.queue = <<>> /\ stream'.kept = <<>> /\ ~stream'.pump /\ ~stream'.paused
  BY <1>3, BeforeTheHello
<1>8. QED
  BY <1>1, <1>2, <1>3, <1>6, <1>7, LinesRead

Greeted(st, n, b) == [st EXCEPT !.noise = 0, !.seen = n, !.kept = b]

LEMMA HelloRecorded ==
  ASSUME NEW st \in StreamRecs, NEW n \in Nat, NEW b \in Seq(HelperLines), NEW next,
         next = Greeted(st, n, b)
  PROVE  /\ next \in StreamRecs /\ next.queue = st.queue /\ next.kept = b
         /\ next.pump = st.pump /\ next.paused = st.paused /\ next.seen = n
BY DEF StreamRecs, Greeted

(* The hello, and the lines of its chunk that are kept back.               *)
LEMMA HelloKeeps ==
  ASSUME SshInv, ~link.closed, ~link.failed, ~link.ready, child.is # "none",
         NEW k \in 1..Len(child.wire), NEW first \in 1..k, UNCHANGED <<callFate, timers, forgotten, warned>>
  PROVE  /\ stream' = Greeted(stream, SubSeq(child.wire, 1, k)[first].n,
                              SubSeq(SubSeq(child.wire, 1, k), first + 1, k))
         /\ link' = [link EXCEPT !.ready = TRUE, !.helloTimer = FALSE,
                                 !.promise = IF @ = "pending" THEN "resolved" ELSE @]
         /\ child' = [child EXCEPT !.wire = SubSeq(@, k + 1, Len(@))]
         => SshInv'
<1>1. SUFFICES
        ASSUME /\ stream' = Greeted(stream, SubSeq(child.wire, 1, k)[first].n,
                                    SubSeq(SubSeq(child.wire, 1, k), first + 1, k))
               /\ link' = [link EXCEPT !.ready = TRUE, !.helloTimer = FALSE,
                                       !.promise = IF @ = "pending" THEN "resolved" ELSE @]
               /\ child' = [child EXCEPT !.wire = SubSeq(@, k + 1, Len(@))]
        PROVE  SshInv'
  OBVIOUS
<1>2. link \in LinkRecs /\ stream \in StreamRecs /\ child.wire \in Seq(HelperLines)
  BY FlightTypes DEF SshInv, SshTypes
<1>3. /\ child' \in ChildRecs /\ child'.wire = SubSeq(child.wire, k + 1, Len(child.wire))
      /\ child'.is = child.is /\ child'.asked = child.asked /\ child'.wrote = child.wrote
      /\ k \in 0..Len(child.wire)
  BY <1>1, ReadFrom DEF SshInv
<1>4. PICK c, b : c = child.wire /\ b = SubSeq(c, first + 1, k)
  OBVIOUS
<1>5. c \in Seq(HelperLines) /\ Len(c) \in Nat /\ k \in 1..Len(c) /\ k \in 0..Len(c)
      /\ first \in 1..Len(c) /\ first \in 0..k
  BY <1>2, <1>4
<1>6. b \in Seq(HelperLines) /\ Len(b) = k - first
      /\ \A i \in 1..(k - first) : b[i] = c[i + first]
  <2>1. \A i \in (first + 1)..k : c[i] \in HelperLines
    BY <1>5
  <2>2. first + 1 \in Int /\ k \in Int
    OBVIOUS
  <2>3. /\ b \in Seq(HelperLines)
        /\ Len(b) = IF first + 1 <= k THEN k - (first + 1) + 1 ELSE 0
        /\ \A i \in 1..(k - (first + 1) + 1) : b[i] = c[(first + 1) + i - 1]
    BY <1>4, <2>1, <2>2, SubSeqProperties
  <2>4. k - (first + 1) + 1 = k - first /\ (~(first + 1 <= k) => k - first = 0)
        /\ \A i \in 1..(k - first) : (first + 1) + i - 1 = i + first
    OBVIOUS
  <2>5. QED
    BY <2>3, <2>4
<1>7. SubSeq(SubSeq(c, 1, k), first + 1, k) = b /\ SubSeq(c, 1, k)[first] = c[first]
  <2>1. PICK p : p = SubSeq(c, 1, k)
    OBVIOUS
  <2>2. p \in Seq(HelperLines) /\ Len(p) = k /\ \A i \in 1..k : p[i] = c[i]
    BY <1>5, <2>1, Sliced
  <2>3. PICK d : d = SubSeq(p, first + 1, Len(p))
    OBVIOUS
  <2>4. first \in 0..Len(p)
    BY <1>5, <2>2
  <2>5. d \in Seq(HelperLines) /\ Len(d) = k - first
        /\ \A i \in 1..(k - first) : d[i] = p[i + first]
    BY <2>2, <2>3, <2>4, Sliced
  <2>6. \A i \in 1..(k - first) : i + first \in 1..k
    OBVIOUS
  <2>7. \A i \in 1..Len(d) : d[i] = b[i]
    BY <1>6, <2>2, <2>5, <2>6
  <2>8. d = b
    BY <1>6, <2>5, <2>7, SeqEqual
  <2>9. QED
    BY <2>1, <2>2, <2>3, <2>8
<1>8. c[first].n \in Nat
  BY <1>5 DEF HelperLines
<1>9. /\ stream' \in StreamRecs /\ stream'.queue = stream.queue /\ stream'.kept = b
      /\ stream'.pump = stream.pump /\ stream'.paused = stream.paused /\ stream'.seen = c[first].n
  <2>1. PICK n : n = c[first].n
    OBVIOUS
  <2>2. stream' = Greeted(stream, n, b)
    BY <1>1, <1>4, <1>7, <2>1
  <2>3. n \in Nat
    BY <1>8, <2>1
  <2>4. stream \in StreamRecs /\ b \in Seq(HelperLines)
    BY <1>2, <1>6
  <2>5. /\ stream' \in StreamRecs /\ stream'.queue = stream.queue /\ stream'.kept = b
        /\ stream'.pump = stream.pump /\ stream'.paused = stream.paused /\ stream'.seen = n
    BY <2>2, <2>3, <2>4, HelloRecorded, SMTT(30)
  <2>6. QED
    BY <2>1, <2>5
<1>10. link' \in LinkRecs /\ ~link'.closed /\ ~link'.failed /\ link'.ready /\ ~link'.helloTimer
  BY <1>1, <1>2 DEF LinkRecs
<1>11. Flight(stream', child') = <<>> \o b \o SubSeq(c, k + 1, Len(c))
  BY <1>3, <1>4, <1>9, BeforeTheHello DEF Flight
<1>12. /\ Flight(stream, child) = c
       /\ Drops(Flight(stream, child), Flight(stream', child'), first)
  BY <1>4, <1>5, <1>11, BeforeTheHello, PipeRead
<1>13. stream'.seen = child.wrote - Len(Flight(stream', child'))
  <2>1. PICK g : g = Flight(stream', child')
    OBVIOUS
  <2>2. Len(g) = Len(c) - first
    BY <1>12, <2>1 DEF Drops
  <2>3. c[first].n = child.wrote - Len(c) + first
    BY <1>5, <1>12, BeforeTheHello DEF Numbered
  <2>4. child.wrote \in Nat
    BY FlightTypes DEF SshInv
  <2>5. child.wrote - Len(c) + first = child.wrote - (Len(c) - first)
    BY <1>5, <2>4
  <2>6. QED
    BY <1>9, <2>1, <2>2, <2>3, <2>5
<1>14. stream'.paused => stream'.pump
  BY <1>9, BeforeTheHello
<1>15. QED
  BY <1>3, <1>9, <1>10, <1>12, <1>13, <1>14, LinesRead

(* A chunk on an open link: queued, or the end of it.                      *)
LEMMA DecodeKeeps ==
  ASSUME SshInv, ~link.closed, ~link.failed, link.ready, child.is # "none",
         NEW k \in 1..Len(child.wire), Decode(SubSeq(child.wire, 1, k)), NEW read,
         read = [child EXCEPT !.wire = SubSeq(@, k + 1, Len(@))],
         child' = IF link'.closed THEN ChildKilled(read) ELSE read,
         UNCHANGED <<forgotten, warned>>
  PROVE  SshInv'
<1>1. PICK chunk : chunk = SubSeq(child.wire, 1, k)
  OBVIOUS
<1>2. read \in ChildRecs /\ read.is = child.is
  BY ReadFrom DEF SshInv
<1>3. \/ CloseLink(TRUE) /\ stream' = Emptied
      \/ stream' = Enqueued(chunk) /\ UNCHANGED <<link, callFate, timers>>
  <2>1. Decode(chunk)
    BY <1>1
  <2>2. QED
    BY <2>1 DEF Decode
<1>4. CASE CloseLink(TRUE) /\ stream' = Emptied
  <2>1. link'.closed
    BY <1>4 DEF CloseLink, SshInv, SshTypes, LinkRecs
  <2>2. child' = ChildKilled(read)
    BY <2>1
  <2>3. QED
    BY <1>2, <1>4, <2>2, Closing
<1>5. CASE stream' = Enqueued(chunk) /\ UNCHANGED <<link, callFate, timers>>
  <2>1. child' = [child EXCEPT !.wire = SubSeq(@, k + 1, Len(@))]
    BY <1>5
  <2>2. QED
    BY <1>1, <1>5, <2>1, EnqueuedKeeps
<1>6. QED
  BY <1>3, <1>4, <1>5

(* A chunk before the hello: too much noise or a wrong greeting end it.    *)
LEMMA BeforeHelloKeeps ==
  ASSUME SshInv, ~link.closed, ~link.failed, ~link.ready, child.is # "none",
         NEW k \in 1..Len(child.wire), BeforeHello(SubSeq(child.wire, 1, k)), NEW read,
         read = [child EXCEPT !.wire = SubSeq(@, k + 1, Len(@))],
         child' = IF link'.closed THEN ChildKilled(read) ELSE read,
         UNCHANGED <<forgotten, warned>>
  PROVE  SshInv'
<1>1. PICK chunk : chunk = SubSeq(child.wire, 1, k)
  OBVIOUS
<1>2. /\ read \in ChildRecs /\ read.is = child.is /\ chunk \in Seq(HelperLines) /\ Len(chunk) = k
      /\ stream.noise \in Nat
  BY <1>1, ReadFrom DEF SshInv, SshTypes, StreamRecs
<1> DEFINE Noise == {"banner", "broken"}
           IsFirst(i) == /\ i > Len(chunk) \/ chunk[i].type \notin Noise
                         /\ \A j \in 1..(i - 1) : chunk[j].type \in Noise
           first == CHOOSE i \in 1..(Len(chunk) + 1) : IsFirst(i)
           noise == stream.noise + first - 1
<1>3. first \in 1..(Len(chunk) + 1)
  <2>1. \E i \in 1..(Len(chunk) + 1) : IsFirst(i)
    BY <1>2, FirstLine
  <2> HIDE DEF IsFirst
  <2>2. QED
    BY <2>1
<1>4. \/ CloseLink(TRUE) /\ stream' = Emptied
      \/ /\ first > Len(chunk) /\ stream' = [stream EXCEPT !.noise = noise]
         /\ UNCHANGED <<link, callFate, timers>>
      \/ /\ ~(first > Len(chunk))
         /\ stream' = [stream EXCEPT !.noise = 0, !.seen = chunk[first].n,
                                     !.kept = SubSeq(chunk, first + 1, Len(chunk))]
         /\ link' = [link EXCEPT !.ready = TRUE, !.helloTimer = FALSE,
                                 !.promise = IF @ = "pending" THEN "resolved" ELSE @]
         /\ UNCHANGED <<callFate, timers>>
  <2>1. BeforeHello(chunk)
    BY <1>1
  <2>2. QED
    BY <2>1 DEF BeforeHello
<1> HIDE DEF first
<1>5. link.closed = FALSE /\ link \in LinkRecs
  BY DEF SshInv, SshTypes, LinkRecs
<1>6. CASE CloseLink(TRUE) /\ stream' = Emptied
  <2>1. link'.closed
    BY <1>6 DEF CloseLink, SshInv, SshTypes, LinkRecs
  <2>2. child' = ChildKilled(read)
    BY <2>1
  <2>3. QED
    BY <1>2, <1>6, <2>2, Closing
<1>7. CASE /\ first > Len(chunk) /\ stream' = [stream EXCEPT !.noise = noise]
           /\ UNCHANGED <<link, callFate, timers>>
  <2>1. noise \in Nat
    BY <1>2, <1>3
  <2>2. child' = [child EXCEPT !.wire = SubSeq(@, k + 1, Len(@))]
    BY <1>7
  <2> HIDE DEF noise
  <2>3. QED
    BY <1>7, <2>1, <2>2, NoiseKeeps
<1>8. CASE /\ ~(first > Len(chunk))
           /\ stream' = [stream EXCEPT !.noise = 0, !.seen = chunk[first].n,
                                       !.kept = SubSeq(chunk, first + 1, Len(chunk))]
           /\ link' = [link EXCEPT !.ready = TRUE, !.helloTimer = FALSE,
                                   !.promise = IF @ = "pending" THEN "resolved" ELSE @]
           /\ UNCHANGED <<callFate, timers>>
  <2>1. first \in 1..k
    BY <1>2, <1>3, <1>8
  <2>2. link'.closed = link.closed
    BY <1>5, <1>8 DEF LinkRecs
  <2>3. child' = [child EXCEPT !.wire = SubSeq(@, k + 1, Len(@))]
    BY <1>5, <2>2
  <2>4. stream' = Greeted(stream, SubSeq(child.wire, 1, k)[first].n,
                          SubSeq(SubSeq(child.wire, 1, k), first + 1, k))
    BY <1>1, <1>2, <1>8 DEF Greeted
  <2>5. QED
    BY <1>8, <2>1, <2>3, <2>4, HelloKeeps
<1>9. QED
  BY <1>4, <1>6, <1>7, <1>8

(* Output read from the child, at any time.                                *)
LEMMA DataArrivesKeeps == SshInv /\ DataArrives => SshInv'
<1>1. SUFFICES ASSUME SshInv, DataArrives PROVE SshInv'
  OBVIOUS
<1>2. PICK k \in 1..Len(child.wire) :
        LET chunk == SubSeq(child.wire, 1, k)
            read == [child EXCEPT !.wire = SubSeq(@, k + 1, Len(@))] IN
        /\ IF link.closed \/ link.failed THEN UNCHANGED <<link, stream, callFate, timers>>
           ELSE IF link.ready THEN Decode(chunk) ELSE BeforeHello(chunk)
        /\ child' = IF link'.closed THEN ChildKilled(read) ELSE read
  BY <1>1 DEF DataArrives
<1>3. PICK read : read = [child EXCEPT !.wire = SubSeq(@, k + 1, Len(@))]
  OBVIOUS
<1>4. /\ child' = IF link'.closed THEN ChildKilled(read) ELSE read
      /\ child.is # "none" /\ UNCHANGED <<forgotten, warned>>
  BY <1>1, <1>2, <1>3 DEF DataArrives
<1>5. CASE link.closed \/ link.failed
  <2>1. link.closed /\ UNCHANGED <<link, stream, callFate, timers>>
    BY <1>1, <1>2, <1>5 DEF SshInv
  <2>2. read \in ChildRecs /\ read.is = child.is
    BY <1>1, <1>3, ReadFrom DEF SshInv
  <2>3. child' = ChildKilled(read)
    BY <1>4, <2>1
  <2>4. child' \in ChildRecs /\ child'.is # "none"
    BY <1>4, <2>2, <2>3 DEF ChildKilled, ChildRecs
  <2>5. SshTypes' /\ Waiting' = Waiting
    BY <1>1, <1>4, <2>1, <2>4 DEF SshInv, SshTypes, Waiting
  <2>6. QED
    BY <1>1, <1>4, <2>1, <2>4, <2>5
    DEF SshInv, PausedIsPumped, NothingOutlivesClose, OnlyLateAnswersWarn
<1>6. CASE ~(link.closed \/ link.failed) /\ link.ready
  <2>1. Decode(SubSeq(child.wire, 1, k))
    BY <1>2, <1>6
  <2>2. QED
    BY <1>1, <1>3, <1>4, <1>6, <2>1, DecodeKeeps
<1>7. CASE ~(link.closed \/ link.failed) /\ ~link.ready
  <2>1. BeforeHello(SubSeq(child.wire, 1, k))
    BY <1>2, <1>7
  <2>2. QED
    BY <1>1, <1>3, <1>4, <1>7, <2>1, BeforeHelloKeeps
<1>8. QED
  BY <1>5, <1>6, <1>7

LEMMA SshSteps == SshInv /\ [SshNext]_sshVars => SshInv'
<1>1. SUFFICES ASSUME SshInv, [SshNext]_sshVars PROVE SshInv'
  OBVIOUS
<1>2. CASE UNCHANGED sshVars
  <2>1. UNCHANGED <<link, child, stream, callFate, timers, forgotten, warned>>
    BY <1>2 DEF sshVars
  <2>2. SshTypes' /\ Waiting' = Waiting /\ Flight(stream', child') = Flight(stream, child)
    BY <1>1, <2>1 DEF SshInv, SshTypes, Waiting
  <2>3. OpenLink <=> OpenLink'
    BY <2>1, <2>2 DEF OpenLink
  <2>4. QED
    BY <1>1, <2>1, <2>2, <2>3
    DEF SshInv, PausedIsPumped, NothingOutlivesClose, OnlyLateAnswersWarn
<1>3. CASE SshNext
  BY <1>1, <1>3, ConnectKeeps, EndsClose, DataArrivesKeeps, PumpKeeps, ChildClosesKeeps,
     RequestKeeps, RequestTimeoutKeeps, HelperWritesKeeps, ChildExitsKeeps
  DEF SshNext
<1>4. QED
  BY <1>1, <1>2, <1>3

LEMMA InvIsSound == SshInv => TransportIsSound
<1>1. SUFFICES ASSUME SshInv PROVE DeliveredInOrder
  BY DEF SshInv, TransportIsSound
<1>2. SUFFICES ASSUME link.ready, ~link.closed,
                      NEW i \in DOMAIN Flight(stream, child)
               PROVE  Flight(stream, child)[i].n = stream.seen + i
  BY DEF DeliveredInOrder, Flight
<1>3. PICK f : f = Flight(stream, child)
  OBVIOUS
<1>4. f \in Seq(HelperLines) /\ child.wrote \in Nat
  BY <1>1, <1>3, FlightTypes DEF SshInv
<1>5. i \in 1..Len(f) /\ Len(f) \in Nat
  BY <1>3, <1>4
<1>6. stream.seen = child.wrote - Len(f) /\ f[i].n = child.wrote - Len(f) + i
  BY <1>1, <1>2, <1>3, <1>5 DEF SshInv, OpenLink, Numbered
<1>7. QED
  BY <1>3, <1>6

(* Whatever order its hello, its timers, its pump, its user and the end of *)
(* its child come in, a transport hands its listeners every line once and  *)
(* in order, resumes what it paused, leaves no request unsettled when it   *)
(* ends and takes only late answers for unknown ones (ssh.js).             *)
THEOREM TransportStaysSound == SshSpec => []TransportIsSound
<1>1. SshSpec => []SshInv
  BY SshStarts, SshSteps, PTL DEF SshSpec
<1>2. QED
  BY <1>1, InvIsSound, PTL

(***************************************************************************)
(* The three beside the other services, as the run of MCServices takes     *)
(* them.                                                                   *)
(***************************************************************************)
LEMMA ConnectionsStep ==
  ASSUME [UnionNext]_unionVars
  PROVE  [FeedNext]_feedVars /\ [SshNext]_sshVars /\ [WatchdogNext]_watchdogVars
BY DEF UnionNext, unionVars

(* In every behaviour of the services the budget of a session bounds its   *)
(* rescues and no host is tried twice (watchdog/dispatch.js).              *)
THEOREM ServicesBoundRescues == UnionSpec => []RescuesAreBounded
<1>1. UnionInit => WatchdogInit
  BY DEF UnionInit
<1>2. [UnionNext]_unionVars => [WatchdogNext]_watchdogVars
  BY ConnectionsStep
<1>3. UnionSpec => WatchdogSpec
  BY <1>1, <1>2, PTL DEF UnionSpec, WatchdogSpec
<1>4. QED
  BY <1>3, WatchdogBoundsRescues, PTL

(* In every behaviour of the services the page shows what the files held   *)
(* when the feed read them (workspace/bridge.js).                          *)
THEOREM ServicesFeedTheTruth == UnionSpec => []FeedIsTrue
<1>1. UnionInit => FeedInit
  BY DEF UnionInit
<1>2. [UnionNext]_unionVars => [FeedNext]_feedVars
  BY ConnectionsStep
<1>3. UnionSpec => FeedSpec
  BY <1>1, <1>2, PTL DEF UnionSpec, FeedSpec
<1>4. QED
  BY <1>3, FeedTellsTheTruth, PTL

(* In every behaviour of the services a transport delivers in order,       *)
(* resumes, and settles its requests (workspace/ssh.js).                   *)
THEOREM ServicesTransportSoundly == UnionSpec => []TransportIsSound
<1>1. UnionInit => SshInit
  BY DEF UnionInit
<1>2. [UnionNext]_unionVars => [SshNext]_sshVars
  BY ConnectionsStep
<1>3. UnionSpec => SshSpec
  BY <1>1, <1>2, PTL DEF UnionSpec, SshSpec
<1>4. QED
  BY <1>3, TransportStaysSound, PTL
=============================================================================
