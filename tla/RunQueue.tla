------------------------------- MODULE RunQueue -------------------------------
(***************************************************************************)
(* src/run-cli.js, queue and next: a coordinator queues tasks with their   *)
(* dependencies and the paths they write, and asks again and again which   *)
(* of them are ready.  `next` reads the run once, outside any lock, and    *)
(* then takes the tasks one by one, each in a transaction of its own;      *)
(* several may be in progress.  Tasks of an adapter are only named: their  *)
(* own start command takes them later.                                     *)
(***************************************************************************)
EXTENDS Naturals, FiniteSets

CONSTANTS
  QueuedTasks,      \* task identities
  TaskOrder,        \* task -> its place among the run's tasks
  SpecsOf,    \* task -> specifications it may be queued with: [deps, scope, writes, adapter]
  Callers,    \* coordinators that may call next at the same time
  Target,     \* scheduler.targetConcurrency
  RunLimit    \* the run's maxConcurrency, which acquireTask enforces

ASSUME RunQueueAssumption == TaskOrder \in [QueuedTasks -> Nat] /\ RunLimit \in Nat

VARIABLES
  queued,  \* task -> its specification (dispatchSpec)
  taskStatus,  \* task -> task.status
  leased,  \* tasks whose lease is active
  nextCalls,   \* caller -> the next in progress: what it read, what is left, what it chose
  named,   \* adapter tasks some caller was told to start
  torn     \* history: a queue call stopped halfway

queueVars == <<queued, taskStatus, leased, nextCalls, named, torn>>

NoSpec == [deps |-> {}, scope |-> {}, writes |-> FALSE, adapter |-> "host"]
NoCall == [todo |-> {}, seen |-> [t \in QueuedTasks |-> "absent"], chosen |-> {}, active |-> FALSE]

QueueInit ==
  /\ queued = [t \in QueuedTasks |-> NoSpec]
  /\ taskStatus = [t \in QueuedTasks |-> "absent"]
  /\ leased = {} /\ named = {} /\ torn = FALSE
  /\ nextCalls = [c \in Callers |-> NoCall]

(* Mutant: only a task that depends on itself is refused.                  *)
NoSelfDependency(S, spec) == \A t \in S : t \notin spec[t].deps

(* visit: among the tasks of this call none wait for one another.          *)
NoCycle(S, spec) ==
  \A waiting \in (SUBSET S) \ {{}} : \E t \in waiting : spec[t].deps \cap waiting = {}

Present == {t \in QueuedTasks : taskStatus[t] # "absent"}

(* queue: all checks on the specification come first; then tasks are added *)
(* one transaction after the other, in any order their author chose.  One  *)
(* that exists with another specification, or a crash, stops the rest.     *)
QueueTasks(S, spec) ==
  /\ \A t \in S : spec[t].deps \subseteq S \cup Present
  /\ \A t \in S : spec[t].writes => spec[t].scope # {}
  /\ NoCycle(S, spec)
  /\ \E added \in (SUBSET (S \ Present)) \ {{}} :
       /\ queued' = [t \in QueuedTasks |-> IF t \in added THEN spec[t] ELSE queued[t]]
       /\ taskStatus' = [t \in QueuedTasks |-> IF t \in added THEN "queued" ELSE taskStatus[t]]
       /\ torn' = (torn \/ added # S \ Present)
  /\ UNCHANGED <<leased, nextCalls, named>>

ActiveStatus == {"reserved", "running"}

(* A call that finds nothing queued has no effect and is left out.         *)
NextReads(c) ==
  /\ ~nextCalls[c].active /\ \E t \in QueuedTasks : taskStatus[t] = "queued"
  /\ nextCalls' = [nextCalls EXCEPT ![c] =
       [todo |-> {t \in QueuedTasks : taskStatus[t] = "queued"},
        seen |-> taskStatus, chosen |-> {}, active |-> TRUE]]
  /\ UNCHANGED <<queued, taskStatus, leased, named, torn>>

ActiveSeen(c) == {t \in QueuedTasks : nextCalls[c].seen[t] \in ActiveStatus}
SlotsLeft(c) == Cardinality(ActiveSeen(c)) + Cardinality(nextCalls[c].chosen) < Target

(* Mutant: a dependency that has started counts as done.                   *)
HasStarted(c, t) == nextCalls[c].seen[t] \in {"running", "produced"}
DependencyDone(c, t) ==  \* or accepted, which comes after produced
  nextCalls[c].seen[t] = "produced"

Overlap(t, u) == queued[t].scope \cap queued[u].scope # {}
Collides(c, t) ==
  queued[t].writes /\ \E u \in ActiveSeen(c) \cup nextCalls[c].chosen : queued[u].writes /\ Overlap(t, u)

Ready(c, t) == (\A d \in queued[t].deps : DependencyDone(c, d)) /\ ~Collides(c, t)

(* Mutant: the room is the one the caller counted when it read the run.    *)
RoomWhenRead(c) == Cardinality(ActiveSeen(c) \cup nextCalls[c].chosen) < RunLimit
Room(c) == Cardinality(leased) < RunLimit

(* Mutant: a launch that was issued before is taken for a fresh one.       *)
AnyLaunch(t) == taskStatus[t] \in {"queued", "reserved"}
Fresh(t) == taskStatus[t] = "queued"

ReserveQueued(t) == taskStatus' = [taskStatus EXCEPT ![t] = "reserved"] /\ leased' = leased \cup {t}

(* One turn of next's loop; acquireTask denies what is no longer possible. *)
NextTakes(c, t) ==
  /\ nextCalls[c].active /\ SlotsLeft(c)
  /\ t \in nextCalls[c].todo /\ \A u \in nextCalls[c].todo : TaskOrder[t] <= TaskOrder[u]
  /\ LET rest == [nextCalls[c] EXCEPT !.todo = @ \ {t}]
         chosen == [rest EXCEPT !.chosen = @ \cup {t}]
     IN  IF ~Ready(c, t) THEN /\ nextCalls' = [nextCalls EXCEPT ![c] = rest]
                              /\ UNCHANGED <<taskStatus, leased, named>>
         ELSE IF queued[t].adapter = "job" THEN /\ nextCalls' = [nextCalls EXCEPT ![c] = chosen]
                                               /\ named' = named \cup {t}
                                               /\ UNCHANGED <<taskStatus, leased>>
         ELSE IF Fresh(t) /\ Room(c) THEN /\ nextCalls' = [nextCalls EXCEPT ![c] = chosen]
                                         /\ ReserveQueued(t) /\ UNCHANGED named
         ELSE /\ nextCalls' = [nextCalls EXCEPT ![c] = rest]
              /\ UNCHANGED <<taskStatus, leased, named>>
  /\ UNCHANGED <<queued, torn>>

NextReturns(c) ==
  /\ nextCalls[c].active /\ (nextCalls[c].todo = {} \/ ~SlotsLeft(c))
  /\ nextCalls' = [nextCalls EXCEPT ![c] = NoCall]
  /\ UNCHANGED <<queued, taskStatus, leased, named, torn>>

(* `adapter start`: the ledger admits it, whatever else is running.        *)
AdapterStarts(t) ==
  /\ t \in named /\ taskStatus[t] = "queued" /\ Cardinality(leased) < RunLimit
  /\ ReserveQueued(t)
  /\ UNCHANGED <<queued, nextCalls, named, torn>>

Launched(t) == /\ taskStatus[t] = "reserved" /\ taskStatus' = [taskStatus EXCEPT ![t] = "running"]
               /\ UNCHANGED <<queued, leased, nextCalls, named, torn>>
Reported(t) == /\ taskStatus[t] = "running"
               /\ \E s \in {"produced", "failed"} : taskStatus' = [taskStatus EXCEPT ![t] = s]
               /\ UNCHANGED <<queued, leased, nextCalls, named, torn>>
QueueReleased(t) == /\ t \in leased /\ taskStatus[t] \in {"produced", "failed"}
               /\ leased' = leased \ {t}
               /\ UNCHANGED <<queued, taskStatus, nextCalls, named, torn>>

CallStep(c) == NextReads(c) \/ (\E t \in QueuedTasks : NextTakes(c, t)) \/ NextReturns(c)
QueuedTaskStep(t) == AdapterStarts(t) \/ Launched(t) \/ Reported(t) \/ QueueReleased(t)
QueueNext ==
  \/ \E S \in {S \in SUBSET QueuedTasks : ~(S \subseteq Present)} :
       \E spec \in [S -> UNION {SpecsOf[t] : t \in S}] :
         (\A t \in S : spec[t] \in SpecsOf[t]) /\ QueueTasks(S, spec)
  \/ \E c \in Callers : CallStep(c)
  \/ \E t \in QueuedTasks : QueuedTaskStep(t)

QueueSpec == QueueInit /\ [][QueueNext]_queueVars

(* The coordinator calls next on each completion and hosts end their work. *)
QueueFairness == /\ \A c \in Callers : WF_queueVars(CallStep(c))
                 /\ \A t \in QueuedTasks : WF_queueVars(QueuedTaskStep(t))

(***************************************************************************)
(* Properties.                                                             *)
(***************************************************************************)
(* Nothing is dispatched before its dependencies were delivered, although  *)
(* next decides on what it read before its own transactions.               *)
DependenciesDelivered ==
  \A t \in leased : \A d \in queued[t].deps : taskStatus[d] = "produced"

(* Two calls in progress and the adapters' own starts together stay within *)
(* the run's limit.                                                        *)
RunLimitHolds == Cardinality(leased) <= RunLimit

(* A native task is given to one caller only: its lease is unique.         *)
OneDispatchEach ==
  \A c, d \in Callers : c # d =>
    \A t \in nextCalls[c].chosen \cap nextCalls[d].chosen : queued[t].adapter = "job"

(* "Queue has a dependency cycle" (run-cli.js:62) refuses a circle of      *)
(* tasks that wait for one another.                                        *)
NoCircularWait ==
  \A S \in (SUBSET Present) \ {{}} : \E t \in S : queued[t].deps \cap S = {}

(* Although each call is only compared with itself, there is no circle     *)
(* across several calls either, unless one of them stopped halfway and     *)
(* left a task whose dependency a later call defines anew.                 *)
CirclesNeedATear == torn \/ NoCircularWait

(* A queued task is started, unless a task fails first or its dependency   *)
(* was never added.                                                        *)
QueueDrains ==
  \A t \in QueuedTasks :
    (taskStatus[t] = "queued")
      ~> (taskStatus[t] # "queued" \/ torn \/ \E u \in QueuedTasks : taskStatus[u] = "failed")

(* The rules of the queue when two coordinators call next at once          *)
(* (run-cli.js).                                                           *)
QueueRulesHold ==
  DependenciesDelivered /\ RunLimitHolds /\ OneDispatchEach /\ CirclesNeedATear
=============================================================================
