-------------------------- MODULE AcceptanceProofs --------------------------
(***************************************************************************)
(* What Acceptance promises, proved for every number of parts, tasks,      *)
(* actors, sessions and attempts.                                          *)
(***************************************************************************)
EXTENDS Acceptance, FiniteSetTheorems, TLAPS

TaskFields == {"status", "actor", "actors", "target", "attempt", "session", "start", "end"}

TasksTyped ==
  /\ task = [t \in Tasks |-> task[t]]
  /\ \A t \in Tasks :
       /\ DOMAIN task[t] = TaskFields
       /\ task[t].status \in TaskStatus
       /\ task[t].attempt \in Nat
       /\ \A a \in task[t].actors : a \in Actors
       /\ task[t].target \in Products \cup {NoProduct}
  /\ \A t \in Jobs : task[t].status \notin {"awaiting_acceptance", "accepted"}

(* Each attempt left a lease, so attempts are bounded by the leases, and   *)
(* whoever holds one is among the actors of its task.                      *)
LeasesTyped ==
  /\ IsFiniteSet(leases) /\ Cardinality(leases) <= MaxLeases
  /\ \A t \in Tasks : task[t].attempt <= Cardinality(leases)
  /\ \A l \in leases : /\ l.task \in Tasks /\ l.attempt \in Nat
                       /\ l.attempt <= task[l.task].attempt
                       /\ l.actor \in task[l.task].actors
                       /\ task[l.task].status # "absent"

ScanTyped ==
  /\ DOMAIN scan = {"op", "arg", "seen", "first"}
  /\ DOMAIN scan.seen \subseteq Parts
  /\ scan.seen = [p \in DOMAIN scan.seen |-> scan.seen[p]]
  /\ \A p \in DOMAIN scan.seen : scan.seen[p] \in Contents
  /\ scan.op = "verify" => scan.arg[1] \in Jobs
  /\ scan.op = "submit" => scan.arg \in Jobs

VerdictTyped ==
  /\ candidate.id \in Products \cup {NoProduct} /\ candidate.stamp = freezes
  /\ status \in {"open", "awaiting_acceptance", "blocked", "accepted"}
  /\ acceptance.id \in {NoProduct, candidate.id}
  /\ status = "accepted" => acceptance.id = candidate.id

EvidenceTyped ==
  /\ IsFiniteSet(evidence)
  /\ \A e \in evidence : e.id \in Products /\ e.job \in Jobs
  /\ \A e \in spoiled : e \in evidence

(* All evidence for what is accepted passed, and comes from others.        *)
Weighed ==
  status = "accepted" =>
    /\ \A e \in EvidenceFor : e.verdict = "passed"
    /\ Cardinality({e.actor : e \in EvidenceFor}) >= MinHackers
    /\ \A e \in EvidenceFor, l \in leases :
         /\ l.task \in Works => l.actor # e.actor
         /\ l.session = e.session => l.task = e.job

AcceptanceInv ==
  /\ product \in Products /\ freezes \in Nat
  /\ TasksTyped /\ LeasesTyped /\ ScanTyped /\ VerdictTyped /\ EvidenceTyped /\ Weighed

LEMMA AcceptanceInitially == Init => AcceptanceInv
<1>1. IsFiniteSet({}) /\ Cardinality({}) = 0
  BY FS_EmptySet
<1>2. SUFFICES ASSUME Init PROVE AcceptanceInv
  OBVIOUS
<1>3. product \in Products /\ freezes \in Nat
  BY <1>2, AcceptanceAssumption DEF Init, Products, AcceptanceAssumption
<1>4. TasksTyped
  <2>1. \A t \in Tasks : /\ DOMAIN task[t] = TaskFields
                          /\ task[t].status = "absent" /\ task[t].attempt = 0
                          /\ task[t].actors = {} /\ task[t].target = NoProduct
    BY <1>2 DEF Init, TaskFields
  <2>2. task = [t \in Tasks |-> task[t]]
    BY <1>2 DEF Init
  <2>3. QED
    BY <2>1, <2>2 DEF TasksTyped, TaskStatus, Tasks
<1>5. LeasesTyped
  BY <1>1, <1>2, AcceptanceAssumption DEF Init, LeasesTyped, AcceptanceAssumption
<1>6. ScanTyped
  BY <1>2 DEF Init, ScanTyped, Idle, NoProduct
<1>7. VerdictTyped /\ EvidenceTyped /\ Weighed
  BY <1>1, <1>2 DEF Init, VerdictTyped, EvidenceTyped, Weighed, NoCandidate, NoAcceptance
<1>8. QED
  BY <1>3, <1>4, <1>5, <1>6, <1>7 DEF AcceptanceInv

(* A part that is read is one of the product's.                            *)
LEMMA SeenIsProduct ==
  ASSUME ScanTyped, DOMAIN scan.seen = Parts
  PROVE  scan.seen \in Products
  BY DEF ScanTyped, Products

(* An action that leaves the tasks' authorship and the verdict alone.      *)
LEMMA LedgerStays ==
  ASSUME AcceptanceInv, product' \in Products, UNCHANGED ledger, ScanTyped'
  PROVE  AcceptanceInv'
  BY DEF AcceptanceInv, ledger, TasksTyped, LeasesTyped, VerdictTyped, EvidenceTyped,
      Weighed, EvidenceFor

LEMMA ScanEnds == ASSUME scan' = Idle PROVE ScanTyped'
  BY DEF ScanTyped, Idle, NoProduct

(* A run that is reopened has nothing accepted.                            *)
LEMMA NotAccepted ==
  ASSUME status' # "accepted" PROVE Weighed'
  BY DEF Weighed

LEMMA RefreshedStatus == \A tk : Refreshed(tk) \in {"open", "awaiting_acceptance"}
  BY DEF Refreshed

(* One task is updated.                                                    *)
LEMMA OneTask ==
  ASSUME TasksTyped, NEW t \in Tasks, NEW r, task' = [task EXCEPT ![t] = r]
  PROVE  /\ task' = [u \in Tasks |-> task'[u]] /\ task'[t] = r
         /\ \A u \in Tasks \ {t} : task'[u] = task[u]
  BY DEF TasksTyped

LEMMA AcceptanceKept == AcceptanceInv /\ [Next]_vars => AcceptanceInv'
<1>1. SUFFICES ASSUME AcceptanceInv, [Next]_vars PROVE AcceptanceInv'
  OBVIOUS
<1>2. ASSUME NEW p \in Parts, NEW c \in Contents, Edit(p, c) PROVE AcceptanceInv'
  <2>1. product' \in Products /\ UNCHANGED ledger /\ scan' = scan
    BY <1>1, <1>2 DEF Edit, Products, AcceptanceInv
  <2>2. QED
    BY <1>1, <2>1, LedgerStays DEF AcceptanceInv, ScanTyped
<1>3. ASSUME NEW e \in evidence, Spoil(e) PROVE AcceptanceInv'
  <2>1. spoiled' = spoiled \cup {e}
        /\ UNCHANGED <<product, task, leases, candidate, evidence, status, acceptance, freezes, scan>>
    BY <1>3 DEF Spoil
  <2>2. QED
    BY <1>1, <2>1 DEF AcceptanceInv, TasksTyped, LeasesTyped, ScanTyped, VerdictTyped,
        EvidenceTyped,
                      Weighed, EvidenceFor
<1>4. ASSUME NEW w \in Works, NEW actor \in Actors \cup {Nobody}, AddWork(w, actor) PROVE AcceptanceInv'
  <2>1. /\ task' = [t \in Tasks |-> task'[t]]
        /\ \A t \in Tasks \ {w} : task'[t] = task[t]
        /\ DOMAIN task'[w] = TaskFields /\ task'[w].status = "queued"
        /\ task'[w].attempt = task[w].attempt /\ task'[w].target = task[w].target
        /\ task'[w].actors = {actor} \ {Nobody}
    <3>1. /\ task = [t \in Tasks |-> task[t]] /\ w \in Tasks
          /\ DOMAIN task[w] = TaskFields
      BY <1>1 DEF AcceptanceInv, TasksTyped, Tasks
    <3> DEFINE r == [[[task[w] EXCEPT !.status = "queued"] EXCEPT !.actor = actor]
                       EXCEPT !.actors = {actor} \ {Nobody}]
    <3>2. task' = [task EXCEPT ![w] = r]
      BY <1>4 DEF AddWork
    <3>3. /\ DOMAIN r = TaskFields /\ r.status = "queued" /\ r.attempt = task[w].attempt
          /\ r.target = task[w].target /\ r.actors = {actor} \ {Nobody}
      BY <3>1 DEF TaskFields
    <3> HIDE DEF r
    <3>4. TasksTyped
      BY <1>1 DEF AcceptanceInv
    <3>5. /\ task' = [u \in Tasks |-> task'[u]] /\ task'[w] = r
          /\ \A u \in Tasks \ {w} : task'[u] = task[u]
      BY <3>1, <3>2, <3>4, OneTask
    <3>6. QED
      BY <3>3, <3>5
  <2>2. UNCHANGED <<product, leases, candidate, evidence, spoiled, acceptance, freezes, scan>>
        /\ status' = "open" /\ task[w].status = "absent"
    BY <1>4 DEF AddWork
  <2>3. TasksTyped'
    BY <1>1, <2>1, AcceptanceAssumption
    DEF AcceptanceInv, TasksTyped, TaskStatus, Tasks, AcceptanceAssumption
  <2>4. LeasesTyped'
    BY <1>1, <2>1, <2>2 DEF AcceptanceInv, LeasesTyped, Tasks
  <2>5. ScanTyped' /\ VerdictTyped' /\ EvidenceTyped' /\ Weighed'
    BY <1>1, <2>2, NotAccepted DEF AcceptanceInv, ScanTyped, VerdictTyped, EvidenceTyped
  <2>6. QED
    BY <1>1, <2>2, <2>3, <2>4, <2>5 DEF AcceptanceInv
<1>5. ASSUME NEW t \in Tasks, NEW actor \in Actors, NEW session \in Sessions, Attempt(t, actor, session)
      PROVE  AcceptanceInv'
  <2> DEFINE r == [[[[[task[t] EXCEPT !.status = "running"] EXCEPT !.actor = actor]
                      EXCEPT !.actors = task[t].actors \cup {actor}]
                     EXCEPT !.attempt = task[t].attempt + 1] EXCEPT !.session = session]
             l == [task |-> t, attempt |-> task[t].attempt + 1, actor |-> actor, session |-> session]
  <2>1. /\ task' = [task EXCEPT ![t] = [r EXCEPT !.start = freezes]]
        /\ leases' = leases \cup {l} /\ status' = "open"
        /\ UNCHANGED <<product, candidate, evidence, spoiled, acceptance, freezes, scan>>
        /\ Cardinality(leases) < MaxLeases
    BY <1>5 DEF Attempt
  <2>2. DOMAIN task[t] = TaskFields
    BY <1>1 DEF AcceptanceInv, TasksTyped
  <2>3. LET q == [r EXCEPT !.start = freezes] IN
        /\ DOMAIN q = TaskFields /\ q.status = "running" /\ q.attempt = task[t].attempt + 1
        /\ q.target = task[t].target /\ q.actors = task[t].actors \cup {actor}
    BY <2>2 DEF TaskFields
  <2>4. l.task = t /\ l.attempt = task[t].attempt + 1 /\ l.actor = actor
    OBVIOUS
  <2> HIDE DEF r, l
  <2>5. TasksTyped
    BY <1>1 DEF AcceptanceInv
  <2>6. /\ task' = [u \in Tasks |-> task'[u]]
        /\ \A u \in Tasks \ {t} : task'[u] = task[u]
        /\ DOMAIN task'[t] = TaskFields /\ task'[t].status = "running"
        /\ task'[t].attempt = task[t].attempt + 1
        /\ task'[t].target = task[t].target /\ task'[t].actors = task[t].actors \cup {actor}
    BY <2>1, <2>3, <2>5, OneTask
  <2>7. TasksTyped'
    <3>1. \A a \in task'[t].actors : a \in Actors
      BY <2>5, <2>6 DEF TasksTyped
    <3>2. task'[t].attempt \in Nat /\ task'[t].status \in TaskStatus
          /\ task'[t].target \in Products \cup {NoProduct}
          /\ task'[t].status \notin {"awaiting_acceptance", "accepted"}
      BY <2>5, <2>6 DEF TasksTyped, TaskStatus
    <3>3. Jobs \subseteq Tasks
      BY DEF Tasks
    <3>4. QED
      BY <2>5, <2>6, <3>1, <3>2, <3>3 DEF TasksTyped
  <2>8. l \notin leases
    BY <1>1, <2>4, <2>5 DEF AcceptanceInv, LeasesTyped, TasksTyped
  <2>9. IsFiniteSet(leases') /\ Cardinality(leases') = Cardinality(leases) + 1
        /\ Cardinality(leases) \in Nat
    BY <1>1, <2>1, <2>8, FS_AddElement, FS_CardinalityType DEF AcceptanceInv, LeasesTyped
  <2>10. \A u \in Tasks : task'[u].attempt <= Cardinality(leases')
    BY <1>1, <2>5, <2>6, <2>9 DEF AcceptanceInv, LeasesTyped, TasksTyped
  <2>11. \A k \in leases' : /\ k.task \in Tasks /\ k.attempt \in Nat
                            /\ k.attempt <= task'[k.task].attempt
                            /\ k.actor \in task'[k.task].actors
                            /\ task'[k.task].status # "absent"
    <3>1. ASSUME NEW k \in leases
          PROVE  /\ k.task \in Tasks /\ k.attempt \in Nat
                 /\ k.attempt <= task'[k.task].attempt
                 /\ k.actor \in task'[k.task].actors
                 /\ task'[k.task].status # "absent"
      BY <1>1, <2>5, <2>6 DEF AcceptanceInv, LeasesTyped, TasksTyped
    <3>2. /\ l.task \in Tasks /\ l.attempt \in Nat
          /\ l.attempt <= task'[l.task].attempt
          /\ l.actor \in task'[l.task].actors
          /\ task'[l.task].status # "absent"
      BY <2>4, <2>5, <2>6 DEF TasksTyped
    <3>3. QED
      BY <2>1, <3>1, <3>2
  <2>12. Cardinality(leases') <= MaxLeases
    BY <2>1, <2>9, AcceptanceAssumption DEF AcceptanceAssumption
  <2>13. LeasesTyped'
    BY <2>9, <2>10, <2>11, <2>12 DEF LeasesTyped
  <2>14. ScanTyped' /\ VerdictTyped' /\ EvidenceTyped' /\ Weighed'
    BY <1>1, <2>1, NotAccepted DEF AcceptanceInv, ScanTyped, VerdictTyped, EvidenceTyped
  <2>15. QED
    BY <1>1, <2>1, <2>7, <2>13, <2>14 DEF AcceptanceInv
<1>6. ASSUME NEW t \in Tasks, NEW outcome \in {"produced", "failed"}, EndAttempt(t, outcome)
      PROVE  AcceptanceInv'
  <2> DEFINE r == [[task[t] EXCEPT !.status = outcome] EXCEPT !.end = freezes]
  <2>1. /\ task' = [task EXCEPT ![t] = r] /\ status' = Refreshed(task')
        /\ UNCHANGED <<product, leases, candidate, evidence, spoiled, acceptance, freezes, scan>>
    BY <1>6 DEF EndAttempt
  <2>2. DOMAIN task[t] = TaskFields /\ TasksTyped
    BY <1>1 DEF AcceptanceInv, TasksTyped
  <2>3. /\ DOMAIN r = TaskFields /\ r.status = outcome /\ r.attempt = task[t].attempt
        /\ r.target = task[t].target /\ r.actors = task[t].actors
    BY <2>2 DEF TaskFields
  <2> HIDE DEF r
  <2>4. /\ task' = [u \in Tasks |-> task'[u]]
        /\ \A u \in Tasks \ {t} : task'[u] = task[u]
        /\ DOMAIN task'[t] = TaskFields /\ task'[t].status = outcome
        /\ task'[t].attempt = task[t].attempt
        /\ task'[t].target = task[t].target /\ task'[t].actors = task[t].actors
    BY <2>1, <2>2, <2>3, OneTask
  <2>5. TasksTyped'
    BY <2>2, <2>4 DEF TasksTyped, TaskStatus, Tasks
  <2>6. LeasesTyped'
    BY <1>1, <2>1, <2>4 DEF AcceptanceInv, LeasesTyped
  <2>7. status' \in {"open", "awaiting_acceptance"}
    BY <2>1, RefreshedStatus
  <2>8. ScanTyped' /\ VerdictTyped' /\ EvidenceTyped' /\ Weighed'
    BY <1>1, <2>1, <2>7, NotAccepted DEF AcceptanceInv, ScanTyped, VerdictTyped,
        EvidenceTyped
  <2>9. QED
    BY <1>1, <2>1, <2>5, <2>6, <2>8 DEF AcceptanceInv
<1>7. CASE Start
  <2>1. UNCHANGED <<product, ledger>> /\ DOMAIN scan' = {"op", "arg", "seen", "first"}
        /\ scan'.seen = NoProduct
    BY <1>7 DEF Start, StartScan, Idle
  <2>2. (scan'.op = "verify" => scan'.arg[1] \in Jobs) /\ (scan'.op = "submit" => scan'.arg \in Jobs)
    <3>1. \A op, arg : StartScan(op, arg) => scan'.op = op /\ scan'.arg = arg
      BY DEF StartScan, Idle
    <3>2. CASE \E work : StartScan("freeze", work) \/ StartScan("accept", work)
      BY <3>1, <3>2
    <3>3. CASE \E j \in Jobs, actor \in Actors : StartScan("verify", <<j, actor>>)
      <4>1. PICK j \in Jobs, actor \in Actors : StartScan("verify", <<j, actor>>)
        BY <3>3
      <4>2. scan'.op = "verify" /\ scan'.arg = <<j, actor>>
        BY <3>1, <4>1
      <4>3. QED
        BY <4>2
    <3>4. CASE \E j \in Jobs : StartScan("submit", j)
      BY <3>1, <3>4
    <3>5. QED
      BY <1>7, <3>2, <3>3, <3>4 DEF Start
  <2>3. ScanTyped'
    BY <2>1, <2>2 DEF ScanTyped, NoProduct
  <2>4. QED
    BY <1>1, <2>1, <2>3, LedgerStays DEF AcceptanceInv
<1>8. CASE Read
  <2>1. PICK p \in Parts \ DOMAIN scan.seen :
          scan' = [scan EXCEPT !.seen = [q \in DOMAIN scan.seen \cup {p} |->
                                           IF q = p THEN product[p] ELSE scan.seen[q]]]
    BY <1>8 DEF Read
  <2>2. UNCHANGED <<product, ledger>>
    BY <1>8 DEF Read
  <2>3. product[p] \in Contents
    BY <1>1 DEF AcceptanceInv, Products
  <2>4. ScanTyped'
    BY <1>1, <2>1, <2>3 DEF AcceptanceInv, ScanTyped
  <2>5. QED
    BY <1>1, <2>2, <2>4, LedgerStays DEF AcceptanceInv
<1>9. CASE Repeat
  <2>1. UNCHANGED <<product, ledger>>
        /\ scan' = [[scan EXCEPT !.first = scan.seen] EXCEPT !.seen = NoProduct]
    BY <1>9 DEF Repeat
  <2>2. ScanTyped'
    BY <1>1, <2>1 DEF AcceptanceInv, ScanTyped, NoProduct
  <2>3. QED
    BY <1>1, <2>1, <2>2, LedgerStays DEF AcceptanceInv
<1>10. CASE Refuse
  BY <1>1, <1>10, ScanEnds, LedgerStays DEF Refuse, Done, AcceptanceInv
<1>11. CASE Freeze /\ ~Refuse
  <2> DEFINE chosen == Selected(scan.arg)
  <2>1. /\ candidate' = [id |-> scan.seen, authors |-> Authors, work |-> scan.arg, stamp |-> freezes + 1]
        /\ freezes' = freezes + 1
        /\ task' = [t \in Tasks |-> IF t \in chosen
                       THEN [task[t] EXCEPT !.status = "awaiting_acceptance"] ELSE task[t]]
        /\ status' = "awaiting_acceptance" /\ acceptance' = NoAcceptance
        /\ scan' = Idle /\ product' = product /\ UNCHANGED <<leases, evidence, spoiled>>
        /\ DOMAIN scan.seen = Parts
    BY <1>11 DEF Freeze, Withdrawn, Done, Collected
  <2>2. \A t \in Tasks : t \in chosen => t \in Works /\ task[t].status # "absent"
    BY DEF Selected, Added
  <2> HIDE DEF chosen
  <2>3. TasksTyped
    BY <1>1 DEF AcceptanceInv
  <2>4. /\ task' = [t \in Tasks |-> task'[t]]
        /\ \A t \in Tasks : /\ DOMAIN task'[t] = TaskFields /\ task'[t].attempt = task[t].attempt
                            /\ task'[t].target = task[t].target /\ task'[t].actors = task[t].actors
                            /\ task'[t].status = IF t \in chosen THEN "awaiting_acceptance"
                                                 ELSE task[t].status
    BY <2>1, <2>3 DEF TasksTyped, TaskFields
  <2>5. TasksTyped'
    BY <2>2, <2>3, <2>4, AcceptanceAssumption DEF TasksTyped, TaskStatus, Tasks,
        AcceptanceAssumption
  <2>6. LeasesTyped'
    BY <1>1, <2>1, <2>4 DEF AcceptanceInv, LeasesTyped
  <2>7. scan.seen \in Products
    BY <1>1, <2>1, SeenIsProduct DEF AcceptanceInv
  <2>8. VerdictTyped' /\ freezes' \in Nat
    BY <1>1, <2>1, <2>7 DEF AcceptanceInv, VerdictTyped, NoAcceptance
  <2>9. ScanTyped' /\ EvidenceTyped' /\ Weighed' /\ product' \in Products
    BY <1>1, <2>1, ScanEnds, NotAccepted DEF AcceptanceInv, EvidenceTyped
  <2>10. QED
    BY <2>5, <2>6, <2>8, <2>9 DEF AcceptanceInv
<1>12. CASE AddJob /\ ~Refuse
  <2> DEFINE j == scan.arg[1]
             r == [[[task[j] EXCEPT !.status = "queued"] EXCEPT !.target = candidate.id]
                    EXCEPT !.actor = scan.arg[2]]
  <2>1. /\ task' = [task EXCEPT ![j] = r] /\ status' = "open"
        /\ scan.op = "verify" /\ scan' = Idle
        /\ UNCHANGED <<product, leases, candidate, evidence, spoiled, acceptance, freezes>>
    BY <1>12 DEF AddJob, Done, Collected
  <2>2. j \in Jobs /\ j \in Tasks /\ TasksTyped
    BY <1>1, <2>1 DEF AcceptanceInv, ScanTyped, Tasks
  <2>3. DOMAIN task[j] = TaskFields
    BY <2>2 DEF TasksTyped
  <2>4. /\ DOMAIN r = TaskFields /\ r.status = "queued" /\ r.attempt = task[j].attempt
        /\ r.target = candidate.id /\ r.actors = task[j].actors
    BY <2>3 DEF TaskFields
  <2> HIDE DEF r, j
  <2>5. /\ task' = [u \in Tasks |-> task'[u]]
        /\ \A u \in Tasks \ {j} : task'[u] = task[u]
        /\ DOMAIN task'[j] = TaskFields /\ task'[j].status = "queued"
        /\ task'[j].attempt = task[j].attempt
        /\ task'[j].target = candidate.id /\ task'[j].actors = task[j].actors
    BY <2>1, <2>2, <2>4, OneTask
  <2>6. TasksTyped'
    BY <1>1, <2>2, <2>5 DEF AcceptanceInv, VerdictTyped, TasksTyped, TaskStatus, Tasks
  <2>7. LeasesTyped'
    BY <1>1, <2>1, <2>5 DEF AcceptanceInv, LeasesTyped
  <2>8. ScanTyped' /\ VerdictTyped' /\ EvidenceTyped' /\ Weighed'
    BY <1>1, <2>1, ScanEnds, NotAccepted DEF AcceptanceInv, VerdictTyped, EvidenceTyped
  <2>9. QED
    BY <1>1, <2>1, <2>6, <2>7, <2>8 DEF AcceptanceInv
<1>13. CASE Accept /\ ~Refuse
  <2>1. Done /\ UNCHANGED <<leases, candidate, evidence, spoiled, freezes>>
    BY <1>13 DEF Accept, Refuse, ledger
  <2>2. ScanTyped' /\ EvidenceTyped' /\ product' \in Products
    BY <1>1, <2>1, ScanEnds DEF AcceptanceInv, EvidenceTyped, Done
  <2>3. TasksTyped
    BY <1>1 DEF AcceptanceInv
  <2>4. CASE ~Allowed
    <3>1. status' = "blocked" /\ UNCHANGED <<task, acceptance>>
      BY <1>13, <2>4 DEF Accept, Refuse, ledger
    <3>2. TasksTyped' /\ LeasesTyped' /\ VerdictTyped' /\ Weighed'
      BY <1>1, <2>1, <3>1, NotAccepted DEF AcceptanceInv, TasksTyped, LeasesTyped,
          VerdictTyped
    <3>3. QED
      BY <1>1, <2>1, <2>2, <3>2 DEF AcceptanceInv
  <2>5. CASE Allowed
    <3>1. /\ task' = [t \in Tasks |-> IF t \in Added(Works)
                        THEN [task[t] EXCEPT !.status = "accepted"] ELSE task[t]]
          /\ status' = "accepted" /\ acceptance'.id = candidate.id
      BY <1>13, <2>5 DEF Accept, Refuse, ledger
    <3>2. /\ task' = [t \in Tasks |-> task'[t]]
          /\ \A t \in Tasks : /\ DOMAIN task'[t] = TaskFields /\ task'[t].attempt = task[t].attempt
                              /\ task'[t].target = task[t].target /\ task'[t].actors = task[t].actors
                              /\ task'[t].status = IF t \in Added(Works) THEN "accepted"
                                                   ELSE task[t].status
      BY <2>3, <3>1 DEF TasksTyped, TaskFields
    <3>3. TasksTyped'
      BY <2>3, <3>2, AcceptanceAssumption
      DEF TasksTyped, TaskStatus, Tasks, Added, AcceptanceAssumption
    <3>4. LeasesTyped'
      BY <1>1, <2>1, <3>2 DEF AcceptanceInv, LeasesTyped
    <3>5. VerdictTyped'
      BY <1>1, <2>1, <3>1 DEF AcceptanceInv, VerdictTyped
    <3>6. /\ Authors = candidate.authors
          /\ \A e \in EvidenceFor : Valid(e) /\ e.verdict = "passed"
          /\ Cardinality({e.actor : e \in EvidenceFor}) >= MinHackers
      BY <2>5 DEF Allowed, Undrifted, Sufficient
    <3>7. ASSUME NEW e \in EvidenceFor, NEW l \in leases
          PROVE  /\ l.task \in Works => l.actor # e.actor
                 /\ l.session = e.session => l.task = e.job
      <4>1. l.task \in Works => l.actor \in Authors
        BY <1>1 DEF AcceptanceInv, LeasesTyped, Authors
      <4>2. QED
        BY <3>6, <4>1 DEF Valid
    <3>8. EvidenceFor' = EvidenceFor
      BY <2>1 DEF EvidenceFor
    <3>9. Weighed'
      BY <2>1, <3>6, <3>7, <3>8 DEF Weighed
    <3>10. QED
      BY <1>1, <2>1, <2>2, <3>3, <3>4, <3>5, <3>9 DEF AcceptanceInv
  <2>6. QED
    BY <2>4, <2>5
<1>14. ASSUME NEW kind \in Kinds, NEW verdict \in {"passed", "failed"}, NEW started \in 0..freezes,
              SubmitEvidence(kind, verdict, started), ~Refuse
       PROVE  AcceptanceInv'
  <2> DEFINE j == task[scan.arg]
             e == [id |-> candidate.id, authors |-> candidate.authors, job |-> scan.arg,
                   actor |-> j.actor, attempt |-> j.attempt, session |-> j.session,
                   kind |-> kind, verdict |-> verdict, started |-> started]
  <2>1. /\ Undrifted /\ Valid(e) /\ Collected("submit")
        /\ evidence' = evidence \cup {e} /\ scan' = Idle /\ product' = product
        /\ status' = IF verdict = "passed" THEN status ELSE "blocked"
        /\ UNCHANGED <<task, leases, candidate, spoiled, acceptance, freezes>>
    BY <1>14 DEF SubmitEvidence, Done
  <2>2. e.id = candidate.id /\ e.job = scan.arg /\ e.verdict = verdict
    OBVIOUS
  <2> HIDE DEF e, j
  <2>3. scan.arg \in Jobs /\ candidate.id \in Products
    BY <1>1, <2>1, SeenIsProduct DEF AcceptanceInv, ScanTyped, Collected, Undrifted
  <2>4. IsFiniteSet(evidence')
    BY <1>1, <2>1, FS_AddElement DEF AcceptanceInv, EvidenceTyped
  <2>5. EvidenceTyped'
    BY <1>1, <2>1, <2>2, <2>3, <2>4 DEF AcceptanceInv, EvidenceTyped
  <2>6. TasksTyped' /\ LeasesTyped' /\ VerdictTyped' /\ ScanTyped'
    BY <1>1, <2>1, ScanEnds DEF AcceptanceInv, TasksTyped, LeasesTyped, VerdictTyped
  <2>7. Weighed'
    <3>1. CASE status' # "accepted"
      BY <3>1, NotAccepted
    <3>2. CASE status' = "accepted"
      <4>1. verdict = "passed" /\ status = "accepted"
        BY <2>1, <3>2
      <4>2. EvidenceFor' = EvidenceFor \cup {e}
        BY <2>1, <2>2 DEF EvidenceFor
      <4>3. /\ \A f \in EvidenceFor : f.verdict = "passed"
            /\ Cardinality({f.actor : f \in EvidenceFor}) >= MinHackers
            /\ \A f \in EvidenceFor, l \in leases :
                 /\ l.task \in Works => l.actor # f.actor
                 /\ l.session = f.session => l.task = f.job
        BY <1>1, <4>1 DEF AcceptanceInv, Weighed
      <4>4. ASSUME NEW l \in leases
            PROVE  /\ l.task \in Works => l.actor # e.actor
                   /\ l.session = e.session => l.task = e.job
        <5>1. l.task \in Works => l.actor \in Authors
          BY <1>1 DEF AcceptanceInv, LeasesTyped, Authors
        <5>2. QED
          BY <2>1, <5>1 DEF Valid, Undrifted
      <4>5. {f.actor : f \in EvidenceFor'} = {f.actor : f \in EvidenceFor} \cup {e.actor}
        BY <4>2
      <4>6. IsFiniteSet({f.actor : f \in EvidenceFor})
        <5>1. IsFiniteSet(EvidenceFor)
          BY <1>1, FS_Subset DEF AcceptanceInv, EvidenceTyped, EvidenceFor
        <5> DEFINE S == EvidenceFor
                   T == {f.actor : f \in S}
                   actorOf == [f \in S |-> f.actor]
        <5>2. actorOf \in Surjection(S, T)
          BY DEF Surjection
        <5> HIDE DEF actorOf
        <5>3. QED
          BY <5>1, <5>2, FS_Surjection
      <4>7. Cardinality({f.actor : f \in EvidenceFor'}) >= MinHackers
        <5> DEFINE T == {f.actor : f \in EvidenceFor}
        <5>1. IsFiniteSet(T) /\ Cardinality(T) >= MinHackers
          BY <4>3, <4>6
        <5> HIDE DEF T
        <5>2. /\ Cardinality(T) \in Nat
              /\ Cardinality(T \cup {e.actor}) = IF e.actor \in T THEN Cardinality(T)
                                                 ELSE Cardinality(T) + 1
          BY <5>1, FS_AddElement, FS_CardinalityType
        <5>3. Cardinality(T \cup {e.actor}) >= MinHackers
          BY <5>1, <5>2, AcceptanceAssumption DEF AcceptanceAssumption
        <5>4. QED
          BY <4>5, <5>3 DEF T
      <4>8. QED
        BY <2>1, <2>2, <4>1, <4>2, <4>3, <4>4, <4>7 DEF Weighed
    <3>3. QED
      BY <3>1, <3>2
  <2>8. QED
    BY <1>1, <2>1, <2>5, <2>6, <2>7 DEF AcceptanceInv
<1>15. CASE UNCHANGED vars
  <2>1. UNCHANGED <<product, ledger, scan>>
    BY <1>15 DEF vars, ledger
  <2>2. QED
    BY <1>1, <2>1, LedgerStays DEF AcceptanceInv, ScanTyped
<1>16. QED
  BY <1>1, <1>2, <1>3, <1>4, <1>5, <1>6, <1>7, <1>8, <1>9, <1>10, <1>11, <1>12, <1>13,
      <1>14, <1>15
  DEF Next

(* Every variable keeps its type, and no acceptance outlives its freeze    *)
(* (verification.js, runtime.js).                                          *)
THEOREM AcceptanceTyped == Spec => []TypeOK
<1>1. AcceptanceInv => TypeOK
  <2>1. SUFFICES ASSUME AcceptanceInv PROVE TypeOK
    OBVIOUS
  <2>2. \A t \in Tasks : task[t].attempt \in 0..MaxLeases
    <3>1. Cardinality(leases) \in Nat
      BY <2>1, FS_CardinalityType DEF AcceptanceInv, LeasesTyped
    <3>2. QED
      BY <2>1, <3>1, AcceptanceAssumption
      DEF AcceptanceInv, TasksTyped, LeasesTyped, AcceptanceAssumption
  <2>3. \A t \in Tasks :
          /\ task[t].status \in TaskStatus /\ task[t].actors \subseteq Actors
          /\ task[t].target \in Products \cup {NoProduct}
          /\ t \in Jobs => task[t].status \notin {"awaiting_acceptance", "accepted"}
    BY <2>1 DEF AcceptanceInv, TasksTyped
  <2>4. QED
    BY <2>1, <2>2, <2>3 DEF AcceptanceInv, VerdictTyped, EvidenceTyped, TypeOK
<1>2. QED
  BY AcceptanceInitially, AcceptanceKept, <1>1, PTL DEF Spec

(* A content about which a failure was ever recorded is never accepted     *)
(* (acceptanceDecision, verification.js).                                  *)
THEOREM FailuresAreFinal == Spec => []FailureIsFinal
<1>1. AcceptanceInv => FailureIsFinal
  BY DEF AcceptanceInv, VerdictTyped, Weighed, EvidenceFor, FailureIsFinal
<1>2. QED
  BY AcceptanceInitially, AcceptanceKept, <1>1, PTL DEF Spec

(* Who verified an accepted run never took up one of its author tasks, and *)
(* did so in a session that served nothing else (validateEvidence,         *)
(* verification.js).                                                       *)
THEOREM VerifiersAreIndependent == Spec => []IndependentlyVerified
<1>1. AcceptanceInv => IndependentlyVerified
  BY DEF AcceptanceInv, VerdictTyped, Weighed, EvidenceFor, IndependentlyVerified
<1>2. QED
  BY AcceptanceInitially, AcceptanceKept, <1>1, PTL DEF Spec

(***************************************************************************)
(* The identity of a product that others edit meanwhile.  As long as       *)
(* nobody restores an earlier content, parts only grow: a product that was *)
(* there between two readings lies between them, and equal readings pin    *)
(* it down.  One reading is enough for an acceptance, because the frozen   *)
(* candidate is the other.                                                 *)
(***************************************************************************)
Upto(a, b) == \A p \in Parts : a[p] <= b[p]

(* Among the moments ms, with the product now there, is one that lies      *)
(* between the identity known before and what has been seen so far.        *)
Between(ms, now, seen, known) ==
  \E m \in ms : /\ m \in Products /\ Upto(m, now) /\ Upto(known, m)
                /\ \A p \in DOMAIN seen : m[p] <= seen[p]

Snapshot ==
  /\ candidate.id \in Products => Upto(candidate.id, product)
  /\ scan.op # "none" => product \in moments
  /\ \A p \in DOMAIN scan.seen : scan.op # "none" => scan.seen[p] <= product[p]
  /\ scan.op = "freeze" /\ scan.first # NoProduct =>
       scan.first \in Products /\ Between(moments, product, scan.seen, scan.first)
  /\ scan.op = "accept" /\ candidate.id \in Products =>
       Between(moments, product, scan.seen, candidate.id)

LEMMA PartsAreNumbers ==
  /\ \A a \in Products, p \in Parts : a[p] \in Nat
  /\ \A a \in Products : Upto(a, a)
  /\ \A a, b, c \in Products : Upto(a, b) /\ Upto(b, c) => Upto(a, c)
  /\ \A a, b \in Products : Upto(a, b) /\ Upto(b, a) => a = b
<1>1. \A a \in Products, p \in Parts : a[p] \in Nat
  BY AcceptanceAssumption DEF Products, AcceptanceAssumption
<1>2. \A a, b \in Products : Upto(a, b) /\ Upto(b, a) => a = b
  <2>1. SUFFICES ASSUME NEW a \in Products, NEW b \in Products, Upto(a, b), Upto(b, a) PROVE a = b
    OBVIOUS
  <2>2. \A p \in Parts : a[p] = b[p]
    BY <1>1, <2>1 DEF Upto
  <2>3. QED
    BY <2>1, <2>2 DEF Products
<1>3. QED
  BY <1>1, <1>2 DEF Upto

LEMMA BetweenPins ==
  ASSUME NEW ms, NEW now, NEW known \in Products, Between(ms, now, known, known)
  PROVE  known \in ms
<1>1. PICK m \in ms : m \in Products /\ Upto(known, m) /\ \A p \in DOMAIN known : m[p] <= known[p]
  BY DEF Between
<1>2. DOMAIN known = Parts
  BY DEF Products
<1>3. Upto(m, known)
  BY <1>1, <1>2 DEF Upto
<1>4. QED
  BY <1>1, <1>3, PartsAreNumbers

(* A reading, or an edit that does not go back, stays within the moment.   *)
LEMMA BetweenKept ==
  ASSUME NEW ms, NEW now \in Products, NEW seen, NEW known, Between(ms, now, seen, known),
         NEW later, ms \subseteq later, NEW then \in Products, Upto(now, then),
         NEW read, \A p \in DOMAIN read :
           p \in Parts /\ ((p \in DOMAIN seen /\ read[p] = seen[p]) \/ read[p] = now[p])
  PROVE  Between(later, then, read, known)
<1>1. PICK m \in ms : /\ m \in Products /\ Upto(m, now) /\ Upto(known, m)
                      /\ \A p \in DOMAIN seen : m[p] <= seen[p]
  BY DEF Between
<1>2. Upto(m, then)
  BY <1>1, PartsAreNumbers
<1>3. \A p \in DOMAIN read : m[p] <= read[p]
  BY <1>1 DEF Upto
<1>4. QED
  BY <1>1, <1>2, <1>3 DEF Between

(* The product that is there now is such a moment when nothing was read.   *)
LEMMA BetweenNow ==
  ASSUME NEW ms, NEW now \in Products, now \in ms, NEW known, Upto(known, now)
  PROVE  Between(ms, now, NoProduct, known)
  BY PartsAreNumbers DEF Between, NoProduct

LEMMA SnapshotInitially == Init => Snapshot
<1>1. SUFFICES ASSUME Init PROVE Snapshot
  OBVIOUS
<1>2. NoProduct \notin Products
  BY AcceptanceAssumption DEF NoProduct, Products, Parts, AcceptanceAssumption
<1>3. QED
  BY <1>1, <1>2 DEF Init, Snapshot, NoCandidate, Idle, NoProduct

(* A step that reads nothing and changes neither product nor candidate.    *)
LEMMA SnapshotStays ==
  ASSUME Snapshot, AcceptanceInv, UNCHANGED <<product, candidate, moments>>,
         scan' = scan \/ scan' = Idle
  PROVE  Snapshot'
<1>1. CASE scan' = scan
  BY <1>1 DEF Snapshot, Between, Upto
<1>2. CASE scan' = Idle
  BY <1>2 DEF Snapshot, Upto, Idle, NoProduct
<1>3. QED
  BY <1>1, <1>2

LEMMA SnapshotKept ==
  ASSUME Reverts = FALSE, AcceptanceInv, Snapshot, [Next]_vars PROVE Snapshot'
<1>1. product \in Products /\ scan.seen = [p \in DOMAIN scan.seen |-> scan.seen[p]]
      /\ DOMAIN scan = {"op", "arg", "seen", "first"}
      /\ \A p \in DOMAIN scan.seen : p \in Parts
  BY DEF AcceptanceInv, ScanTyped
<1>2. \A q \in DOMAIN NoProduct : FALSE
  BY DEF NoProduct
<1>3. ASSUME NEW p \in Parts, NEW c \in Contents, Edit(p, c) PROVE Snapshot'
  <2>1. /\ product' = [product EXCEPT ![p] = c] /\ c > product[p]
        /\ scan' = scan /\ candidate' = candidate
        /\ scan # Idle => moments' = moments \cup {product'}
    BY <1>3 DEF Edit, ledger
  <2>2. product' \in Products /\ Upto(product, product')
    <3>1. c \in Nat /\ product[p] \in Nat /\ \A q \in Parts : product[q] \in Nat
      BY <1>1, PartsAreNumbers, AcceptanceAssumption DEF AcceptanceAssumption
    <3>2. \A q \in Parts : product'[q] = IF q = p THEN c ELSE product[q]
      BY <1>1, <2>1 DEF Products
    <3>3. Upto(product, product')
      BY <2>1, <3>1, <3>2 DEF Upto
    <3>4. QED
      BY <1>1, <2>1, <3>3 DEF Products
  <2>3. CASE scan.op = "none"
    <3>1. candidate.id \in Products => Upto(candidate.id, product')
      BY <1>1, <2>2, PartsAreNumbers DEF Snapshot
    <3>2. QED
      BY <2>1, <2>3, <3>1 DEF Snapshot, Upto
  <2>4. CASE scan.op # "none"
    <3>1. moments' = moments \cup {product'}
      BY <2>1, <2>4 DEF Idle
    <3>2. candidate.id \in Products => Upto(candidate.id, product')
      BY <1>1, <2>2, PartsAreNumbers DEF Snapshot
    <3>3. \A q \in DOMAIN scan.seen : scan.seen[q] <= product'[q]
      <4>1. \A q \in DOMAIN scan.seen :
              /\ scan.seen[q] <= product[q] /\ product[q] <= product'[q]
              /\ scan.seen[q] \in Nat /\ product[q] \in Nat /\ product'[q] \in Nat
        BY <1>1, <2>2, <2>4, PartsAreNumbers, AcceptanceAssumption
        DEF Snapshot, Upto, AcceptanceInv, ScanTyped, AcceptanceAssumption
      <4>2. QED
        BY <4>1
    <3>4. \A known : Between(moments, product, scan.seen, known)
                       => Between(moments', product', scan.seen, known)
      BY <1>1, <2>2, <3>1, BetweenKept
    <3>5. /\ scan.op = "freeze" /\ scan.first # NoProduct =>
               scan.first \in Products /\ Between(moments', product', scan.seen, scan.first)
          /\ scan.op = "accept" /\ candidate.id \in Products =>
               Between(moments', product', scan.seen, candidate.id)
      BY <3>4 DEF Snapshot
    <3>6. QED
      BY <2>1, <3>1, <3>2, <3>3, <3>5 DEF Snapshot
  <2>5. QED
    BY <2>3, <2>4
<1>4. CASE Start
  <2>1. /\ UNCHANGED <<product, candidate>> /\ moments' = {product}
        /\ scan'.seen = NoProduct /\ scan'.first = NoProduct
    BY <1>4 DEF Start, StartScan, Idle, ledger
  <2>2. candidate.id \in Products => Between(moments', product, NoProduct, candidate.id)
    BY <1>1, <2>1, BetweenNow DEF Snapshot
  <2>3. QED
    BY <1>2, <2>1, <2>2 DEF Snapshot
<1>5. CASE Read
  <2>1. PICK p \in Parts \ DOMAIN scan.seen :
          scan' = [scan EXCEPT !.seen = [q \in DOMAIN scan.seen \cup {p} |->
                                           IF q = p THEN product[p] ELSE scan.seen[q]]]
    BY <1>5 DEF Read
  <2>2. UNCHANGED <<product, candidate, moments>>
    BY <1>5 DEF Read, ledger
  <2>3. /\ DOMAIN scan'.seen = DOMAIN scan.seen \cup {p} /\ scan'.seen[p] = product[p]
        /\ \A q \in DOMAIN scan.seen : scan'.seen[q] = scan.seen[q]
        /\ scan'.op = scan.op /\ scan'.first = scan.first
    BY <1>1, <2>1
  <2>4. \A known : Between(moments, product, scan.seen, known)
                     => Between(moments, product, scan'.seen, known)
    <3>1. Upto(product, product)
      BY <1>1, PartsAreNumbers
    <3>2. \A q \in DOMAIN scan'.seen : q \in Parts /\
            ((q \in DOMAIN scan.seen /\ scan'.seen[q] = scan.seen[q]) \/ scan'.seen[q] = product[q])
      BY <1>1, <2>3
    <3>3. QED
      BY <1>1, <3>1, <3>2, BetweenKept
  <2>5. \A q \in DOMAIN scan'.seen : scan.op # "none" => scan'.seen[q] <= product[q]
    BY <1>1, <2>3, PartsAreNumbers DEF Snapshot
  <2>6. /\ scan.op = "freeze" /\ scan.first # NoProduct =>
             scan.first \in Products /\ Between(moments, product, scan'.seen, scan.first)
        /\ scan.op = "accept" /\ candidate.id \in Products =>
             Between(moments, product, scan'.seen, candidate.id)
    BY <2>4 DEF Snapshot
  <2>7. QED
    BY <2>2, <2>3, <2>5, <2>6 DEF Snapshot
<1>6. CASE Repeat
  <2>1. /\ UNCHANGED <<product, candidate, moments>> /\ scan.op = "freeze" /\ DOMAIN scan.seen = Parts
        /\ scan' = [[scan EXCEPT !.first = scan.seen] EXCEPT !.seen = NoProduct]
    BY <1>6 DEF Repeat, Collected, ledger
  <2>2. scan'.first = scan.seen /\ scan'.seen = NoProduct /\ scan'.op = "freeze"
    BY <1>1, <2>1
  <2>3. scan.seen \in Products /\ Upto(scan.seen, product) /\ product \in moments
    BY <2>1, SeenIsProduct DEF AcceptanceInv, Snapshot, Upto
  <2>4. Between(moments, product, NoProduct, scan.seen)
    BY <1>1, <2>3, BetweenNow
  <2>5. QED
    BY <1>2, <2>1, <2>2, <2>3, <2>4 DEF Snapshot
<1>7. CASE Freeze /\ ~Refuse
  <2>1. /\ candidate'.id = scan.seen /\ scan' = Idle /\ product' = product
        /\ scan.op = "freeze" /\ DOMAIN scan.seen = Parts
    BY <1>7 DEF Freeze, Done, Collected
  <2>2. Upto(scan.seen, product)
    BY <2>1 DEF Snapshot, Upto
  <2>3. QED
    BY <1>2, <2>1, <2>2 DEF Snapshot, Upto, Idle
<1>8. CASE AddJob \/ Accept \/ Refuse
  <2>1. UNCHANGED <<product, candidate, moments>> /\ scan' = Idle
    BY <1>8 DEF AddJob, Accept, Refuse, Done, ledger
  <2>2. QED
    BY <2>1, SnapshotStays
<1>9. ASSUME NEW kind \in Kinds, NEW verdict \in {"passed", "failed"}, NEW started \in 0..freezes,
             SubmitEvidence(kind, verdict, started)
      PROVE  Snapshot'
  <2>1. UNCHANGED <<product, candidate, moments>> /\ scan' = Idle
    BY <1>9 DEF SubmitEvidence, Refuse, Done, ledger
  <2>2. QED
    BY <2>1, SnapshotStays
<1>10. ASSUME NEW e \in evidence, Spoil(e) PROVE Snapshot'
  BY <1>10, SnapshotStays DEF Spoil
<1>11. ASSUME NEW w \in Works, NEW actor \in Actors \cup {Nobody}, AddWork(w, actor) PROVE Snapshot'
  BY <1>11, SnapshotStays DEF AddWork
<1>12. ASSUME NEW t \in Tasks, NEW actor \in Actors, NEW session \in Sessions, Attempt(t, actor, session)
       PROVE  Snapshot'
  <2>1. UNCHANGED <<product, candidate, moments, scan>>
    BY <1>12 DEF Attempt
  <2>2. QED
    BY <2>1, SnapshotStays
<1>13. ASSUME NEW t \in Tasks, NEW outcome \in {"produced", "failed"}, EndAttempt(t, outcome)
       PROVE  Snapshot'
  <2>1. UNCHANGED <<product, candidate, moments, scan>>
    BY <1>13 DEF EndAttempt
  <2>2. QED
    BY <2>1, SnapshotStays
<1>14. CASE UNCHANGED vars
  BY <1>14, SnapshotStays DEF vars
<1>15. QED
  BY <1>3, <1>4, <1>5, <1>6, <1>7, <1>8, <1>9, <1>10, <1>11, <1>12, <1>13, <1>14 DEF Next

(* The candidate changes only when it is frozen, and the run becomes       *)
(* accepted only for the candidate that was just read again.               *)
LEMMA IdentitiesAreMoments ==
  ASSUME AcceptanceInv, Snapshot, [Next]_vars
  PROVE  [/\ candidate' # candidate => candidate'.id \in moments
          /\ status # "accepted" /\ status' = "accepted" => acceptance'.id \in moments]_vars
<1>1. CASE Freeze /\ ~Refuse
  <2>1. /\ candidate'.id = scan.seen /\ scan.first = scan.seen /\ scan.first # NoProduct
        /\ scan.op = "freeze" /\ DOMAIN scan.seen = Parts /\ status' = "awaiting_acceptance"
    BY <1>1 DEF Freeze, Collected
  <2>2. scan.seen \in moments
    BY <2>1, SeenIsProduct, BetweenPins DEF Snapshot, AcceptanceInv
  <2>3. QED
    BY <2>1, <2>2
<1>2. CASE Accept
  <2>1. candidate' = candidate
    BY <1>2 DEF Accept, ledger
  <2>2. ASSUME status # "accepted", status' = "accepted" PROVE acceptance'.id \in moments
    <3>1. /\ acceptance'.id = candidate.id /\ scan.seen = candidate.id
          /\ scan.op = "accept" /\ DOMAIN scan.seen = Parts
      BY <1>2, <2>2 DEF Accept, Allowed, Undrifted, Collected, ledger
    <3>2. candidate.id \in moments
      BY <3>1, SeenIsProduct, BetweenPins DEF Snapshot, AcceptanceInv
    <3>3. QED
      BY <3>1, <3>2
  <2>3. QED
    BY <2>1, <2>2
<1>3. ASSUME NEW kind \in Kinds, NEW verdict \in {"passed", "failed"}, NEW started \in 0..freezes,
             SubmitEvidence(kind, verdict, started)
      PROVE  candidate' = candidate /\ status' \in {status, "blocked"}
  BY <1>3 DEF SubmitEvidence, Refuse, ledger
<1>4. CASE AddJob \/ Refuse \/ Start \/ Read \/ Repeat
           \/ \E p \in Parts, c \in Contents : Edit(p, c)
  BY <1>4 DEF AddJob, Refuse, Start, StartScan, Read, Repeat, Edit, ledger
<1>5. ASSUME NEW e \in evidence, Spoil(e) PROVE UNCHANGED <<candidate, status>>
  BY <1>5 DEF Spoil
<1>6. ASSUME NEW w \in Works, NEW actor \in Actors \cup {Nobody}, AddWork(w, actor)
      PROVE  candidate' = candidate /\ status' = "open"
  BY <1>6 DEF AddWork
<1>7. ASSUME NEW t \in Tasks, NEW actor \in Actors, NEW session \in Sessions, Attempt(t, actor, session)
      PROVE  candidate' = candidate /\ status' = "open"
  BY <1>7 DEF Attempt
<1>8. ASSUME NEW t \in Tasks, NEW outcome \in {"produced", "failed"}, EndAttempt(t, outcome)
      PROVE  candidate' = candidate /\ status' # "accepted"
  BY <1>8, RefreshedStatus DEF EndAttempt
<1>9. CASE UNCHANGED vars
  BY <1>9 DEF vars
<1>10. QED
  BY <1>1, <1>2, <1>3, <1>4, <1>5, <1>6, <1>7, <1>8, <1>9 DEF Next

(* A frozen or accepted candidate is the product as it was at one moment   *)
(* of that call, for any number of parts and whoever edits them meanwhile, *)
(* provided nobody restores an earlier content (freezeCandidate,           *)
(* verification.js).                                                       *)
THEOREM CandidatesNameOneProduct ==
  ASSUME Reverts = FALSE
  PROVE  Spec => NamesOneProduct
<1>1. Init => AcceptanceInv /\ Snapshot
  BY AcceptanceInitially, SnapshotInitially
<1>2. AcceptanceInv /\ Snapshot /\ [Next]_vars => (AcceptanceInv /\ Snapshot)'
  BY AcceptanceKept, SnapshotKept
<1>3. AcceptanceInv /\ Snapshot /\ [Next]_vars =>
        [/\ candidate' # candidate => candidate'.id \in moments
         /\ status # "accepted" /\ status' = "accepted" => acceptance'.id \in moments]_vars
  BY IdentitiesAreMoments
<1>4. QED
  BY <1>1, <1>2, <1>3, PTL DEF Spec, NamesOneProduct

=============================================================================
