------------------------------ MODULE Acceptance ------------------------------
(***************************************************************************)
(* How a run gets accepted: src/verification.js with the transactions of   *)
(* src/runtime.js that call it.  A candidate names the content of the      *)
(* product when it was frozen and the actors who made it; verification     *)
(* jobs by other actors leave evidence about it; acceptance weighs all the *)
(* evidence there is for that content.                                     *)
(*                                                                         *)
(* The transactions exclude each other, but nothing locks the product: its *)
(* parts (the files in scope, then the commit) are read one after the      *)
(* other while anybody may edit them.                                      *)
(***************************************************************************)
EXTENDS Integers, FiniteSets

CONSTANTS
  NumParts,    \* parts 1..NumParts, in the order in which an identity reads them
  Contents,    \* contents of a part, 0 at first
  Reverts,     \* an edit may restore an earlier content
  Works,       \* author tasks
  Jobs,        \* verification tasks
  Actors, Sessions,
  Kinds,       \* kinds of evidence the policy requires
  MinHackers,  \* policy.minIndependentHackers
  MaxLeases, MaxFreezes,  \* bounds: attempts of all tasks, freezes
  Nobody

ASSUME AcceptanceAssumption ==
  /\ NumParts \in Nat \ {0}
  /\ 0 \in Contents /\ Contents \subseteq Nat
  /\ Reverts \in BOOLEAN
  /\ Works \cap Jobs = {}
  /\ MinHackers \in Nat /\ MaxLeases \in Nat /\ MaxFreezes \in Nat
  /\ Nobody \notin Actors \cup Sessions

Tasks == Works \cup Jobs
Parts == 1..NumParts
Products == [Parts -> Contents]

VARIABLES
  product,     \* what is on disk
  task,        \* the tasks of the run, as far as acceptance looks at them
  leases,      \* attempts that were bound to a session
  candidate,   \* the frozen candidate
  evidence,    \* run.evidence
  spoiled,     \* evidence whose raw outputs changed afterwards
  status,      \* run.status; "open" stands for queued, running, failed, ...
  acceptance,  \* run.acceptance
  freezes,     \* a clock that freezing advances
  scan,        \* the transaction that is reading the product, if any
  moments      \* the products there were since it began

vars == <<product, task, leases, candidate, evidence, spoiled, status, acceptance,
          freezes, scan, moments>>
ledger == <<task, leases, candidate, evidence, spoiled, status, acceptance, freezes>>

NoProduct == [p \in {} |-> 0]
NoAcceptance == [id |-> NoProduct, hackers |-> {}]
NoCandidate == [id |-> NoProduct, authors |-> {}, work |-> Nobody, stamp |-> 0]
Idle == [op |-> "none", arg |-> Nobody, seen |-> NoProduct, first |-> NoProduct]

Init ==
  /\ product = [p \in Parts |-> 0]
  /\ task = [t \in Tasks |-> [status |-> "absent", actor |-> Nobody, actors |-> {},
                              target |-> NoProduct, attempt |-> 0, session |-> Nobody,
                              start |-> 0, end |-> 0]]
  /\ leases = {} /\ candidate = NoCandidate /\ evidence = {} /\ spoiled = {}
  /\ status = "open" /\ acceptance = NoAcceptance
  /\ freezes = 0 /\ scan = Idle /\ moments = {}
-----------------------------------------------------------------------------
Added(T) == {t \in T : task[t].status # "absent"}
Running(T) == {t \in T : task[t].status = "running"}

(* Mutant: only the present actor of a task is its author.                 *)
LastAuthors == {task[w].actor : w \in Works} \ {Nobody}

(* candidateAuthors: whoever was the actor of any attempt of an author.    *)
Authors == UNION {task[w].actors : w \in Works}

(* What anybody does to the product, at any time.                          *)
Edit(p, c) ==
  /\ IF Reverts THEN c # product[p] ELSE c > product[p]
  /\ product' = [product EXCEPT ![p] = c]
  /\ moments' = IF scan = Idle THEN {} ELSE moments \cup {product'}
  /\ UNCHANGED <<ledger, scan>>

(* The raw outputs of a record change or disappear.                        *)
Spoil(e) ==
  /\ e \notin spoiled
  /\ spoiled' = spoiled \cup {e}
  /\ UNCHANGED <<product, task, leases, candidate, evidence, status, acceptance, freezes,
                 scan, moments>>

(* refreshRunStatus.                                                       *)
Refreshed(tk) ==
  IF /\ \A t \in Tasks : tk[t].status \notin {"queued", "running", "failed"}
     /\ candidate # NoCandidate
  THEN "awaiting_acceptance" ELSE "open"

(* addTask for an author, who may be named.                                *)
AddWork(w, actor) ==
  /\ scan = Idle
  /\ task[w].status = "absent"
  /\ task' = [task EXCEPT ![w].status = "queued", ![w].actor = actor,
                          ![w].actors = {actor} \ {Nobody}]
  /\ status' = "open"
  /\ UNCHANGED <<product, leases, candidate, evidence, spoiled, acceptance, freezes, scan, moments>>

(* acquireTask: only a further attempt may change the actor; a             *)
(* verification job goes to no author, and only for the present candidate. *)
Acquirable(t, actor) ==
  /\ \/ task[t].status = "queued" /\ task[t].actor \in {Nobody, actor}
     \/ task[t].status = "failed"
  /\ t \in Jobs => actor \notin Authors /\ candidate.id = task[t].target

(* acquireTask and bindJob: actor takes up the task in some session.       *)
Attempt(t, actor, session) ==
  /\ scan = Idle
  /\ Acquirable(t, actor)
  /\ Cardinality(leases) < MaxLeases
  /\ task' = [task EXCEPT ![t].status = "running", ![t].actor = actor,
                ![t].actors = @ \cup {actor}, ![t].attempt = @ + 1,
                ![t].session = session, ![t].start = freezes]
  /\ leases' = leases \cup {[task |-> t, attempt |-> task[t].attempt + 1,
                             actor |-> actor, session |-> session]}
  /\ status' = "open"
  /\ UNCHANGED <<product, candidate, evidence, spoiled, acceptance, freezes, scan, moments>>

(* reportResult and releaseLease.                                          *)
EndAttempt(t, outcome) ==
  /\ scan = Idle
  /\ task[t].status = "running"
  /\ task' = [task EXCEPT ![t].status = outcome, ![t].end = freezes]
  /\ status' = Refreshed(task')
  /\ UNCHANGED <<product, leases, candidate, evidence, spoiled, acceptance, freezes, scan, moments>>
-----------------------------------------------------------------------------
(* A transaction that needs the identity of the product starts to read it. *)
StartScan(op, arg) ==
  /\ scan = Idle
  /\ scan' = [Idle EXCEPT !.op = op, !.arg = arg]
  /\ moments' = {product}
  /\ UNCHANGED <<product, ledger>>

(* The author tasks that freezing or accepting is about.                   *)
Selected(work) == IF work = Nobody THEN Added(Works) ELSE {work} \cap Added(Works)

Freezable(work) ==
  /\ freezes < MaxFreezes
  /\ Selected(work) # {}
  /\ \A w \in Selected(work) : task[w].status \in {"produced", "awaiting_acceptance", "accepted"}
  /\ Running(Works) = {}

Start ==
  \/ \E work \in Works \cup {Nobody} : Freezable(work) /\ StartScan("freeze", work)
  \/ /\ candidate # NoCandidate
     /\ \/ \E j \in Jobs, actor \in Actors \ Authors :
             task[j].status = "absent" /\ StartScan("verify", <<j, actor>>)
        \/ \E j \in Jobs : task[j].status = "produced" /\ StartScan("submit", j)
        \/ StartScan("accept", Nobody)

(* candidateIdentity reads the next part.                                  *)
Read ==
  /\ scan # Idle
  /\ \E p \in Parts \ DOMAIN scan.seen :
       /\ \A q \in Parts : q < p => q \in DOMAIN scan.seen
       /\ scan' = [scan EXCEPT !.seen =
                     [q \in DOMAIN @ \cup {p} |-> IF q = p THEN product[p] ELSE @[q]]]
  /\ UNCHANGED <<product, ledger, moments>>

Collected(op) == scan.op = op /\ DOMAIN scan.seen = Parts

Done == scan' = Idle /\ moments' = moments /\ product' = product

(* A transaction that changes nothing, because it throws or refuses.       *)
Refuse == Done /\ UNCHANGED ledger

(* Mutant: the identity is collected once.                                 *)
NoRepeat ==
  /\ Collected("freeze") /\ scan.first = NoProduct
  /\ scan' = [scan EXCEPT !.first = scan.seen]
  /\ UNCHANGED <<product, ledger, moments>>

(* freezeCandidate collects the identity a second time ...                 *)
Repeat ==
  /\ Collected("freeze") /\ scan.first = NoProduct
  /\ scan' = [scan EXCEPT !.first = scan.seen, !.seen = NoProduct]
  /\ UNCHANGED <<product, ledger, moments>>

(* Mutant: freezing leaves an earlier acceptance in place.                 *)
StillAccepted == acceptance

(* Freezing deletes run.acceptance.                                        *)
Withdrawn == NoAcceptance

(* ... and freezes if nothing changed in between, else CANDIDATE_BUSY.     *)
Freeze ==
  /\ Collected("freeze") /\ scan.first # NoProduct
  /\ IF scan.seen # scan.first THEN Refuse
     ELSE /\ candidate' = [id |-> scan.seen, authors |-> Authors, work |-> scan.arg,
                           stamp |-> freezes + 1]
          /\ freezes' = freezes + 1
          /\ task' = [t \in Tasks |-> IF t \in Selected(scan.arg)
                        THEN [task[t] EXCEPT !.status = "awaiting_acceptance"] ELSE task[t]]
          /\ status' = "awaiting_acceptance"
          /\ acceptance' = Withdrawn
          /\ Done /\ UNCHANGED <<leases, evidence, spoiled>>

(* checkCandidateCurrent.                                                  *)
Undrifted == scan.seen = candidate.id /\ Authors = candidate.authors

(* addTask with verificationOf.                                            *)
AddJob ==
  /\ Collected("verify")
  /\ IF ~Undrifted THEN Refuse
     ELSE /\ task' = [task EXCEPT ![scan.arg[1]].status = "queued",
                        ![scan.arg[1]].target = candidate.id, ![scan.arg[1]].actor = scan.arg[2]]
          /\ status' = "open"
          /\ Done /\ UNCHANGED <<leases, candidate, evidence, spoiled, acceptance, freezes>>

(* validateEvidence: the record is about this candidate, comes from a      *)
(* finished job of a non-author in a session of its own, started after the *)
(* freeze, and its raw outputs are unchanged.                              *)
Valid(e) ==
  /\ e.authors = candidate.authors
  /\ task[e.job].target = candidate.id /\ task[e.job].status = "produced"
  /\ task[e.job].actor = e.actor /\ task[e.job].attempt = e.attempt
  /\ e.actor \notin candidate.authors
  /\ \A l \in leases : l.session = e.session => l.task = e.job /\ l.attempt = e.attempt
  /\ e.started >= candidate.stamp
  /\ e \notin spoiled

(* submitEvidence.  A job starts its observation while it runs.            *)
SubmitEvidence(kind, verdict, started) ==
  /\ Collected("submit")
  /\ LET j == task[scan.arg]
         e == [id |-> candidate.id, authors |-> candidate.authors, job |-> scan.arg,
               actor |-> j.actor, attempt |-> j.attempt, session |-> j.session,
               kind |-> kind, verdict |-> verdict, started |-> started]
     IN /\ started \in j.start..j.end
        /\ IF ~(Undrifted /\ Valid(e)) THEN Refuse
           ELSE /\ evidence' = evidence \cup {e}
                /\ status' = IF verdict = "passed" THEN status ELSE "blocked"
                /\ Done /\ UNCHANGED <<task, leases, candidate, spoiled, acceptance, freezes>>

(* Mutant: what was recorded before the freeze no longer counts.           *)
SinceTheFreeze ==
  {e \in evidence : e.id = candidate.id /\ e.started >= candidate.stamp}

EvidenceFor == {e \in evidence : e.id = candidate.id}

Sufficient(E) ==
  /\ Cardinality({e.actor : e \in E}) >= MinHackers
  /\ Kinds \subseteq {e.kind : e \in E}

(* acceptanceDecision.                                                     *)
Allowed ==
  /\ Undrifted
  /\ \A e \in EvidenceFor : Valid(e) /\ e.verdict = "passed"
  /\ Sufficient(EvidenceFor)

(* A candidate of one author task does not stand for a run of several.     *)
Partial == candidate.work # Nobody /\ Cardinality(Added(Works)) > 1

Unfinished ==
  \/ Running(Tasks) # {}
  \/ \E w \in Added(Works) :
       task[w].status \notin {"produced", "awaiting_acceptance", "accepted"}

(* acceptCandidate: a decision against the candidate blocks the run.       *)
Accept ==
  /\ Collected("accept")
  /\ Done
  /\ IF Partial \/ (Allowed /\ Unfinished) THEN UNCHANGED ledger
     ELSE IF ~Allowed
     THEN /\ status' = "blocked"
          /\ UNCHANGED <<task, leases, candidate, evidence, spoiled, acceptance, freezes>>
     ELSE /\ task' = [t \in Tasks |-> IF t \in Added(Works)
                        THEN [task[t] EXCEPT !.status = "accepted"] ELSE task[t]]
          /\ status' = "accepted"
          /\ acceptance' = [id |-> candidate.id,
                            hackers |-> {e.actor : e \in EvidenceFor}]
          /\ UNCHANGED <<leases, candidate, evidence, spoiled, freezes>>
-----------------------------------------------------------------------------
Next ==
  \/ \E p \in Parts, c \in Contents : Edit(p, c)
  \/ \E e \in evidence : Spoil(e)
  \/ \E w \in Works, actor \in Actors \cup {Nobody} : AddWork(w, actor)
  \/ \E t \in Tasks, actor \in Actors, session \in Sessions : Attempt(t, actor, session)
  \/ \E t \in Tasks, outcome \in {"produced", "failed"} : EndAttempt(t, outcome)
  \/ Start \/ Read \/ Repeat \/ Freeze \/ AddJob \/ Accept
  \/ \E kind \in Kinds, verdict \in {"passed", "failed"}, started \in 0..freezes :
       SubmitEvidence(kind, verdict, started)

Spec == Init /\ [][Next]_vars
-----------------------------------------------------------------------------
TaskStatus == {"absent", "queued", "running", "produced", "failed", "awaiting_acceptance",
               "accepted"}

(* Every variable has its type; the candidate is the one frozen last, and  *)
(* what is accepted is the candidate: no acceptance outlives its freeze.   *)
TypeOK ==
  /\ product \in Products
  /\ \A t \in Tasks :
       /\ task[t].status \in TaskStatus /\ task[t].attempt \in 0..MaxLeases
       /\ task[t].actors \subseteq Actors /\ task[t].target \in Products \cup {NoProduct}
       /\ t \in Jobs => task[t].status \notin {"awaiting_acceptance", "accepted"}
  /\ candidate.id \in Products \cup {NoProduct} /\ candidate.stamp = freezes
  /\ \A e \in evidence : e.id \in Products /\ e.job \in Jobs
  /\ spoiled \subseteq evidence
  /\ status \in {"open", "awaiting_acceptance", "blocked", "accepted"}
  /\ acceptance.id \in {NoProduct, candidate.id}

(* A candidate that is frozen, or accepted, is the product as it was at    *)
(* one moment of that call, although its parts were read one by one while  *)
(* somebody was editing.  (As long as nobody restores an earlier content.) *)
NamesOneProduct ==
  [][/\ candidate' # candidate => candidate'.id \in moments
     /\ status # "accepted" /\ status' = "accepted" => acceptance'.id \in moments]_vars

(* A content about which a failure was ever recorded does not get          *)
(* accepted, not even when the product is edited, restored and frozen      *)
(* again and other jobs find nothing.                                      *)
FailureIsFinal ==
  status = "accepted" =>
    \A e \in evidence : e.id = acceptance.id => e.verdict = "passed"

(* An accepted run was verified by enough actors, none of whom ever took   *)
(* up an author task of the run (not even in an attempt that failed and    *)
(* that somebody else made good), each in a session that served nothing    *)
(* else.                                                                   *)
IndependentlyVerified ==
  status = "accepted" =>
    LET used == {e \in evidence : e.id = acceptance.id} IN
    /\ Cardinality({e.actor : e \in used}) >= MinHackers
    /\ \A e \in used, l \in leases :
         /\ l.task \in Works => l.actor # e.actor
         /\ l.session = e.session => l.task = e.job
=============================================================================
