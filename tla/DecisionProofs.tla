--------------------------- MODULE DecisionProofs ---------------------------
(***************************************************************************)
(* What the program decides by computing, proved for every input: what may *)
(* be spent (src/cost-policy.js, src/pricing.js), in which order a graph   *)
(* runs (src/graph.js), which plugins are in the pool (src/pool.js), which *)
(* model a role gets (src/modelcap.js, src/planner.js), which plan is made *)
(* (src/planner.js, src/fixed-plan.js, src/role-overrides.js), and what is *)
(* read and found of knowledge (src/knowledge/schema.js, store.js,         *)
(* search.js).                                                             *)
(***************************************************************************)
EXTENDS MCDecisions, SequenceFacts

(***************************************************************************)
(* The price gate.  Every approval that is recorded anywhere was confirmed *)
(* by somebody, a run that is being queued is not frozen yet, and from the *)
(* first write of an approval on the settings hold it: a run that does not *)
(* exist at the second write can only be frozen with it.                   *)
(***************************************************************************)
Prices == [from : {"nowhere", "feed", "builtin", "override"}, level : {"unknown", "cheap", "dear"},
           version : Nat]
Scopes == PricedRuns \cup {"persistent"}
Approvals == [price : Prices, scope : Scopes]
GateSettings == [policy : {"pause", "bounded"}, coverage : {"pause", "bounded"}, bounds : BOOLEAN,
                 strict : BOOLEAN, override : Prices, approvals : SUBSET Approvals]
Reads == [made : {TRUE}, settings : GateSettings, prices : Prices]

Frozen(run) ==
  /\ DOMAIN run = {"made", "settings", "prices", "authorizations"}
  /\ run.made = TRUE /\ run.settings \in GateSettings /\ run.prices \in Prices
  /\ run.authorizations \subseteq Approvals

GateTypes ==
  /\ priceSettings \in GateSettings /\ feed \in Prices /\ consents \subseteq Approvals
  /\ edited \in [policy : Nat, feed : Nat]
  /\ approver \in [at : {"idle"}] \cup [at : {"settings", "run", "done"}, approval : Approvals]
  /\ queueing \in [PricedRuns -> {NoRun} \cup Reads]
  /\ runs = [r \in PricedRuns |-> runs[r]]
  /\ \A r \in PricedRuns : runs[r] = NoRun \/ Frozen(runs[r])

ApprovalsWereConfirmed ==
  /\ priceSettings.approvals \subseteq consents
  /\ \A r \in PricedRuns : queueing[r].made => queueing[r].settings.approvals \subseteq consents
  /\ \A r \in PricedRuns : runs[r].made =>
       runs[r].settings.approvals \cup runs[r].authorizations \subseteq consents
  /\ approver.at # "idle" => approver.approval \in consents

QueueingIsNotFrozen == \A r \in PricedRuns : queueing[r].made => ~runs[r].made

SettingsHoldIt ==
  approver.at \in {"run", "done"} =>
    approver.approval \in priceSettings.approvals /\ approver.approval.scope \in PricedRuns

GateInv ==
  GateTypes /\ ApprovalsWereConfirmed /\ QueueingIsNotFrozen /\ SettingsHoldIt /\ ApprovalReachesRun

LEMMA PriceResolved ==
  ASSUME NEW s \in GateSettings, NEW p \in Prices
  PROVE  resolvePrice(s, p) \in Prices
BY DEF resolvePrice, GateSettings, Prices, Builtin

LEMMA GateStarts == PriceInit => GateInv
<1>1. SUFFICES ASSUME PriceInit PROVE GateInv
  OBVIOUS
<1>2. NoPrice \in Prices
  BY DEF NoPrice, Prices
<1>3. priceSettings \in GateSettings /\ priceSettings.approvals = {}
  BY <1>1, <1>2 DEF PriceInit, GateSettings
<1>4. \A r \in PricedRuns : ~queueing[r].made /\ ~runs[r].made /\ runs[r] = NoRun
  BY <1>1 DEF PriceInit, NoRun
<1>5. GateTypes
  BY <1>1, <1>2, <1>3, <1>4 DEF PriceInit, GateTypes
<1>6. approver.at = "idle"
  BY <1>1 DEF PriceInit
<1>7. QED
  BY <1>1, <1>3, <1>4, <1>5, <1>6
  DEF GateInv, ApprovalsWereConfirmed, QueueingIsNotFrozen, SettingsHoldIt, ApprovalReachesRun

(* Steps that only touch the settings, and add to the approvals.           *)
LEMMA SettingsEdited ==
  ASSUME GateInv, priceSettings' \in GateSettings, priceSettings'.approvals = priceSettings.approvals,
         edited' \in [policy : Nat, feed : Nat], feed' \in Prices,
         UNCHANGED <<runs, queueing, approver, consents>>
  PROVE  GateInv'
BY DEF GateInv, GateTypes, ApprovalsWereConfirmed, QueueingIsNotFrozen, SettingsHoldIt,
       ApprovalReachesRun

LEMMA EditsKeep ==
  ASSUME GateInv
  PROVE  (\/ ConfigSetPricing
          \/ \E level \in {"cheap", "dear", "unknown"} : SetOverride(level)
          \/ \E level \in {"cheap", "dear"} : refreshPrices(level)) => GateInv'
<1>1. /\ priceSettings \in GateSettings /\ feed \in Prices
      /\ edited \in [policy : Nat, feed : Nat]
  BY DEF GateInv, GateTypes
<1>2. ASSUME ConfigSetPricing PROVE GateInv'
  <2>1. edited' \in [policy : Nat, feed : Nat] /\ UNCHANGED <<feed, runs, queueing, approver, consents>>
    <3>1. /\ edited' = [edited EXCEPT !.policy = @ + 1]
          /\ UNCHANGED <<feed, runs, queueing, approver, consents>>
      BY <1>2 DEF ConfigSetPricing
    <3>2. edited' \in [policy : Nat, feed : Nat]
      BY <1>1, <3>1
    <3>3. QED
      BY <3>1, <3>2
  <2>2. PICK field \in {"policy", "coverage"}, value \in {"pause", "bounded"},
             bounds, strict \in BOOLEAN :
          LET edit == [priceSettings EXCEPT ![field] = value, !.bounds = bounds, !.strict = strict]
          IN  /\ "bounded" \in {edit.policy, edit.coverage} => bounds
              /\ priceSettings' = edit
    BY <1>2 DEF ConfigSetPricing
  <2>3. priceSettings' \in GateSettings /\ priceSettings'.approvals = priceSettings.approvals
    <3>1. CASE field = "policy"
      BY <1>1, <2>2, <3>1 DEF GateSettings
    <3>2. CASE field = "coverage"
      BY <1>1, <2>2, <3>2 DEF GateSettings
    <3>3. QED
      BY <2>2, <3>1, <3>2
  <2>4. QED
    BY <1>1, <2>1, <2>3, SettingsEdited
<1>3. ASSUME NEW level \in {"cheap", "dear", "unknown"}, SetOverride(level) PROVE GateInv'
  <2>1. /\ edited' \in [policy : Nat, feed : Nat] /\ edited.policy + 1 \in Nat
        /\ UNCHANGED <<feed, runs, queueing, approver, consents>>
    BY <1>1, <1>3 DEF SetOverride
  <2>2. PICK price : price = [from |-> "override", level |-> level, version |-> edited.policy + 1]
    OBVIOUS
  <2>3. price \in Prices /\ priceSettings' = [priceSettings EXCEPT !.override = price]
    BY <1>3, <2>1, <2>2 DEF SetOverride, Prices
  <2>4. priceSettings' \in GateSettings /\ priceSettings'.approvals = priceSettings.approvals
    BY <1>1, <2>3 DEF GateSettings
  <2>5. QED
    BY <1>1, <2>1, <2>4, SettingsEdited
<1>4. ASSUME NEW level \in {"cheap", "dear"}, refreshPrices(level) PROVE GateInv'
  <2>1. /\ edited' \in [policy : Nat, feed : Nat] /\ feed' \in Prices
        /\ UNCHANGED <<priceSettings, runs, queueing, approver, consents>>
    BY <1>1, <1>4 DEF refreshPrices, Feed, Prices
  <2>2. QED
    BY <1>1, <2>1, SettingsEdited
<1>5. QED
  BY <1>2, <1>3, <1>4

LEMMA ReadForRunKeeps == ASSUME NEW r \in PricedRuns PROVE GateInv /\ ReadForRun(r) => GateInv'
<1>1. SUFFICES ASSUME GateInv, ReadForRun(r) PROVE GateInv'
  OBVIOUS
<1>2. PICK read : read = [made |-> TRUE, settings |-> priceSettings, prices |-> feed]
  OBVIOUS
<1>3. /\ read \in Reads /\ read.made /\ read.settings = priceSettings
      /\ queueing' = [queueing EXCEPT ![r] = read] /\ ~runs[r].made
      /\ queueing \in [PricedRuns -> {NoRun} \cup Reads]
      /\ UNCHANGED <<priceSettings, feed, runs, approver, consents, edited>>
  BY <1>1, <1>2 DEF ReadForRun, GateInv, GateTypes, Reads
<1>4. \A q \in PricedRuns : queueing'[q] = IF q = r THEN read ELSE queueing[q]
  BY <1>3
<1>5. GateTypes'
  BY <1>1, <1>3 DEF GateInv, GateTypes
<1>6. QED
  BY <1>1, <1>3, <1>4, <1>5
  DEF GateInv, ApprovalsWereConfirmed, QueueingIsNotFrozen, SettingsHoldIt, ApprovalReachesRun

(* What freezing makes of what was read.                                   *)
LEMMA FrozenFrom ==
  ASSUME NEW read \in Reads, NEW run,
         run = [made |-> TRUE, settings |-> read.settings, prices |-> read.prices, authorizations |-> {}]
  PROVE  /\ Frozen(run) /\ run.settings = read.settings /\ run.prices = read.prices
         /\ run.authorizations = {}
BY DEF Reads, Frozen

LEMMA FreezeRunKeeps == ASSUME NEW r \in PricedRuns PROVE GateInv /\ FreezeRun(r) => GateInv'
<1>1. SUFFICES ASSUME GateInv, FreezeRun(r) PROVE GateInv'
  OBVIOUS
<1>2. /\ queueing \in [PricedRuns -> {NoRun} \cup Reads] /\ queueing[r].made
      /\ queueing' = [queueing EXCEPT ![r] = NoRun] /\ ~NoRun.made
      /\ UNCHANGED <<priceSettings, feed, approver, consents, edited>>
  BY <1>1 DEF FreezeRun, GateInv, GateTypes, NoRun
<1>3. queueing[r] \in Reads
  BY <1>2
<1>4. \A q \in PricedRuns : queueing'[q] = IF q = r THEN NoRun ELSE queueing[q]
  BY <1>2
<1>5. CASE ~StillCurrent(r)
  <2>1. runs' = runs
    BY <1>1, <1>5 DEF FreezeRun
  <2>2. GateTypes'
    BY <1>1, <1>2, <2>1 DEF GateInv, GateTypes
  <2>3. QED
    BY <1>1, <1>2, <1>4, <2>1, <2>2
    DEF GateInv, ApprovalsWereConfirmed, QueueingIsNotFrozen, SettingsHoldIt, ApprovalReachesRun
<1>6. CASE StillCurrent(r)
  <2>1. PICK run : run = [made |-> TRUE, settings |-> queueing[r].settings,
                          prices |-> queueing[r].prices, authorizations |-> {}]
    OBVIOUS
  <2>2. runs' = [runs EXCEPT ![r] = run] /\ runs = [q \in PricedRuns |-> runs[q]]
    BY <1>1, <1>6, <2>1 DEF FreezeRun, GateInv, GateTypes
  <2>3. Frozen(run) /\ run.settings = priceSettings /\ run.authorizations = {}
    BY <1>3, <1>6, <2>1, FrozenFrom DEF StillCurrent
  <2>4. \A q \in PricedRuns : runs'[q] = IF q = r THEN run ELSE runs[q]
    BY <2>2
  <2>5. runs' = [q \in PricedRuns |-> runs'[q]]
    BY <2>2
  <2>6. GateTypes'
    BY <1>1, <1>2, <2>3, <2>4, <2>5 DEF GateInv, GateTypes
  <2>7. ApprovalsWereConfirmed'
    BY <1>1, <1>2, <1>4, <2>3, <2>4 DEF GateInv, ApprovalsWereConfirmed
  <2>8. QueueingIsNotFrozen' /\ SettingsHoldIt'
    BY <1>1, <1>2, <1>4, <2>4 DEF GateInv, QueueingIsNotFrozen, SettingsHoldIt
  <2>9. ApprovalReachesRun'
    BY <1>1, <1>2, <2>3, <2>4 DEF GateInv, ApprovalReachesRun, SettingsHoldIt
  <2>10. QED
    BY <2>6, <2>7, <2>8, <2>9 DEF GateInv
<1>7. QED
  BY <1>5, <1>6

LEMMA ConfirmKeeps == ASSUME NEW scope \in Scopes PROVE GateInv /\ ConfirmApproval(scope) => GateInv'
<1>1. SUFFICES ASSUME GateInv, ConfirmApproval(scope) PROVE GateInv'
  OBVIOUS
<1>2. PICK price : price = IF scope \in PricedRuns /\ runs[scope].made
                           THEN resolvePrice(runs[scope].settings, runs[scope].prices)
                           ELSE resolvePrice(priceSettings, feed)
  OBVIOUS
<1>3. price \in Prices
  <2>1. scope \in PricedRuns /\ runs[scope].made =>
          runs[scope].settings \in GateSettings /\ runs[scope].prices \in Prices
    BY <1>1 DEF GateInv, GateTypes, NoRun, Frozen
  <2>2. priceSettings \in GateSettings /\ feed \in Prices
    BY <1>1 DEF GateInv, GateTypes
  <2>3. QED
    BY <1>2, <2>1, <2>2, PriceResolved
<1>4. PICK approval : approval = [price |-> price, scope |-> scope]
  OBVIOUS
<1>5. approval \in Approvals
  BY <1>3, <1>4 DEF Approvals
<1>6. /\ approver' = [at |-> "settings", approval |-> approval]
      /\ consents' = consents \cup {approval}
      /\ UNCHANGED <<priceSettings, feed, runs, queueing, edited>>
  BY <1>1, <1>2, <1>4 DEF ConfirmApproval
<1>7. /\ approver' \in [at : {"settings", "run", "done"}, approval : Approvals]
      /\ approver'.at = "settings" /\ approver'.approval = approval
  BY <1>5, <1>6
<1>8. GateTypes'
  BY <1>1, <1>5, <1>6, <1>7 DEF GateInv, GateTypes
<1>9. ApprovalsWereConfirmed'
  BY <1>1, <1>6, <1>7 DEF GateInv, ApprovalsWereConfirmed
<1>10. QED
  BY <1>1, <1>6, <1>7, <1>8, <1>9
  DEF GateInv, QueueingIsNotFrozen, SettingsHoldIt, ApprovalReachesRun

LEMMA ApproveKeeps == GateInv /\ ApproveInSettings => GateInv'
<1>1. SUFFICES ASSUME GateInv, ApproveInSettings PROVE GateInv'
  OBVIOUS
<1>2. /\ approver \in [at : {"settings"}, approval : Approvals] /\ priceSettings \in GateSettings
      /\ approver.at = "settings" /\ approver.approval \in Approvals
  BY <1>1 DEF GateInv, GateTypes, ApproveInSettings
<1>3. PICK approval : approval = approver.approval
  OBVIOUS
<1>4. PICK all : all = priceSettings.approvals \cup {approval}
  OBVIOUS
<1>5. /\ priceSettings' = [priceSettings EXCEPT !.approvals = all]
      /\ UNCHANGED <<feed, runs, queueing, consents, edited>>
  BY <1>1, <1>3, <1>4 DEF ApproveInSettings
<1>6. all \subseteq Approvals
  BY <1>2, <1>3, <1>4 DEF GateSettings
<1>7. priceSettings' \in GateSettings /\ priceSettings'.approvals = all
  BY <1>2, <1>5, <1>6 DEF GateSettings
<1>8. \/ approval.scope \in PricedRuns /\ approver' = [approver EXCEPT !.at = "run"]
      \/ approver' = [at |-> "idle"]
  BY <1>1, <1>3 DEF ApproveInSettings
<1>9. \/ /\ approval.scope \in PricedRuns /\ approver'.at = "run" /\ approver'.approval = approval
         /\ approver' \in [at : {"settings", "run", "done"}, approval : Approvals]
      \/ approver'.at = "idle" /\ approver' \in [at : {"idle"}]
  BY <1>2, <1>3, <1>8
<1>10. GateTypes'
  BY <1>1, <1>5, <1>7, <1>9 DEF GateInv, GateTypes
<1>11. ApprovalsWereConfirmed'
  BY <1>1, <1>2, <1>3, <1>4, <1>5, <1>7, <1>9 DEF GateInv, ApprovalsWereConfirmed
<1>12. SettingsHoldIt'
  BY <1>4, <1>7, <1>9 DEF SettingsHoldIt
<1>13. QED
  BY <1>1, <1>5, <1>9, <1>10, <1>11, <1>12 DEF GateInv, QueueingIsNotFrozen, ApprovalReachesRun

LEMMA RecordKeeps == GateInv /\ recordRunApproval => GateInv'
<1>1. SUFFICES ASSUME GateInv, recordRunApproval PROVE GateInv'
  OBVIOUS
<1>2. PICK approval, r : approval = approver.approval /\ r = approval.scope
  OBVIOUS
<1>3. /\ approval \in Approvals /\ r \in PricedRuns /\ approval \in priceSettings.approvals
      /\ approval \in consents
  BY <1>1, <1>2
  DEF GateInv, GateTypes, recordRunApproval, SettingsHoldIt, ApprovalsWereConfirmed
<1>4. /\ runs' = IF runs[r].made THEN [runs EXCEPT ![r].authorizations = @ \cup {approval}] ELSE runs
      /\ approver' = [at |-> "done", approval |-> approval]
      /\ UNCHANGED <<priceSettings, feed, queueing, consents, edited>>
  BY <1>1, <1>2 DEF recordRunApproval
<1>5. /\ approver'.at = "done" /\ approver'.approval = approval
      /\ approver' \in [at : {"settings", "run", "done"}, approval : Approvals]
  BY <1>3, <1>4
<1>6. SettingsHoldIt'
  BY <1>2, <1>3, <1>4, <1>5 DEF SettingsHoldIt
<1>7. CASE ~runs[r].made
  <2>1. runs' = runs
    BY <1>4, <1>7
  <2>2. GateTypes'
    BY <1>1, <1>4, <1>5, <2>1 DEF GateInv, GateTypes
  <2>3. QED
    BY <1>1, <1>2, <1>3, <1>4, <1>5, <1>6, <1>7, <2>1, <2>2
    DEF GateInv, ApprovalsWereConfirmed, QueueingIsNotFrozen, ApprovalReachesRun
<1>8. CASE runs[r].made
  <2>1. runs = [q \in PricedRuns |-> runs[q]] /\ Frozen(runs[r])
    BY <1>1, <1>3, <1>8 DEF GateInv, GateTypes, NoRun
  <2>2. PICK old, new : /\ old = runs[r]
                        /\ new = [old EXCEPT !.authorizations = @ \cup {approval}]
    OBVIOUS
  <2>3. runs' = [runs EXCEPT ![r] = new]
    BY <1>4, <1>8, <2>2
  <2>4. /\ DOMAIN new = DOMAIN old /\ new.made = old.made /\ new.settings = old.settings
        /\ new.prices = old.prices /\ new.authorizations = old.authorizations \cup {approval}
    BY <2>1, <2>2 DEF Frozen
  <2>5. Frozen(new)
    BY <1>3, <2>1, <2>2, <2>4 DEF Frozen
  <2>6. \A q \in PricedRuns : runs'[q] = IF q = r THEN new ELSE runs[q]
    BY <2>1, <2>3
  <2>7. runs' = [q \in PricedRuns |-> runs'[q]]
    BY <2>1, <2>3
  <2>8. GateTypes'
    BY <1>1, <1>4, <1>5, <2>5, <2>6, <2>7 DEF GateInv, GateTypes
  <2>9. ApprovalsWereConfirmed'
    BY <1>1, <1>3, <1>4, <1>5, <1>8, <2>2, <2>4, <2>6 DEF GateInv, ApprovalsWereConfirmed
  <2>10. QueueingIsNotFrozen'
    BY <1>1, <1>4, <1>8, <2>2, <2>4, <2>6 DEF GateInv, QueueingIsNotFrozen
  <2>11. ApprovalReachesRun'
    BY <1>2, <1>3, <1>5, <2>4, <2>6 DEF ApprovalReachesRun
  <2>12. QED
    BY <1>6, <2>8, <2>9, <2>10, <2>11 DEF GateInv
<1>9. QED
  BY <1>7, <1>8

LEMMA ApproverEndsKeeps == GateInv /\ ApproverEnds => GateInv'
<1>1. SUFFICES ASSUME GateInv, ApproverEnds PROVE GateInv'
  OBVIOUS
<1>2. /\ approver'.at = "idle" /\ approver' \in [at : {"idle"}]
      /\ UNCHANGED <<priceSettings, feed, runs, queueing, consents, edited>>
  BY <1>1 DEF ApproverEnds
<1>3. GateTypes'
  BY <1>1, <1>2 DEF GateInv, GateTypes
<1>4. QED
  BY <1>1, <1>2, <1>3
  DEF GateInv, ApprovalsWereConfirmed, QueueingIsNotFrozen, SettingsHoldIt, ApprovalReachesRun

LEMMA GateSteps == GateInv /\ [PriceNext]_gateVars => GateInv'
<1>1. SUFFICES ASSUME GateInv, [PriceNext]_gateVars PROVE GateInv'
  OBVIOUS
<1>2. CASE UNCHANGED gateVars
  <2>1. UNCHANGED <<priceSettings, feed, runs, queueing, approver, consents, edited>>
    BY <1>2 DEF gateVars
  <2>2. GateTypes'
    BY <1>1, <2>1 DEF GateInv, GateTypes
  <2>3. QED
    BY <1>1, <2>1, <2>2
    DEF GateInv, ApprovalsWereConfirmed, QueueingIsNotFrozen, SettingsHoldIt, ApprovalReachesRun
<1>3. CASE PriceNext
  BY <1>1, <1>3, EditsKeep, ReadForRunKeeps, FreezeRunKeeps, ConfirmKeeps, ApproveKeeps, RecordKeeps,
     ApproverEndsKeeps
  DEF PriceNext, Scopes
<1>4. QED
  BY <1>1, <1>2, <1>3

(***************************************************************************)
(* An admission reads nothing of its run but what is frozen, and another   *)
(* approval never turns it down.                                           *)
(***************************************************************************)
LEMMA MoreApprovalsAdmitMore ==
  ASSUME NEW sel, NEW price, NEW s, NEW a, NEW b, a \subseteq b
  PROVE  /\ Decision(sel, price, s, a).allowed => Decision(sel, price, s, b).allowed
         /\ Decision(sel, price, s, a).requiresBounds = Decision(sel, price, s, b).requiresBounds
BY DEF Decision

LEMMA ApprovalHasBoth ==
  ASSUME NEW a \in Approvals
  PROVE  a = [price |-> a.price, scope |-> a.scope]
BY DEF Approvals

LEMMA ConsentBehindDear == GateInv => DearNeedsConsent
<1>1. SUFFICES ASSUME GateInv, NEW sel \in Selections, runs[sel.run].made, Admits(sel),
                      FrozenPrice(sel.run).level = "dear"
               PROVE  \/ \E scope \in {"persistent", sel.run} :
                           [price |-> FrozenPrice(sel.run), scope |-> scope] \in consents
                      \/ /\ sel.billing = "subscription" /\ runs[sel.run].settings.coverage = "bounded"
                         /\ runs[sel.run].settings.bounds
  BY DEF DearNeedsConsent
<1>2. PICK r, price, s, all :
        /\ r = sel.run /\ price = FrozenPrice(r) /\ s = runs[r].settings
        /\ all = s.approvals \cup runs[r].authorizations
  OBVIOUS
<1>3. Decision(sel, price, s, all).allowed /\ price.level = "dear"
  BY <1>1, <1>2 DEF Admits
<1>4. \/ \E a \in all : SamePrice(a, price) /\ a.scope \in {"persistent", sel.run}
      \/ sel.billing = "subscription" /\ s.coverage = "bounded" /\ boundedPolicy(s)
  BY <1>3 DEF Decision
<1>5. r \in PricedRuns /\ runs[r].made
  BY <1>1, <1>2 DEF Selections
<1>6. all \subseteq consents /\ all \subseteq Approvals
  BY <1>1, <1>2, <1>5 DEF GateInv, GateTypes, ApprovalsWereConfirmed
<1>7. CASE \E a \in all : SamePrice(a, price) /\ a.scope \in {"persistent", sel.run}
  <2>1. PICK a \in all : a.price = price /\ a.scope \in {"persistent", sel.run}
    BY <1>7 DEF SamePrice
  <2>2. a = [price |-> price, scope |-> a.scope] /\ a \in consents
    BY <1>6, <2>1, ApprovalHasBoth
  <2>3. QED
    BY <1>2, <2>1, <2>2
<1>8. CASE sel.billing = "subscription" /\ s.coverage = "bounded" /\ boundedPolicy(s)
  BY <1>2, <1>8 DEF boundedPolicy
<1>9. QED
  BY <1>4, <1>7, <1>8

(* A frozen run keeps what it was frozen with, and only gains approvals.   *)
LEMMA FrozenStays ==
  ASSUME GateInv, [PriceNext]_gateVars, NEW r \in PricedRuns, runs[r].made
  PROVE  /\ runs'[r].settings = runs[r].settings /\ runs'[r].prices = runs[r].prices
         /\ runs[r].authorizations \subseteq runs'[r].authorizations
<1>1. CASE UNCHANGED runs
  BY <1>1
<1>2. ASSUME NEW q \in PricedRuns, FreezeRun(q)
      PROVE  /\ runs'[r].settings = runs[r].settings /\ runs'[r].prices = runs[r].prices
             /\ runs[r].authorizations \subseteq runs'[r].authorizations
  <2>1. q # r
    BY <1>2 DEF GateInv, QueueingIsNotFrozen, FreezeRun
  <2>2. runs'[r] = runs[r]
    BY <1>2, <2>1 DEF FreezeRun, GateInv, GateTypes
  <2>3. QED
    BY <2>2
<1>3. ASSUME recordRunApproval
      PROVE  /\ runs'[r].settings = runs[r].settings /\ runs'[r].prices = runs[r].prices
             /\ runs[r].authorizations \subseteq runs'[r].authorizations
  <2>1. PICK q, approval : q = approver.approval.scope /\ approval = approver.approval
    OBVIOUS
  <2>2. runs' = IF runs[q].made THEN [runs EXCEPT ![q].authorizations = @ \cup {approval}] ELSE runs
    BY <1>3, <2>1 DEF recordRunApproval
  <2>3. runs = [p \in PricedRuns |-> runs[p]] /\ Frozen(runs[r])
    BY DEF GateInv, GateTypes, NoRun
  <2>4. PICK old : old = runs[r]
    OBVIOUS
  <2>5. runs'[r] = old \/ runs'[r] = [old EXCEPT !.authorizations = @ \cup {approval}]
    BY <2>2, <2>3, <2>4
  <2>6. QED
    BY <2>3, <2>4, <2>5 DEF Frozen
<1>4. UNCHANGED runs \/ (\E q \in PricedRuns : FreezeRun(q)) \/ recordRunApproval
  BY DEF PriceNext, gateVars, ConfigSetPricing, ApproveInSettings, ApproverEnds, SetOverride,
     refreshPrices, ReadForRun, ConfirmApproval
<1>5. QED
  BY <1>1, <1>2, <1>3, <1>4

LEMMA FrozenDecides ==
  ASSUME GateInv, [PriceNext]_gateVars
  PROVE  \A sel \in Selections : runs[sel.run].made =>
           /\ Admits(sel) => Admits(sel)'
           /\ (Admits(sel)' /\ ~Admits(sel)) =>
                runs'[sel.run].authorizations # runs[sel.run].authorizations
<1>1. SUFFICES ASSUME NEW sel \in Selections, runs[sel.run].made
               PROVE  /\ Admits(sel) => Admits(sel)'
                      /\ (Admits(sel)' /\ ~Admits(sel)) =>
                           runs'[sel.run].authorizations # runs[sel.run].authorizations
  OBVIOUS
<1>2. PICK r, a, b, s, price :
        /\ r = sel.run /\ s = runs[r].settings /\ price = resolvePrice(s, runs[r].prices)
        /\ a = runs[r].authorizations /\ b = runs'[r].authorizations
  OBVIOUS
<1>3. r \in PricedRuns /\ runs[r].made
  BY <1>1, <1>2 DEF Selections
<1>4. /\ runs'[r].settings = s /\ runs'[r].prices = runs[r].prices /\ a \subseteq b
  BY <1>2, <1>3, FrozenStays
<1>5. Admits(sel) <=> /\ Decision(sel, price, s, s.approvals \cup a).allowed
                      /\ Decision(sel, price, s, s.approvals \cup a).requiresBounds => Enforces(sel)
  BY <1>2 DEF Admits, FrozenPrice
<1>6. Admits(sel)' <=> /\ Decision(sel, price, s, s.approvals \cup b).allowed
                       /\ Decision(sel, price, s, s.approvals \cup b).requiresBounds => Enforces(sel)
  BY <1>2, <1>4 DEF Admits, FrozenPrice
<1>7. s.approvals \cup a \subseteq s.approvals \cup b
  BY <1>4
<1>8. /\ Decision(sel, price, s, s.approvals \cup a).allowed
           => Decision(sel, price, s, s.approvals \cup b).allowed
      /\ Decision(sel, price, s, s.approvals \cup a).requiresBounds
           = Decision(sel, price, s, s.approvals \cup b).requiresBounds
  BY <1>7, MoreApprovalsAdmitMore
<1>9. a = b => (Admits(sel)' <=> Admits(sel))
  BY <1>5, <1>6
<1>10. QED
  BY <1>2, <1>5, <1>6, <1>8, <1>9

(* For every set of runs and adapters, in any order of edits, refreshes    *)
(* and of the two writes of an approval: a dear model is admitted only     *)
(* with consent to its price, a queued run decides alike whatever is       *)
(* edited, and a finished approval has reached its run (cost-policy.js).   *)
THEOREM SpendingNeedsConsent == PriceSpec => SpendingIsConsented
<1>1. PriceSpec => []GateInv
  BY GateStarts, GateSteps, PTL DEF PriceSpec
<1>2. GateInv => DearNeedsConsent /\ ApprovalReachesRun
  BY ConsentBehindDear DEF GateInv
<1>3. GateInv /\ [PriceNext]_gateVars =>
        [\A sel \in Selections : runs[sel.run].made =>
           /\ Admits(sel) => Admits(sel)'
           /\ (Admits(sel)' /\ ~Admits(sel)) =>
                runs'[sel.run].authorizations # runs[sel.run].authorizations]_gateVars
  BY FrozenDecides
<1>4. QED
  BY <1>1, <1>2, <1>3, PTL DEF PriceSpec, SpendingIsConsented, FrozenRunsDecideAlike

(***************************************************************************)
(* Numbered things of which one is the best.                               *)
(***************************************************************************)
(* Of numbered things with a bounded worth, one comes first.               *)
ComesFirst(i, I, worth) ==
  i \in I /\ \A j \in I : worth[j] < worth[i] \/ (worth[j] = worth[i] /\ i <= j)

Worths(I, worth, top) ==
  /\ I \subseteq Nat /\ I # {} /\ top \in Int
  /\ \A i \in I : worth[i] \in Int /\ worth[i] <= top

LEMMA FirstOfTheBest ==
  ASSUME NEW I, NEW worth, NEW top, Worths(I, worth, top)
  PROVE  \E i : ComesFirst(i, I, worth)
<1> USE DEF Worths
<1>1. PICK m \in I : \A j \in I : worth[j] <= worth[m]
  <2>1. PICK T : T = {top - worth[i] : i \in I}
    OBVIOUS
  <2>2. T \in SUBSET Nat /\ T # {}
    <3>1. \A i \in I : top - worth[i] \in Nat
      OBVIOUS
    <3>2. QED
      BY <2>1, <3>1
  <2>3. PICK x \in T : \A y \in T : x <= y
    BY <2>2, LeastNat
  <2>4. PICK k \in I : x = top - worth[k]
    BY <2>1, <2>3
  <2>5. ASSUME NEW j \in I PROVE worth[j] <= worth[k]
    <3>1. PICK y \in T : y = top - worth[j]
      BY <2>1
    <3>2. x <= y
      BY <2>3, <3>1
    <3>3. QED
      BY <2>4, <3>1, <3>2
  <2>6. QED
    BY <2>5
<1>2. PICK T : T = {i \in I : worth[i] = worth[m]}
  OBVIOUS
<1>3. T \subseteq Nat /\ m \in T
  BY <1>2
<1>4. PICK first \in T : \A y \in T : first <= y
  BY <1>3, LeastNat
<1>5. ComesFirst(first, I, worth)
  BY <1>1, <1>2, <1>4 DEF ComesFirst
<1>6. QED
  BY <1>5

(***************************************************************************)
(* A walk.  What Reached computes is the least set that holds the start    *)
(* and that no edge leaves: either a round adds nothing, or each adds a    *)
(* node and then all nodes are reached.                                    *)
(***************************************************************************)
After(edges, X) == X \cup {e[2] : e \in {d \in edges : d[1] \in X}}

Closed(edges, X) == \A e \in edges : e[1] \in X => e[2] \in X

Walk(f, n, nodes, edges, start) ==
  f \in [0..n -> SUBSET nodes] /\ f[0] = start /\ \A k \in 1..n : f[k] = After(edges, f[k - 1])

LEMMA ReachedUnfolds ==
  ASSUME NEW g, IsFiniteSet(g.nodes), NEW edges \in SUBSET (g.nodes \X g.nodes),
         NEW start \in SUBSET g.nodes, NEW N, N = Cardinality(g.nodes)
  PROVE  N \in Nat /\ \E f : Walk(f, N, g.nodes, edges, start) /\ Reached(g, edges, start) = f[N]
<1>1. N \in Nat
  BY FS_CardinalityType
<1> DEFINE S == SUBSET g.nodes
           step == [x \in (1..N) \X S |-> After(edges, x[2])]
           D(h) == [k \in 0..N |->
                      IF k = 0 THEN start
                      ELSE LET before == h[k - 1]
                           IN  before \cup {e[2] : e \in {d \in edges : d[1] \in before}}]
<1>2. \A X \in S : After(edges, X) \in S
  BY DEF After
<1>3. PICK f \in [0..N -> S] : f[0] = start /\ \A k \in 1..N : f[k] = step[<<k, f[k - 1]>>]
  <2>1. step \in [(1..N) \X S -> S]
    BY <1>2
  <2> HIDE DEF step
  <2>2. start \in S
    OBVIOUS
  <2> HIDE DEF S
  <2>3. PICK sets, next : sets = S /\ next = step
    OBVIOUS
  <2>4. next \in [(1..N) \X sets -> sets] /\ start \in sets
    BY <2>1, <2>2, <2>3
  <2>5. PICK f : Iteration(f, N, sets, start, next)
    BY <1>1, <2>4, Iterates
  <2>6. QED
    BY <2>3, <2>5 DEF Iteration
<1>4. \A k \in 1..N : f[k] = After(edges, f[k - 1])
  <2>1. ASSUME NEW k \in 1..N PROVE f[k] = After(edges, f[k - 1])
    <3>1. f[k - 1] \in S
      BY <1>1, <1>3
    <3>2. <<k, f[k - 1]>> \in (1..N) \X S
      BY <3>1
    <3>3. QED
      BY <1>3, <3>2
  <2>2. QED
    BY <2>1
<1>5. f = D(f)
  BY <1>1, <1>3, <1>4 DEF After
<1>6. PICK h : h = CHOOSE t : t = D(t)
  OBVIOUS
<1>7. h = D(h)
  <2> HIDE DEF D
  <2>1. QED
    BY <1>5, <1>6
<1>8. ASSUME NEW k \in 0..N, h[k] # f[k] PROVE FALSE
  <2> DEFINE T == {n \in 0..N : h[n] # f[n]}
  <2>1. T # {} /\ T \in SUBSET Nat
    BY <1>8
  <2>2. PICK x \in T : \A y \in T : x <= y
    <3> HIDE DEF T
    <3>1. QED
      BY <2>1, LeastNat
  <2>3. x # 0
    BY <1>3, <1>7, <2>2
  <2>4. x \in 1..N /\ x - 1 \in 0..N /\ h[x - 1] = f[x - 1]
    BY <1>1, <2>2, <2>3
  <2>5. h[x] = After(edges, h[x - 1])
    <3>1. PICK o : o = h
      OBVIOUS
    <3>2. h = D(o)
      BY <1>7, <3>1
    <3>3. h[x] = After(edges, o[x - 1])
      BY <2>3, <2>4, <3>2 DEF After
    <3>4. QED
      BY <3>1, <3>3
  <2>6. QED
    BY <1>4, <2>2, <2>4, <2>5
<1>9. Reached(g, edges, start) = h[N]
  BY <1>6 DEF Reached
<1>10. QED
  BY <1>1, <1>3, <1>4, <1>8, <1>9 DEF Walk

LEMMA ReachedIsLeast ==
  ASSUME NEW g, IsFiniteSet(g.nodes), NEW edges \in SUBSET (g.nodes \X g.nodes),
         NEW start \in SUBSET g.nodes, NEW R, R = Reached(g, edges, start)
  PROVE  /\ start \subseteq R /\ R \subseteq g.nodes /\ Closed(edges, R)
         /\ \A C : start \subseteq C /\ Closed(edges, C) => R \subseteq C
<1>0. PICK N : N = Cardinality(g.nodes)
  OBVIOUS
<1>1. PICK f \in [0..N -> SUBSET g.nodes] :
        /\ N \in Nat
        /\ f[0] = start /\ \A k \in 1..N : f[k] = After(edges, f[k - 1])
        /\ Reached(g, edges, start) = f[N]
  <2>1. N \in Nat /\ \E f : Walk(f, N, g.nodes, edges, start) /\ Reached(g, edges, start) = f[N]
    BY <1>0, ReachedUnfolds
  <2>2. QED
    BY <2>1 DEF Walk
<1>2. ASSUME NEW C, start \subseteq C, Closed(edges, C) PROVE \A k \in 0..N : f[k] \subseteq C
  <2> DEFINE T == {n \in 0..N : ~(f[n] \subseteq C)}
  <2>1. SUFFICES ASSUME T # {} PROVE FALSE
    OBVIOUS
  <2>2. PICK x \in T : \A y \in T : x <= y
    <3>1. T \in SUBSET Nat
      OBVIOUS
    <3> HIDE DEF T
    <3>2. QED
      BY <2>1, <3>1, LeastNat
  <2>3. x # 0
    BY <1>1, <1>2, <2>2
  <2>4. x \in 1..N /\ x - 1 \in 0..N /\ f[x - 1] \subseteq C
    BY <1>1, <2>2, <2>3
  <2>5. f[x] \subseteq C
    BY <1>1, <1>2, <2>4 DEF After, Closed
  <2>6. QED
    BY <2>2, <2>5
<1>3. \A k \in 1..N : f[k - 1] \subseteq f[k]
  BY <1>1 DEF After
<1>4. \A k \in 0..N : start \subseteq f[k]
  <2> DEFINE T == {n \in 0..N : ~(start \subseteq f[n])}
  <2>1. SUFFICES ASSUME T # {} PROVE FALSE
    OBVIOUS
  <2>2. PICK x \in T : \A y \in T : x <= y
    <3>1. T \in SUBSET Nat
      OBVIOUS
    <3> HIDE DEF T
    <3>2. QED
      BY <2>1, <3>1, LeastNat
  <2>3. x # 0
    BY <1>1, <2>2
  <2>4. x \in 1..N /\ x - 1 \in 0..N /\ start \subseteq f[x - 1]
    BY <1>1, <2>2, <2>3
  <2>5. QED
    BY <1>3, <2>2, <2>4
<1>5. Closed(edges, f[N])
  <2>1. CASE \E j \in 1..N : f[j] = f[j - 1]
    <3>1. PICK j \in 1..N : f[j] = f[j - 1]
      BY <2>1
    <3>2. Closed(edges, f[j])
      BY <1>1, <3>1 DEF After, Closed
    <3> DEFINE T == {n \in j..N : f[n] # f[j]}
    <3>3. SUFFICES ASSUME T # {} PROVE FALSE
      BY <1>1, <3>2
    <3>4. PICK x \in T : \A y \in T : x <= y
      <4>1. T \in SUBSET Nat
        BY <1>1
      <4> HIDE DEF T
      <4>2. QED
        BY <3>3, <4>1, LeastNat
    <3>5. x \in 1..N /\ f[x - 1] = f[j]
      BY <1>1, <3>4
    <3>6. f[x] = f[j]
      BY <1>1, <3>1, <3>5
    <3>7. QED
      BY <3>4, <3>6
  <2>2. CASE \A j \in 1..N : f[j] # f[j - 1]
    <3> DEFINE T == {n \in 0..N : ~(IsFiniteSet(f[n]) /\ Cardinality(f[n]) >= n)}
    <3>1. ASSUME T # {} PROVE FALSE
      <4>1. PICK x \in T : \A y \in T : x <= y
        <5>1. T \in SUBSET Nat
          OBVIOUS
        <5> HIDE DEF T
        <5>2. QED
          BY <3>1, <5>1, LeastNat
      <4>2. \A n \in 0..N : IsFiniteSet(f[n]) /\ Cardinality(f[n]) \in Nat
        <5>1. ASSUME NEW n \in 0..N PROVE IsFiniteSet(f[n]) /\ Cardinality(f[n]) \in Nat
          <6>1. f[n] \in SUBSET g.nodes
            BY <1>1
          <6>2. QED
            BY <6>1, FS_Subset, FS_CardinalityType
        <5>2. QED
          BY <5>1
      <4>3. x # 0
        BY <4>1, <4>2
      <4>4. x \in 1..N /\ x - 1 \in 0..N /\ Cardinality(f[x - 1]) >= x - 1
        BY <1>1, <4>1, <4>3
      <4>5. f[x - 1] \in SUBSET f[x] /\ f[x - 1] # f[x]
        BY <1>3, <2>2, <4>4
      <4>6. Cardinality(f[x - 1]) <= Cardinality(f[x]) /\ Cardinality(f[x - 1]) # Cardinality(f[x])
        BY <4>2, <4>4, <4>5, FS_Subset
      <4>7. QED
        BY <4>1, <4>2, <4>4, <4>6
    <3>2. Cardinality(f[N]) >= N /\ f[N] \in SUBSET g.nodes
      BY <1>1, <3>1
    <3>3. Cardinality(f[N]) = N /\ Cardinality(f[N]) \in Nat
      BY <1>0, <1>1, <3>2, FS_Subset, FS_CardinalityType
    <3>4. f[N] = g.nodes
      BY <1>0, <1>1, <3>2, <3>3, FS_Subset
    <3>5. QED
      BY <3>4 DEF Closed
  <2>3. QED
    BY <2>1, <2>2
<1>6. QED
  BY <1>1, <1>2, <1>4, <1>5

(* Where every node of a set waits for another of the set, by an edge that *)
(* is not a loop's own, one lies on a cycle: the node from which the most  *)
(* is reached is reached from its predecessor, which reaches no more.      *)
LEMMA WaitingIsCyclic ==
  ASSUME NEW g, IsFiniteSet(g.nodes), g.edges \in SUBSET (g.nodes \X g.nodes),
         NEW U \in SUBSET g.nodes, U # {},
         \A n \in U : \E m \in U : <<m, n>> \in g.edges \ LoopBacks(g)
  PROVE  \E n \in U : OnCycle(g, n)
<1> DEFINE E == g.edges \ LoopBacks(g)
           Next(n) == {e[2] : e \in {d \in E : d[1] = n}}
           B(n) == Reached(g, E, Next(n))
<1>1. E \in SUBSET (g.nodes \X g.nodes)
  OBVIOUS
<1>2. \A n \in g.nodes : B(n) \in SUBSET g.nodes /\ Next(n) \subseteq B(n) /\ Closed(E, B(n))
                         /\ \A C : Next(n) \subseteq C /\ Closed(E, C) => B(n) \subseteq C
  <2>1. SUFFICES ASSUME NEW n \in g.nodes
                 PROVE  /\ B(n) \in SUBSET g.nodes /\ Next(n) \subseteq B(n) /\ Closed(E, B(n))
                        /\ \A C : Next(n) \subseteq C /\ Closed(E, C) => B(n) \subseteq C
    OBVIOUS
  <2>2. PICK edges, start : edges = E /\ start = Next(n)
    OBVIOUS
  <2>3. edges \in SUBSET (g.nodes \X g.nodes) /\ start \in SUBSET g.nodes
    BY <1>1, <2>2
  <2>4. PICK R : R = Reached(g, edges, start)
    OBVIOUS
  <2>5. /\ start \subseteq R /\ R \subseteq g.nodes /\ Closed(edges, R)
        /\ \A C : start \subseteq C /\ Closed(edges, C) => R \subseteq C
    BY <2>3, <2>4, ReachedIsLeast
  <2>6. QED
    BY <2>2, <2>4, <2>5
<1>3. \A n \in g.nodes : OnCycle(g, n) <=> n \in B(n)
  BY DEF OnCycle
<1> DEFINE F == {g.nodes \ B(n) : n \in U}
<1>4. PICK least \in F : \A other \in F : other \subseteq least => other = least
  <2>1. F \in SUBSET (SUBSET g.nodes) /\ F # {}
    <3> HIDE DEF B
    <3>1. QED
      OBVIOUS
  <2> HIDE DEF F
  <2>2. PICK nodes, family : nodes = g.nodes /\ family = F
    OBVIOUS
  <2>3. IsFiniteSet(nodes) /\ family \in SUBSET (SUBSET nodes) /\ family # {}
    BY <2>1, <2>2
  <2>4. QED
    BY <2>2, <2>3, SmallestSet
<1>5. PICK n \in U : least = g.nodes \ B(n)
  BY <1>4
<1>6. PICK m \in U : <<m, n>> \in E
  BY <1>5
<1>7. n \in g.nodes /\ m \in g.nodes
  OBVIOUS
<1>8. n \in B(m)
  <2>1. n \in Next(m)
    BY <1>6
  <2> HIDE DEF Next, B
  <2>2. QED
    BY <1>2, <1>7, <2>1
<1>9. Next(n) \subseteq B(m)
  <2>1. Closed(E, B(m))
    BY <1>2, <1>7
  <2> HIDE DEF B
  <2>2. QED
    BY <1>8, <2>1 DEF Closed
<1>10. B(n) \subseteq B(m)
  <2> HIDE DEF B, Next
  <2>1. QED
    BY <1>2, <1>7, <1>9
<1>11. n \in B(n)
  <2>1. g.nodes \ B(m) \in F
    <3>1. PICK b : b = B(m)
      OBVIOUS
    <3> HIDE DEF E
    <3>2. \E k \in U : g.nodes \ b = g.nodes \ B(k)
      BY <3>1
    <3> HIDE DEF B
    <3>3. QED
      BY <3>1, <3>2
  <2> HIDE DEF B, F
  <2>2. g.nodes \ B(m) = g.nodes \ B(n)
    BY <1>4, <1>5, <1>10, <2>1
  <2>3. QED
    BY <1>7, <1>8, <2>2
<1>12. QED
  BY <1>3, <1>7, <1>11

(***************************************************************************)
(* The graph of a plan.  The totals are those of a recursion on the sizes, *)
(* and grow; the nodes of one layer are of one kind, a loop stands above   *)
(* the first layer, and no layer below a node is empty when there are      *)
(* reviews or loops.                                                       *)
(***************************************************************************)
LEMMA SizesAre ==
  ASSUME NEW p \in PlanShapes
  PROVE  /\ p.groups \in Seq(Nat) /\ p.reviews \in Nat /\ p.loops \in Nat
         /\ Sizes(p) \in Seq(Nat) /\ Len(Sizes(p)) = Len(p.groups) + p.reviews + p.loops
         /\ Len(p.groups) \in Nat \ {0}
         /\ \E i \in 1..Len(Sizes(p)) : Sizes(p)[i] > 0
         /\ p.reviews + p.loops > 0 => \A i \in 1..Len(Sizes(p)) : Sizes(p)[i] > 0
<1>1. /\ p.groups \in Seq(Nat) /\ p.reviews \in Nat /\ p.loops \in Nat
      /\ \E i \in DOMAIN p.groups : p.groups[i] > 0
      /\ p.reviews + p.loops > 0 => \A i \in DOMAIN p.groups : p.groups[i] > 0
  BY GraphAssumption
<1>2. PICK a, b : a = p.groups /\ b = p.reviews + p.loops
  OBVIOUS
<1>3. a \in Seq(Nat) /\ b \in Nat
  BY <1>1, <1>2
<1>4. PICK ones \in Seq(Nat) : /\ ones = [r \in 1..b |-> 1] /\ Len(ones) = b
                               /\ \A r \in 1..b : ones[r] = 1
  <2>1. PICK ones : ones = [r \in 1..b |-> 1]
    OBVIOUS
  <2>2. ones \in [1..b -> Nat] /\ DOMAIN ones = 1..b
    BY <2>1
  <2>3. ones \in Seq(Nat) /\ Len(ones) = b
    BY <1>3, <2>2
  <2>4. QED
    BY <2>1, <2>3
<1>5. Sizes(p) = a \o ones
  BY <1>2, <1>4 DEF Sizes
<1>6. /\ Len(a) \in Nat /\ Len(a \o ones) = Len(a) + b /\ a \o ones \in Seq(Nat)
      /\ \A i \in 1..(Len(a) + b) :
           (a \o ones)[i] = IF i <= Len(a) THEN a[i] ELSE ones[i - Len(a)]
  BY <1>3, <1>4
<1>7. DOMAIN a = 1..Len(a)
  BY <1>3
<1>8. Len(a) # 0 /\ \E i \in 1..(Len(a) + b) : (a \o ones)[i] > 0
  BY <1>1, <1>2, <1>3, <1>6, <1>7, SMTT(30)
<1>9. ASSUME b > 0, NEW i \in 1..(Len(a) + b) PROVE (a \o ones)[i] > 0
  <2>1. CASE i <= Len(a)
    <3>1. i \in DOMAIN a /\ p.reviews + p.loops > 0
      BY <1>2, <1>6, <1>7, <1>9, <2>1
    <3>2. a[i] > 0
      BY <1>1, <1>2, <3>1
    <3>3. (a \o ones)[i] = a[i]
      BY <1>6, <1>9, <2>1
    <3>4. QED
      BY <3>2, <3>3
  <2>2. CASE i > Len(a)
    <3>1. i - Len(a) \in 1..b
      BY <1>3, <1>6, <1>9, <2>2
    <3>2. (a \o ones)[i] = ones[i - Len(a)]
      BY <1>6, <1>9, <2>2
    <3>3. ones[i - Len(a)] = 1
      BY <1>4, <3>1
    <3>4. QED
      BY <3>2, <3>3
  <2>3. QED
    BY <1>6, <2>1, <2>2
<1>10. Len(Sizes(p)) = Len(a) + b /\ Len(a) + b = Len(p.groups) + p.reviews + p.loops
  <2>1. Len(Sizes(p)) = Len(a) + b
    BY <1>5, <1>6
  <2>2. Len(a) + b = Len(p.groups) + p.reviews + p.loops
    BY <1>1, <1>2, <1>6, SMTT(30)
  <2>3. QED
    BY <2>1, <2>2
<1>11. QED
  BY <1>1, <1>2, <1>3, <1>5, <1>6, <1>8, <1>9, <1>10

Sums(T, n, sizes) ==
  T \in [0..n -> Nat] /\ T[0] = 0 /\ \A i \in 1..n : T[i] = T[i - 1] + sizes[i]

LEMMA TotalsAre ==
  ASSUME NEW p \in PlanShapes
  PROVE  Sums(Totals(p), Len(Sizes(p)), Sizes(p))
<1>1. PICK N, sizes : N = Len(Sizes(p)) /\ sizes = Sizes(p)
  OBVIOUS
<1>2. N \in Nat /\ sizes \in Seq(Nat) /\ \A i \in 1..N : sizes[i] \in Nat
  BY <1>1, SizesAre
<1> DEFINE step == [x \in (1..N) \X Nat |-> x[2] + sizes[x[1]]]
           D(h) == [i \in 0..N |-> IF i = 0 THEN 0 ELSE h[i - 1] + sizes[i]]
<1>3. PICK f : Iteration(f, N, Nat, 0, step)
  <2>1. PICK next, nats : next = step /\ nats = Nat
    OBVIOUS
  <2>2. next \in [(1..N) \X nats -> nats] /\ 0 \in nats
    BY <1>2, <2>1
  <2>3. \E f : Iteration(f, N, nats, 0, next)
    BY <1>2, <2>2, Iterates
  <2>4. QED
    BY <2>1, <2>3
<1>4. Sums(f, N, sizes)
  <2>1. /\ f \in [0..N -> Nat] /\ f[0] = 0
        /\ \A k \in 1..N : f[k] = step[<<k, f[k - 1]>>]
    BY <1>3 DEF Iteration
  <2>2. ASSUME NEW k \in 1..N PROVE f[k] = f[k - 1] + sizes[k]
    <3>1. <<k, f[k - 1]>> \in (1..N) \X Nat
      BY <1>2, <2>1
    <3>2. QED
      BY <2>1, <3>1
  <2>3. QED
    BY <2>1, <2>2 DEF Sums
<1>5. f = D(f)
  BY <1>2, <1>4 DEF Sums
<1>6. PICK h : h = CHOOSE t : t = D(t)
  OBVIOUS
<1>7. h = D(h)
  <2> HIDE DEF D
  <2>1. QED
    BY <1>5, <1>6
<1>8. Totals(p) = h
  BY <1>1, <1>6 DEF Totals
<1>9. PICK o : o = h
  OBVIOUS
<1>10. h = D(o)
  BY <1>7, <1>9
<1>11. h = [i \in 0..N |-> h[i]] /\ h[0] = 0 /\ \A i \in 1..N : h[i] = o[i - 1] + sizes[i]
  BY <1>2, <1>10
<1>12. \A i \in 0..N : h[i] = f[i]
  <2> DEFINE W == {i \in 0..N : h[i] # f[i]}
  <2>1. SUFFICES ASSUME W # {} PROVE FALSE
    OBVIOUS
  <2>2. PICK x \in W : \A y \in W : x <= y
    <3>1. W \in SUBSET Nat
      OBVIOUS
    <3> HIDE DEF W
    <3>2. QED
      BY <2>1, <3>1, LeastNat
  <2>3. x # 0
    BY <1>4, <1>11, <2>2 DEF Sums
  <2>4. x \in 1..N /\ x - 1 \in 0..N /\ h[x - 1] = f[x - 1]
    BY <1>2, <2>2, <2>3, SMTT(30)
  <2>5. QED
    BY <1>4, <1>9, <1>11, <2>2, <2>4 DEF Sums
<1>13. h = f
  BY <1>4, <1>11, <1>12 DEF Sums
<1>14. QED
  BY <1>1, <1>4, <1>8, <1>13

LEMMA TotalsGrow ==
  ASSUME NEW n \in Nat, NEW T, NEW sizes, Sums(T, n, sizes), \A i \in 1..n : sizes[i] \in Nat
  PROVE  \A i \in 0..n : \A j \in i..n :
           /\ T[i] <= T[j]
           /\ (\A k \in 1..n : sizes[k] > 0) /\ i < j => T[i] < T[j]
<1>1. SUFFICES ASSUME NEW i \in 0..n
               PROVE  \A j \in i..n : /\ T[i] <= T[j]
                                      /\ (\A k \in 1..n : sizes[k] > 0) /\ i < j => T[i] < T[j]
  OBVIOUS
<1> DEFINE Grown(j) == /\ T[i] <= T[j]
                       /\ (\A k \in 1..n : sizes[k] > 0) /\ i < j => T[i] < T[j]
           W == {j \in i..n : ~Grown(j)}
<1>2. SUFFICES ASSUME W # {} PROVE FALSE
  OBVIOUS
<1>3. PICK x \in W : \A y \in W : x <= y
  <2>1. W \in SUBSET Nat
    BY <1>1
  <2> HIDE DEF W
  <2>2. QED
    BY <1>2, <2>1, LeastNat
<1>4. x # i
  BY <1>3 DEF Sums
<1>5. x \in 1..n /\ x - 1 \in i..n /\ x - 1 \notin W
  BY <1>3, <1>4
<1>6. T[x] = T[x - 1] + sizes[x] /\ T[i] \in Nat /\ T[x - 1] \in Nat /\ sizes[x] \in Nat
  BY <1>5, SMTT(30) DEF Sums
<1>7. T[i] <= T[x - 1]
  BY <1>5
<1>8. QED
  BY <1>3, <1>5, <1>6, <1>7

PlanNodes(p) == GraphFromPlan(p).nodes

LEMMA PlanGraphIs ==
  ASSUME NEW p \in PlanShapes
  PROVE  /\ PlanNodes(p) = 1..Totals(p)[Len(Sizes(p))]
         /\ GraphFromPlan(p).kind = [n \in PlanNodes(p) |-> Kind(p, n)]
         /\ GraphFromPlan(p).planned
         /\ \A a, b : <<a, b>> \in GraphFromPlan(p).edges <=>
              /\ a \in PlanNodes(p) /\ b \in PlanNodes(p)
              /\ Layer(p, b) = Layer(p, a) + 1 \/ (a = b /\ Kind(p, a) = "loop")
         /\ GraphFromPlan(p).edges \in SUBSET (PlanNodes(p) \X PlanNodes(p))
<1>1. PICK N : N = 1..Totals(p)[Len(Sizes(p))]
  OBVIOUS
<1> DEFINE layer == [n \in N |-> Layer(p, n)]
           E == {e \in N \X N : layer[e[2]] = layer[e[1]] + 1}
                  \cup {<<n, n>> : n \in {m \in N : Kind(p, m) = "loop"}}
<1>2. GraphFromPlan(p) = [nodes |-> N, kind |-> [n \in N |-> Kind(p, n)], planned |-> TRUE, edges |-> E]
  BY <1>1 DEF GraphFromPlan
<1>3. \A a, b : <<a, b>> \in E <=> /\ a \in N /\ b \in N
                                   /\ Layer(p, b) = Layer(p, a) + 1 \/ (a = b /\ Kind(p, a) = "loop")
  OBVIOUS
<1>4. E \in SUBSET (N \X N)
  OBVIOUS
<1> HIDE DEF E
<1>5. QED
  BY <1>1, <1>2, <1>3, <1>4 DEF PlanNodes

(* The totals below a node's number are the first ones.                    *)
LEMMA LayerIs ==
  ASSUME NEW p \in PlanShapes, NEW n \in PlanNodes(p)
  PROVE  \E k \in 1..Len(Sizes(p)) :
           /\ Layer(p, n) = k
           /\ \A i \in 1..Len(Sizes(p)) : Totals(p)[i] < n <=> i < k
<1>1. PICK N, T, sizes : N = Len(Sizes(p)) /\ T = Totals(p) /\ sizes = Sizes(p)
  OBVIOUS
<1>2. N \in Nat /\ Sums(T, N, sizes) /\ \A i \in 1..N : sizes[i] \in Nat
  BY <1>1, SizesAre, TotalsAre
<1>3. T \in [0..N -> Nat] /\ T[0] = 0 /\ n \in Nat /\ n >= 1 /\ n <= T[N]
  <2>1. n \in 1..T[N]
    BY <1>1, PlanGraphIs
  <2>2. T \in [0..N -> Nat] /\ T[0] = 0 /\ T[N] \in Nat
    BY <1>2 DEF Sums
  <2>3. QED
    BY <2>1, <2>2
<1> DEFINE W == {i \in 1..N : ~(T[i] < n)}
<1>4. N \in W
  BY <1>2, <1>3
<1>5. PICK k \in W : \A i \in W : k <= i
  <2>1. W \in SUBSET Nat /\ W # {}
    BY <1>4
  <2> HIDE DEF W
  <2>2. QED
    BY <2>1, LeastNat
<1>6. \A i \in 1..N : T[i] < n <=> i < k
  <2>1. SUFFICES ASSUME NEW i \in 1..N PROVE T[i] < n <=> i < k
    OBVIOUS
  <2>2. CASE i < k
    BY <1>2, <1>5, <2>2
  <2>3. CASE k <= i
    <3>1. T[k] <= T[i]
      BY <1>2, <1>5, <2>3, TotalsGrow
    <3>2. QED
      BY <1>3, <1>5, <2>3, <3>1
  <2>4. QED
    BY <1>2, <1>5, <2>2, <2>3
<1>7. {i \in 1..N : T[i] < n} = 1..(k - 1)
  BY <1>2, <1>5, <1>6
<1>8. Cardinality(1..(k - 1)) = k - 1
  BY <1>5, FS_Interval
<1>9. Layer(p, n) = k
  <2>1. Layer(p, n) = 1 + Cardinality({i \in 1..N : T[i] < n})
    BY <1>1 DEF Layer
  <2>2. Cardinality({i \in 1..N : T[i] < n}) = k - 1
    BY <1>7, <1>8
  <2>3. k \in Nat
    BY <1>2, <1>5
  <2> HIDE DEF W
  <2>4. QED
    BY <2>1, <2>2, <2>3
<1>10. QED
  BY <1>1, <1>5, <1>6, <1>9

LEMMA PlanLayers ==
  ASSUME NEW p \in PlanShapes
  PROVE  /\ IsFiniteSet(PlanNodes(p)) /\ PlanNodes(p) # {}
         /\ \A n \in PlanNodes(p) :
              /\ Layer(p, n) \in Nat \ {0}
              /\ Kind(p, n) \in {"task", "review", "loop"}
              /\ Kind(p, n) = "loop" => Layer(p, n) > 1
              /\ Kind(p, n) # "task" => p.reviews + p.loops > 0
              /\ Kind(p, n) = "review" => p.reviews > 0
              /\ p.reviews + p.loops > 0 /\ Layer(p, n) > 1 =>
                   \E m \in PlanNodes(p) : Layer(p, n) = Layer(p, m) + 1
<1>1. PICK N, T, sizes : N = Len(Sizes(p)) /\ T = Totals(p) /\ sizes = Sizes(p)
  OBVIOUS
<1>2. /\ N \in Nat /\ Sums(T, N, sizes) /\ \A i \in 1..N : sizes[i] \in Nat
      /\ p.reviews \in Nat /\ p.loops \in Nat /\ Len(p.groups) \in Nat \ {0}
      /\ N = Len(p.groups) + p.reviews + p.loops
      /\ \E i \in 1..N : sizes[i] > 0
      /\ p.reviews + p.loops > 0 => \A i \in 1..N : sizes[i] > 0
  BY <1>1, SizesAre, TotalsAre, SMTT(30)
<1>3. PlanNodes(p) = 1..T[N] /\ T[N] \in Nat /\ T \in [0..N -> Nat] /\ T[0] = 0
  <2>1. PlanNodes(p) = 1..T[N]
    BY <1>1, PlanGraphIs
  <2>2. T \in [0..N -> Nat] /\ T[0] = 0 /\ T[N] \in Nat
    BY <1>2 DEF Sums
  <2>3. QED
    BY <2>1, <2>2
<1>4. IsFiniteSet(PlanNodes(p))
  BY <1>3, FS_Interval
<1>5. PlanNodes(p) # {}
  <2>1. PICK i \in 1..N : sizes[i] > 0
    BY <1>2
  <2>2. T[i] = T[i - 1] + sizes[i] /\ T[i - 1] \in Nat /\ sizes[i] \in Nat /\ i \in 0..N /\ N \in i..N
    <3>1. i - 1 \in 0..N /\ i \in 0..N /\ N \in i..N /\ sizes[i] \in Nat
      BY <1>2
    <3>2. T[i] = T[i - 1] + sizes[i]
      BY <1>2 DEF Sums
    <3>3. QED
      BY <1>3, <3>1, <3>2
  <2>3. T[i] <= T[N]
    BY <1>2, <2>2, TotalsGrow
  <2>4. T[N] >= 1
    BY <1>3, <2>1, <2>2, <2>3
  <2>5. QED
    BY <1>3, <2>4
<1>6. ASSUME NEW n \in PlanNodes(p)
      PROVE  /\ Layer(p, n) \in Nat \ {0}
             /\ Kind(p, n) \in {"task", "review", "loop"}
             /\ Kind(p, n) = "loop" => Layer(p, n) > 1
             /\ Kind(p, n) # "task" => p.reviews + p.loops > 0
             /\ Kind(p, n) = "review" => p.reviews > 0
             /\ p.reviews + p.loops > 0 /\ Layer(p, n) > 1 =>
                  \E m \in PlanNodes(p) : Layer(p, n) = Layer(p, m) + 1
  <2>1. PICK k \in 1..N : /\ Layer(p, n) = k
                          /\ \A i \in 1..N : T[i] < n <=> i < k
    BY <1>1, LayerIs
  <2>2. /\ Kind(p, n) \in {"task", "review", "loop"}
        /\ Kind(p, n) = "loop" => k > 1
        /\ Kind(p, n) # "task" => p.reviews + p.loops > 0
        /\ Kind(p, n) = "review" => p.reviews > 0
    BY <1>2, <2>1 DEF Kind
  <2>3. ASSUME p.reviews + p.loops > 0, k > 1
        PROVE  \E m \in PlanNodes(p) : k = Layer(p, m) + 1
    <3>1. PICK j \in 1..N : j = k - 1
      BY <1>2, <2>1, <2>3
    <3>2. 0 \in 0..N /\ j \in 0..N /\ N \in j..N
      BY <1>2, <3>1
    <3>3. T[0] < T[j] /\ T[j] <= T[N]
      BY <1>2, <2>3, <3>2, TotalsGrow
    <3>4. T[j] \in PlanNodes(p)
      BY <1>3, <3>2, <3>3
    <3>5. PICK l \in 1..N : /\ Layer(p, T[j]) = l
                            /\ \A i \in 1..N : T[i] < T[j] <=> i < l
      BY <1>1, <3>4, LayerIs
    <3>6. ~(j < l)
      BY <1>3, <3>2, <3>5
    <3>7. ASSUME l < j PROVE FALSE
      <4>1. l \in 0..N /\ j \in l..N
        BY <1>2, <3>1, <3>5, <3>7
      <4>2. T[l] < T[j]
        BY <1>2, <2>3, <3>7, <4>1, TotalsGrow
      <4>3. QED
        BY <3>5, <4>2
    <3>8. l = j
      BY <3>6, <3>7
    <3>9. QED
      BY <2>1, <3>1, <3>4, <3>5, <3>8
  <2>4. QED
    BY <2>1, <2>2, <2>3
<1>7. QED
  BY <1>4, <1>5, <1>6

(* A plan's graph validates: layers rise along its edges, and a node that  *)
(* is not in the first layer with nodes has a predecessor there.           *)
LEMMA PlansAreAccepted ==
  ASSUME NEW p \in PlanShapes
  PROVE  Accepted(GraphFromPlan(p)) /\ NoWarnings(GraphFromPlan(p))
<1>1. PICK g : g = GraphFromPlan(p) /\ g.nodes = PlanNodes(p)
  BY DEF PlanNodes
<1>2. /\ g.kind = [n \in g.nodes |-> Kind(p, n)] /\ g.edges \in SUBSET (g.nodes \X g.nodes)
      /\ \A a, b : <<a, b>> \in g.edges <=>
           /\ a \in g.nodes /\ b \in g.nodes
           /\ Layer(p, b) = Layer(p, a) + 1 \/ (a = b /\ Kind(p, a) = "loop")
  BY <1>1, PlanGraphIs
<1>3. /\ IsFiniteSet(g.nodes) /\ g.nodes # {}
      /\ \A n \in g.nodes :
           /\ Layer(p, n) \in Nat \ {0}
           /\ Kind(p, n) = "loop" => \E m \in g.nodes : Layer(p, n) = Layer(p, m) + 1
  BY <1>1, PlanLayers
<1>4. ASSUME NEW n \in g.nodes, n \notin Roots(g)
      PROVE  \E m \in g.nodes : <<m, n>> \in g.edges /\ Layer(p, n) = Layer(p, m) + 1
  <2>1. PICK m : <<m, n>> \in g.edges
    <3>1. PICK e \in g.edges : e[2] = n
      BY <1>4 DEF Roots, Into
    <3>2. e = <<e[1], n>>
      BY <1>2, <3>1
    <3>3. QED
      BY <3>1, <3>2
  <2>2. QED
    BY <1>2, <1>3, <2>1
<1>5. ASSUME NEW S \in SUBSET g.nodes, S # {}
      PROVE  \E n \in S : \A m \in S : Layer(p, n) <= Layer(p, m)
  <2> DEFINE L == {Layer(p, n) : n \in S}
  <2>1. L \in SUBSET Nat /\ L # {}
    BY <1>3, <1>5
  <2>2. PICK l \in L : \A k \in L : l <= k
    <3> HIDE DEF L
    <3>1. QED
      BY <2>1, LeastNat
  <2>3. QED
    BY <2>2
<1>6. Roots(g) # {}
  <2>1. PICK n \in g.nodes : \A m \in g.nodes : Layer(p, n) <= Layer(p, m)
    BY <1>3, <1>5
  <2>2. ASSUME n \notin Roots(g) PROVE FALSE
    <3>1. PICK m \in g.nodes : Layer(p, n) = Layer(p, m) + 1
      BY <1>4, <2>2
    <3>2. QED
      BY <1>3, <2>1, <3>1
  <2>3. QED
    BY <2>2
<1>7. ~CycleFound(g)
  <2>1. SUFFICES ASSUME NEW n \in g.nodes, OnCycle(g, n) PROVE FALSE
    <3>1. Visited(g) \subseteq g.nodes
      BY <1>2, <1>3, ReachedIsLeast DEF Visited, Roots
    <3>2. QED
      BY <3>1 DEF CycleFound
  <2>2. PICK E, start : E = g.edges \ LoopBacks(g) /\ start = {e[2] : e \in {d \in E : d[1] = n}}
    OBVIOUS
  <2>3. E \in SUBSET (g.nodes \X g.nodes) /\ start \in SUBSET g.nodes
    BY <1>2, <2>2
  <2>4. n \in Reached(g, E, start)
    BY <2>1, <2>2 DEF OnCycle
  <2>5. \A e \in E : Layer(p, e[2]) = Layer(p, e[1]) + 1
    <3>1. SUFFICES ASSUME NEW e \in E PROVE Layer(p, e[2]) = Layer(p, e[1]) + 1
      OBVIOUS
    <3>2. e = <<e[1], e[2]>> /\ e \in g.edges /\ e \notin LoopBacks(g) /\ e[1] \in g.nodes
      BY <1>2, <2>2
    <3>3. ~(e[1] = e[2] /\ Kind(p, e[1]) = "loop")
      BY <1>2, <3>2 DEF LoopBacks
    <3>4. QED
      BY <1>2, <3>2, <3>3
  <2> DEFINE C == {m \in g.nodes : Layer(p, m) > Layer(p, n)}
  <2>6. \A e \in E : e[1] \in g.nodes /\ e[2] \in g.nodes
    BY <2>3
  <2>7. start \subseteq C
    BY <1>3, <2>2, <2>3, <2>5
  <2>8. Closed(E, C)
    BY <1>3, <2>5, <2>6 DEF Closed
  <2>9. Reached(g, E, start) \subseteq C
    <3> HIDE DEF C
    <3>1. QED
      BY <1>3, <2>3, <2>7, <2>8, ReachedIsLeast
  <2>10. QED
    BY <1>3, <2>4, <2>9
<1>8. NoWarnings(g)
  <2>1. PICK V : V = Visited(g)
    OBVIOUS
  <2>2. Roots(g) \in SUBSET g.nodes
    BY DEF Roots
  <2>3. Roots(g) \subseteq V /\ V \subseteq g.nodes /\ Closed(g.edges, V)
    BY <1>2, <1>3, <2>1, <2>2, ReachedIsLeast DEF Visited
  <2>4. ASSUME g.nodes \ V # {} PROVE FALSE
    <3>1. PICK n \in g.nodes \ V : \A m \in g.nodes \ V : Layer(p, n) <= Layer(p, m)
      BY <1>5, <2>4
    <3>2. PICK m \in g.nodes : <<m, n>> \in g.edges /\ Layer(p, n) = Layer(p, m) + 1
      BY <1>4, <2>3, <3>1
    <3>3. m \in V
      BY <1>3, <3>1, <3>2
    <3>4. QED
      BY <2>3, <3>1, <3>2, <3>3 DEF Closed
  <2>5. QED
    BY <2>1, <2>3, <2>4 DEF NoWarnings
<1>9. QED
  BY <1>1, <1>6, <1>7, <1>8 DEF Accepted

(***************************************************************************)
(* Batches.  What is handed out waits for nothing but itself; when the     *)
(* loop ends with its note every node left waits for another one left; and *)
(* a plan with reviews is handed out layer by layer, so that no review is  *)
(* queued beside a step, which would be handed out twice.                  *)
(***************************************************************************)
Waits(n) == Into(graph, n) \ {n}

LayerByLayer(p) ==
  \E l \in Nat \ {0} : /\ done = {n \in graph.nodes : Layer(p, n) < l}
                       /\ queue = {n \in graph.nodes : Layer(p, n) = l}

PlanKept(p) ==
  /\ graph = GraphFromPlan(p) /\ queue \cap done = {}
  /\ \A n \in graph.nodes : emitted[n] = IF n \in done THEN Times(n) ELSE 0
  /\ p.reviews > 0 /\ over = "no" => LayerByLayer(p)

GraphInv ==
  /\ IsFiniteSet(graph.nodes) /\ graph.edges \in SUBSET (graph.nodes \X graph.nodes)
  /\ done \subseteq graph.nodes /\ queue \subseteq graph.nodes /\ emitted \in [graph.nodes -> Nat]
  /\ \A n \in graph.nodes : n \in queue \/ emitted[n] > 0 => Waits(n) \subseteq done
  /\ over \in {"no", "silent", "noted", "complete"}
  /\ over = "silent" \/ (over = "no" /\ queue = {}) => Roots(graph) = {}
  /\ over = "noted" => done # graph.nodes /\ \A n \in graph.nodes \ done : ~Unblocked(n, done)
  /\ over = "complete" => done = graph.nodes
  /\ graph.planned => \E p \in PlanShapes : PlanKept(p)

LEMMA PlanEdges ==
  ASSUME NEW p \in PlanShapes, graph = GraphFromPlan(p)
  PROVE  /\ graph.nodes = PlanNodes(p)
         /\ \A n \in graph.nodes : graph.kind[n] = Kind(p, n)
         /\ \A n \in graph.nodes : Into(graph, n) =
              {m \in graph.nodes : Layer(p, n) = Layer(p, m) + 1 \/ (m = n /\ Kind(p, n) = "loop")}
<1>1. /\ graph.nodes = PlanNodes(p) /\ graph.kind = [n \in graph.nodes |-> Kind(p, n)]
      /\ graph.edges \in SUBSET (graph.nodes \X graph.nodes)
      /\ \A a, b : <<a, b>> \in graph.edges <=>
           /\ a \in graph.nodes /\ b \in graph.nodes
           /\ Layer(p, b) = Layer(p, a) + 1 \/ (a = b /\ Kind(p, a) = "loop")
  BY PlanGraphIs DEF PlanNodes
<1>2. ASSUME NEW n, NEW m PROVE m \in Into(graph, n) <=> <<m, n>> \in graph.edges
  <2>1. ASSUME m \in Into(graph, n) PROVE <<m, n>> \in graph.edges
    <3>1. PICK e \in graph.edges : e[2] = n /\ e[1] = m
      BY <2>1 DEF Into
    <3>2. e = <<m, n>>
      BY <1>1, <3>1
    <3>3. QED
      BY <3>1, <3>2
  <2>2. ASSUME <<m, n>> \in graph.edges PROVE m \in Into(graph, n)
    BY <2>2 DEF Into
  <2>3. QED
    BY <2>1, <2>2
<1>3. ASSUME NEW n \in graph.nodes
      PROVE  Into(graph, n) =
               {m \in graph.nodes : Layer(p, n) = Layer(p, m) + 1 \/ (m = n /\ Kind(p, n) = "loop")}
  BY <1>1, <1>2
<1>4. QED
  BY <1>1, <1>3

LEMMA GraphStarts == GraphInit => GraphInv
<1>1. SUFFICES ASSUME GraphInit PROVE GraphInv
  OBVIOUS
<1>2. queue = Roots(graph) /\ done = {} /\ emitted = [n \in graph.nodes |-> 0] /\ over = "no"
  BY <1>1 DEF GraphInit
<1>3. /\ queue \subseteq graph.nodes /\ emitted \in [graph.nodes -> Nat]
      /\ \A n \in graph.nodes : emitted[n] = 0
  BY <1>2 DEF Roots
<1>4. \A n \in queue : Waits(n) \subseteq done
  BY <1>2 DEF Roots, Waits
<1>5. CASE graph \in UserGraphs
  <2>1. /\ graph.nodes = UserNodes /\ graph.planned = FALSE
        /\ graph.edges \in SUBSET (graph.nodes \X graph.nodes)
    BY <1>5 DEF UserGraphs
  <2>2. IsFiniteSet(graph.nodes)
    BY <2>1, GraphAssumption
  <2>3. QED
    BY <1>2, <1>3, <1>4, <2>1, <2>2 DEF GraphInv
<1>6. ASSUME NEW p \in PlanShapes, graph = GraphFromPlan(p) PROVE GraphInv
  <2>1. /\ IsFiniteSet(graph.nodes) /\ graph.edges \in SUBSET (graph.nodes \X graph.nodes)
        /\ graph.nodes = PlanNodes(p)
    BY <1>6, PlanGraphIs, PlanLayers DEF PlanNodes
  <2>2. ASSUME p.reviews > 0 PROVE LayerByLayer(p)
    <3>1. p.reviews + p.loops > 0
      BY <2>2, SizesAre
    <3>2. ASSUME NEW n \in graph.nodes PROVE Into(graph, n) = {} <=> Layer(p, n) = 1
      <4>1. /\ Layer(p, n) \in Nat \ {0} /\ Kind(p, n) = "loop" => Layer(p, n) > 1
            /\ \A m \in graph.nodes : Layer(p, m) \in Nat \ {0}
            /\ Layer(p, n) > 1 => \E m \in graph.nodes : Layer(p, n) = Layer(p, m) + 1
        BY <2>1, <3>1, PlanLayers
      <4>2. Into(graph, n) =
              {m \in graph.nodes : Layer(p, n) = Layer(p, m) + 1 \/ (m = n /\ Kind(p, n) = "loop")}
        BY <1>6, PlanEdges
      <4>3. QED
        BY <4>1, <4>2
    <3>3. queue = {n \in graph.nodes : Layer(p, n) = 1}
      BY <1>2, <3>2 DEF Roots
    <3>4. done = {n \in graph.nodes : Layer(p, n) < 1}
      BY <1>2, <2>1, PlanLayers
    <3>5. QED
      BY <3>3, <3>4 DEF LayerByLayer
  <2>3. PlanKept(p)
    BY <1>2, <1>3, <1>6, <2>2 DEF PlanKept
  <2>4. QED
    BY <1>2, <1>3, <1>4, <2>1, <2>3 DEF GraphInv
<1>7. QED
  BY <1>1, <1>5, <1>6 DEF GraphInit

LEMMA RequeueFits ==
  ASSUME GraphInv, NEW finished \in SUBSET graph.nodes, done \subseteq finished,
         Requeue(finished), UNCHANGED graph
  PROVE  /\ done' = finished /\ queue' \subseteq graph.nodes /\ queue' \cap finished = {}
         /\ queue' = {n \in graph.nodes \ finished : Unblocked(n, finished)}
         /\ \A n \in queue' : Waits(n) \subseteq finished
         /\ over' \in {"no", "noted", "complete"} /\ (over' = "no" => queue' # {})
         /\ over' = "noted" => finished # graph.nodes
                               /\ \A n \in graph.nodes \ finished : ~Unblocked(n, finished)
         /\ over' = "complete" => finished = graph.nodes
<1>1. /\ done' = finished /\ queue' = {n \in graph.nodes \ finished : Unblocked(n, finished)}
      /\ over' = IF queue' # {} THEN "no" ELSE IF finished = graph.nodes THEN "complete" ELSE "noted"
  BY DEF Requeue
<1>2. \A n \in queue' : Waits(n) \subseteq finished
  BY <1>1 DEF Unblocked, Waits
<1>3. QED
  BY <1>1, <1>2

(* The next layer is ready just when the layers below it are done.         *)
LEMMA NextLayer ==
  ASSUME GraphInv, NEW p \in PlanShapes, graph = GraphFromPlan(p), p.reviews > 0, LayerByLayer(p),
         Requeue(done \cup queue), UNCHANGED graph
  PROVE  LayerByLayer(p)'
<1>1. PICK l \in Nat \ {0} : /\ done = {n \in graph.nodes : Layer(p, n) < l}
                             /\ queue = {n \in graph.nodes : Layer(p, n) = l}
  BY DEF LayerByLayer
<1>2. PICK finished : finished = done \cup queue
  OBVIOUS
<1>3. done' = finished /\ queue' = {n \in graph.nodes \ finished : Unblocked(n, finished)}
  BY <1>2 DEF Requeue
<1>4. /\ \A n \in graph.nodes :
           /\ Layer(p, n) \in Nat \ {0} /\ (Kind(p, n) = "loop" => Layer(p, n) > 1)
           /\ Layer(p, n) > 1 => \E m \in graph.nodes : Layer(p, n) = Layer(p, m) + 1
      /\ \A n \in graph.nodes : graph.kind[n] = Kind(p, n)
      /\ \A n \in graph.nodes : Into(graph, n) =
           {m \in graph.nodes : Layer(p, n) = Layer(p, m) + 1 \/ (m = n /\ Kind(p, n) = "loop")}
  <2>1. p.reviews + p.loops > 0
    BY SizesAre
  <2>2. QED
    BY <2>1, PlanLayers, PlanEdges
<1>5. finished = {n \in graph.nodes : Layer(p, n) < l + 1}
  BY <1>1, <1>2, <1>4
<1>6. ASSUME NEW n \in graph.nodes
      PROVE  n \notin finished /\ Unblocked(n, finished) <=> Layer(p, n) = l + 1
  <2>1. Unblocked(n, finished) <=>
          \A m \in graph.nodes : Layer(p, n) = Layer(p, m) + 1 => m \in finished \/ m = n
    BY <1>4, <1>5 DEF Unblocked
  <2>2. QED
    BY <1>1, <1>4, <1>5, <2>1
<1>7. /\ done' = {n \in graph'.nodes : Layer(p, n) < l + 1}
      /\ queue' = {n \in graph'.nodes : Layer(p, n) = l + 1}
  BY <1>3, <1>5, <1>6
<1>8. QED
  BY <1>1, <1>7 DEF LayerByLayer

LEMMA PlanSteps ==
  ASSUME GraphInv, NEW p \in PlanShapes, PlanKept(p), HandOut \/ HandOutGates
  PROVE  PlanKept(p)'
<1>1. /\ UNCHANGED graph /\ over = "no" /\ graph = GraphFromPlan(p) /\ queue \cap done = {}
      /\ \A n \in graph.nodes : emitted[n] = IF n \in done THEN Times(n) ELSE 0
      /\ p.reviews > 0 => LayerByLayer(p)
      /\ done \subseteq graph.nodes /\ queue \subseteq graph.nodes
  BY DEF HandOut, HandOutGates, PlanKept, GraphInv
<1>2. \A n \in graph.nodes : Times(n) \in Nat \ {0} /\ Times(n)' = Times(n)
  BY <1>1, GraphAssumption DEF Times
<1>3. ASSUME Requeue(done \cup queue),
             emitted' = [n \in graph.nodes |-> emitted[n] + IF n \in queue THEN Times(n) ELSE 0]
      PROVE  PlanKept(p)'
  <2>1. done' = done \cup queue /\ queue' \cap done' = {}
    BY <1>3 DEF Requeue
  <2>2. \A n \in graph'.nodes : emitted'[n] = IF n \in done' THEN Times(n)' ELSE 0
    BY <1>1, <1>2, <1>3, <2>1
  <2>3. p.reviews > 0 => LayerByLayer(p)'
    BY <1>1, <1>3, NextLayer
  <2>4. QED
    BY <1>1, <2>1, <2>2, <2>3 DEF PlanKept
<1>4. CASE HandOut
  BY <1>3, <1>4 DEF HandOut
<1>5. CASE HandOutGates
  <2>1. PICK r \in queue : graph.kind[r] = "review"
    BY <1>5 DEF HandOutGates, Gate
  <2>2. Kind(p, r) = "review" /\ p.reviews > 0
    BY <1>1, <2>1, PlanEdges, PlanLayers
  <2>3. ASSUME NEW n \in queue PROVE Gate(n) /\ Times(n) = 1
    <3>1. Layer(p, n) = Layer(p, r)
      BY <1>1, <2>2 DEF LayerByLayer
    <3>2. graph.kind[n] = Kind(p, n) /\ Kind(p, n) = Kind(p, r)
      BY <1>1, <3>1, PlanEdges DEF Kind
    <3>3. QED
      BY <2>2, <3>2 DEF Gate, Times
  <2>4. /\ Requeue(done \cup {n \in queue : Gate(n)})
        /\ emitted' = [n \in graph.nodes |-> emitted[n] + IF n \in queue THEN 1 ELSE 0]
    BY <1>5 DEF HandOutGates
  <2>5. {n \in queue : Gate(n)} = queue
    BY <2>3
  <2>6. emitted' = [n \in graph.nodes |-> emitted[n] + IF n \in queue THEN Times(n) ELSE 0]
    BY <2>3, <2>4
  <2>7. QED
    BY <1>3, <2>4, <2>5, <2>6
<1>6. QED
  BY <1>4, <1>5

LEMMA GraphSteps == GraphInv /\ [GraphNext]_graphVars => GraphInv'
<1>1. SUFFICES ASSUME GraphInv, [GraphNext]_graphVars PROVE GraphInv'
  OBVIOUS
<1>2. CASE HandOut \/ HandOutGates
  <2>1. PICK finished, times :
          /\ finished \in SUBSET graph.nodes /\ done \subseteq finished /\ Requeue(finished)
          /\ \A n \in graph.nodes : times[n] \in Nat /\ (times[n] > 0 => n \in queue)
          /\ emitted' = [n \in graph.nodes |-> emitted[n] + times[n]]
    <3>1. CASE HandOut
      <4> DEFINE times == [n \in graph.nodes |-> IF n \in queue THEN Times(n) ELSE 0]
      <4>1. \A n \in graph.nodes : Times(n) \in Nat
        BY GraphAssumption DEF Times
      <4>2. /\ done \cup queue \in SUBSET graph.nodes /\ Requeue(done \cup queue)
            /\ \A n \in graph.nodes : times[n] \in Nat /\ (times[n] > 0 => n \in queue)
            /\ emitted' = [n \in graph.nodes |-> emitted[n] + times[n]]
        BY <1>1, <3>1, <4>1 DEF HandOut, GraphInv
      <4> HIDE DEF times
      <4>3. QED
        BY <4>2
    <3>2. CASE HandOutGates
      <4> DEFINE times == [n \in graph.nodes |-> IF n \in queue THEN 1 ELSE 0]
                 finished == done \cup {n \in queue : Gate(n)}
      <4>1. /\ finished \in SUBSET graph.nodes /\ done \subseteq finished /\ Requeue(finished)
            /\ \A n \in graph.nodes : times[n] \in Nat /\ (times[n] > 0 => n \in queue)
            /\ emitted' = [n \in graph.nodes |-> emitted[n] + times[n]]
        BY <1>1, <3>2 DEF HandOutGates, GraphInv
      <4> HIDE DEF times, finished
      <4>2. QED
        BY <4>1
    <3>3. QED
      BY <1>2, <3>1, <3>2
  <2>2. UNCHANGED graph /\ over = "no"
    BY <1>2 DEF HandOut, HandOutGates
  <2>3. /\ done' = finished /\ queue' \subseteq graph.nodes
        /\ \A n \in queue' : Waits(n) \subseteq finished
        /\ over' \in {"no", "noted", "complete"} /\ (over' = "no" => queue' # {})
        /\ over' = "noted" => finished # graph.nodes
                              /\ \A n \in graph.nodes \ finished : ~Unblocked(n, finished)
        /\ over' = "complete" => finished = graph.nodes
    BY <1>1, <2>1, <2>2, RequeueFits
  <2>4. emitted' \in [graph.nodes -> Nat]
    BY <1>1, <2>1 DEF GraphInv
  <2>5. ASSUME NEW n \in graph.nodes, n \in queue' \/ emitted'[n] > 0 PROVE Waits(n) \subseteq finished
    <3>1. CASE n \in queue'
      BY <2>3, <3>1
    <3>2. CASE emitted'[n] > 0
      <4>1. emitted'[n] = emitted[n] + times[n] /\ emitted[n] \in Nat /\ times[n] \in Nat
        BY <1>1, <2>1 DEF GraphInv
      <4>2. n \in queue \/ emitted[n] > 0
        BY <2>1, <3>2, <4>1
      <4>3. QED
        BY <1>1, <2>1, <4>2 DEF GraphInv
    <3>3. QED
      BY <2>5, <3>1, <3>2
  <2>6. graph.planned => \E p \in PlanShapes : PlanKept(p)'
    BY <1>1, <1>2, PlanSteps DEF GraphInv
  <2>7. \A n : Waits(n)' = Waits(n) /\ (Unblocked(n, done)' <=> Unblocked(n, finished))
    BY <2>2, <2>3 DEF Waits, Unblocked
  <2>8. QED
    BY <1>1, <2>1, <2>2, <2>3, <2>4, <2>5, <2>6, <2>7 DEF GraphInv
<1>3. CASE NothingReady \/ UNCHANGED graphVars
  <2>1. UNCHANGED <<graph, queue, done, emitted>>
    BY <1>3 DEF NothingReady, graphVars
  <2>2. over' = over \/ (over = "no" /\ queue = {} /\ over' = "silent")
    BY <1>3 DEF NothingReady, graphVars
  <2>3. graph'.planned => \E p \in PlanShapes : PlanKept(p)'
    BY <1>1, <2>1, <2>2 DEF GraphInv, PlanKept, LayerByLayer, Times
  <2>4. \A n : Waits(n)' = Waits(n) /\ (Unblocked(n, done)' <=> Unblocked(n, done))
    BY <2>1 DEF Waits, Unblocked
  <2>5. QED
    BY <1>1, <2>1, <2>2, <2>3, <2>4 DEF GraphInv
<1>4. QED
  BY <1>1, <1>2, <1>3 DEF GraphNext

LEMMA GraphsInOrder == GraphInv => GraphsRunInOrder
<1>1. SUFFICES ASSUME GraphInv PROVE GraphsRunInOrder
  OBVIOUS
<1>2. DependenciesComeFirst
  BY <1>1 DEF GraphInv, DependenciesComeFirst, Waits
<1>3. ValidGraphsComplete
  <2>1. CASE over = "silent"
    BY <1>1, <2>1 DEF GraphInv, ValidGraphsComplete, Accepted
  <2>2. CASE over = "noted"
    <3> DEFINE U == graph.nodes \ done
    <3>1. /\ U \in SUBSET graph.nodes /\ U # {} /\ IsFiniteSet(graph.nodes)
          /\ graph.edges \in SUBSET (graph.nodes \X graph.nodes)
      BY <1>1, <2>2 DEF GraphInv
    <3>2. ASSUME NEW n \in U PROVE \E m \in U : <<m, n>> \in graph.edges \ LoopBacks(graph)
      <4>1. ~Unblocked(n, done)
        BY <1>1, <2>2, <3>2 DEF GraphInv
      <4>2. PICK m \in Into(graph, n) : m \notin done /\ (m = n => graph.kind[n] # "loop")
        BY <4>1 DEF Unblocked
      <4>3. PICK e \in graph.edges : e[1] = m /\ e[2] = n
        BY <4>2 DEF Into
      <4>4. e = <<m, n>> /\ m \in graph.nodes
        BY <3>1, <4>3
      <4>5. e \notin LoopBacks(graph)
        BY <4>2, <4>3 DEF LoopBacks
      <4>6. QED
        BY <4>2, <4>3, <4>4, <4>5
    <3>3. \E n \in U : OnCycle(graph, n)
      <4>1. PICK g, W : g = graph /\ W = U
        OBVIOUS
      <4> HIDE DEF U
      <4>2. /\ IsFiniteSet(g.nodes) /\ g.edges \in SUBSET (g.nodes \X g.nodes)
            /\ W \in SUBSET g.nodes /\ W # {}
            /\ \A n \in W : \E m \in W : <<m, n>> \in g.edges \ LoopBacks(g)
        BY <3>1, <3>2, <4>1
      <4>3. \E n \in W : OnCycle(g, n)
        BY <4>2, WaitingIsCyclic
      <4>4. QED
        BY <4>1, <4>3
    <3>4. QED
      BY <3>3 DEF ValidGraphsComplete, Accepted, NoWarnings, CycleFound
  <2>3. QED
    BY <2>1, <2>2 DEF ValidGraphsComplete
<1>4. PlansRunOnce
  <2>1. SUFFICES ASSUME graph.planned
                 PROVE  /\ Accepted(graph) /\ NoWarnings(graph)
                        /\ over # "no" => \A n \in graph.nodes :
                             emitted[n] = IF graph.kind[n] = "loop" THEN MaxRevisions ELSE 1
    BY DEF PlansRunOnce
  <2>2. PICK p \in PlanShapes : PlanKept(p)
    BY <1>1, <2>1 DEF GraphInv
  <2>3. Accepted(graph) /\ NoWarnings(graph)
    BY <2>2, PlansAreAccepted DEF PlanKept
  <2>4. over # "no" => done = graph.nodes
    BY <1>1, <1>3, <2>3 DEF GraphInv, ValidGraphsComplete
  <2>5. QED
    BY <2>2, <2>3, <2>4 DEF PlanKept, Times
<1>5. QED
  BY <1>2, <1>3, <1>4 DEF GraphsRunInOrder

(* For every graph a user's file may hold and every plan: no node is       *)
(* handed out before what it depends on; a graph that validates without a  *)
(* warning is handed out to its last node, so that the walk that looks for *)
(* cycles and the batching agree on which cycles block; and the graph of a *)
(* plan validates and each of its steps, reviews and loops is handed out   *)
(* as often as it is to run (graph.js).                                    *)
THEOREM EveryGraphRunsInOrder == GraphSpec => []GraphsRunInOrder
BY GraphStarts, GraphSteps, GraphsInOrder, PTL DEF GraphSpec
(***************************************************************************)
(* The model pool.  Every judgment is what judgePool makes of a reading:   *)
(* the judgments there were when its session began, which are the first    *)
(* of those there are now, what was found then, and the signals.           *)
(***************************************************************************)
Reading(s, log) ==
  /\ s.base \in [Components -> Values]
  /\ Len(s.read) \in 0..Len(log) /\ s.read = SubSeq(log, 1, Len(s.read))

Judged(j, s) ==
  /\ j.after = Len(s.read) /\ j.found = s.found /\ j.base = s.base
  /\ j.verdicts = [c \in Components |-> Verdict(s, c)]

PoolInv ==
  /\ \E J : judgments \in Seq(J)
  /\ \A i \in 1..Len(judgments) : \E s : Reading(s, judgments) /\ Judged(judgments[i], s)
  /\ judging = [p \in JudgeSessions |-> judging[p]]
  /\ \A p \in JudgeSessions : judging[p] # NotJudging => Reading(judging[p], judgments)

(* What a component is worth: its signals, and a bonus for an incumbent.   *)
LEMMA Worth ==
  ASSUME NEW s, s.base \in [Components -> Values], NEW c \in Components
  PROVE  /\ Value(s, c) \in Nat /\ s.base[c] \in Nat
         /\ Incumbent(s.read, c) /\ s.base[c] > 0 => Value(s, c) = s.base[c] + 2
         /\ ~Incumbent(s.read, c) => Value(s, c) = s.base[c]
<1>1. s.base[c] \in Nat
  BY PoolAssumption
<1>2. QED
  BY <1>1 DEF Value, stayBonus

(* A member of the group that is recommended competes, and nobody who      *)
(* competes outranks it.                                                   *)
LEMMA RecommendedWins ==
  ASSUME NEW s, NEW j, s.base \in [Components -> Values], Judged(j, s), NEW a \in Grouped,
         a \in Recommended(j)
  PROVE  /\ a \in Competing(s) /\ \A w \in Competing(s) : ~Outranks(s, w, a)
         /\ a \in s.found \/ Value(s, a) >= threshold
<1>1. a \in Components /\ Value(s, a) \in Nat
  BY Worth, PoolAssumption
<1>2. Verdict(s, a).verdict \in {"add", "keep"}
  BY <1>1 DEF Recommended, Judged
<1>3. CASE a \in Losers(s)
  <2>1. CASE a \in s.found
    BY <1>2, <1>3, <2>1 DEF Verdict
  <2>2. CASE a \notin s.found
    BY <1>2, <1>3, <2>2 DEF Verdict
  <2>3. QED
    BY <2>1, <2>2
<1>4. CASE a \notin Losers(s)
  <2>1. a \in s.found \/ Value(s, a) >= threshold
    <3>1. SUFFICES ASSUME a \notin s.found, Value(s, a) < threshold PROVE FALSE
      BY <1>1 DEF threshold
    <3>2. Verdict(s, a) = [verdict |-> "noop", low |-> FALSE]
      BY <1>4, <3>1 DEF Verdict
    <3>3. QED
      BY <1>2, <3>2
  <2>2. QED
    BY <1>4, <2>1 DEF Competing, Losers
<1>5. QED
  BY <1>3, <1>4

LEMMA OneIsRecommended ==
  ASSUME NEW s, NEW j, s.base \in [Components -> Values], Judged(j, s)
  PROVE  Cardinality(Recommended(j) \cap Grouped) <= 1
<1>1. \A a, b \in Recommended(j) \cap Grouped : a = b
  <2>1. SUFFICES ASSUME NEW a \in Recommended(j) \cap Grouped,
                        NEW b \in Recommended(j) \cap Grouped, a # b
                 PROVE  FALSE
    OBVIOUS
  <2>2. /\ a \in Nat /\ b \in Nat /\ Value(s, a) \in Nat /\ Value(s, b) \in Nat
    BY Worth, PoolAssumption
  <2>3. ~Outranks(s, a, b) /\ ~Outranks(s, b, a)
    BY RecommendedWins
  <2>4. QED
    BY <2>1, <2>2, <2>3 DEF Outranks
<1>2. CASE Recommended(j) \cap Grouped = {}
  BY <1>2, FS_EmptySet
<1>3. CASE Recommended(j) \cap Grouped # {}
  <2>1. PICK a : Recommended(j) \cap Grouped = {a}
    BY <1>1, <1>3
  <2>2. Cardinality({a}) = 1
    BY FS_Singleton
  <2>3. QED
    BY <2>1, <2>2
<1>4. QED
  BY <1>2, <1>3

(* The alternate cannot win against an incumbent that is worth as much.    *)
LEMMA IncumbentStays ==
  ASSUME NEW s, NEW j, s.base \in [Components -> Values], Judged(j, s),
         NEW a \in Grouped, NEW b \in Grouped,
         Incumbent(s.read, a), ~Incumbent(s.read, b),
         a \in s.found <=> b \in s.found, s.base[a] >= s.base[b], s.base[a] > 0
  PROVE  b \notin Recommended(j)
<1>1. SUFFICES ASSUME b \in Recommended(j) PROVE FALSE
  OBVIOUS
<1>2. /\ s.base[a] \in Nat /\ s.base[b] \in Nat
      /\ Value(s, a) = s.base[a] + 2 /\ Value(s, b) = s.base[b]
  BY Worth, PoolAssumption
<1>3. Outranks(s, a, b)
  BY <1>2 DEF Outranks
<1>4. /\ \A w \in Competing(s) : ~Outranks(s, w, b)
      /\ b \in s.found \/ Value(s, b) >= threshold
  BY <1>1, RecommendedWins
<1>5. a \in Competing(s)
  BY <1>2, <1>4 DEF Competing, threshold
<1>6. QED
  BY <1>3, <1>4, <1>5
(* What was read stays the beginning of what is recorded.                  *)
LEMMA ReadStays ==
  ASSUME NEW J, NEW log \in Seq(J), NEW j, NEW s, Reading(s, log)
  PROVE  Reading(s, Append(log, j))
<1>1. PICK K : K = J \cup {j}
  OBVIOUS
<1>2. log \in Seq(K) /\ j \in K
  BY <1>1
<1>3. PICK k : k = Len(s.read) /\ k \in 0..Len(log) /\ s.read = SubSeq(log, 1, k)
  BY DEF Reading
<1>4. SubSeq(Append(log, j), 1, k) = SubSeq(log, 1, k)
  BY <1>2, <1>3
<1>5. Len(Append(log, j)) = Len(log) + 1 /\ Len(log) \in Nat
  BY <1>2
<1>6. QED
  BY <1>3, <1>4, <1>5 DEF Reading

LEMMA PoolStarts == PoolInit => PoolInv
<1>1. SUFFICES ASSUME PoolInit PROVE PoolInv
  OBVIOUS
<1>2. judgments = <<>> /\ <<>> \in Seq({}) /\ 1..Len(judgments) = {}
  BY <1>1 DEF PoolInit
<1>3. QED
  BY <1>1, <1>2 DEF PoolInit, PoolInv

LEMMA PoolSteps == PoolInv /\ [PoolNext]_poolVars => PoolInv'
<1>1. SUFFICES ASSUME PoolInv, [PoolNext]_poolVars PROVE PoolInv'
  OBVIOUS
<1>2. ASSUME NEW p \in JudgeSessions, NEW base \in [Components -> Values], StartJudging(p, base)
      PROVE  PoolInv'
  <2>1. PICK J : judgments \in Seq(J)
    BY <1>1 DEF PoolInv
  <2>2. PICK s : /\ s = [read |-> judgments, found |-> installed, base |-> base,
                         stage |-> CurrentStage(judgments)]
                 /\ judging' = [judging EXCEPT ![p] = s] /\ judgments' = judgments
    BY <1>2 DEF StartJudging
  <2>3. Reading(s, judgments)
    BY <2>1, <2>2 DEF Reading
  <2>4. QED
    BY <1>1, <2>2, <2>3 DEF PoolInv
<1>3. ASSUME NEW p \in JudgeSessions, RecordJudgment(p) PROVE PoolInv'
  <2>1. PICK J : judgments \in Seq(J)
    BY <1>1 DEF PoolInv
  <2>2. PICK s, j :
          /\ s = judging[p] /\ s # NotJudging
          /\ j = [stage |-> s.stage, after |-> Len(s.read), found |-> s.found, base |-> s.base,
                  verdicts |-> [c \in Components |-> Verdict(s, c)]]
          /\ judgments' = Append(judgments, j) /\ judging' = [judging EXCEPT ![p] = NotJudging]
    BY <1>3 DEF RecordJudgment
  <2>3. Reading(s, judgments) /\ Judged(j, s)
    BY <1>1, <2>2 DEF PoolInv, Judged
  <2>4. \A t : Reading(t, judgments) => Reading(t, judgments')
    BY <2>1, <2>2, ReadStays
  <2>5. PICK K : K = J \cup {j}
    OBVIOUS
  <2>6. judgments \in Seq(K) /\ j \in K
    BY <2>1, <2>5
  <2>7. /\ judgments' \in Seq(K) /\ Len(judgments') = Len(judgments) + 1 /\ Len(judgments) \in Nat
        /\ \A i \in 1..Len(judgments') :
             judgments'[i] = IF i <= Len(judgments) THEN judgments[i] ELSE j
    BY <2>2, <2>6
  <2>8. \A i \in 1..Len(judgments') : \E t : Reading(t, judgments') /\ Judged(judgments'[i], t)
    <3>1. SUFFICES ASSUME NEW i \in 1..Len(judgments')
                   PROVE  \E t : Reading(t, judgments') /\ Judged(judgments'[i], t)
      OBVIOUS
    <3>2. CASE i <= Len(judgments)
      BY <1>1, <2>4, <2>7, <3>2 DEF PoolInv
    <3>3. CASE i > Len(judgments)
      BY <2>3, <2>4, <2>7, <3>3
    <3>4. QED
      BY <2>7, <3>2, <3>3
  <2>9. QED
    BY <1>1, <2>2, <2>4, <2>7, <2>8 DEF PoolInv
<1>4. ASSUME NEW c \in Components, PeopleChange(c) PROVE PoolInv'
  BY <1>1, <1>4 DEF PeopleChange, PoolInv
<1>5. CASE UNCHANGED poolVars
  BY <1>1, <1>5 DEF poolVars, PoolInv
<1>6. QED
  BY <1>1, <1>2, <1>3, <1>4, <1>5 DEF PoolNext

LEMMA PoolSteady == PoolInv => PoolIsSteady
<1>1. SUFFICES ASSUME PoolInv PROVE PoolIsSteady
  OBVIOUS
<1>2. DOMAIN judgments = 1..Len(judgments)
  BY <1>1 DEF PoolInv
<1>3. ASSUME NEW i \in DOMAIN judgments PROVE Cardinality(Recommended(judgments[i]) \cap Grouped) <= 1
  <2>1. PICK s : Reading(s, judgments) /\ Judged(judgments[i], s)
    BY <1>1, <1>2, <1>3 DEF PoolInv
  <2>2. QED
    BY <2>1, OneIsRecommended DEF Reading
<1>4. ASSUME NEW i \in DOMAIN judgments, NEW a \in Grouped, NEW b \in Grouped,
             judgments[i].after > 0,
             a \in Recommended(ByName(SubSeq(judgments, 1, judgments[i].after))[judgments[i].after]),
             b \notin Recommended(ByName(SubSeq(judgments, 1, judgments[i].after))[judgments[i].after]),
             a \in judgments[i].found <=> b \in judgments[i].found,
             judgments[i].base[a] >= judgments[i].base[b], judgments[i].base[a] > 0
      PROVE  b \notin Recommended(judgments[i])
  <2>1. PICK s : Reading(s, judgments) /\ Judged(judgments[i], s)
    BY <1>1, <1>2, <1>4 DEF PoolInv
  <2>2. PICK last : last = ByName(s.read)[Len(s.read)]
    OBVIOUS
  <2>3. /\ s.base \in [Components -> Values] /\ a \in Components /\ b \in Components
        /\ a \in Recommended(last) /\ b \notin Recommended(last)
        /\ a \in s.found <=> b \in s.found
        /\ s.base[a] >= s.base[b] /\ s.base[a] > 0
    BY <1>4, <2>1, <2>2, PoolAssumption DEF Reading, Judged
  <2>4. s.read # <<>>
    BY <1>4, <2>1 DEF Judged
  <2>5. Incumbent(s.read, a) /\ ~Incumbent(s.read, b)
    BY <2>2, <2>3, <2>4 DEF Incumbent, lastVerdictFor, Recommended
  <2>6. QED
    BY <2>1, <2>3, <2>5, IncumbentStays
<1>5. QED
  BY <1>3, <1>4 DEF PoolIsSteady, OneOfAGroup, TiesKeepTheIncumbent

(* No judgment of the pool recommends two members of an exclusion group,   *)
(* and a tie leaves the member that was recommended last where it is,      *)
(* however many sessions judge at a time and whatever people install in    *)
(* between.                                                                *)
THEOREM PoolStaysSteady == PoolSpec => []PoolIsSteady
<1>1. QED
  BY PoolStarts, PoolSteps, PoolSteady, PTL DEF PoolSpec
(***************************************************************************)
(* A finite set written as a sequence: each element once.                  *)
(***************************************************************************)
LEMMA SetAsSeq ==
  ASSUME NEW S, IsFiniteSet(S)
  PROVE  /\ SetToSeq(S) \in Seq(S) /\ Len(SetToSeq(S)) = Cardinality(S) /\ Cardinality(S) \in Nat
         /\ \A i, j \in 1..Len(SetToSeq(S)) : SetToSeq(S)[i] = SetToSeq(S)[j] => i = j
         /\ \A x \in S : \E i \in 1..Len(SetToSeq(S)) : SetToSeq(S)[i] = x
<1>1. PICK n \in Nat : n = Cardinality(S)
  BY FS_CardinalityType
<1>2. ExistsBijection(1..n, S)
  BY <1>1, FS_CardinalityType
<1>3. PICK f \in [1..n -> S] : IsInjective(f)
  BY <1>2 DEF ExistsBijection, Bijection, Injection
<1>4. SetToSeq(S) \in [1..n -> S] /\ IsInjective(SetToSeq(S))
  BY <1>1, <1>3 DEF SetToSeq
<1>5. PICK s \in [1..n -> S] : s = SetToSeq(S) /\ IsInjective(s)
  BY <1>4
<1>6. s \in Seq(S) /\ Len(s) = n /\ DOMAIN s = 1..n
  BY <1>1, <1>5
<1>7. s \in Injection(1..n, S)
  BY <1>5 DEF Injection
<1>8. IsFiniteSet(1..n) /\ Cardinality(1..n) = n
  BY <1>1, FS_Interval
<1>9. s \in Surjection(1..n, S)
  BY <1>1, <1>7, <1>8, FS_Injection
<1>10. \A x \in S : \E i \in 1..n : s[i] = x
  BY <1>9 DEF Surjection
<1>11. \A i, j \in 1..n : s[i] = s[j] => i = j
  BY <1>5, <1>6 DEF IsInjective
<1>12. QED
  BY <1>1, <1>5, <1>6, <1>10, <1>11

(***************************************************************************)
(* The choice of a model.  A fit is one of five scores, four points apart; *)
(* what habit, quota and price add and take is less than those are worth.  *)
(***************************************************************************)
LEMMA CountOne ==
  ASSUME NEW caps, NEW x, NEW v
  PROVE  CountOf(caps, {x}, v) = IF caps[x] = v THEN 1 ELSE 0
<1>1. CASE caps[x] = v
  <2>1. {c \in {x} : caps[c] = v} = {x}
    BY <1>1
  <2>2. Cardinality({x}) = 1
    BY FS_Singleton
  <2>3. QED
    BY <1>1, <2>1, <2>2 DEF CountOf
<1>2. CASE caps[x] # v
  <2>1. {c \in {x} : caps[c] = v} = {}
    BY <1>2
  <2>2. QED
    BY <1>2, <2>1, FS_EmptySet DEF CountOf
<1>3. QED
  BY <1>1, <1>2

LEMMA CountMore ==
  ASSUME NEW caps, NEW x, NEW W, IsFiniteSet(W), x \notin W, NEW v
  PROVE  /\ CountOf(caps, W \cup {x}, v) = CountOf(caps, W, v) + IF caps[x] = v THEN 1 ELSE 0
         /\ CountOf(caps, W, v) \in Nat
<1>1. PICK C : C = {c \in W : caps[c] = v}
  OBVIOUS
<1>2. IsFiniteSet(C)
  BY <1>1, FS_Subset
<1>3. Cardinality(C) \in Nat /\ x \notin C
  BY <1>1, <1>2, FS_CardinalityType
<1>4. CASE caps[x] = v
  <2>1. {c \in W \cup {x} : caps[c] = v} = C \cup {x}
    BY <1>1, <1>4
  <2>2. Cardinality(C \cup {x}) = Cardinality(C) + 1
    BY <1>2, <1>3, FS_AddElement
  <2>3. QED
    BY <1>1, <1>3, <1>4, <2>1, <2>2 DEF CountOf
<1>5. CASE caps[x] # v
  <2>1. {c \in W \cup {x} : caps[c] = v} = C
    BY <1>1, <1>5
  <2>2. CountOf(caps, W \cup {x}, v) = Cardinality(C) /\ CountOf(caps, W, v) = Cardinality(C)
    BY <1>1, <2>1 DEF CountOf
  <2>3. QED
    BY <1>3, <1>5, <2>2
<1>6. QED
  BY <1>4, <1>5

One(caps, x, v) == IF caps[x] = v THEN 1 ELSE 0

LEMMA CountThem ==
  ASSUME NEW caps, NEW v
  PROVE  /\ CountOf(caps, {"agentic"}, v) = One(caps, "agentic", v)
         /\ CountOf(caps, {"visionIn"}, v) = One(caps, "visionIn", v)
         /\ CountOf(caps, {"reasoning"}, v) = One(caps, "reasoning", v)
         /\ CountOf(caps, {"agentic", "reasoning"}, v)
              = One(caps, "agentic", v) + One(caps, "reasoning", v)
         /\ CountOf(caps, {"agentic", "coding"}, v) = One(caps, "agentic", v) + One(caps, "coding", v)
         /\ CountOf(caps, {"agentic", "reasoning", "coding"}, v)
              = One(caps, "agentic", v) + One(caps, "reasoning", v) + One(caps, "coding", v)
<1>1. \A x : CountOf(caps, {x}, v) = One(caps, x, v)
  BY CountOne DEF One
<1>2. \A x, W : IsFiniteSet(W) /\ x \notin W => CountOf(caps, W \cup {x}, v) = CountOf(caps, W, v) + One(caps, x, v)
  BY CountMore DEF One
<1>3. \A x, y : x # y => IsFiniteSet({x}) /\ {x, y} = {x} \cup {y} /\ y \notin {x}
  BY FS_Singleton
<1>4. ASSUME NEW x, NEW y, x # y PROVE CountOf(caps, {x, y}, v) = One(caps, x, v) + One(caps, y, v)
  <2>1. PICK X : X = {x}
    OBVIOUS
  <2>2. IsFiniteSet(X) /\ y \notin X /\ {x, y} = X \cup {y}
    BY <1>3, <1>4, <2>1
  <2>3. CountOf(caps, X \cup {y}, v) = CountOf(caps, X, v) + One(caps, y, v)
    BY <1>2, <2>2
  <2>4. QED
    BY <1>1, <2>1, <2>2, <2>3
<1>5. PICK W : W = {"agentic", "reasoning"}
  OBVIOUS
<1>6. IsFiniteSet({"agentic"} \cup {"reasoning"})
  BY FS_Singleton, FS_Union
<1>7. IsFiniteSet(W) /\ {"agentic", "reasoning", "coding"} = W \cup {"coding"} /\ "coding" \notin W
  <2>1. W = {"agentic"} \cup {"reasoning"}
    BY <1>5
  <2>2. {"agentic", "reasoning", "coding"} = W \cup {"coding"} /\ "coding" \notin W
    BY <1>5
  <2>3. QED
    BY <1>6, <2>1, <2>2
<1>8. CountOf(caps, {"agentic", "reasoning", "coding"}, v) = CountOf(caps, W, v) + One(caps, "coding", v)
  BY <1>2, <1>7
<1>9. CountOf(caps, {"agentic", "coding"}, v) = One(caps, "agentic", v) + One(caps, "coding", v)
  BY <1>4
<1>10. CountOf(caps, W, v) = One(caps, "agentic", v) + One(caps, "reasoning", v)
  BY <1>4, <1>5
<1>11. QED
  BY <1>1, <1>5, <1>8, <1>9, <1>10
Rows == {RoleCaps("no", "no", "no", "yes"), RoleCaps("no", "no", "no", "no"),
         RoleCaps("yes", "yes", "yes", "no"), RoleCaps("yes", "yes", "unknown", "yes"),
         RoleCaps("yes", "yes", "yes", "yes"), RoleCaps("unknown", "unknown", "unknown", "unknown")}

LEMMA ModelsAreRows == ASSUME NEW model PROVE classifyModel(model) \in Rows
BY DEF classifyModel, Rows

LEMMA WantedSizes ==
  /\ Cardinality({"agentic"}) = 1 /\ Cardinality({"reasoning"}) = 1 /\ Cardinality({"visionIn"}) = 1
  /\ Cardinality({"agentic", "reasoning"}) = 2 /\ Cardinality({"agentic", "coding"}) = 2
  /\ Cardinality({"agentic", "reasoning", "coding"}) = 3
<1>1. \A x : Cardinality({x}) = 1 /\ IsFiniteSet({x})
  BY FS_Singleton
<1>2. \A x, y : x # y => Cardinality({x, y}) = 2 /\ IsFiniteSet({x, y})
  <2>1. SUFFICES ASSUME NEW x, NEW y, x # y
                 PROVE  Cardinality({x, y}) = 2 /\ IsFiniteSet({x, y})
    OBVIOUS
  <2>2. PICK X : X = {x}
    OBVIOUS
  <2>3. {x, y} = X \cup {y} /\ y \notin X /\ IsFiniteSet(X) /\ Cardinality(X) = 1
    BY <1>1, <2>1, <2>2
  <2>4. IsFiniteSet(X \cup {y}) /\ Cardinality(X \cup {y}) = Cardinality(X) + 1
    BY <2>3, FS_AddElement
  <2>5. QED
    BY <2>3, <2>4
<1>3. PICK W : W = {"agentic", "reasoning"}
  OBVIOUS
<1>4. {"agentic", "reasoning", "coding"} = W \cup {"coding"} /\ "coding" \notin W
  BY <1>3
<1>5. Cardinality(W \cup {"coding"}) = Cardinality(W) + 1 /\ Cardinality(W) = 2
  BY <1>2, <1>3, <1>4, FS_AddElement
<1>6. Cardinality({"agentic", "coding"}) = 2 /\ Cardinality({"agentic", "reasoning"}) = 2
  BY <1>2
<1>7. Cardinality({"agentic", "reasoning", "coding"}) = 3
  BY <1>4, <1>5
<1>8. QED
  BY <1>1, <1>6, <1>7

(* The count for the rows, and with it the score.                          *)
Yes(caps, W) == CountOf(caps, W, "yes")
Unknown(caps, W) == CountOf(caps, W, "unknown")

LEMMA ScoreIs ==
  ASSUME NEW caps, NEW role, NEW need, NEW like, need # {}, like # {},
         Requirements(role) = [require |-> need, prefer |-> like],
         NEW n, n = Cardinality(need), NEW l, l = Cardinality(like),
         NEW a, a = Yes(caps, need), NEW b, b = Unknown(caps, need),
         NEW c, c = Yes(caps, like), NEW d, d = Unknown(caps, like)
  PROVE  capabilityScore(caps, role) =
           IF CountOf(caps, need, "no") > 0 THEN 0
           ELSE (((80 * (10 * a + 4 * b)) \div n) + ((20 * (10 * c + 4 * d)) \div l) + 5) \div 10
BY DEF capabilityScore, Yes, Unknown

LEMMA ScoreAlone ==
  ASSUME NEW caps, NEW role, NEW need, need # {},
         Requirements(role) = [require |-> need, prefer |-> {}],
         NEW n, n = Cardinality(need), NEW a, a = Yes(caps, need), NEW b, b = Unknown(caps, need)
  PROVE  capabilityScore(caps, role) =
           IF CountOf(caps, need, "no") > 0 THEN 0
           ELSE (((100 * (10 * a + 4 * b)) \div n) + 5) \div 10
BY DEF capabilityScore, Yes, Unknown

FitScores == {0, 40, 76, 80, 100}

LEMMA ScoresApart ==
  ASSUME NEW model, NEW role
  PROVE  capabilityScore(classifyModel(model), role) \in FitScores
<1>1. PICK caps \in Rows : caps = classifyModel(model)
  BY ModelsAreRows
<1>2. /\ caps.agentic \in {"yes", "no", "unknown"} /\ caps.reasoning = caps.agentic
      /\ caps.agentic # "yes" => caps.coding = caps.agentic
      /\ caps.agentic = "yes" => caps.coding \in {"yes", "unknown"}
      /\ caps.agentic = "unknown" => caps.visionIn = "unknown"
      /\ caps.coding = "unknown" => caps.visionIn # "no"
      /\ caps.agentic # "unknown" => caps.visionIn \in {"yes", "no"}
  BY <1>1 DEF Rows, RoleCaps
<1>3. CASE role \in {"orchestrator", "researcher"}
  <2>1. PICK need, like : need = {"agentic", "reasoning"} /\ like = {"visionIn"}
    OBVIOUS
  <2>2. Requirements(role) = [require |-> need, prefer |-> like]
    BY <1>3, <2>1 DEF Requirements
  <2>3. /\ Yes(caps, need) = One(caps, "agentic", "yes") + One(caps, "reasoning", "yes")
        /\ Unknown(caps, need) = One(caps, "agentic", "unknown") + One(caps, "reasoning", "unknown")
        /\ CountOf(caps, need, "no") = One(caps, "agentic", "no") + One(caps, "reasoning", "no")
        /\ Yes(caps, like) = One(caps, "visionIn", "yes")
        /\ Unknown(caps, like) = One(caps, "visionIn", "unknown")
        /\ need # {} /\ like # {}
    BY <2>1, CountThem DEF Yes, Unknown
  <2>4. PICK a, b, c, d, no :
          /\ a = Yes(caps, need) /\ b = Unknown(caps, need) /\ c = Yes(caps, like)
          /\ d = Unknown(caps, like) /\ no = CountOf(caps, need, "no")
    OBVIOUS
  <2>5. Cardinality(need) = 2 /\ Cardinality(like) = 1
    BY <2>1, WantedSizes
  <2>6. capabilityScore(caps, role) =
          IF no > 0 THEN 0
          ELSE (((80 * (10 * a + 4 * b)) \div 2) + ((20 * (10 * c + 4 * d)) \div 1) + 5) \div 10
    BY <2>2, <2>3, <2>4, <2>5, ScoreIs
  <2>7. /\ caps.agentic = "yes" => a = 2 /\ b = 0 /\ no = 0 /\ c \in 0..1 /\ d = 0
        /\ caps.agentic = "unknown" => a = 0 /\ b = 2 /\ no = 0 /\ c = 0 /\ d = 1
        /\ caps.agentic = "no" => no = 2
    BY <1>2, <2>3, <2>4 DEF One
  <2>8. capabilityScore(caps, role) \in FitScores
    BY <1>2, <2>6, <2>7 DEF FitScores
  <2>9. QED
    BY <1>1, <2>8
<1>4. CASE role = "implementer"
  <2>1. PICK need, like : need = {"agentic", "coding"} /\ like = {"reasoning"}
    OBVIOUS
  <2>2. Requirements(role) = [require |-> need, prefer |-> like]
    BY <1>4, <2>1 DEF Requirements
  <2>3. /\ Yes(caps, need) = One(caps, "agentic", "yes") + One(caps, "coding", "yes")
        /\ Unknown(caps, need) = One(caps, "agentic", "unknown") + One(caps, "coding", "unknown")
        /\ CountOf(caps, need, "no") = One(caps, "agentic", "no") + One(caps, "coding", "no")
        /\ Yes(caps, like) = One(caps, "reasoning", "yes")
        /\ Unknown(caps, like) = One(caps, "reasoning", "unknown")
        /\ need # {} /\ like # {}
    BY <2>1, CountThem DEF Yes, Unknown
  <2>4. PICK a, b, c, d, no :
          /\ a = Yes(caps, need) /\ b = Unknown(caps, need) /\ c = Yes(caps, like)
          /\ d = Unknown(caps, like) /\ no = CountOf(caps, need, "no")
    OBVIOUS
  <2>5. Cardinality(need) = 2 /\ Cardinality(like) = 1
    BY <2>1, WantedSizes
  <2>6. capabilityScore(caps, role) =
          IF no > 0 THEN 0
          ELSE (((80 * (10 * a + 4 * b)) \div 2) + ((20 * (10 * c + 4 * d)) \div 1) + 5) \div 10
    BY <2>2, <2>3, <2>4, <2>5, ScoreIs
  <2>7. /\ caps.agentic = "yes" => a \in 1..2 /\ b = 2 - a /\ no = 0 /\ c = 1 /\ d = 0
        /\ caps.agentic = "unknown" => a = 0 /\ b = 2 /\ no = 0 /\ c = 0 /\ d = 1
        /\ caps.agentic = "no" => no = 2
    BY <1>2, <2>3, <2>4 DEF One
  <2>8. capabilityScore(caps, role) \in FitScores
    BY <1>2, <2>6, <2>7 DEF FitScores
  <2>9. QED
    BY <1>1, <2>8
<1>5. CASE role = "reviewer"
  <2>1. PICK need : need = {"agentic", "reasoning", "coding"}
    OBVIOUS
  <2>2. Requirements(role) = [require |-> need, prefer |-> {}]
    BY <1>5, <2>1 DEF Requirements
  <2>3. /\ Yes(caps, need) = One(caps, "agentic", "yes") + One(caps, "reasoning", "yes")
                               + One(caps, "coding", "yes")
        /\ Unknown(caps, need) = One(caps, "agentic", "unknown") + One(caps, "reasoning", "unknown")
                                   + One(caps, "coding", "unknown")
        /\ CountOf(caps, need, "no") = One(caps, "agentic", "no") + One(caps, "reasoning", "no")
                                         + One(caps, "coding", "no")
        /\ need # {} /\ Cardinality(need) = 3
    BY <2>1, CountThem, WantedSizes DEF Yes, Unknown
  <2>4. PICK a, b, no :
          a = Yes(caps, need) /\ b = Unknown(caps, need) /\ no = CountOf(caps, need, "no")
    OBVIOUS
  <2>5. capabilityScore(caps, role) =
          IF no > 0 THEN 0 ELSE (((100 * (10 * a + 4 * b)) \div 3) + 5) \div 10
    BY <2>2, <2>3, <2>4, ScoreAlone
  <2>6. /\ caps.agentic = "yes" => a \in 2..3 /\ b = 3 - a /\ no = 0
        /\ caps.agentic = "unknown" => a = 0 /\ b = 3 /\ no = 0
        /\ caps.agentic = "no" => no = 3
    BY <1>2, <2>3, <2>4 DEF One
  <2>7. capabilityScore(caps, role) \in FitScores
    BY <1>2, <2>5, <2>6 DEF FitScores
  <2>8. QED
    BY <1>1, <2>7
<1>6. CASE role \notin {"orchestrator", "researcher", "implementer", "reviewer"}
  <2>1. PICK need : need = {"agentic"}
    OBVIOUS
  <2>2. Requirements(role) = [require |-> need, prefer |-> {}]
    BY <1>6, <2>1 DEF Requirements
  <2>3. /\ Yes(caps, need) = One(caps, "agentic", "yes")
        /\ Unknown(caps, need) = One(caps, "agentic", "unknown")
        /\ CountOf(caps, need, "no") = One(caps, "agentic", "no")
        /\ need # {} /\ Cardinality(need) = 1
    BY <2>1, CountThem, WantedSizes DEF Yes, Unknown
  <2>4. PICK a, b, no :
          a = Yes(caps, need) /\ b = Unknown(caps, need) /\ no = CountOf(caps, need, "no")
    OBVIOUS
  <2>5. capabilityScore(caps, role) =
          IF no > 0 THEN 0 ELSE (((100 * (10 * a + 4 * b)) \div 1) + 5) \div 10
    BY <2>2, <2>3, <2>4, ScoreAlone
  <2>6. /\ caps.agentic = "yes" => a = 1 /\ b = 0 /\ no = 0
        /\ caps.agentic = "unknown" => a = 0 /\ b = 1 /\ no = 0
        /\ caps.agentic = "no" => no = 1
    BY <1>2, <2>3, <2>4 DEF One
  <2>7. capabilityScore(caps, role) \in FitScores
    BY <1>2, <2>5, <2>6 DEF FitScores
  <2>8. QED
    BY <1>1, <2>7
<1>7. QED
  BY <1>3, <1>4, <1>5, <1>6
OfferRecords == [provider : STRING, model : STRING, remaining : Int, cost : Int]

ChoiceInv ==
  /\ offers \in Seq(OfferRecords)
  /\ choices = [r \in ChoiceRoles |-> choices[r]]
  /\ UnfitNeverChosen

LEMMA RankFollowsFit ==
  ASSUME NEW o \in OfferRecords, NEW role, NEW cheap \in BOOLEAN
  PROVE  /\ Fit(o, role) \in FitScores /\ Rank(o, role, cheap) \in Int
         /\ 100 * Fit(o, role) - 75 <= Rank(o, role, cheap)
         /\ Rank(o, role, cheap) <= 100 * Fit(o, role) + 50
<1>1. PICK fit : fit = Fit(o, role) /\ fit = capabilityScore(classifyModel(o.model), role)
  BY DEF Fit
<1>2. fit \in FitScores /\ fit \in Nat
  BY <1>1, ScoresApart DEF FitScores
<1>3. QuotaBonus(o) \in 0..20
  BY DEF QuotaBonus, AtMost, OfferRecords
<1>4. PricePenalty(o, cheap) \in 0..75
  BY DEF PricePenalty, AtMost, OfferRecords
<1>5. Rank(o, role, cheap) = 100 * fit + (IF o.provider = current THEN 30 ELSE 0)
                               + QuotaBonus(o) - PricePenalty(o, cheap)
  BY <1>1 DEF Rank
<1>6. QED
  BY <1>1, <1>2, <1>3, <1>4, <1>5

(* The best candidate is one of the offers, and none ranks higher.         *)
LEMMA BestIs ==
  ASSUME offers \in Seq(OfferRecords), NEW role, NEW cheap \in BOOLEAN, Candidates(role) # {}
  PROVE  \E i \in Candidates(role) :
           /\ Best(role, cheap) = offers[i]
           /\ \A j \in Candidates(role) : Rank(offers[j], role, cheap) <= Rank(offers[i], role, cheap)
<1>1. PICK fit : fit = Candidates(role) /\ fit # {}
  OBVIOUS
<1>2. fit \subseteq 1..Len(offers) /\ Len(offers) \in Nat
  BY <1>1 DEF Candidates
<1>3. PICK rank : rank = [i \in fit |-> Rank(offers[i], role, cheap)]
  OBVIOUS
<1>4. \A i \in fit : rank[i] \in Int /\ rank[i] <= 10050 /\ rank[i] = Rank(offers[i], role, cheap)
  <2>1. SUFFICES ASSUME NEW i \in fit
                 PROVE  rank[i] \in Int /\ rank[i] <= 10050 /\ rank[i] = Rank(offers[i], role, cheap)
    OBVIOUS
  <2>2. offers[i] \in OfferRecords
    BY <1>2
  <2>3. rank[i] = Rank(offers[i], role, cheap)
    BY <1>3
  <2>4. QED
    BY <2>2, <2>3, RankFollowsFit DEF FitScores
<1>5. PICK first \in fit : \A j \in fit : rank[j] < rank[first] \/ (rank[j] = rank[first] /\ first <= j)
  <2>1. Worths(fit, rank, 10050)
    BY <1>1, <1>2, <1>4 DEF Worths
  <2>2. \E i : ComesFirst(i, fit, rank)
    BY <2>1, FirstOfTheBest
  <2>3. QED
    BY <2>2 DEF ComesFirst
<1>6. PICK at \in fit : /\ \A j \in fit : rank[j] < rank[at] \/ (rank[j] = rank[at] /\ at <= j)
                        /\ Best(role, cheap) = offers[at]
  <2> DEFINE At == CHOOSE i \in fit :
                     \A j \in fit :
                       \/ Rank(offers[j], role, cheap) < Rank(offers[i], role, cheap)
                       \/ Rank(offers[j], role, cheap) = Rank(offers[i], role, cheap) /\ i <= j
  <2>1. /\ At \in fit
        /\ \A j \in fit :
             \/ Rank(offers[j], role, cheap) < Rank(offers[At], role, cheap)
             \/ Rank(offers[j], role, cheap) = Rank(offers[At], role, cheap) /\ At <= j
    BY <1>4, <1>5
  <2>2. Best(role, cheap) = offers[At]
    BY <1>1 DEF Best
  <2> HIDE DEF At
  <2>3. QED
    BY <1>4, <2>1, <2>2
<1>7. QED
  BY <1>1, <1>4, <1>6

(* What a role gets: the login's model, a fallback, or the fittest offer.  *)
LEMMA ChosenIsFit ==
  ASSUME offers \in Seq(OfferRecords), NEW role, NEW cheap \in BOOLEAN
  PROVE  LET chosen == Chosen(role, cheap)
         IN  /\ chosen.provider \notin {"none", "fallback"} => Fit(chosen, role) > 0
             /\ chosen.provider \notin {"login", "fallback"} =>
                  \A i \in 1..Len(offers) : Fit(offers[i], role) <= Fit(chosen, role)
<1>1. PICK chosen : chosen = Chosen(role, cheap)
  OBVIOUS
<1>2. CASE role = "reviewer" /\ codexPro
  <2>1. chosen = [provider |-> "login", model |-> "gpt"]
    BY <1>1, <1>2 DEF Chosen
  <2>2. Fit(chosen, role) > 0
    <3>1. chosen.model = "gpt" /\ Fit(chosen, role) = capabilityScore(classifyModel("gpt"), "reviewer")
      BY <1>2, <2>1 DEF Fit
    <3>2. PICK caps : caps = classifyModel("gpt") /\ caps = RoleCaps("yes", "yes", "yes", "yes")
      BY DEF classifyModel
    <3>3. PICK need : need = {"agentic", "reasoning", "coding"}
      OBVIOUS
    <3>4. /\ Yes(caps, need) = 3 /\ Unknown(caps, need) = 0 /\ CountOf(caps, need, "no") = 0
          /\ need # {} /\ Cardinality(need) = 3
      BY <3>2, <3>3, CountThem, WantedSizes DEF Yes, Unknown, One, RoleCaps
    <3>5. Requirements("reviewer") = [require |-> need, prefer |-> {}]
      BY <3>3 DEF Requirements
    <3>6. capabilityScore(caps, "reviewer") = (((100 * (10 * 3 + 4 * 0)) \div 3) + 5) \div 10
      BY <3>4, <3>5, ScoreAlone
    <3>7. QED
      BY <3>1, <3>2, <3>6
  <2>3. QED
    BY <1>1, <2>1, <2>2
<1>3. CASE ~(role = "reviewer" /\ codexPro) /\ Best(role, cheap) = NoChoice
  <2>1. chosen.provider = "fallback"
    BY <1>1, <1>3 DEF Chosen, Fallback
  <2>2. QED
    BY <1>1, <2>1
<1>4. CASE ~(role = "reviewer" /\ codexPro) /\ Best(role, cheap) # NoChoice
  <2>1. Candidates(role) # {} /\ chosen = Best(role, cheap)
    BY <1>1, <1>4 DEF Chosen, Best
  <2>2. PICK i \in Candidates(role) :
          /\ chosen = offers[i]
          /\ \A j \in Candidates(role) : Rank(offers[j], role, cheap) <= Rank(offers[i], role, cheap)
    BY <2>1, BestIs
  <2>3. i \in 1..Len(offers) /\ Fit(offers[i], role) > 0
    BY <2>2 DEF Candidates, Fit
  <2>4. ASSUME NEW j \in 1..Len(offers) PROVE Fit(offers[j], role) <= Fit(offers[i], role)
    <3>1. /\ Fit(offers[i], role) \in FitScores /\ Fit(offers[j], role) \in FitScores
          /\ Rank(offers[i], role, cheap) \in Int /\ Rank(offers[j], role, cheap) \in Int
          /\ 100 * Fit(offers[j], role) - 75 <= Rank(offers[j], role, cheap)
          /\ Rank(offers[i], role, cheap) <= 100 * Fit(offers[i], role) + 50
      BY <2>3, RankFollowsFit
    <3>2. CASE j \in Candidates(role)
      <4>1. Rank(offers[j], role, cheap) <= Rank(offers[i], role, cheap)
        BY <2>2, <3>2
      <4>2. QED
        BY <3>1, <4>1, SMTT(30) DEF FitScores
    <3>3. CASE j \notin Candidates(role)
      <4>1. ~(Fit(offers[j], role) > 0)
        BY <3>3 DEF Candidates, Fit
      <4>2. QED
        BY <2>3, <3>1, <4>1 DEF FitScores
    <3>4. QED
      BY <3>2, <3>3
  <2>5. QED
    BY <1>1, <2>2, <2>3, <2>4
<1>5. QED
  BY <1>2, <1>3, <1>4

LEMMA ChoiceStarts == ChoiceInit => ChoiceInv
<1>1. SUFFICES ASSUME ChoiceInit PROVE ChoiceInv
  OBVIOUS
<1>2. PICK t \in SUBSET Offers : offers = SetToSeq(t)
  BY <1>1 DEF ChoiceInit
<1>3. IsFiniteSet(t)
  BY ChoiceAssumption, FS_Subset
<1>4. offers \in Seq(t) /\ t \subseteq OfferRecords
  BY <1>2, <1>3, SetAsSeq, ChoiceAssumption DEF OfferRecords
<1>5. PICK R : R = OfferRecords
  OBVIOUS
<1>6. offers \in Seq(R)
  BY <1>4, <1>5
<1>7. choices = [r \in ChoiceRoles |-> NoChoice] /\ NoChoice.provider = "none"
  BY <1>1 DEF ChoiceInit, NoChoice
<1>8. QED
  BY <1>5, <1>6, <1>7 DEF ChoiceInv, UnfitNeverChosen

LEMMA ChoiceSteps ==
  ChoiceInv /\ [ChoiceNext]_choiceVars =>
    /\ ChoiceInv'
    /\ [\A r \in ChoiceRoles :
          choices'[r] # choices[r] /\ choices'[r].provider \notin {"login", "fallback"} =>
            \A i \in 1..Len(offers) : Fit(offers[i], r) <= Fit(choices'[r], r)]_choiceVars
<1>1. SUFFICES ASSUME ChoiceInv, [ChoiceNext]_choiceVars
               PROVE  /\ ChoiceInv'
                      /\ \A r \in ChoiceRoles :
                           choices'[r] # choices[r] /\ choices'[r].provider \notin {"login", "fallback"} =>
                             \A i \in 1..Len(offers) : Fit(offers[i], r) <= Fit(choices'[r], r)
  OBVIOUS
<1>2. ASSUME NEW cheap \in BOOLEAN, ChooseModels(cheap)
      PROVE  /\ ChoiceInv'
             /\ \A r \in ChoiceRoles :
                  choices'[r].provider \notin {"login", "fallback"} =>
                    \A i \in 1..Len(offers) : Fit(offers[i], r) <= Fit(choices'[r], r)
  <2>1. /\ offers \in Seq(OfferRecords) /\ offers' = offers
        /\ choices' = [r \in ChoiceRoles |-> Chosen(r, cheap /\ r = "researcher")]
    BY <1>1, <1>2 DEF ChoiceInv, ChooseModels
  <2>2. ASSUME NEW r \in ChoiceRoles
        PROVE  /\ choices'[r].provider \notin {"none", "fallback"} => Fit(choices'[r], r) > 0
               /\ choices'[r].provider \notin {"login", "fallback"} =>
                    \A i \in 1..Len(offers) : Fit(offers[i], r) <= Fit(choices'[r], r)
    <3>1. PICK c \in BOOLEAN : choices'[r] = Chosen(r, c)
      BY <2>1
    <3>2. QED
      BY <2>1, <3>1, ChosenIsFit
  <2>3. choices' = [r \in ChoiceRoles |-> choices'[r]]
    BY <2>1
  <2>4. UnfitNeverChosen'
    BY <2>2 DEF UnfitNeverChosen, Fit
  <2>5. QED
    BY <2>1, <2>2, <2>3, <2>4 DEF ChoiceInv
<1>3. ASSUME NEW i \in 1..Len(offers), SpendQuota(i) PROVE ChoiceInv' /\ choices' = choices
  <2>1. offers \in Seq(OfferRecords) /\ offers[i] \in OfferRecords
    BY <1>1 DEF ChoiceInv
  <2>2. [offers[i] EXCEPT !.remaining = 0] \in OfferRecords
    BY <2>1 DEF OfferRecords
  <2>3. offers' = [offers EXCEPT ![i] = [offers[i] EXCEPT !.remaining = 0]] /\ choices' = choices
    BY <1>3 DEF SpendQuota
  <2>4. offers' \in Seq(OfferRecords)
    BY <2>1, <2>2, <2>3
  <2>5. QED
    BY <1>1, <2>3, <2>4 DEF ChoiceInv, UnfitNeverChosen, Fit
<1>4. ASSUME NEW i \in 1..Len(offers), SwitchProvider(offers[i].provider) PROVE ChoiceInv' /\ choices' = choices
  BY <1>1, <1>4 DEF SwitchProvider, ChoiceInv, UnfitNeverChosen, Fit
<1>5. CASE UNCHANGED choiceVars
  BY <1>1, <1>5 DEF choiceVars, ChoiceInv, UnfitNeverChosen, Fit
<1>6. QED
  BY <1>1, <1>2, <1>3, <1>4, <1>5 DEF ChoiceNext

(* Whatever providers offer, at whatever price and with whatever is left   *)
(* of their quotas: no role gets a model that lacks what it requires, and  *)
(* none gets a model while a fitter one is offered.                        *)
THEOREM FittestModelIsChosen == ChoiceSpec => ModelsFit
<1>1. ChoiceSpec => []ChoiceInv
  BY ChoiceStarts, ChoiceSteps, PTL DEF ChoiceSpec
<1>2. ChoiceInv => UnfitNeverChosen
  BY DEF ChoiceInv
<1>3. ChoiceSpec => FitFirst
  BY <1>1, ChoiceSteps, PTL DEF ChoiceSpec, FitFirst
<1>4. QED
  BY <1>1, <1>2, <1>3, PTL DEF ModelsFit
(***************************************************************************)
(* The plan of a workflow.  A made plan has each role once, a codex gate   *)
(* only where there is codex, and a group the added roles are put before;  *)
(* in mode fixed-1 the roles of the acceptance and the group of the        *)
(* hackers are there.                                                      *)
(***************************************************************************)
HackerRoles == {Copy("hacker", i) : i \in 1..(IF PlanHackers > 1 THEN PlanHackers ELSE 1)}
BaseRoles == {"orchestrator", "implementer", "researcher", "advisor", "autoresearch", "reviewer"}
PlanRoles ==
  {Role(base) : base \in BaseRoles} \cup {Copy("implementer", 2), Copy("researcher", 2)}
    \cup HackerRoles \cup UNION Customs
Apps == {"claude", "codex", "pi", "dsh"}
AgentRecords == [role : PlanRoles, app : Apps, from : Apps]
Labels == {"plan", "execute-parallel", "execute", "synthesize", "implement", "triggered-advice",
           "optional-bounded-optimization", "independent-acceptance", "custom-roles"}
GroupRecords == [label : Labels, agents : SUBSET PlanRoles, steps : SUBSET PlanRoles]
ScoredArchitectures ==
  {"loop", "orchestrator-workers", "multi-agent", "graph", "dynamic", "ultracode"}
Designs == ScoredArchitectures \cup {"fixed-1"}
PlanRecords ==
  [mode : {"dynamic", "fixed-1"}, primary : Designs, selected : SUBSET Designs,
   agents : Seq(AgentRecords), groups : Seq(GroupRecords),
   gates : Seq({"auto", "working-tree", "branch"}), loops : Nat]
Texts == STRING \cup {"low", "medium", "high", "small", "large", "coding"}
SignalRecords ==
  [files : Nat, parallel : Nat, risk : Texts, value : Texts, context : Texts,
   type : Texts, hitl : BOOLEAN, persistence : BOOLEAN]

Distinct(agents) == \A i, j \in 1..Len(agents) : agents[i].role = agents[j].role => i = j

SoundPlan(p, h) ==
  /\ p \in PlanRecords /\ Distinct(p.agents)
  /\ p.gates # <<>> => h.codex
  /\ \E i \in 1..Len(p.groups) : p.groups[i].label \in {"synthesize", "independent-acceptance"}
  /\ p.mode = "fixed-1" =>
       /\ {Role("orchestrator"), Role("implementer")} \cup HackerRoles \subseteq RolesOf(p.agents)
       /\ \E i \in 1..Len(p.groups) :
            p.groups[i].label = "independent-acceptance" /\ p.groups[i].agents = HackerRoles

PlannerInv ==
  /\ planHost \in Hosts
  /\ planStage \in {"asked", "planned", "overridden"}
  /\ planStage = "asked" => signals \in SignalRecords
  /\ planStage # "asked" => SoundPlan(plan, planHost)
  /\ GroupsAreTheRoster

(* Sequences of roles without repetition, put one after the other.         *)
Elements(s) == {s[i] : i \in 1..Len(s)}
OneEach(s) == \A i, j \in 1..Len(s) : s[i] = s[j] => i = j

Lists(s, S, E) == s \in Seq(S) /\ OneEach(s) /\ Elements(s) = E

LEMMA OneAfterTheOther ==
  ASSUME NEW S, NEW E, NEW F, NEW s, NEW t, Lists(s, S, E), Lists(t, S, F), E \cap F = {}
  PROVE  Lists(s \o t, S, E \cup F)
<1>0. /\ s \in Seq(S) /\ t \in Seq(S) /\ OneEach(s) /\ OneEach(t)
      /\ E = Elements(s) /\ F = Elements(t)
  BY DEF Lists
<1>1. PICK u : u = s \o t
  OBVIOUS
<1>2. /\ u \in Seq(S) /\ Len(u) = Len(s) + Len(t) /\ Len(s) \in Nat /\ Len(t) \in Nat
      /\ \A i \in 1..Len(u) : u[i] = IF i <= Len(s) THEN s[i] ELSE t[i - Len(s)]
  BY <1>0, <1>1
<1>3. \A i \in 1..Len(s) : s[i] \in Elements(s) /\ s[i] \notin Elements(t)
  BY <1>0 DEF Elements
<1>4. \A i \in 1..Len(t) : t[i] \in Elements(t) /\ t[i] \notin Elements(s)
  BY <1>0 DEF Elements
<1>5. ASSUME NEW i \in 1..Len(u), NEW j \in 1..Len(u), u[i] = u[j] PROVE i = j
  <2>1. CASE i <= Len(s) /\ j <= Len(s)
    BY <1>0, <1>2, <1>5, <2>1 DEF OneEach
  <2>2. CASE i > Len(s) /\ j > Len(s)
    <3>1. i - Len(s) \in 1..Len(t) /\ j - Len(s) \in 1..Len(t) /\ t[i - Len(s)] = t[j - Len(s)]
      BY <1>2, <1>5, <2>2
    <3>2. i - Len(s) = j - Len(s)
      BY <1>0, <3>1 DEF OneEach
    <3>3. QED
      BY <1>2, <3>2
  <2>3. CASE i <= Len(s) /\ j > Len(s)
    <3>1. i \in 1..Len(s) /\ j - Len(s) \in 1..Len(t) /\ s[i] = t[j - Len(s)]
      BY <1>2, <1>5, <2>3
    <3>2. QED
      BY <1>3, <1>4, <3>1
  <2>4. CASE i > Len(s) /\ j <= Len(s)
    <3>1. j \in 1..Len(s) /\ i - Len(s) \in 1..Len(t) /\ s[j] = t[i - Len(s)]
      BY <1>2, <1>5, <2>4
    <3>2. QED
      BY <1>3, <1>4, <3>1
  <2>5. QED
    BY <1>2, <2>1, <2>2, <2>3, <2>4
<1>6. Elements(u) \subseteq Elements(s) \cup Elements(t)
  <2>1. SUFFICES ASSUME NEW i \in 1..Len(u) PROVE u[i] \in Elements(s) \cup Elements(t)
    BY DEF Elements
  <2>2. CASE i <= Len(s)
    BY <1>2, <1>3, <2>2
  <2>3. CASE i > Len(s)
    <3>1. i - Len(s) \in 1..Len(t) /\ u[i] = t[i - Len(s)]
      BY <1>2, <2>3
    <3>2. QED
      BY <1>4, <3>1
  <2>4. QED
    BY <1>2, <2>2, <2>3
<1>7. Elements(s) \subseteq Elements(u)
  <2>1. SUFFICES ASSUME NEW i \in 1..Len(s) PROVE s[i] \in Elements(u)
    BY DEF Elements
  <2>2. i \in 1..Len(u) /\ u[i] = s[i]
    BY <1>2
  <2>3. QED
    BY <2>2 DEF Elements
<1>8. Elements(t) \subseteq Elements(u)
  <2>1. SUFFICES ASSUME NEW i \in 1..Len(t) PROVE t[i] \in Elements(u)
    BY DEF Elements
  <2>2. PICK j : j = i + Len(s)
    OBVIOUS
  <2>3. j \in 1..Len(u) /\ ~(j <= Len(s)) /\ j - Len(s) = i
    BY <1>2, <2>2
  <2>4. u[j] = t[i]
    BY <1>2, <2>3
  <2>5. QED
    BY <2>3, <2>4 DEF Elements
<1>9. OneEach(u) /\ Elements(u) = E \cup F
  BY <1>0, <1>5, <1>6, <1>7, <1>8 DEF OneEach
<1>10. QED
  BY <1>1, <1>2, <1>9 DEF Lists

(* The roster of a sequence of roles, and two rosters joined.              *)
LEMMA TeamOf ==
  ASSUME NEW roles \in Seq(PlanRoles), OneEach(roles), NEW app \in Apps, NEW from \in Apps,
         NEW A, A = [i \in 1..Len(roles) |-> [role |-> roles[i], app |-> app, from |-> from]]
  PROVE  A \in Seq(AgentRecords) /\ Distinct(A) /\ RolesOf(A) = Elements(roles)
<1>1. Len(roles) \in Nat /\ \A i \in 1..Len(roles) : roles[i] \in PlanRoles
  OBVIOUS
<1>2. /\ \A i \in 1..Len(roles) : A[i] = [role |-> roles[i], app |-> app, from |-> from]
      /\ A = [i \in 1..Len(roles) |-> A[i]]
  OBVIOUS
<1>3. \A i \in 1..Len(roles) : A[i] \in AgentRecords /\ A[i].role = roles[i]
  BY <1>1, <1>2 DEF AgentRecords
<1>4. A \in [1..Len(roles) -> AgentRecords]
  BY <1>2, <1>3
<1>5. A \in Seq(AgentRecords) /\ Len(A) = Len(roles)
  BY <1>1, <1>4
<1>6. QED
  BY <1>3, <1>5 DEF Distinct, RolesOf, OneEach, Elements

Team(A, E) == A \in Seq(AgentRecords) /\ Distinct(A) /\ RolesOf(A) = E

LEMMA TeamsJoined ==
  ASSUME NEW A, NEW B, NEW E, NEW F, Team(A, E), Team(B, F), E \cap F = {}
  PROVE  Team(A \o B, E \cup F)
<1>0. /\ A \in Seq(AgentRecords) /\ B \in Seq(AgentRecords) /\ Distinct(A) /\ Distinct(B)
      /\ RolesOf(A) = E /\ RolesOf(B) = F
  BY DEF Team
<1>1. PICK C : C = A \o B
  OBVIOUS
<1>2. /\ C \in Seq(AgentRecords) /\ Len(C) = Len(A) + Len(B) /\ Len(A) \in Nat /\ Len(B) \in Nat
      /\ \A i \in 1..Len(C) : C[i] = IF i <= Len(A) THEN A[i] ELSE B[i - Len(A)]
  BY <1>0, <1>1
<1>3. PICK a : a = [i \in 1..Len(A) |-> A[i].role]
  OBVIOUS
<1>4. PICK b : b = [i \in 1..Len(B) |-> B[i].role]
  OBVIOUS
<1>5. /\ \A agent \in AgentRecords : agent.role \in PlanRoles
      /\ \A i \in 1..Len(A) : A[i] \in AgentRecords
      /\ \A i \in 1..Len(B) : B[i] \in AgentRecords
  <2>1. \A agent \in AgentRecords : agent.role \in PlanRoles
    BY DEF AgentRecords
  <2>2. QED
    BY <1>0, <2>1
<1>6. PICK R : R = PlanRoles
  OBVIOUS
<1>7. a \in [1..Len(A) -> R] /\ b \in [1..Len(B) -> R]
  BY <1>3, <1>4, <1>5, <1>6
<1>8. a \in Seq(R) /\ Len(a) = Len(A) /\ b \in Seq(R) /\ Len(b) = Len(B)
  <2>1. \A n \in Nat : \A f \in [1..n -> R] : f \in Seq(R) /\ Len(f) = n
    OBVIOUS
  <2>2. QED
    BY <1>2, <1>7, <2>1
<1>9. /\ OneEach(a) /\ OneEach(b) /\ Elements(a) = RolesOf(A) /\ Elements(b) = RolesOf(B)
  BY <1>0, <1>3, <1>4, <1>8 DEF OneEach, Elements, Distinct, RolesOf
<1>10. OneEach(a \o b) /\ Elements(a \o b) = RolesOf(A) \cup RolesOf(B)
  <2>1. Lists(a, R, RolesOf(A)) /\ Lists(b, R, RolesOf(B)) /\ RolesOf(A) \cap RolesOf(B) = {}
    BY <1>0, <1>8, <1>9 DEF Lists
  <2>2. Lists(a \o b, R, RolesOf(A) \cup RolesOf(B))
    BY <2>1, OneAfterTheOther
  <2>3. QED
    BY <2>2 DEF Lists
<1>11. PICK c : c = a \o b
  OBVIOUS
<1>12. Len(c) = Len(C) /\ \A i \in 1..Len(C) : c[i] = C[i].role
  <2>1. /\ Len(c) = Len(a) + Len(b)
        /\ \A i \in 1..Len(c) : c[i] = IF i <= Len(a) THEN a[i] ELSE b[i - Len(a)]
    <3>1. \A f, g \in Seq(R) :
            /\ Len(f \o g) = Len(f) + Len(g)
            /\ \A i \in 1..Len(f \o g) : (f \o g)[i] = IF i <= Len(f) THEN f[i] ELSE g[i - Len(f)]
      OBVIOUS
    <3>2. QED
      BY <1>8, <1>11, <3>1
  <2>2. ASSUME NEW i \in 1..Len(C) PROVE c[i] = C[i].role
    <3>1. CASE i <= Len(A)
      BY <1>2, <1>3, <1>8, <2>1, <3>1
    <3>2. CASE i > Len(A)
      <4>1. i - Len(A) \in 1..Len(B) /\ c[i] = b[i - Len(A)] /\ C[i] = B[i - Len(A)]
        BY <1>2, <1>8, <2>1, <3>2
      <4>2. QED
        BY <1>4, <4>1
    <3>3. QED
      BY <1>2, <3>1, <3>2
  <2>3. QED
    BY <1>2, <1>8, <2>1, <2>2
<1>13. Distinct(C) /\ RolesOf(C) = Elements(c)
  <2>1. OneEach(c)
    BY <1>10, <1>11
  <2>2. Distinct(C)
    BY <1>12, <2>1 DEF Distinct, OneEach
  <2>3. RolesOf(C) = Elements(c)
    BY <1>12 DEF RolesOf, Elements
  <2>4. QED
    BY <2>2, <2>3
<1>14. QED
  BY <1>0, <1>1, <1>2, <1>10, <1>11, <1>13 DEF Team
(* Without codex something outscores what ultracode can have.              *)
LEMMA PrimaryIs ==
  ASSUME NEW s \in SignalRecords, NEW h \in Hosts
  PROVE  /\ Primary(s, h) \in ScoredArchitectures
         /\ Primary(s, h) = "ultracode" => h.codex
<1>1. PICK score : score = [i \in 1..6 |-> ArchitectureScore(Architectures[i], s, h)]
  OBVIOUS
<1>2. Len(Architectures) = 6 /\ DOMAIN score = 1..6
  BY <1>1 DEF Architectures
<1>3. /\ s.parallel \in Nat /\ Level(s.risk) \in 1..3 /\ Level(s.value) \in 1..3
      /\ Least(s.parallel, 6) \in 0..6 /\ s.files \in Nat
      /\ s.parallel >= 3 => Least(s.parallel, 6) >= 3
  BY DEF SignalRecords, Level, Least
<1>4. /\ Architectures[1] = "loop" /\ Architectures[2] = "orchestrator-workers"
      /\ Architectures[3] = "multi-agent" /\ Architectures[4] = "graph"
      /\ Architectures[5] = "dynamic" /\ Architectures[6] = "ultracode"
  BY DEF Architectures
<1>5. score[1] \in 0..200 /\ (s.context # "large" => score[1] >= 45)
  BY <1>1, <1>4 DEF ArchitectureScore, When
<1>6. score[2] \in 0..200 /\ (s.context = "large" => score[2] >= 55)
  BY <1>1, <1>3, <1>4 DEF ArchitectureScore, When
<1>7. score[3] \in 0..200
  BY <1>1, <1>3, <1>4 DEF ArchitectureScore, When
<1>8. score[4] \in 0..200
  BY <1>1, <1>4 DEF ArchitectureScore, When
<1>9. score[5] \in 0..200
  BY <1>1, <1>4, SMTT(30) DEF ArchitectureScore, When
<1>10. score[6] \in 0..200 /\ (~h.codex => score[6] <= 6)
  BY <1>1, <1>4 DEF ArchitectureScore, UltracodeScore, When
<1>11. \A i \in 1..6 : score[i] \in Int /\ score[i] <= 200
  <2>1. \A i \in 1..6 : i = 1 \/ i = 2 \/ i = 3 \/ i = 4 \/ i = 5 \/ i = 6
    OBVIOUS
  <2>2. QED
    BY <2>1, <1>5, <1>6, <1>7, <1>8, <1>9, <1>10, SMTT(30)
<1>12. PICK first : ComesFirst(first, 1..6, score)
  <2>1. Worths(1..6, score, 200)
    BY <1>11, SMTT(30) DEF Worths
  <2>2. QED
    BY <2>1, FirstOfTheBest
<1> DEFINE at == CHOOSE i \in DOMAIN score :
                   \A j \in DOMAIN score : score[j] < score[i] \/ (score[j] = score[i] /\ i <= j)
<1>13. /\ at \in 1..6
       /\ \A j \in 1..6 : score[j] < score[at] \/ (score[j] = score[at] /\ at <= j)
  BY <1>2, <1>12 DEF ComesFirst
<1>14. Primary(s, h) = Architectures[at]
  BY <1>1, <1>2 DEF Primary
<1> HIDE DEF at
<1>15. at = 6 => h.codex
  <2>1. SUFFICES ASSUME at = 6, ~h.codex PROVE FALSE
    OBVIOUS
  <2>2. score[1] <= 6 /\ score[2] <= 6
    BY <1>5, <1>6, <1>10, <1>13, <2>1, SMTT(30)
  <2>3. QED
    BY <1>5, <1>6, <2>2
<1>16. /\ at \in {1, 2, 3, 4, 5, 6}
       /\ Primary(s, h) = "ultracode" => at = 6
  <2>1. at = 1 \/ at = 2 \/ at = 3 \/ at = 4 \/ at = 5 \/ at = 6
    BY <1>13
  <2>2. QED
    BY <2>1, <1>4, <1>14
<1>17. QED
  BY <1>4, <1>14, <1>15, <1>16 DEF ScoredArchitectures

(* What is selected fans work out, or loops, or does neither.              *)
LEMMA SelectedIs ==
  ASSUME NEW primary \in ScoredArchitectures,
         NEW h, NEW selected, selected = SelectedArchitecture(primary, h)
  PROVE  /\ selected \subseteq ScoredArchitectures
         /\ selected \cap {"multi-agent", "orchestrator-workers", "dynamic"} # {} =>
              "loop" \notin selected /\ "ultracode" \notin selected
BY DEF SelectedArchitecture, ScoredArchitectures

LEMMA OneRole == ASSUME NEW S, NEW x \in S PROVE Lists(<<x>>, S, {x})
<1>1. <<x>> \in Seq(S) /\ Len(<<x>>) = 1 /\ <<x>>[1] = x
  OBVIOUS
<1>2. 1..1 = {1}
  OBVIOUS
<1>3. QED
  BY <1>1, <1>2 DEF Lists, OneEach, Elements

LEMMA NoRole == ASSUME NEW S PROVE Lists(<<>>, S, {})
<1>1. <<>> \in Seq(S) /\ Len(<<>>) = 0 /\ 1..0 = {}
  OBVIOUS
<1>2. QED
  BY <1>1 DEF Lists, OneEach, Elements

LEMMA NamesOfRoles ==
  /\ \A base \in BaseRoles : Role(base) \in PlanRoles
  /\ Copy("implementer", 2) \in PlanRoles /\ Copy("researcher", 2) \in PlanRoles
  /\ HackerRoles \subseteq PlanRoles
BY DEF PlanRoles

LEMMA OneOrNone ==
  ASSUME NEW S, NEW x \in S, NEW c \in BOOLEAN
  PROVE  \E A : Lists(IF c THEN <<x>> ELSE <<>>, S, A) /\ A \subseteq {x} /\ (~c => A = {})
<1>1. CASE c
  <2>1. Lists(IF c THEN <<x>> ELSE <<>>, S, {x})
    BY <1>1, OneRole
  <2>2. QED
    BY <1>1, <2>1
<1>2. CASE ~c
  <2>1. Lists(IF c THEN <<x>> ELSE <<>>, S, {})
    BY <1>2, NoRole
  <2>2. QED
    BY <2>1
<1>3. QED
  BY <1>1, <1>2

(* The roster of a dynamic plan before the reviewer: what fans work out    *)
(* and what loops does not have the implementer twice.                     *)
TeamRoles == {Role("researcher"), Role("implementer"), Copy("implementer", 2), Copy("researcher", 2)}

LEMMA TeamIs ==
  ASSUME NEW more \in BOOLEAN, NEW most \in BOOLEAN
  PROVE  \E E \in SUBSET TeamRoles :
           Lists(<<Role("researcher"), Role("implementer")>>
                   \o (IF more THEN <<Copy("implementer", 2)>> ELSE <<>>)
                   \o (IF most THEN <<Copy("researcher", 2)>> ELSE <<>>), PlanRoles, E)
<1>1. PICK r, i, i2, r2 : /\ r = Role("researcher") /\ i = Role("implementer")
                          /\ i2 = Copy("implementer", 2) /\ r2 = Copy("researcher", 2)
  OBVIOUS
<1>2. r \in PlanRoles /\ i \in PlanRoles /\ i2 \in PlanRoles /\ r2 \in PlanRoles
  BY <1>1, NamesOfRoles DEF BaseRoles
<1>3. r # i /\ r # i2 /\ r # r2 /\ i # i2 /\ i # r2 /\ i2 # r2
  BY <1>1 DEF Role, Copy
<1>4. Lists(<<r, i>>, PlanRoles, {r, i})
  <2>1. PICK R : R = PlanRoles
    OBVIOUS
  <2>2. <<r, i>> \in Seq(R) /\ Len(<<r, i>>) = 2 /\ <<r, i>>[1] = r /\ <<r, i>>[2] = i
    BY <1>2, <2>1
  <2>3. 1..2 = {1, 2}
    OBVIOUS
  <2>4. OneEach(<<r, i>>) /\ Elements(<<r, i>>) = {r, i}
    BY <1>3, <2>2, <2>3 DEF OneEach, Elements
  <2>5. QED
    BY <2>1, <2>2, <2>4 DEF Lists
<1>5. PICK two : two = <<r, i>> /\ Lists(two, PlanRoles, {r, i})
  BY <1>4
<1>6. PICK a, A : /\ a = (IF more THEN <<i2>> ELSE <<>>) /\ Lists(a, PlanRoles, A)
                  /\ A \subseteq {i2}
  BY <1>2, OneOrNone
<1>7. PICK b, B : /\ b = (IF most THEN <<r2>> ELSE <<>>) /\ Lists(b, PlanRoles, B)
                  /\ B \subseteq {r2}
  BY <1>2, OneOrNone
<1>8. Lists(two \o a, PlanRoles, {r, i} \cup A)
  <2>1. {r, i} \cap A = {}
    BY <1>3, <1>6
  <2>2. QED
    BY <1>5, <1>6, <2>1, OneAfterTheOther
<1>9. Lists((two \o a) \o b, PlanRoles, ({r, i} \cup A) \cup B)
  <2>1. ({r, i} \cup A) \cap B = {}
    BY <1>3, <1>6, <1>7
  <2>2. QED
    BY <1>7, <1>8, <2>1, OneAfterTheOther
<1>10. ({r, i} \cup A) \cup B \in SUBSET TeamRoles
  BY <1>1, <1>6, <1>7 DEF TeamRoles
<1>11. QED
  BY <1>1, <1>5, <1>6, <1>7, <1>9, <1>10

LEMMA RosterIs ==
  ASSUME NEW fanned \in BOOLEAN, NEW looped \in BOOLEAN, NEW led \in BOOLEAN, ~(fanned /\ looped),
         NEW team, NEW T \in SUBSET TeamRoles, Lists(team, PlanRoles, T)
  PROVE  \E E : /\ Lists((IF led THEN <<Role("orchestrator")>> ELSE <<>>)
                           \o (IF fanned THEN team ELSE <<>>)
                           \o (IF looped THEN <<Role("implementer")>> ELSE <<>>), PlanRoles, E)
                /\ Role("reviewer") \notin E
<1>1. PICK o, i, r : o = Role("orchestrator") /\ i = Role("implementer") /\ r = Role("reviewer")
  OBVIOUS
<1>2. o \in PlanRoles /\ i \in PlanRoles /\ r \in PlanRoles
  BY <1>1, NamesOfRoles DEF BaseRoles
<1>3. o # i /\ o # r /\ i # r /\ o \notin T /\ r \notin T
  BY <1>1 DEF Role, Copy, TeamRoles
<1>4. PICK a, A : /\ a = (IF led THEN <<o>> ELSE <<>>) /\ Lists(a, PlanRoles, A)
                  /\ A \subseteq {o}
  BY <1>2, OneOrNone
<1>5. PICK b, B : /\ b = (IF fanned THEN team ELSE <<>>) /\ Lists(b, PlanRoles, B)
                  /\ B \subseteq T /\ (looped => B = {})
  BY NoRole
<1>6. PICK c, C : /\ c = (IF looped THEN <<i>> ELSE <<>>) /\ Lists(c, PlanRoles, C)
                  /\ C \subseteq {i} /\ (~looped => C = {})
  <2>1. \E C : Lists(IF looped THEN <<i>> ELSE <<>>, PlanRoles, C) /\ C \subseteq {i} /\ (~looped => C = {})
    BY <1>2, OneOrNone
  <2>2. QED
    BY <2>1
<1>7. Lists(a \o b, PlanRoles, A \cup B)
  <2>1. A \cap B = {}
    BY <1>3, <1>4, <1>5
  <2>2. QED
    BY <1>4, <1>5, <2>1, OneAfterTheOther
<1>8. Lists((a \o b) \o c, PlanRoles, (A \cup B) \cup C)
  <2>1. (A \cup B) \cap C = {}
    BY <1>3, <1>4, <1>5, <1>6
  <2>2. QED
    BY <1>6, <1>7, <2>1, OneAfterTheOther
<1>9. r \notin (A \cup B) \cup C
  BY <1>3, <1>4, <1>5, <1>6
<1>10. QED
  BY <1>1, <1>4, <1>5, <1>6, <1>8, <1>9
(* Three groups, the second being where the work is done.                  *)
LEMMA ThreeGroups ==
  ASSUME NEW a \in GroupRecords, NEW b \in GroupRecords, NEW c \in GroupRecords
  PROVE  <<a, b, c>> \in Seq(GroupRecords) /\ Len(<<a, b, c>>) = 3 /\ <<a, b, c>>[3] = c
<1>1. PICK G : G = GroupRecords
  OBVIOUS
<1>2. <<a, b, c>> \in Seq(G) /\ Len(<<a, b, c>>) = 3 /\ <<a, b, c>>[3] = c
  BY <1>1
<1>3. QED
  BY <1>1, <1>2

GatesFor(codex, risky, branch) ==
  (IF codex THEN <<"auto">> \o (IF risky THEN <<"working-tree">> ELSE <<>>) ELSE <<>>)
    \o (IF branch THEN <<"branch">> ELSE <<>>)

LEMMA GatesAre ==
  ASSUME NEW codex \in BOOLEAN, NEW risky \in BOOLEAN, NEW branch \in BOOLEAN, branch => codex,
         NEW gates, gates = GatesFor(codex, risky, branch)
  PROVE  gates \in Seq({"auto", "working-tree", "branch"}) /\ (gates # <<>> => codex)
<1>1. PICK G, x, y, z : G = {x, y, z} /\ x = "auto" /\ y = "working-tree" /\ z = "branch"
  OBVIOUS
<1>2. <<>> \in Seq(G) /\ <<x>> \in Seq(G) /\ <<y>> \in Seq(G) /\ <<z>> \in Seq(G)
  BY <1>1
<1>3. \A s, t \in Seq(G) : s \o t \in Seq(G)
  OBVIOUS
<1>4. <<>> \o <<>> = <<>>
  OBVIOUS
<1>5. PICK a : a = (IF risky THEN <<y>> ELSE <<>>) /\ a \in Seq(G)
  BY <1>2
<1>6. PICK b : b = (IF codex THEN <<x>> \o a ELSE <<>>) /\ b \in Seq(G)
  BY <1>2, <1>3, <1>5
<1>7. PICK c : c = (IF branch THEN <<z>> ELSE <<>>) /\ c \in Seq(G)
  BY <1>2
<1>8. gates = b \o c
  BY <1>1, <1>5, <1>6, <1>7 DEF GatesFor
<1>9. gates \in Seq(G)
  BY <1>3, <1>6, <1>7, <1>8
<1>10. ~codex => gates = <<>>
  BY <1>4, <1>6, <1>7, <1>8
<1>11. QED
  BY <1>1, <1>9, <1>10

LEMMA DynamicSound ==
  ASSUME NEW s \in SignalRecords, NEW h \in Hosts, NEW cap \in Nat
  PROVE  SoundPlan(DynamicPlan(s, h, cap), h)
<1> DEFINE primary == Primary(s, h)
           selected == SelectedArchitecture(primary, h)
           app == IF h.app \in {"pi", "dsh"} THEN h.app ELSE "claude"
           least == IF "multi-agent" \in selected THEN 4 ELSE 2
           workers == Least(IF s.parallel > least THEN s.parallel ELSE least, cap)
           fanned == selected \cap {"multi-agent", "orchestrator-workers", "dynamic"} # {}
           looped == selected \cap {"loop", "ultracode"} # {}
           led == fanned \/ "ultracode" \in selected
           team == <<Role("researcher"), Role("implementer")>>
                     \o (IF workers >= 3 THEN <<Copy("implementer", 2)>> ELSE <<>>)
                     \o (IF workers >= 4 THEN <<Copy("researcher", 2)>> ELSE <<>>)
           Reviewer(ran, from) == <<[role |-> Role("reviewer"), app |-> ran, from |-> from]>>
           reviewer == IF h.codex THEN Reviewer("codex", "codex")
                       ELSE IF Level(s.risk) >= 2 THEN Reviewer("claude", app) ELSE <<>>
           roles == (IF led THEN <<Role("orchestrator")>> ELSE <<>>)
                      \o (IF fanned THEN team ELSE <<>>)
                      \o (IF looped THEN <<Role("implementer")>> ELSE <<>>)
           agents == [i \in 1..Len(roles) |-> [role |-> roles[i], app |-> app, from |-> app]]
           orchestrator == {Role("orchestrator")}
           Group(label, members, steps) == [label |-> label, agents |-> members, steps |-> steps]
           execute == IF fanned THEN Group("execute-parallel", ToSet(roles) \ orchestrator, ToSet(team))
                      ELSE Group("execute", {Role("implementer")}, {Role("implementer")})
           plans == Group("plan", orchestrator, orchestrator)
           synthesize == Group("synthesize", orchestrator, orchestrator)
           gates == (IF h.codex THEN <<"auto">> \o (IF Level(s.risk) >= 2 THEN <<"working-tree">> ELSE <<>>)
                     ELSE <<>>) \o (IF primary = "ultracode" THEN <<"branch">> ELSE <<>>)
           made == [mode |-> "dynamic", primary |-> primary, selected |-> selected,
                    agents |-> agents \o reviewer, groups |-> <<plans, execute, synthesize>>,
                    gates |-> gates, loops |-> IF looped THEN 1 ELSE 0]
<1>1. DynamicPlan(s, h, cap) = made
  BY DEF DynamicPlan
<1>2. primary \in ScoredArchitectures /\ (primary = "ultracode" => h.codex) /\ h.codex \in BOOLEAN
  BY PrimaryIs, PlannerAssumption
<1>3. selected \subseteq ScoredArchitectures /\ ~(fanned /\ looped)
  <2>1. /\ selected \subseteq ScoredArchitectures
        /\ fanned => "loop" \notin selected /\ "ultracode" \notin selected
    BY <1>2, SelectedIs
  <2>2. QED
    BY <2>1
<1>4. fanned \in BOOLEAN /\ looped \in BOOLEAN /\ led \in BOOLEAN /\ app \in Apps
  BY DEF Apps
<1>5. PICK T \in SUBSET TeamRoles : Lists(team, PlanRoles, T)
  <2>1. (workers >= 3) \in BOOLEAN /\ (workers >= 4) \in BOOLEAN
    OBVIOUS
  <2> HIDE DEF workers
  <2>2. QED
    BY <2>1, TeamIs
<1>6. PICK E : Lists(roles, PlanRoles, E) /\ Role("reviewer") \notin E
  <2> HIDE DEF fanned, looped, led, team
  <2>1. QED
    BY <1>3, <1>4, <1>5, RosterIs
<1>7. PICK A : /\ A = agents /\ A \in Seq(AgentRecords) /\ Distinct(A)
               /\ Role("reviewer") \notin RolesOf(A)
  <2>1. PICK R : R = roles
    OBVIOUS
  <2>2. R \in Seq(PlanRoles) /\ OneEach(R) /\ Elements(R) = E
    BY <1>6, <2>1 DEF Lists
  <2>3. PICK B : B = [i \in 1..Len(R) |-> [role |-> R[i], app |-> app, from |-> app]]
    OBVIOUS
  <2> HIDE DEF app, roles
  <2>4. B \in Seq(AgentRecords) /\ Distinct(B) /\ RolesOf(B) = Elements(R)
    BY <1>4, <2>2, <2>3, TeamOf
  <2>5. B = agents
    BY <2>1, <2>3
  <2>6. QED
    BY <1>6, <2>2, <2>4, <2>5
<1>8. PICK B : /\ B = reviewer /\ B \in Seq(AgentRecords) /\ Distinct(B)
               /\ RolesOf(B) \subseteq {Role("reviewer")}
  <2>1. \A ran, from \in Apps :
          /\ Reviewer(ran, from) \in Seq(AgentRecords) /\ Distinct(Reviewer(ran, from))
          /\ RolesOf(Reviewer(ran, from)) = {Role("reviewer")}
    <3>1. SUFFICES ASSUME NEW ran \in Apps, NEW from \in Apps
                   PROVE  /\ Reviewer(ran, from) \in Seq(AgentRecords) /\ Distinct(Reviewer(ran, from))
                          /\ RolesOf(Reviewer(ran, from)) = {Role("reviewer")}
      OBVIOUS
    <3>2. PICK x : x = [role |-> Role("reviewer"), app |-> ran, from |-> from]
      OBVIOUS
    <3>3. x \in AgentRecords /\ x.role = Role("reviewer")
      BY <3>2, NamesOfRoles DEF AgentRecords, BaseRoles
    <3>4. <<x>> \in Seq(AgentRecords) /\ Len(<<x>>) = 1 /\ <<x>>[1] = x /\ 1..1 = {1}
      BY <3>3
    <3>5. Distinct(<<x>>) /\ RolesOf(<<x>>) = {Role("reviewer")}
      BY <3>3, <3>4 DEF Distinct, RolesOf
    <3>6. QED
      BY <3>2, <3>4, <3>5
  <2>2. <<>> \in Seq(AgentRecords) /\ Distinct(<<>>) /\ RolesOf(<<>>) = {}
    <3>1. <<>> \in Seq(AgentRecords) /\ Len(<<>>) = 0 /\ 1..0 = {}
      OBVIOUS
    <3>2. QED
      BY <3>1 DEF Distinct, RolesOf
  <2>3. "codex" \in Apps /\ "claude" \in Apps
    BY DEF Apps
  <2> HIDE DEF Reviewer, app
  <2>4. QED
    BY <1>4, <2>1, <2>2, <2>3
<1>9. A \o B \in Seq(AgentRecords) /\ Distinct(A \o B)
  <2>1. PICK X, Y : X = RolesOf(A) /\ Y = RolesOf(B) /\ Team(A, X) /\ Team(B, Y) /\ X \cap Y = {}
    <3>1. RolesOf(A) \cap RolesOf(B) = {}
      BY <1>7, <1>8
    <3>2. Team(A, RolesOf(A)) /\ Team(B, RolesOf(B))
      BY <1>7, <1>8 DEF Team
    <3>3. QED
      BY <3>1, <3>2, SMTT(30)
  <2>2. Team(A \o B, X \cup Y)
    BY <2>1, TeamsJoined
  <2>3. QED
    BY <2>2 DEF Team
<1>10. Role("orchestrator") \in PlanRoles /\ Role("implementer") \in PlanRoles
  BY NamesOfRoles DEF BaseRoles
<1>11. plans \in GroupRecords /\ synthesize \in GroupRecords /\ synthesize.label = "synthesize"
  BY <1>10 DEF GroupRecords, Labels
<1>12. execute \in GroupRecords
  <2>1. PICK m, t : m = ToSet(roles) /\ t = ToSet(team)
    OBVIOUS
  <2>2. \A u, F : Lists(u, PlanRoles, F) => ToSet(u) \subseteq PlanRoles
    BY DEF Lists, ToSet
  <2>3. m \subseteq PlanRoles /\ t \subseteq PlanRoles
    BY <1>5, <1>6, <2>1, <2>2
  <2> HIDE DEF roles, team, fanned
  <2>4. Group("execute-parallel", m \ orchestrator, t) \in GroupRecords
    BY <2>3 DEF GroupRecords, Labels
  <2>5. Group("execute", {Role("implementer")}, {Role("implementer")}) \in GroupRecords
    BY <1>10 DEF GroupRecords, Labels
  <2>6. QED
    BY <2>1, <2>4, <2>5
<1>13. PICK G : /\ G = <<plans, execute, synthesize>> /\ G \in Seq(GroupRecords)
                /\ 3 \in 1..Len(G) /\ G[3].label = "synthesize"
  <2> HIDE DEF plans, execute, synthesize
  <2>1. /\ <<plans, execute, synthesize>> \in Seq(GroupRecords)
        /\ Len(<<plans, execute, synthesize>>) = 3
        /\ <<plans, execute, synthesize>>[3] = synthesize
    BY <1>11, <1>12, ThreeGroups
  <2>2. PICK G : G = <<plans, execute, synthesize>>
    OBVIOUS
  <2>3. G \in Seq(GroupRecords) /\ Len(G) = 3 /\ G[3].label = "synthesize"
    BY <1>11, <2>1, <2>2
  <2>4. 3 \in 1..Len(G)
    BY <2>3
  <2>5. QED
    BY <2>2, <2>3, <2>4, Zenon
<1>14. PICK g : /\ g = gates /\ g \in Seq({"auto", "working-tree", "branch"})
                /\ (g # <<>> => h.codex)
  <2>1. PICK risky, branch : /\ risky = (IF Level(s.risk) >= 2 THEN TRUE ELSE FALSE)
                             /\ branch = (IF primary = "ultracode" THEN TRUE ELSE FALSE)
    OBVIOUS
  <2>2. gates = GatesFor(h.codex, risky, branch)
    BY <2>1 DEF GatesFor
  <2> HIDE DEF gates, primary
  <2>3. risky \in BOOLEAN /\ branch \in BOOLEAN /\ (branch => h.codex)
    BY <1>2, <2>1
  <2>4. QED
    BY <1>2, <2>2, <2>3, GatesAre
<1>15. PICK l \in Nat : l = IF looped THEN 1 ELSE 0
  OBVIOUS
<1>16. PICK p : p = [mode |-> "dynamic", primary |-> primary, selected |-> selected,
                     agents |-> A \o B, groups |-> G, gates |-> g, loops |-> l]
  OBVIOUS
<1> HIDE DEF primary, selected, agents, reviewer, plans, execute, synthesize, gates, looped
<1>17. DynamicPlan(s, h, cap) = p
  BY <1>1, <1>7, <1>8, <1>13, <1>14, <1>15, <1>16
<1>18. p \in PlanRecords
  BY <1>2, <1>3, <1>9, <1>13, <1>14, <1>16 DEF PlanRecords, Designs
<1>19. p.mode # "fixed-1" /\ p.agents = A \o B /\ p.groups = G /\ p.gates = g
  BY <1>16
<1>20. SoundPlan(p, h)
  BY <1>9, <1>13, <1>14, <1>18, <1>19 DEF SoundPlan
<1>21. QED
  BY <1>17, <1>20
LEMMA TeamGrows ==
  ASSUME NEW A, NEW E, Team(A, E), NEW agent \in AgentRecords, agent.role \notin E
  PROVE  Team(Append(A, agent), E \cup {agent.role})
<1>1. PICK R, B : R = AgentRecords /\ B = Append(A, agent)
  OBVIOUS
<1>2. A \in Seq(R) /\ agent \in R
  BY <1>1 DEF Team
<1>3. /\ B \in Seq(R) /\ Len(B) = Len(A) + 1 /\ Len(A) \in Nat
      /\ \A i \in 1..Len(B) : B[i] = IF i <= Len(A) THEN A[i] ELSE agent
  BY <1>1, <1>2
<1>4. Distinct(A) /\ E = {A[i].role : i \in 1..Len(A)}
  BY DEF Team, RolesOf
<1>5. \A i \in 1..Len(A) : A[i].role # agent.role
  BY <1>4
<1>6. Distinct(B)
  <2>1. SUFFICES ASSUME NEW i \in 1..Len(B), NEW j \in 1..Len(B), B[i].role = B[j].role PROVE i = j
    BY DEF Distinct
  <2>2. CASE i <= Len(A) /\ j <= Len(A)
    BY <1>3, <1>4, <2>1, <2>2 DEF Distinct
  <2>3. CASE i <= Len(A) /\ j > Len(A)
    BY <1>3, <1>5, <2>1, <2>3
  <2>4. CASE i > Len(A) /\ j <= Len(A)
    BY <1>3, <1>5, <2>1, <2>4
  <2>5. CASE i > Len(A) /\ j > Len(A)
    BY <1>3, <2>5
  <2>6. QED
    BY <1>3, <2>2, <2>3, <2>4, <2>5
<1>7. \A i \in 1..Len(B) : B[i].role \in E \cup {agent.role}
  <2>1. SUFFICES ASSUME NEW i \in 1..Len(B) PROVE B[i].role \in E \cup {agent.role}
    OBVIOUS
  <2>2. CASE i <= Len(A)
    BY <1>3, <1>4, <2>2
  <2>3. CASE i > Len(A)
    BY <1>3, <2>3
  <2>4. QED
    BY <1>3, <2>2, <2>3
<1>8. \A x \in E \cup {agent.role} : \E i \in 1..Len(B) : B[i].role = x
  <2>1. \A i \in 1..Len(A) : i \in 1..Len(B) /\ B[i] = A[i]
    BY <1>3
  <2>2. Len(B) \in 1..Len(B) /\ B[Len(B)] = agent
    BY <1>3
  <2>3. QED
    BY <1>4, <2>1, <2>2
<1>9. RolesOf(B) = E \cup {agent.role}
  BY <1>7, <1>8 DEF RolesOf
<1>10. QED
  BY <1>1, <1>3, <1>6, <1>9 DEF Team

(* What the settings leave of a roster: nobody twice, in particular nobody *)
(* who was there once.                                                     *)
StaysIn(p, disabled, i) == p.agents[i].role \notin disabled \/ Mandatory(p, p.agents[i].role)
LeftOf(p, disabled, n) == {p.agents[i].role : i \in {k \in 1..n : StaysIn(p, disabled, k)}}

LEMMA KeptIs ==
  ASSUME NEW p, NEW E, Team(p.agents, E), NEW disabled
  PROVE  Team(Kept(p, disabled), LeftOf(p, disabled, Len(p.agents)))
<1>1. PICK N, agents : N = Len(p.agents) /\ agents = p.agents
  OBVIOUS
<1>2. /\ agents \in Seq(AgentRecords) /\ N = Len(agents) /\ N \in Nat
      /\ \A i \in 1..N : agents[i] \in AgentRecords
      /\ \A i, j \in 1..N : agents[i].role = agents[j].role => i = j
  <2>1. agents \in Seq(AgentRecords) /\ N = Len(agents) /\ Distinct(agents)
    BY <1>1 DEF Team
  <2>2. N \in Nat /\ \A i \in 1..N : agents[i] \in AgentRecords
    BY <2>1
  <2>3. QED
    BY <2>1, <2>2 DEF Distinct
<1>3. PICK stays : stays = [i \in 1..N |-> IF StaysIn(p, disabled, i) THEN TRUE ELSE FALSE]
  OBVIOUS
<1> DEFINE step == [x \in (1..N) \X Seq(AgentRecords) |->
                      IF stays[x[1]] = TRUE THEN Append(x[2], agents[x[1]]) ELSE x[2]]
           D(h) == [n \in 0..N |->
                      IF n = 0 THEN <<>>
                      ELSE IF agents[n].role \notin disabled \/ Mandatory(p, agents[n].role)
                           THEN Append(h[n - 1], agents[n]) ELSE h[n - 1]]
<1>4. PICK f : Iteration(f, N, Seq(AgentRecords), <<>>, step)
  <2>1. PICK next, lists, R : next = step /\ lists = Seq(AgentRecords) /\ R = AgentRecords
    OBVIOUS
  <2>2. <<>> \in lists
    BY <2>1
  <2>3. \A i \in 1..N : \A l \in lists : Append(l, agents[i]) \in lists
    <3>1. \A r \in R : \A l \in Seq(R) : Append(l, r) \in Seq(R)
      OBVIOUS
    <3>2. QED
      BY <1>2, <2>1, <3>1
  <2>4. next = [x \in (1..N) \X lists |->
                  IF stays[x[1]] = TRUE THEN Append(x[2], agents[x[1]]) ELSE x[2]]
    BY <2>1
  <2>5. next \in [(1..N) \X lists -> lists]
    BY <2>3, <2>4
  <2>6. \E f : Iteration(f, N, lists, <<>>, next)
    BY <1>2, <2>2, <2>5, Iterates
  <2>7. QED
    BY <2>1, <2>6
<1>5. /\ f \in [0..N -> Seq(AgentRecords)] /\ f[0] = <<>>
      /\ \A k \in 1..N : f[k] = IF stays[k] = TRUE THEN Append(f[k - 1], agents[k]) ELSE f[k - 1]
  <2>1. PICK lists : lists = Seq(AgentRecords)
    OBVIOUS
  <2>2. /\ f \in [0..N -> lists] /\ f[0] = <<>> /\ \A k \in 1..N : f[k] = step[<<k, f[k - 1]>>]
    BY <1>4, <2>1 DEF Iteration
  <2>3. ASSUME NEW k \in 1..N
        PROVE  f[k] = IF stays[k] = TRUE THEN Append(f[k - 1], agents[k]) ELSE f[k - 1]
    <3>0. k - 1 \in 0..N
      BY <1>2, <2>3
    <3>1. f[k - 1] \in lists /\ f[k] = step[<<k, f[k - 1]>>]
      <4> HIDE DEF step
      <4>1. f[k] = step[<<k, f[k - 1]>>]
        BY <2>2
      <4>2. QED
        BY <2>2, <3>0, <4>1
    <3>2. PICK l : l = f[k - 1]
      OBVIOUS
    <3>3. <<k, l>> \in (1..N) \X lists /\ f[k] = step[<<k, l>>]
      BY <3>1, <3>2
    <3>4. f[k] = IF stays[k] = TRUE THEN Append(l, agents[k]) ELSE l
      BY <2>1, <3>3
    <3>5. QED
      BY <3>2, <3>4
  <2>4. QED
    BY <2>1, <2>2, <2>3
<1>6. \A k \in 1..N : stays[k] = TRUE <=> (agents[k].role \notin disabled \/ Mandatory(p, agents[k].role))
  BY <1>1, <1>3 DEF StaysIn
<1>7. f = D(f)
  <2>1. PICK lists : lists = Seq(AgentRecords)
    OBVIOUS
  <2>2. f = [n \in 0..N |-> f[n]]
    BY <1>5, <2>1
  <2>3. ASSUME NEW n \in 0..N PROVE f[n] = D(f)[n]
    <3>1. CASE n = 0
      BY <1>5, <3>1
    <3>2. CASE n # 0
      <4>1. n \in 1..N
        BY <1>2, <3>2
      <4>2. QED
        BY <1>5, <1>6, <3>2, <4>1
    <3>3. QED
      BY <3>1, <3>2
  <2>4. D(f) = [n \in 0..N |-> D(f)[n]]
    OBVIOUS
  <2> HIDE DEF D
  <2>5. QED
    BY <2>2, <2>3, <2>4
<1>8. PICK h : h = CHOOSE t : t = D(t)
  OBVIOUS
<1>9. h = D(h)
  <2> HIDE DEF D
  <2>1. QED
    BY <1>7, <1>8
<1>10. Kept(p, disabled) = h[N]
  BY <1>1, <1>8 DEF Kept
<1>11. PICK o : o = h
  OBVIOUS
<1>12. h = D(o)
  BY <1>9, <1>11
<1>13. /\ h[0] = <<>>
       /\ \A i \in 1..N : h[i] = IF stays[i] = TRUE THEN Append(o[i - 1], agents[i]) ELSE o[i - 1]
  BY <1>2, <1>6, <1>12
<1> DEFINE Good(n) == Team(h[n], LeftOf(p, disabled, n))
<1>14. Good(0)
  <2>1. LeftOf(p, disabled, 0) = {}
    BY DEF LeftOf
  <2>2. <<>> \in Seq(AgentRecords) /\ Len(<<>>) = 0 /\ 1..0 = {}
    OBVIOUS
  <2>3. Team(<<>>, {})
    BY <2>2 DEF Team, Distinct, RolesOf
  <2>4. QED
    BY <1>13, <2>1, <2>3
<1>15. ASSUME NEW n \in 1..N, Good(n - 1) PROVE Good(n)
  <2>1. CASE stays[n] = TRUE
    <3>1. StaysIn(p, disabled, n) /\ h[n] = Append(o[n - 1], agents[n])
      BY <1>1, <1>6, <1>13, <2>1 DEF StaysIn
    <3>2. LeftOf(p, disabled, n) = LeftOf(p, disabled, n - 1) \cup {agents[n].role}
      <4>1. {k \in 1..n : StaysIn(p, disabled, k)} = {k \in 1..(n - 1) : StaysIn(p, disabled, k)} \cup {n}
        BY <1>2, <3>1
      <4>2. QED
        BY <1>1, <4>1 DEF LeftOf
    <3>3. agents[n].role \notin LeftOf(p, disabled, n - 1)
      <4>1. SUFFICES ASSUME NEW k \in 1..(n - 1), agents[k].role = agents[n].role PROVE FALSE
        BY <1>1 DEF LeftOf
      <4>2. k \in 1..N /\ k # n
        BY <1>2
      <4>3. QED
        BY <1>2, <4>1, <4>2
    <3>4. Team(Append(h[n - 1], agents[n]), LeftOf(p, disabled, n - 1) \cup {agents[n].role})
      BY <1>2, <1>15, <3>3, TeamGrows
    <3>5. QED
      BY <1>11, <3>1, <3>2, <3>4
  <2>2. CASE stays[n] # TRUE
    <3>1. ~StaysIn(p, disabled, n) /\ h[n] = o[n - 1]
      BY <1>1, <1>6, <1>13, <2>2 DEF StaysIn
    <3>2. LeftOf(p, disabled, n) = LeftOf(p, disabled, n - 1)
      <4>1. {k \in 1..n : StaysIn(p, disabled, k)} = {k \in 1..(n - 1) : StaysIn(p, disabled, k)}
        BY <1>2, <3>1
      <4>2. QED
        BY <4>1 DEF LeftOf
    <3>3. QED
      BY <1>11, <1>15, <3>1, <3>2
  <2>3. QED
    BY <2>1, <2>2
<1>16. Good(N)
  <2> DEFINE W == {n \in 0..N : ~Good(n)}
  <2>1. SUFFICES ASSUME W # {} PROVE FALSE
    BY <1>2
  <2>2. PICK x \in W : \A y \in W : x <= y
    <3>1. W \in SUBSET Nat
      OBVIOUS
    <3> HIDE DEF W
    <3>2. QED
      BY <2>1, <3>1, LeastNat
  <2> HIDE DEF Good
  <2>3. x # 0
    BY <1>14, <2>2
  <2>4. x \in 1..N /\ x - 1 \in 0..N /\ Good(x - 1)
    BY <1>2, <2>2, <2>3, SMTT(30)
  <2>5. QED
    BY <1>15, <2>2, <2>4
<1>17. QED
  BY <1>1, <1>10, <1>16

(* The hackers are as many as the mode asks, whatever the settings say.    *)
LEMMA HackersAre ==
  /\ Lists(Hackers(PlanHackers), PlanRoles, HackerRoles)
  /\ ToSet(Hackers(PlanHackers)) = HackerRoles
  /\ IsFiniteSet(HackerRoles) /\ Cardinality(HackerRoles) >= PlanHackers
<1>1. PICK n : n = IF PlanHackers > 1 THEN PlanHackers ELSE 1
  OBVIOUS
<1>2. n \in Nat /\ n >= 1 /\ n >= PlanHackers
  BY <1>1, PlannerAssumption
<1>3. PICK H : H = Hackers(PlanHackers)
  OBVIOUS
<1>4. H = [i \in 1..n |-> Copy("hacker", i)] /\ HackerRoles = {Copy("hacker", i) : i \in 1..n}
  BY <1>1, <1>3 DEF Hackers, HackerRoles
<1>5. \A i, j \in 1..n : Copy("hacker", i) = Copy("hacker", j) => i = j
  BY DEF Copy
<1>6. H \in [1..n -> HackerRoles] /\ \A i \in 1..n : H[i] = Copy("hacker", i)
  <2>1. \A i \in 1..n : Copy("hacker", i) \in HackerRoles
    BY <1>4
  <2>2. QED
    BY <1>4, <2>1
<1>7. DOMAIN H = 1..n /\ H \in Seq(PlanRoles) /\ Len(H) = n
  <2>1. PICK R : R = PlanRoles /\ HackerRoles \subseteq R
    BY NamesOfRoles
  <2>2. H \in [1..n -> R]
    BY <1>6, <2>1
  <2>3. DOMAIN H = 1..n /\ H \in Seq(R) /\ Len(H) = n
    BY <1>2, <2>2
  <2>4. QED
    BY <2>1, <2>3
<1>8. OneEach(H) /\ Elements(H) = HackerRoles
  BY <1>4, <1>5, <1>6, <1>7 DEF OneEach, Elements
<1>9. ToSet(H) = HackerRoles
  BY <1>7, <1>8 DEF ToSet, Elements
<1>10. IsFiniteSet(HackerRoles) /\ Cardinality(HackerRoles) = n
  <2>1. H \in Bijection(1..n, HackerRoles)
    <3>1. H \in Injection(1..n, HackerRoles)
      BY <1>5, <1>6 DEF Injection, IsInjective
    <3>2. H \in Surjection(1..n, HackerRoles)
      BY <1>4, <1>6 DEF Surjection
    <3>3. QED
      BY <3>1, <3>2 DEF Bijection
  <2>2. ExistsBijection(1..n, HackerRoles)
    BY <2>1 DEF ExistsBijection
  <2>3. IsFiniteSet(1..n) /\ Cardinality(1..n) = n
    <3>1. 1 \in Int /\ n \in Int
      BY <1>2
    <3>2. IsFiniteSet(1..n) /\ Cardinality(1..n) = IF 1 > n THEN 0 ELSE n - 1 + 1
      BY <3>1, FS_Interval
    <3>3. QED
      BY <1>2, <3>2
  <2>4. QED
    BY <2>2, <2>3, FS_Bijection
<1>11. QED
  BY <1>2, <1>3, <1>7, <1>8, <1>9, <1>10 DEF Lists

LEMMA FiveRoles ==
  ASSUME NEW S, NEW a \in S, NEW b \in S, NEW c \in S, NEW d \in S, NEW e \in S,
         a \notin {b, c, d, e}, b \notin {c, d, e}, c \notin {d, e}, d # e
  PROVE  Lists(<<a, b, c, d, e>>, S, {a, b, c, d, e})
<1>1. PICK s : s = <<a, b, c, d, e>>
  OBVIOUS
<1>2. /\ s \in Seq(S) /\ Len(s) = 5
      /\ s[1] = a /\ s[2] = b /\ s[3] = c /\ s[4] = d /\ s[5] = e
  BY <1>1
<1>3. 1..5 = {1, 2, 3, 4, 5}
  OBVIOUS
<1>4. OneEach(s) /\ Elements(s) = {a, b, c, d, e}
  BY <1>2, <1>3 DEF OneEach, Elements
<1>5. QED
  BY <1>1, <1>2, <1>4 DEF Lists

LEMMA FourGroups ==
  ASSUME NEW a \in GroupRecords, NEW b \in GroupRecords, NEW c \in GroupRecords, NEW d \in GroupRecords,
         NEW G, G = <<a, b, c, d>>
  PROVE  G \in Seq(GroupRecords) /\ 4 \in 1..Len(G) /\ G[4] = d
<1>1. PICK R : R = GroupRecords
  OBVIOUS
<1>2. G \in Seq(R) /\ Len(G) = 4 /\ G[4] = d
  BY <1>1
<1>3. QED
  BY <1>1, <1>2

LEMMA FixedSound ==
  ASSUME NEW h
  PROVE  SoundPlan(FixedPlan(PlanHackers), h)
<1>1. PICK o, i, r, a, t : /\ o = Role("orchestrator") /\ i = Role("implementer") /\ r = Role("researcher")
                           /\ a = Role("advisor") /\ t = Role("autoresearch")
  OBVIOUS
<1>2. /\ o \in PlanRoles /\ i \in PlanRoles /\ r \in PlanRoles /\ a \in PlanRoles /\ t \in PlanRoles
  BY <1>1, NamesOfRoles DEF BaseRoles
<1>3. o \notin {i, r, a, t} /\ i \notin {r, a, t} /\ r \notin {a, t} /\ a # t
  BY <1>1 DEF Role
<1>4. PICK team : team = <<o, i, r, a, t>> /\ Lists(team, PlanRoles, {o, i, r, a, t})
  BY <1>2, <1>3, FiveRoles
<1>5. PICK hackers : hackers = Hackers(PlanHackers)
  OBVIOUS
<1>6. Lists(hackers, PlanRoles, HackerRoles) /\ ToSet(hackers) = HackerRoles /\ HackerRoles \subseteq PlanRoles
  BY <1>5, HackersAre, NamesOfRoles
<1>7. {o, i, r, a, t} \cap HackerRoles = {}
  BY <1>1 DEF HackerRoles, Role, Copy
<1>8. PICK roles : roles = team \o hackers /\ Lists(roles, PlanRoles, {o, i, r, a, t} \cup HackerRoles)
  BY <1>4, <1>6, <1>7, OneAfterTheOther
<1>9. PICK agents : /\ agents = [k \in 1..Len(roles) |-> [role |-> roles[k], app |-> "claude", from |-> "claude"]]
                    /\ agents \in Seq(AgentRecords) /\ Distinct(agents)
                    /\ RolesOf(agents) = {o, i, r, a, t} \cup HackerRoles
  <2>1. PICK A : A = [k \in 1..Len(roles) |-> [role |-> roles[k], app |-> "claude", from |-> "claude"]]
    OBVIOUS
  <2>2. /\ roles \in Seq(PlanRoles) /\ OneEach(roles)
        /\ Elements(roles) = {o, i, r, a, t} \cup HackerRoles
    BY <1>8 DEF Lists
  <2>3. "claude" \in Apps
    BY DEF Apps
  <2>4. A \in Seq(AgentRecords) /\ Distinct(A) /\ RolesOf(A) = Elements(roles)
    BY <2>1, <2>2, <2>3, TeamOf
  <2>5. QED
    BY <2>1, <2>2, <2>4
<1> DEFINE Group(label, members) == [label |-> label, agents |-> members, steps |-> {}]
<1>10. PICK w, x, y, z : /\ w = Group("implement", {i, r})
                         /\ x = Group("optional-bounded-optimization", {t})
                         /\ y = Group("triggered-advice", {a})
                         /\ z = Group("independent-acceptance", HackerRoles)
  OBVIOUS
<1>11. w \in GroupRecords /\ x \in GroupRecords /\ y \in GroupRecords /\ z \in GroupRecords
  BY <1>2, <1>6, <1>10 DEF GroupRecords, Labels
<1>12. z.label = "independent-acceptance" /\ z.agents = HackerRoles
  BY <1>10
<1>13. PICK groups : groups = <<w, x, y, z>>
  OBVIOUS
<1>14. groups \in Seq(GroupRecords) /\ 4 \in 1..Len(groups) /\ groups[4] = z
  BY <1>11, <1>13, FourGroups
<1>15. PICK p : p = [mode |-> "fixed-1", primary |-> "fixed-1", selected |-> {"fixed-1"}, agents |-> agents,
                     groups |-> groups, gates |-> <<>>, loops |-> 0]
  OBVIOUS
<1>16. FixedPlan(PlanHackers) = p
  BY <1>1, <1>4, <1>5, <1>6, <1>8, <1>9, <1>10, <1>13, <1>15 DEF FixedPlan
<1>17. p \in PlanRecords
  <2>1. <<>> \in Seq({"auto", "working-tree", "branch"})
    OBVIOUS
  <2>2. QED
    BY <1>9, <1>14, <1>15, <2>1 DEF PlanRecords, Designs
<1>18. p.mode = "fixed-1" /\ p.agents = agents /\ p.groups = groups /\ p.gates = <<>>
  BY <1>15
<1>19. {Role("orchestrator"), Role("implementer")} \cup HackerRoles \subseteq RolesOf(agents)
  BY <1>1, <1>9
<1>20. SoundPlan(p, h)
  BY <1>9, <1>12, <1>14, <1>17, <1>18, <1>19 DEF SoundPlan
<1>21. QED
  BY <1>16, <1>20

(* A sequence with an element put in has its elements and that one.        *)
LEMMA Inserted ==
  ASSUME NEW S, NEW s \in Seq(S), NEW e \in S, NEW i \in 1..Len(s)
  PROVE  /\ InsertAt(s, i, e) \in Seq(S)
         /\ Elements(s) \subseteq Elements(InsertAt(s, i, e))
         /\ e \in Elements(InsertAt(s, i, e))
<1>1. Len(s) \in Nat /\ i \in Nat /\ i >= 1 /\ i <= Len(s) /\ i \in 1..(Len(s) + 1)
  OBVIOUS
<1>2. PICK u : u = InsertAt(s, i, e)
  OBVIOUS
<1>3. PutIn(u, s, S, i, e)
  BY <1>1, <1>2, InsertionIs
<1>4. e \in Elements(u)
  <2>1. i \in 1..Len(u)
    BY <1>1, <1>3 DEF PutIn
  <2>2. QED
    BY <1>3, <2>1 DEF Elements, PutIn
<1>5. Elements(s) \subseteq Elements(u)
  <2>1. SUFFICES ASSUME NEW k \in 1..Len(s) PROVE s[k] \in Elements(u)
    BY DEF Elements
  <2>2. CASE k < i
    <3>1. k \in 1..Len(u) /\ u[k] = s[k]
      BY <1>1, <1>3, <2>2 DEF PutIn
    <3>2. QED
      BY <3>1 DEF Elements
  <2>3. CASE k >= i
    <3>1. k + 1 \in 1..Len(u) /\ u[k + 1] = s[k]
      BY <1>1, <1>3, <2>3 DEF PutIn
    <3>2. QED
      BY <3>1 DEF Elements
  <2>4. QED
    BY <1>1, <2>2, <2>3
<1>6. QED
  BY <1>2, <1>3, <1>4, <1>5 DEF PutIn

(* What the settings make of a sound plan is sound, and every agent stands *)
(* in exactly the groups that run it.                                      *)
LEMMA MandatoryStay ==
  ASSUME NEW p, p.mode = "fixed-1", p.agents \in Seq(AgentRecords), NEW disabled, NEW role,
         role \in {Role("orchestrator"), Role("implementer")} \cup HackerRoles,
         role \in RolesOf(p.agents)
  PROVE  role \in LeftOf(p, disabled, Len(p.agents))
<1>1. role[1] \in {"orchestrator", "implementer", "hacker"}
  BY DEF Role, HackerRoles, Copy
<1>2. Mandatory(p, role)
  BY <1>1 DEF Mandatory
<1>3. PICK k \in 1..Len(p.agents) : p.agents[k].role = role
  BY DEF RolesOf
<1>4. StaysIn(p, disabled, k)
  BY <1>2, <1>3 DEF StaysIn
<1>5. QED
  BY <1>3, <1>4 DEF LeftOf

LEMMA AddedIs ==
  ASSUME NEW custom \in Customs, NEW S \in SUBSET custom, NEW app \in Apps,
         NEW added, added = SetToSeq(S)
  PROVE  Team([i \in 1..Len(added) |-> [role |-> added[i], app |-> app, from |-> app]], S)
<1>1. S \subseteq PlanRoles
  BY DEF PlanRoles
<1>2. IsFiniteSet(S)
  BY PlannerAssumption, FS_Subset
<1>3. added \in Seq(S) /\ OneEach(added) /\ S \subseteq Elements(added)
  BY <1>2, SetAsSeq DEF OneEach, Elements
<1>4. added \in Seq(PlanRoles) /\ Elements(added) \subseteq S
  <2>1. PICK R : R = PlanRoles
    OBVIOUS
  <2>2. added \in Seq(R) /\ \A i \in 1..Len(added) : added[i] \in S
    BY <1>1, <1>3, <2>1
  <2>3. QED
    BY <2>1, <2>2 DEF Elements
<1>5. PICK A : A = [i \in 1..Len(added) |-> [role |-> added[i], app |-> app, from |-> app]]
  OBVIOUS
<1>6. A \in Seq(AgentRecords) /\ Distinct(A) /\ RolesOf(A) = Elements(added)
  BY <1>3, <1>4, <1>5, TeamOf
<1>7. RolesOf(A) = S
  BY <1>3, <1>4, <1>6
<1>8. QED
  BY <1>5, <1>6, <1>7 DEF Team

LEMMA OverriddenSound ==
  ASSUME NEW p, SoundPlan(p, planHost), planHost \in Hosts, NEW disabled, NEW custom \in Customs,
         NEW q, q = Overridden(p, disabled, custom)
  PROVE  /\ SoundPlan(q, planHost)
         /\ UNION {q.groups[i].agents : i \in 1..Len(q.groups)} = RolesOf(q.agents)
<1>0. /\ p \in PlanRecords /\ Distinct(p.agents) /\ p.agents \in Seq(AgentRecords)
      /\ p.groups \in Seq(GroupRecords) /\ (p.gates # <<>> => planHost.codex)
  <2>1. p \in PlanRecords
    BY DEF SoundPlan
  <2>2. p.agents \in Seq(AgentRecords) /\ p.groups \in Seq(GroupRecords)
    BY <2>1 DEF PlanRecords
  <2>3. QED
    BY <2>1, <2>2 DEF SoundPlan
<1>1. PICK K : K = LeftOf(p, disabled, Len(p.agents))
  OBVIOUS
<1>2. PICK kept : kept = Kept(p, disabled) /\ Team(kept, K)
  <2>1. Team(p.agents, RolesOf(p.agents))
    BY <1>0 DEF Team
  <2>2. Team(Kept(p, disabled), K)
    BY <1>1, <2>1, KeptIs
  <2>3. QED
    BY <2>2
<1>3. PICK app \in Apps :
        app = IF p.mode = "fixed-1" \/ planHost.app = "unknown" THEN "claude"
              ELSE IF planHost.app \in {"pi", "dsh", "codex"} THEN planHost.app ELSE "claude"
  <2>1. PICK app : app = IF p.mode = "fixed-1" \/ planHost.app = "unknown" THEN "claude"
                         ELSE IF planHost.app \in {"pi", "dsh", "codex"} THEN planHost.app ELSE "claude"
    OBVIOUS
  <2>2. app \in Apps
    BY <2>1 DEF Apps
  <2>3. QED
    BY <2>1, <2>2
<1>4. PICK S : S = custom \ (disabled \cup RolesOf(kept))
  OBVIOUS
<1>5. PICK added : added = SetToSeq(S)
  OBVIOUS
<1>6. PICK new : new = [i \in 1..Len(added) |-> [role |-> added[i], app |-> app, from |-> app]]
  OBVIOUS
<1>7. Team(new, S)
  <2>1. S \in SUBSET custom
    BY <1>4
  <2>2. Team([i \in 1..Len(added) |-> [role |-> added[i], app |-> app, from |-> app]], S)
    BY <1>5, <2>1, AddedIs
  <2>3. QED
    BY <1>6, <2>2
<1>8. PICK agents, R : agents = kept \o new /\ R = K \cup S /\ Team(agents, R)
  <2>1. K \cap S = {}
    BY <1>2, <1>4 DEF Team
  <2>2. QED
    BY <1>2, <1>7, <2>1, TeamsJoined
<1>9. agents \in Seq(AgentRecords) /\ Distinct(agents) /\ RolesOf(agents) = R
  BY <1>8 DEF Team
<1>10. R \subseteq PlanRoles
  <2>1. \A agent \in AgentRecords : agent.role \in PlanRoles
    BY DEF AgentRecords
  <2>2. \A i \in 1..Len(agents) : agents[i] \in AgentRecords
    BY <1>9
  <2>3. QED
    BY <1>9, <2>1, <2>2 DEF RolesOf
<1>11. PICK extra : extra = R \ UNION {p.groups[i].agents : i \in 1..Len(p.groups)}
  OBVIOUS
<1>12. Unassigned(p, agents) = extra
  BY <1>9, <1>11 DEF Unassigned
<1>13. PICK place : place = CHOOSE i \in 1..Len(p.groups) :
                              p.groups[i].label \in {"synthesize", "independent-acceptance"}
  OBVIOUS
<1>14. place \in 1..Len(p.groups)
  BY <1>13 DEF SoundPlan
<1>15. PICK e : e = [label |-> "custom-roles", agents |-> extra, steps |-> {}]
  OBVIOUS
<1>16. e \in GroupRecords /\ e.agents = extra
  BY <1>10, <1>11, <1>15 DEF GroupRecords, Labels
<1>17. PICK groups : groups = IF extra = {} THEN p.groups ELSE InsertAt(p.groups, place, e)
  OBVIOUS
<1>18. /\ groups \in Seq(GroupRecords) /\ Elements(p.groups) \subseteq Elements(groups)
       /\ extra # {} => e \in Elements(groups)
  <2>1. CASE extra = {}
    BY <1>0, <1>17, <2>1
  <2>2. CASE extra # {}
    <3>1. PICK G, s : G = GroupRecords /\ s = p.groups
      OBVIOUS
    <3>2. s \in Seq(G) /\ e \in G /\ place \in 1..Len(s)
      BY <1>0, <1>14, <1>16, <3>1
    <3>3. /\ InsertAt(s, place, e) \in Seq(G) /\ Elements(s) \subseteq Elements(InsertAt(s, place, e))
          /\ e \in Elements(InsertAt(s, place, e))
      BY <3>2, Inserted
    <3>4. QED
      BY <1>17, <2>2, <3>1, <3>3
  <2>3. QED
    BY <2>1, <2>2
<1>19. PICK final : final = [i \in 1..Len(groups) |-> [groups[i] EXCEPT !.agents = @ \cap R]]
  OBVIOUS
<1>20. q = [p EXCEPT !.agents = agents, !.groups = final]
  <2> DEFINE kept0 == Kept(p, disabled)
             app0 == IF p.mode = "fixed-1" \/ planHost.app = "unknown" THEN "claude"
                     ELSE IF planHost.app \in {"pi", "dsh", "codex"} THEN planHost.app ELSE "claude"
             added0 == SetToSeq(custom \ (disabled \cup RolesOf(kept0)))
             new0 == [i \in 1..Len(added0) |-> [role |-> added0[i], app |-> app0, from |-> app0]]
             agents0 == kept0 \o new0
             extra0 == Unassigned(p, agents0)
             place0 == CHOOSE i \in 1..Len(p.groups) : p.groups[i].label \in {"synthesize", "independent-acceptance"}
             groups0 == IF extra0 = {} THEN p.groups
                        ELSE InsertAt(p.groups, place0, [label |-> "custom-roles", agents |-> extra0, steps |-> {}])
             final0 == [i \in 1..Len(groups0) |-> [groups0[i] EXCEPT !.agents = @ \cap RolesOf(agents0)]]
  <2>1. q = [p EXCEPT !.agents = agents0, !.groups = final0]
    BY DEF Overridden
  <2>2. kept0 = kept /\ app0 = app
    BY <1>2, <1>3
  <2>3. added0 = added
    <3> HIDE DEF kept0
    <3>1. QED
      BY <1>4, <1>5, <2>2
  <2>4. new0 = new
    <3> HIDE DEF added0, app0
    <3>1. QED
      BY <1>6, <2>2, <2>3
  <2>5. agents0 = agents
    <3> HIDE DEF kept0, new0
    <3>1. QED
      BY <1>8, <2>2, <2>4
  <2>6. extra0 = extra
    <3> HIDE DEF agents0
    <3>1. QED
      BY <1>12, <2>5
  <2>7. place0 = place
    BY <1>13
  <2>8. groups0 = groups
    <3> HIDE DEF extra0, place0
    <3>1. QED
      BY <1>15, <1>17, <2>6, <2>7
  <2>9. final0 = final
    <3> HIDE DEF agents0, groups0
    <3>1. QED
      BY <1>9, <1>19, <2>5, <2>8
  <2> HIDE DEF agents0, final0
  <2>10. QED
    BY <2>1, <2>5, <2>9
<1>21. \A i \in 1..Len(groups) : groups[i] \in GroupRecords
  BY <1>18
<1>22. /\ final \in Seq(GroupRecords) /\ Len(final) = Len(groups) /\ Len(groups) \in Nat
       /\ \A i \in 1..Len(groups) : /\ final[i].label = groups[i].label
                                    /\ final[i].agents = groups[i].agents \cap R
  <2>1. \A g \in GroupRecords : /\ [g EXCEPT !.agents = @ \cap R] \in GroupRecords
                                /\ [g EXCEPT !.agents = @ \cap R].label = g.label
                                /\ [g EXCEPT !.agents = @ \cap R].agents = g.agents \cap R
    BY DEF GroupRecords
  <2>2. PICK G : G = GroupRecords
    OBVIOUS
  <2>3. ASSUME NEW i \in 1..Len(groups)
        PROVE  /\ final[i] \in G /\ final[i].label = groups[i].label
               /\ final[i].agents = groups[i].agents \cap R
    <3>1. PICK g : g = groups[i]
      OBVIOUS
    <3>2. final[i] = [g EXCEPT !.agents = @ \cap R]
      BY <1>19, <3>1
    <3>3. QED
      BY <1>21, <2>1, <2>2, <3>1, <3>2
  <2>4. Len(groups) \in Nat
    BY <1>18
  <2>5. DOMAIN final = 1..Len(groups) /\ final = [i \in 1..Len(groups) |-> final[i]]
    BY <1>19
  <2>6. final \in [1..Len(groups) -> G]
    BY <2>3, <2>5
  <2>7. final \in Seq(G) /\ Len(final) = Len(groups)
    BY <2>4, <2>6
  <2>8. QED
    BY <2>2, <2>3, <2>4, <2>7
<1>23. q \in PlanRecords /\ q.agents = agents /\ q.groups = final /\ q.mode = p.mode /\ q.gates = p.gates
  BY <1>0, <1>9, <1>20, <1>22 DEF PlanRecords
<1>24. \A g \in Elements(groups) :
         \E i \in 1..Len(final) : final[i].label = g.label /\ final[i].agents = g.agents \cap R
  BY <1>22 DEF Elements
<1>25. UNION {final[i].agents : i \in 1..Len(final)} = R
  <2>1. \A i \in 1..Len(final) : final[i].agents \subseteq R
    BY <1>22
  <2>2. ASSUME NEW role \in R PROVE \E i \in 1..Len(final) : role \in final[i].agents
    <3>1. \E g \in Elements(groups) : role \in g.agents
      <4>1. CASE role \in extra
        BY <1>16, <1>18, <4>1
      <4>2. CASE role \notin extra
        <5>1. PICK i \in 1..Len(p.groups) : role \in p.groups[i].agents
          BY <1>11, <4>2
        <5>2. p.groups[i] \in Elements(p.groups)
          BY DEF Elements
        <5>3. QED
          BY <1>18, <5>1, <5>2
      <4>3. QED
        BY <4>1, <4>2
    <3>2. QED
      BY <1>24, <3>1
  <2>3. QED
    BY <2>1, <2>2
<1>26. \E i \in 1..Len(final) : final[i].label \in {"synthesize", "independent-acceptance"}
  <2>1. PICK i \in 1..Len(p.groups) : p.groups[i].label \in {"synthesize", "independent-acceptance"}
    BY DEF SoundPlan
  <2>2. p.groups[i] \in Elements(groups)
    BY <1>18 DEF Elements
  <2>3. QED
    BY <1>24, <2>1, <2>2
<1>27. ASSUME p.mode = "fixed-1"
       PROVE  /\ {Role("orchestrator"), Role("implementer")} \cup HackerRoles \subseteq R
              /\ \E i \in 1..Len(final) :
                   final[i].label = "independent-acceptance" /\ final[i].agents = HackerRoles
  <2>1. {Role("orchestrator"), Role("implementer")} \cup HackerRoles \subseteq K
    <3>1. SUFFICES ASSUME NEW role \in {Role("orchestrator"), Role("implementer")} \cup HackerRoles
                   PROVE  role \in K
      OBVIOUS
    <3>2. role \in RolesOf(p.agents)
      BY <1>27 DEF SoundPlan
    <3>3. QED
      BY <1>0, <1>1, <1>27, <3>2, MandatoryStay
  <2>2. PICK i \in 1..Len(p.groups) :
          p.groups[i].label = "independent-acceptance" /\ p.groups[i].agents = HackerRoles
    BY <1>27 DEF SoundPlan
  <2>3. p.groups[i] \in Elements(groups)
    BY <1>18 DEF Elements
  <2>4. HackerRoles \cap R = HackerRoles
    BY <1>8, <2>1
  <2>5. QED
    BY <1>8, <1>24, <2>1, <2>2, <2>3, <2>4
<1>28. SoundPlan(q, planHost)
  BY <1>0, <1>9, <1>23, <1>26, <1>27 DEF SoundPlan
<1>29. QED
  BY <1>9, <1>23, <1>25, <1>28

(* The signals of a project on disk are signals.                           *)
LEMMA InferredSignals == ASSUME NEW p \in Probes PROVE InferSignals(p) \in SignalRecords
<1>1. p.files \in Nat /\ p.loc \in Nat /\ p.languages \in Nat
  BY PlannerAssumption
<1>2. PICK rounded : rounded = (p.files + 6) \div 12 + (IF p.languages > 1 THEN 1 ELSE 0)
  OBVIOUS
<1>3. PICK risk : risk = IF p.files >= 50 \/ p.languages >= 4 THEN "high"
                         ELSE IF p.files >= 15 THEN "medium" ELSE "low"
  OBVIOUS
<1>4. PICK context : context = IF p.files >= 80 \/ p.loc >= 5000 THEN "large"
                               ELSE IF p.files >= 20 THEN "medium" ELSE "small"
  OBVIOUS
<1>5. PICK parallel : parallel = IF rounded < 1 THEN 1 ELSE IF rounded > 8 THEN 8 ELSE rounded
  OBVIOUS
<1>6. PICK value : value = IF p.files >= 50 THEN "high" ELSE IF p.files >= 15 THEN "medium" ELSE "low"
  OBVIOUS
<1>7. rounded \in Nat /\ parallel \in Nat
  <2>1. (p.files + 6) \div 12 \in Nat
    BY <1>1
  <2>2. rounded \in Nat
    BY <1>2, <2>1
  <2>3. QED
    BY <1>5, <2>2
<1>8. risk \in Texts /\ context \in Texts /\ value \in Texts /\ "coding" \in Texts
  BY <1>3, <1>4, <1>6 DEF Texts
<1>9. PICK hitl, persistence \in BOOLEAN : hitl = (risk = "high") /\ persistence = (context = "large")
  OBVIOUS
<1>10. InferSignals(p) = [files |-> p.files, type |-> "coding", risk |-> risk, context |-> context,
                          parallel |-> parallel, value |-> value, hitl |-> hitl, persistence |-> persistence]
  BY <1>2, <1>3, <1>4, <1>5, <1>6, <1>9 DEF InferSignals
<1>11. QED
  BY <1>1, <1>7, <1>8, <1>9, <1>10 DEF SignalRecords

LEMMA PlannerStarts == PlannerInit => PlannerInv
<1>1. SUFFICES ASSUME PlannerInit PROVE PlannerInv
  OBVIOUS
<1>2. Signals \subseteq SignalRecords
  BY PlannerAssumption DEF SignalRecords, Texts
<1>3. signals \in SignalRecords
  BY <1>1, <1>2, InferredSignals DEF PlannerInit
<1>4. QED
  BY <1>1, <1>3 DEF PlannerInit, PlannerInv, GroupsAreTheRoster

LEMMA PlannerSteps == PlannerInv /\ [PlannerNext]_plannerVars => PlannerInv'
<1>1. SUFFICES ASSUME PlannerInv, [PlannerNext]_plannerVars PROVE PlannerInv'
  OBVIOUS
<1>2. CASE PlanWorkflow
  <2>1. PICK cap \in MaxConcurrencies : plan' = DynamicPlan(signals, planHost, cap)
    BY <1>2 DEF PlanWorkflow
  <2>2. cap \in Nat /\ signals \in SignalRecords /\ planHost \in Hosts
    BY <1>1, <1>2, PlannerAssumption DEF PlannerInv, PlanWorkflow
  <2>3. SoundPlan(plan', planHost)
    BY <2>1, <2>2, DynamicSound
  <2>4. planHost' = planHost /\ planStage' = "planned"
    BY <1>2 DEF PlanWorkflow
  <2>5. QED
    BY <2>2, <2>3, <2>4 DEF PlannerInv, GroupsAreTheRoster
<1>3. CASE PlanFixed
  <2>1. SoundPlan(plan', planHost)
    BY <1>3, FixedSound DEF PlanFixed
  <2>2. planHost' = planHost /\ planStage' = "planned"
    BY <1>3 DEF PlanFixed
  <2>3. planHost \in Hosts
    BY <1>1 DEF PlannerInv
  <2>4. QED
    BY <2>1, <2>2, <2>3 DEF PlannerInv, GroupsAreTheRoster
<1>4. CASE ApplyRoleOverrides
  <2>1. PICK disabled \in Disabled, custom \in Customs : plan' = Overridden(plan, disabled, custom)
    BY <1>4 DEF ApplyRoleOverrides
  <2>2. planHost' = planHost /\ planStage' = "overridden" /\ planStage = "planned"
    BY <1>4 DEF ApplyRoleOverrides
  <2>3. planHost \in Hosts /\ SoundPlan(plan, planHost)
    BY <1>1, <2>2 DEF PlannerInv
  <2>4. PICK q : q = plan'
    OBVIOUS
  <2>5. /\ SoundPlan(q, planHost)
        /\ UNION {q.groups[i].agents : i \in 1..Len(q.groups)} = RolesOf(q.agents)
    BY <2>1, <2>3, <2>4, OverriddenSound
  <2>6. SoundPlan(plan', planHost') /\ GroupsAreTheRoster'
    BY <2>2, <2>4, <2>5 DEF GroupsAreTheRoster
  <2>7. QED
    BY <2>2, <2>3, <2>6 DEF PlannerInv
<1>5. CASE UNCHANGED plannerVars
  BY <1>1, <1>5 DEF PlannerInv, GroupsAreTheRoster, plannerVars
<1>6. QED
  BY <1>1, <1>2, <1>3, <1>4, <1>5 DEF PlannerNext

(* The parts of a plan agree with each other and with its host, whatever   *)
(* was scored, layered and overridden (planner.js, fixed-plan.js,          *)
(* role-overrides.js): for every set of signals, projects, hosts, limits   *)
(* and settings.                                                           *)
THEOREM PlansStayConsistent == PlannerSpec => []PlansAreConsistent
<1>1. ASSUME PlannerInv PROVE PlansAreConsistent
  <2>1. RolesAreDistinct /\ CodexGatesHaveACodex
    BY <1>1 DEF PlannerInv, SoundPlan, Distinct, Planned, RolesAreDistinct, CodexGatesHaveACodex
  <2>2. ASSUME Planned, plan.mode = "fixed-1"
        PROVE  /\ {Role("orchestrator"), Role("implementer")} \subseteq RolesOf(plan.agents)
               /\ \E i \in 1..Len(plan.groups) :
                    plan.groups[i].label = "independent-acceptance"
                    /\ Cardinality(plan.groups[i].agents \cap RolesOf(plan.agents)) >= PlanHackers
    <3>1. SoundPlan(plan, planHost)
      BY <1>1, <2>2 DEF PlannerInv, Planned
    <3>2. {Role("orchestrator"), Role("implementer")} \cup HackerRoles \subseteq RolesOf(plan.agents)
      BY <2>2, <3>1 DEF SoundPlan
    <3>3. PICK i \in 1..Len(plan.groups) :
            plan.groups[i].label = "independent-acceptance" /\ plan.groups[i].agents = HackerRoles
      BY <2>2, <3>1 DEF SoundPlan
    <3>4. plan.groups[i].agents \cap RolesOf(plan.agents) = HackerRoles
      BY <3>2, <3>3
    <3>5. QED
      BY <3>2, <3>3, <3>4, HackersAre
  <2>3. FixedRolesSurvive
    BY <2>2 DEF FixedRolesSurvive
  <2>4. GroupsAreTheRoster
    BY <1>1 DEF PlannerInv
  <2>5. QED
    BY <2>1, <2>3, <2>4 DEF PlansAreConsistent
<1>2. QED
  BY <1>1, PlannerStarts, PlannerSteps, PTL DEF PlannerSpec

(***************************************************************************)
(* The search of the knowledge store.  After n matches the rest are the    *)
(* worse ones; what was taken stands in the order of the ranks and fits    *)
(* the budgets, and what was passed over did not fit behind its betters.   *)
(***************************************************************************)
LEMMA BytesAre ==
  ASSUME NEW s \in Seq(Entries)
  PROVE  \E T : Sums(T, Len(s), [i \in 1..Len(s) |-> s[i].size]) /\ Bytes(s) = T[Len(s)]
<1>1. PICK N : N = Len(s)
  OBVIOUS
<1>2. N \in Nat /\ \A i \in 1..N : s[i].size \in Nat
  <2>1. \A e \in Entries : e.size \in Nat
    BY DEF Entries
  <2>2. N \in Nat /\ \A i \in 1..N : s[i] \in Entries
    BY <1>1
  <2>3. QED
    BY <2>1, <2>2
<1>3. PICK sizes : sizes = [i \in 1..N |-> s[i].size]
  OBVIOUS
<1>4. \A i \in 1..N : sizes[i] = s[i].size /\ sizes[i] \in Nat
  BY <1>2, <1>3
<1> DEFINE step == [x \in (1..N) \X Nat |-> x[2] + sizes[x[1]]]
           D(h) == [n \in 0..N |-> IF n = 0 THEN 0 ELSE h[n - 1] + s[n].size]
<1>5. PICK f : Iteration(f, N, Nat, 0, step)
  <2>1. PICK next, nats : next = step /\ nats = Nat
    OBVIOUS
  <2>2. next \in [(1..N) \X nats -> nats] /\ 0 \in nats
    BY <1>4, <2>1
  <2>3. \E f : Iteration(f, N, nats, 0, next)
    BY <1>2, <2>2, Iterates
  <2>4. QED
    BY <2>1, <2>3
<1>6. Sums(f, N, sizes)
  <2>1. /\ f \in [0..N -> Nat] /\ f[0] = 0
        /\ \A k \in 1..N : f[k] = step[<<k, f[k - 1]>>]
    BY <1>5 DEF Iteration
  <2>2. ASSUME NEW k \in 1..N PROVE f[k] = f[k - 1] + sizes[k]
    <3>1. <<k, f[k - 1]>> \in (1..N) \X Nat
      BY <1>2, <2>1
    <3>2. QED
      BY <2>1, <3>1
  <2>3. QED
    BY <2>1, <2>2 DEF Sums
<1>7. f = D(f)
  BY <1>2, <1>4, <1>6 DEF Sums
<1>8. PICK h : h = CHOOSE t : t = D(t)
  OBVIOUS
<1>9. h = D(h)
  <2> HIDE DEF D
  <2>1. QED
    BY <1>7, <1>8
<1>10. Bytes(s) = h[N]
  BY <1>1, <1>8 DEF Bytes
<1>11. PICK o : o = h
  OBVIOUS
<1>12. h = D(o)
  BY <1>9, <1>11
<1>13. /\ h = [i \in 0..N |-> h[i]] /\ h[0] = 0
       /\ \A i \in 1..N : h[i] = o[i - 1] + sizes[i]
  BY <1>2, <1>4, <1>12
<1>14. \A i \in 0..N : h[i] = f[i]
  <2> DEFINE W == {i \in 0..N : h[i] # f[i]}
  <2>1. SUFFICES ASSUME W # {} PROVE FALSE
    OBVIOUS
  <2>2. PICK x \in W : \A y \in W : x <= y
    <3>1. W \in SUBSET Nat
      OBVIOUS
    <3> HIDE DEF W
    <3>2. QED
      BY <2>1, <3>1, LeastNat
  <2>3. x # 0
    BY <1>6, <1>13, <2>2 DEF Sums
  <2>4. x \in 1..N /\ x - 1 \in 0..N /\ h[x - 1] = f[x - 1]
    BY <1>2, <2>2, <2>3, SMTT(30)
  <2>5. QED
    BY <1>6, <1>11, <1>13, <2>2, <2>4 DEF Sums
<1>15. Bytes(s) = f[N]
  BY <1>2, <1>10, <1>14
<1>16. QED
  BY <1>1, <1>3, <1>6, <1>15

LEMMA BytesGrow ==
  /\ Bytes(<<>>) = 0
  /\ \A s \in Seq(Entries) : Bytes(s) \in Nat
  /\ \A s \in Seq(Entries) : \A e \in Entries : Bytes(Append(s, e)) = Bytes(s) + e.size
<1>1. Bytes(<<>>) = 0
  <2>1. <<>> \in Seq(Entries) /\ Len(<<>>) = 0
    OBVIOUS
  <2>2. PICK T : Sums(T, 0, [i \in 1..0 |-> <<>>[i].size]) /\ Bytes(<<>>) = T[0]
    BY <2>1, BytesAre
  <2>3. QED
    BY <2>2 DEF Sums
<1>2. ASSUME NEW s \in Seq(Entries) PROVE Bytes(s) \in Nat
  <2>1. PICK T : Sums(T, Len(s), [i \in 1..Len(s) |-> s[i].size]) /\ Bytes(s) = T[Len(s)]
    BY BytesAre
  <2>2. QED
    BY <2>1 DEF Sums
<1>3. ASSUME NEW s \in Seq(Entries), NEW e \in Entries PROVE Bytes(Append(s, e)) = Bytes(s) + e.size
  <2>1. PICK E, u : E = Entries /\ u = Append(s, e)
    OBVIOUS
  <2>2. PICK N \in Nat : N = Len(s)
    OBVIOUS
  <2>3. u \in Seq(E) /\ Len(u) = N + 1 /\ (\A i \in 1..N : u[i] = s[i]) /\ u[N + 1] = e
    BY <2>1, <2>2
  <2>4. PICK T : Sums(T, N, [i \in 1..N |-> s[i].size]) /\ Bytes(s) = T[N]
    BY <2>2, BytesAre
  <2>5. PICK U : Sums(U, N + 1, [i \in 1..(N + 1) |-> u[i].size]) /\ Bytes(u) = U[N + 1]
    BY <2>1, <2>3, BytesAre
  <2>6. /\ T \in [0..N -> Nat] /\ T[0] = 0 /\ \A i \in 1..N : T[i] = T[i - 1] + s[i].size
    BY <2>4 DEF Sums
  <2>7. /\ U \in [0..(N + 1) -> Nat] /\ U[0] = 0
        /\ \A i \in 1..(N + 1) : U[i] = U[i - 1] + u[i].size
    BY <2>5 DEF Sums
  <2>8. \A i \in 0..N : U[i] = T[i]
    <3> DEFINE W == {i \in 0..N : U[i] # T[i]}
    <3>1. SUFFICES ASSUME W # {} PROVE FALSE
      OBVIOUS
    <3>2. PICK x \in W : \A y \in W : x <= y
      <4>1. W \in SUBSET Nat
        OBVIOUS
      <4> HIDE DEF W
      <4>2. QED
        BY <3>1, <4>1, LeastNat
    <3>3. x # 0
      BY <2>6, <2>7, <3>2
    <3>4. x \in 1..N /\ x - 1 \in 0..N /\ U[x - 1] = T[x - 1]
      BY <3>2, <3>3, SMTT(30)
    <3>5. U[x] = U[x - 1] + u[x].size /\ T[x] = T[x - 1] + s[x].size /\ u[x] = s[x]
      <4>1. x \in 1..(N + 1)
        BY <3>4
      <4>2. U[x] = U[x - 1] + u[x].size
        BY <2>7, <4>1
      <4>3. T[x] = T[x - 1] + s[x].size
        BY <2>6, <3>4
      <4>4. u[x] = s[x]
        BY <2>3, <3>4
      <4>5. QED
        BY <4>2, <4>3, <4>4
    <3>6. QED
      BY <3>2, <3>4, <3>5
  <2>9. U[N + 1] = U[N] + e.size
    BY <2>3, <2>7
  <2>10. QED
    BY <2>1, <2>4, <2>5, <2>8, <2>9
<1>4. QED
  BY <1>1, <1>2, <1>3

(* Ranks are a strict order in which of two different entries one is first.*)
OneById(S) == \A a, b \in S : a.id = b.id => a = b

LEMMA ScoresAreNumbers == ASSUME NEW e \in Entries PROVE MatchScore(e) \in Nat
<1>1. \A f \in Fields : FIELD_WEIGHTS[f] \in Nat
  BY DEF FIELD_WEIGHTS, Fields
<1>2. \A f \in Fields : e.exact[f] \in Nat /\ e.within[f] \in Nat
  BY DEF Entries
<1>3. \A f \in Fields : (IF FIELD_WEIGHTS[f] > 3 THEN FIELD_WEIGHTS[f] - 2 ELSE 1) \in Nat
  BY <1>1
<1>4. \A a, b, c, d \in Nat : a * b + c * d \in Nat
  OBVIOUS
<1>5. \A f \in Fields : Credit(e, f) \in Nat
  BY <1>1, <1>2, <1>3, <1>4 DEF Credit
<1>6. QED
  BY <1>5 DEF MatchScore, Fields

LEMMA RanksOrder ==
  /\ \A e \in Entries : ~RanksBefore(e, e)
  /\ \A a, b, c \in Entries : RanksBefore(a, b) /\ RanksBefore(b, c) => RanksBefore(a, c)
  /\ \A a, b \in Entries : a.id # b.id => RanksBefore(a, b) \/ RanksBefore(b, a)
<1>1. \A e \in Entries : MatchScore(e) \in Nat /\ e.id \in Nat
  BY ScoresAreNumbers DEF Entries
<1>2. QED
  BY <1>1 DEF RanksBefore

LEMMA NextIs ==
  ASSUME NEW S \in SUBSET Entries, IsFiniteSet(S), OneById(S), S # {}
  PROVE  /\ NextBest(S) \in S
         /\ \A f \in S : NextBest(S) = f \/ RanksBefore(NextBest(S), f)
<1>1. \E e \in S : \A f \in S : e = f \/ RanksBefore(e, f)
  <2>1. PICK F : F = {{f \in S : RanksBefore(f, e)} : e \in S}
    OBVIOUS
  <2>2. F \in SUBSET (SUBSET S) /\ F # {}
    BY <2>1
  <2>3. PICK m \in F : \A n \in F : n \subseteq m => n = m
    BY <2>2, SmallestSet
  <2>4. PICK e \in S : m = {f \in S : RanksBefore(f, e)}
    BY <2>1, <2>3
  <2>5. ASSUME NEW f \in S, e # f, ~RanksBefore(e, f) PROVE FALSE
    <3>1. RanksBefore(f, e)
      BY <2>5, RanksOrder DEF OneById
    <3>2. PICK n : n = {g \in S : RanksBefore(g, f)} /\ n \in F
      BY <2>1
    <3>3. n \subseteq m
      BY <2>4, <3>1, <3>2, RanksOrder
    <3>4. f \in m /\ f \notin n
      BY <2>4, <3>1, <3>2, RanksOrder
    <3>5. QED
      BY <2>3, <3>2, <3>3, <3>4
  <2>6. QED
    BY <2>5
<1>2. QED
  BY <1>1 DEF NextBest

(* What the search has after so many matches.                              *)
Questions == [corpus : Corpora, kinds : {{"decision"}, {"decision", "solution"}},
              includeArchived : BOOLEAN, maxDocs : DocBudgets, maxBytes : ByteBudgets]
Gotten == [taken : Seq(Entries), bytes : Nat, skipped : BOOLEAN]
NextMatch(a, q) == [rest |-> a.rest \ {NextBest(a.rest)}, got |-> Admit(a.got, NextBest(a.rest), q)]

Excused(taken, e, q) ==
  \E n \in 0..Len(taken) :
    /\ \A i \in 1..Len(taken) : RanksBefore(taken[i], e) <=> i <= n
    /\ Bytes(SubSeq(taken, 1, n)) + e.size > MaxBytes(q) \/ n = MaxDocs(q)

SearchGood(a, n, q) ==
  /\ a.rest \subseteq Matches(q) /\ Cardinality(a.rest) + n = Cardinality(Matches(q))
  /\ a.got \in Gotten /\ a.got.bytes = Bytes(a.got.taken)
  /\ a.got.bytes <= MaxBytes(q) /\ Len(a.got.taken) <= MaxDocs(q)
  /\ \A i \in 1..Len(a.got.taken) : a.got.taken[i] \in Matches(q) \ a.rest
  /\ \A e \in Matches(q) \ a.rest : \A f \in a.rest : RanksBefore(e, f)
  /\ \A e \in Matches(q) \ a.rest :
       (\A i \in 1..Len(a.got.taken) : a.got.taken[i] # e) => Excused(a.got.taken, e, q)

LEMMA QuestionsAre ==
  ASSUME NEW q \in Questions
  PROVE  /\ Matches(q) \in SUBSET Entries /\ IsFiniteSet(Matches(q)) /\ OneById(Matches(q))
         /\ Cardinality(Matches(q)) \in Nat
         /\ MaxDocs(q) \in Nat /\ MaxBytes(q) \in Nat
<1>1. /\ q.corpus \in Corpora
      /\ q.maxDocs \in Nat \cup {NotGiven} /\ q.maxBytes \in Nat \cup {NotGiven}
  BY SearchAssumption DEF Questions
<1>2. q.corpus \subseteq Entries /\ IsFiniteSet(q.corpus) /\ OneById(q.corpus)
  BY <1>1, SearchAssumption DEF OneById
<1>3. Matches(q) \in SUBSET q.corpus
  BY DEF Matches
<1>4. IsFiniteSet(Matches(q)) /\ Cardinality(Matches(q)) \in Nat
  BY <1>2, <1>3, FS_Subset, FS_CardinalityType
<1>5. MaxDocs(q) \in Nat
  BY <1>1 DEF MaxDocs, Clamp, NotGiven
<1>6. MaxBytes(q) \in Nat
  BY <1>1 DEF MaxBytes, Clamp, NotGiven
<1>7. QED
  BY <1>2, <1>3, <1>4, <1>5, <1>6 DEF OneById

Prefix(s, n) == SubSeq(s, 1, n)

LEMMA PrefixOfAll == ASSUME NEW S, NEW s \in Seq(S) PROVE Prefix(s, Len(s)) = s
<1>1. PICK a, n : a = SubSeq(s, 1, n) /\ n = Len(s)
  OBVIOUS
<1>2. a = [i \in 1..n |-> a[i]] /\ \A i \in 1..n : a[i] = s[i]
  BY <1>1
<1>3. s = [i \in 1..n |-> s[i]]
  BY <1>1
<1>4. a = s
  BY <1>2, <1>3
<1>5. QED
  BY <1>1, <1>4 DEF Prefix

LEMMA PrefixStays ==
  ASSUME NEW S, NEW s \in Seq(S), NEW e \in S, NEW n \in 0..Len(s)
  PROVE  Prefix(Append(s, e), n) = Prefix(s, n)
<1>1. PICK u : u = Append(s, e)
  OBVIOUS
<1>2. u \in Seq(S) /\ Len(u) = Len(s) + 1 /\ \A i \in 1..Len(s) : u[i] = s[i]
  BY <1>1
<1>3. PICK a, b : a = SubSeq(u, 1, n) /\ b = SubSeq(s, 1, n)
  OBVIOUS
<1>4. \A t \in Seq(S) : \A m \in 0..Len(t) :
        /\ SubSeq(t, 1, m) = [i \in 1..m |-> SubSeq(t, 1, m)[i]]
        /\ \A i \in 1..m : SubSeq(t, 1, m)[i] = t[i]
  OBVIOUS
<1>5. a = [i \in 1..n |-> a[i]] /\ \A i \in 1..n : a[i] = u[i]
  BY <1>2, <1>3, <1>4
<1>6. b = [i \in 1..n |-> b[i]] /\ \A i \in 1..n : b[i] = s[i]
  BY <1>3, <1>4
<1>7. \A i \in 1..n : a[i] = b[i]
  BY <1>2, <1>5, <1>6
<1>8. a = b
  BY <1>5, <1>6, <1>7
<1>9. QED
  BY <1>1, <1>3, <1>8 DEF Prefix

LEMMA SearchSteps ==
  ASSUME NEW q \in Questions, NEW a, NEW n \in Nat, SearchGood(a, n, q), a.rest # {}
  PROVE  /\ SearchGood(NextMatch(a, q), n + 1, q)
         /\ NextMatch(a, q).got \in Gotten /\ NextMatch(a, q).rest \subseteq Matches(q)
<1>1. PICK M : M = Matches(q)
  OBVIOUS
<1>2. /\ M \in SUBSET Entries /\ IsFiniteSet(M) /\ OneById(M) /\ Cardinality(M) \in Nat
      /\ MaxDocs(q) \in Nat /\ MaxBytes(q) \in Nat
  BY <1>1, QuestionsAre
<1>3. PICK rest, got : rest = a.rest /\ got = a.got
  OBVIOUS
<1>4. PICK taken, bytes : taken = got.taken /\ bytes = got.bytes
  OBVIOUS
<1>5. /\ rest \subseteq M /\ Cardinality(rest) + n = Cardinality(M) /\ got \in Gotten
      /\ bytes = Bytes(taken) /\ bytes <= MaxBytes(q) /\ Len(taken) <= MaxDocs(q)
      /\ \A i \in 1..Len(taken) : taken[i] \in M \ rest
      /\ \A x \in M \ rest : \A f \in rest : RanksBefore(x, f)
      /\ \A x \in M \ rest : (\A i \in 1..Len(taken) : taken[i] # x) => Excused(taken, x, q)
  BY <1>1, <1>3, <1>4 DEF SearchGood
<1>6. taken \in Seq(Entries) /\ bytes \in Nat /\ Len(taken) \in Nat
  <2>1. taken \in Seq(Entries) /\ bytes \in Nat
    <3>1. PICK L : L = Seq(Entries)
      OBVIOUS
    <3>2. got \in [taken : L, bytes : Nat, skipped : BOOLEAN]
      BY <1>5, <3>1 DEF Gotten
    <3>3. QED
      BY <1>4, <3>1, <3>2
  <2>2. Len(taken) \in Nat
    BY <2>1
  <2>3. QED
    BY <2>1, <2>2
<1>7. PICK e : e = NextBest(rest)
  OBVIOUS
<1>8. e \in rest /\ e \in Entries /\ (\A f \in rest : e = f \/ RanksBefore(e, f)) /\ e.size \in Nat
  <2>1. rest \in SUBSET Entries /\ IsFiniteSet(rest) /\ OneById(rest) /\ rest # {}
    BY <1>2, <1>3, <1>5, FS_Subset DEF OneById
  <2>2. e \in rest /\ \A f \in rest : e = f \/ RanksBefore(e, f)
    BY <1>7, <2>1, NextIs
  <2>3. QED
    BY <2>1, <2>2 DEF Entries
<1>9. PICK less : less = rest \ {e}
  OBVIOUS
<1>10. less \subseteq M /\ Cardinality(less) + (n + 1) = Cardinality(M)
  <2>1. IsFiniteSet(rest)
    BY <1>2, <1>5, FS_Subset
  <2>2. Cardinality(less) = Cardinality(rest) - 1 /\ Cardinality(rest) \in Nat
    BY <1>8, <1>9, <2>1, FS_RemoveElement, FS_CardinalityType
  <2>3. QED
    BY <1>2, <1>5, <1>9, <2>2
<1>11. \A x \in M \ less : x \in M \ rest \/ x = e
  BY <1>9
<1>12. \A x \in M \ less : \A f \in less : RanksBefore(x, f)
  BY <1>5, <1>8, <1>9, <1>11
<1>13. \A i \in 1..Len(taken) : taken[i] \in M \ less /\ RanksBefore(taken[i], e)
  BY <1>5, <1>8, <1>9
<1>14. PICK new : new = Admit(got, e, q)
  OBVIOUS
<1>15. NextMatch(a, q) = [rest |-> less, got |-> new]
  BY <1>3, <1>7, <1>9, <1>14 DEF NextMatch
<1> DEFINE Kept3 == /\ new \in Gotten /\ new.bytes = Bytes(new.taken)
                    /\ new.bytes <= MaxBytes(q) /\ Len(new.taken) <= MaxDocs(q)
                    /\ \A i \in 1..Len(new.taken) : new.taken[i] \in M \ less
                    /\ \A x \in M \ less :
                         (\A i \in 1..Len(new.taken) : new.taken[i] # x) => Excused(new.taken, x, q)
<1>16. CASE Len(taken) >= MaxDocs(q) \/ bytes + e.size > MaxBytes(q)
  <2>1. new \in Gotten /\ new.taken = taken /\ new.bytes = bytes
    <3>1. CASE Len(taken) >= MaxDocs(q)
      <4>1. Len(got.taken) >= MaxDocs(q)
        BY <1>4, <3>1
      <4>2. new = got
        BY <1>14, <4>1 DEF Admit
      <4>3. QED
        BY <1>4, <1>5, <4>2
    <3>2. CASE ~(Len(taken) >= MaxDocs(q))
      <4>1. new = [got EXCEPT !.skipped = TRUE]
        BY <1>4, <1>14, <1>16, <3>2 DEF Admit
      <4>2. PICK L : L = Seq(Entries)
        OBVIOUS
      <4>3. got \in [taken : L, bytes : Nat, skipped : BOOLEAN]
        BY <1>5, <4>2 DEF Gotten
      <4>4. /\ new \in [taken : L, bytes : Nat, skipped : BOOLEAN]
            /\ new.taken = taken /\ new.bytes = bytes
        BY <1>4, <4>1, <4>3
      <4>5. QED
        BY <4>2, <4>4 DEF Gotten
    <3>3. QED
      BY <3>1, <3>2
  <2>2. Excused(taken, e, q)
    <3>1. PICK m : m = Len(taken)
      OBVIOUS
    <3>2. m \in 0..Len(taken) /\ \A i \in 1..Len(taken) : RanksBefore(taken[i], e) <=> i <= m
      BY <1>6, <1>13, <3>1
    <3>3. SubSeq(taken, 1, m) = taken
      <4>1. Prefix(taken, Len(taken)) = taken
        BY <1>6, PrefixOfAll
      <4>2. QED
        BY <3>1, <4>1 DEF Prefix
    <3>4. Bytes(SubSeq(taken, 1, m)) + e.size > MaxBytes(q) \/ m = MaxDocs(q)
      <4>1. CASE Len(taken) >= MaxDocs(q)
        BY <1>2, <1>5, <1>6, <3>1, <4>1
      <4>2. CASE bytes + e.size > MaxBytes(q)
        BY <1>5, <3>3, <4>2
      <4>3. QED
        BY <1>16, <4>1, <4>2
    <3>5. QED
      BY <3>2, <3>4 DEF Excused
  <2>3. Kept3
    BY <1>5, <1>11, <1>13, <2>1, <2>2
  <2>4. QED
    BY <1>1, <1>10, <1>12, <1>15, <2>3 DEF SearchGood
<1>17. CASE ~(Len(taken) >= MaxDocs(q) \/ bytes + e.size > MaxBytes(q))
  <2>1. new = [got EXCEPT !.taken = Append(@, e), !.bytes = @ + e.size]
    BY <1>4, <1>14, <1>17 DEF Admit
  <2>2. PICK more : more = Append(taken, e)
    OBVIOUS
  <2>3. more \in Seq(Entries) /\ Bytes(more) = bytes + e.size
    BY <1>5, <1>6, <1>8, <2>2, BytesGrow
  <2>4. new \in Gotten /\ new.taken = more /\ new.bytes = bytes + e.size
    <3>1. PICK L, sum : L = Seq(Entries) /\ sum = bytes + e.size /\ sum \in Nat
      BY <1>6, <1>8
    <3>2. got \in [taken : L, bytes : Nat, skipped : BOOLEAN] /\ more \in L
      BY <1>5, <2>3, <3>1 DEF Gotten
    <3>3. new = [got EXCEPT !.taken = more, !.bytes = sum]
      BY <1>4, <2>1, <2>2, <3>1
    <3>4. /\ new \in [taken : L, bytes : Nat, skipped : BOOLEAN]
          /\ new.taken = more /\ new.bytes = sum
      BY <3>1, <3>2, <3>3
    <3>5. QED
      BY <3>1, <3>4 DEF Gotten
  <2>5. PICK E : E = Entries
    OBVIOUS
  <2>6. taken \in Seq(E) /\ e \in E
    BY <1>6, <1>8, <2>5
  <2>7. /\ Len(more) = Len(taken) + 1 /\ more[Len(taken) + 1] = e
        /\ \A i \in 1..Len(taken) : more[i] = taken[i]
    BY <2>2, <2>6
  <2>8. ASSUME NEW i \in 1..Len(more) PROVE i \in 1..Len(taken) \/ i = Len(taken) + 1
    BY <1>6, <2>7
  <2>9. \A i \in 1..Len(more) : more[i] \in M \ less
    BY <1>5, <1>8, <1>9, <1>13, <2>7, <2>8
  <2>10. ASSUME NEW x \in M \ less, \A i \in 1..Len(more) : more[i] # x PROVE Excused(more, x, q)
    <3>1. x # e
      <4>1. Len(taken) + 1 \in 1..Len(more)
        BY <1>6, <2>7
      <4>2. QED
        BY <2>7, <2>10, <4>1
    <3>2. x \in M \ rest /\ \A i \in 1..Len(taken) : taken[i] # x
      <4>1. \A i \in 1..Len(taken) : i \in 1..Len(more)
        BY <1>6, <2>7
      <4>2. QED
        BY <1>11, <2>7, <2>10, <3>1, <4>1
    <3>3. PICK m \in 0..Len(taken) :
            /\ \A i \in 1..Len(taken) : RanksBefore(taken[i], x) <=> i <= m
            /\ Bytes(SubSeq(taken, 1, m)) + x.size > MaxBytes(q) \/ m = MaxDocs(q)
      BY <1>5, <3>2 DEF Excused
    <3>4. ~RanksBefore(e, x)
      <4>1. RanksBefore(x, e) /\ x \in Entries
        BY <1>2, <1>5, <1>8, <3>2
      <4>2. QED
        BY <1>8, <4>1, RanksOrder
    <3>5. \A i \in 1..Len(more) : RanksBefore(more[i], x) <=> i <= m
      BY <1>6, <2>7, <2>8, <3>3, <3>4
    <3>6. SubSeq(more, 1, m) = SubSeq(taken, 1, m)
      <4>1. Prefix(Append(taken, e), m) = Prefix(taken, m)
        BY <2>6, <3>3, PrefixStays
      <4>2. QED
        BY <2>2, <4>1, Zenon DEF Prefix
    <3>7. m \in 0..Len(more)
      BY <1>6, <2>7, <3>3
    <3>8. QED
      BY <3>3, <3>5, <3>6, <3>7 DEF Excused
  <2>11. Len(more) <= MaxDocs(q) /\ bytes + e.size <= MaxBytes(q)
    BY <1>2, <1>6, <1>8, <1>17, <2>7
  <2>12. Kept3
    BY <2>3, <2>4, <2>9, <2>10, <2>11
  <2>13. QED
    BY <1>1, <1>10, <1>12, <1>15, <2>12 DEF SearchGood
<1>18. SearchGood(NextMatch(a, q), n + 1, q)
  BY <1>16, <1>17
<1>19. QED
  BY <1>18 DEF SearchGood

(* After all the matches nothing rests.                                    *)
LEMMA AdmittedIs ==
  ASSUME NEW q \in Questions
  PROVE  \E a : SearchGood(a, Cardinality(Matches(q)), q) /\ Admitted(q) = a.got
<1>1. PICK M, N : M = Matches(q) /\ N = Cardinality(M)
  OBVIOUS
<1>2. M \in SUBSET Entries /\ IsFiniteSet(M) /\ OneById(M) /\ N \in Nat /\ MaxBytes(q) \in Nat /\ MaxDocs(q) \in Nat
  BY <1>1, QuestionsAre
<1>3. PICK start : start = [rest |-> M, got |-> [taken |-> <<>>, bytes |-> 0, skipped |-> FALSE]]
  OBVIOUS
<1>4. /\ start.rest = M /\ start.got = [taken |-> <<>>, bytes |-> 0, skipped |-> FALSE]
      /\ start.got \in Gotten /\ start.got.taken = <<>> /\ start.got.bytes = 0
  <2>1. <<>> \in Seq(Entries)
    OBVIOUS
  <2>2. QED
    BY <1>3, <2>1 DEF Gotten
<1>5. SearchGood(start, 0, q)
  <2>1. Len(<<>>) = 0 /\ 1..0 = {} /\ Bytes(<<>>) = 0
    BY BytesGrow
  <2>2. QED
    BY <1>1, <1>2, <1>4, <2>1 DEF SearchGood
<1> DEFINE States == [rest : SUBSET M, got : Gotten]
           step == [x \in (1..N) \X {a \in States : \E n \in 0..N : SearchGood(a, n, q)} |->
                      IF x[2].rest = {} THEN x[2] ELSE NextMatch(x[2], q)]
           D(h) == [n \in 0..N |-> IF n = 0 THEN start ELSE NextMatch(h[n - 1], q)]
<1>6. PICK S : S = {a \in States : \E n \in 0..N : SearchGood(a, n, q)}
  OBVIOUS
<1>7. ASSUME NEW a \in S, NEW n \in 0..N, SearchGood(a, n, q), a.rest # {}
      PROVE  n + 1 \in 0..N /\ SearchGood(NextMatch(a, q), n + 1, q) /\ NextMatch(a, q) \in S
  <2>1. Cardinality(a.rest) + n = N /\ IsFiniteSet(a.rest)
    BY <1>1, <1>2, <1>7, FS_Subset DEF SearchGood
  <2>2. Cardinality(a.rest) \in Nat /\ Cardinality(a.rest) # 0
    BY <1>7, <2>1, FS_CardinalityType, FS_EmptySet
  <2>3. n + 1 \in 0..N
    BY <1>2, <2>1, <2>2
  <2>4. n \in Nat
    BY <1>2
  <2>5. /\ SearchGood(NextMatch(a, q), n + 1, q)
        /\ NextMatch(a, q).got \in Gotten /\ NextMatch(a, q).rest \subseteq M
    BY <1>1, <1>7, <2>4, SearchSteps
  <2>6. NextMatch(a, q) \in States
    BY <2>5 DEF NextMatch
  <2>7. QED
    BY <1>6, <2>3, <2>5, <2>6
<1>8. start \in S
  <2>1. start \in States
    BY <1>3, <1>4
  <2>2. 0 \in 0..N
    BY <1>2
  <2>3. QED
    BY <1>5, <1>6, <2>1, <2>2
<1>9. PICK f : Iteration(f, N, S, start, step)
  <2>1. PICK next : next = step
    OBVIOUS
  <2>2. next = [x \in (1..N) \X S |-> IF x[2].rest = {} THEN x[2] ELSE NextMatch(x[2], q)]
    BY <1>6, <2>1
  <2>3. \A a \in S : (IF a.rest = {} THEN a ELSE NextMatch(a, q)) \in S
    <3>1. SUFFICES ASSUME NEW a \in S, a.rest # {} PROVE NextMatch(a, q) \in S
      OBVIOUS
    <3>2. PICK n \in 0..N : SearchGood(a, n, q)
      BY <1>6
    <3>3. QED
      BY <1>7, <3>1, <3>2
  <2>4. next \in [(1..N) \X S -> S]
    BY <2>2, <2>3
  <2>5. \E f : Iteration(f, N, S, start, next)
    BY <1>2, <1>8, <2>4, Iterates
  <2>6. QED
    BY <2>1, <2>5
<1>10. /\ f \in [0..N -> S] /\ f[0] = start
       /\ \A k \in 1..N : f[k] = IF f[k - 1].rest = {} THEN f[k - 1] ELSE NextMatch(f[k - 1], q)
  <2>1. /\ f \in [0..N -> S] /\ f[0] = start
        /\ \A k \in 1..N : f[k] = step[<<k, f[k - 1]>>]
    BY <1>9 DEF Iteration
  <2>2. ASSUME NEW k \in 1..N
        PROVE  f[k] = IF f[k - 1].rest = {} THEN f[k - 1] ELSE NextMatch(f[k - 1], q)
    <3>1. k - 1 \in 0..N
      BY <1>2
    <3>2. PICK a : a = f[k - 1]
      OBVIOUS
    <3>3. a \in S /\ f[k] = step[<<k, a>>]
      <4> HIDE DEF step
      <4>1. QED
        BY <2>1, <3>1, <3>2
    <3>4. step[<<k, a>>] = IF a.rest = {} THEN a ELSE NextMatch(a, q)
      BY <1>6, <3>3
    <3>5. QED
      BY <3>2, <3>3, <3>4
  <2>3. QED
    BY <2>1, <2>2
<1>11. \A n \in 0..N : SearchGood(f[n], n, q)
  <2> DEFINE W == {n \in 0..N : ~SearchGood(f[n], n, q)}
  <2>1. SUFFICES ASSUME W # {} PROVE FALSE
    OBVIOUS
  <2>2. PICK x \in W : \A y \in W : x <= y
    <3>1. W \in SUBSET Nat
      OBVIOUS
    <3> HIDE DEF W
    <3>2. QED
      BY <2>1, <3>1, LeastNat
  <2>3. x # 0
    BY <1>5, <1>10, <2>2
  <2>4. PICK n : n = x - 1
    OBVIOUS
  <2>5. x \in 1..N /\ n \in 0..N /\ n \notin W /\ n + 1 = x
    BY <1>2, <2>2, <2>3, <2>4
  <2>6. SearchGood(f[n], n, q) /\ f[n] \in S
    BY <1>10, <2>5
  <2>7. f[n].rest # {}
    <3>1. Cardinality(f[n].rest) + n = N
      BY <1>1, <2>6 DEF SearchGood
    <3>2. Cardinality(f[n].rest) # 0
      BY <1>2, <2>5, <3>1
    <3>3. QED
      BY <3>2, FS_EmptySet
  <2>8. f[x] = NextMatch(f[n], q)
    BY <1>10, <2>4, <2>5, <2>7
  <2>9. SearchGood(f[x], x, q)
    BY <1>7, <2>5, <2>6, <2>7, <2>8
  <2>10. QED
    BY <2>2, <2>9
<1>12. \A k \in 1..N : f[k] = NextMatch(f[k - 1], q)
  <2>1. SUFFICES ASSUME NEW k \in 1..N PROVE f[k - 1].rest # {}
    BY <1>10
  <2>2. PICK n : n = k - 1
    OBVIOUS
  <2>3. n \in 0..N /\ n # N
    BY <1>2, <2>2
  <2>4. Cardinality(f[n].rest) + n = N
    BY <1>1, <1>11, <2>3 DEF SearchGood
  <2>5. Cardinality(f[n].rest) # 0
    BY <1>2, <2>3, <2>4
  <2>6. QED
    BY <2>2, <2>5, FS_EmptySet
<1>13. f = D(f)
  <2>1. f = [n \in 0..N |-> f[n]]
    BY <1>10
  <2>2. ASSUME NEW n \in 0..N PROVE f[n] = D(f)[n]
    BY <1>2, <1>10, <1>12
  <2>3. D(f) = [n \in 0..N |-> D(f)[n]]
    OBVIOUS
  <2> HIDE DEF D
  <2>4. QED
    BY <2>1, <2>2, <2>3
<1>14. PICK h : h = CHOOSE t : t = D(t)
  OBVIOUS
<1>15. h = D(h)
  <2> HIDE DEF D
  <2>1. QED
    BY <1>13, <1>14
<1>16. Admitted(q) = h[N].got
  BY <1>1, <1>3, <1>14 DEF Admitted, NextMatch
<1>17. PICK o : o = h
  OBVIOUS
<1>18. h = D(o)
  BY <1>15, <1>17
<1>19. h[0] = start /\ \A k \in 1..N : h[k] = NextMatch(o[k - 1], q)
  BY <1>2, <1>18
<1>20. \A n \in 0..N : h[n] = f[n]
  <2> DEFINE W == {n \in 0..N : h[n] # f[n]}
  <2>1. SUFFICES ASSUME W # {} PROVE FALSE
    OBVIOUS
  <2>2. PICK x \in W : \A y \in W : x <= y
    <3>1. W \in SUBSET Nat
      OBVIOUS
    <3> HIDE DEF W
    <3>2. QED
      BY <2>1, <3>1, LeastNat
  <2>3. x # 0
    BY <1>10, <1>19, <2>2
  <2>4. PICK n : n = x - 1
    OBVIOUS
  <2>5. x \in 1..N /\ n \in 0..N /\ h[n] = f[n]
    BY <1>2, <2>2, <2>3, <2>4
  <2>6. h[x] = NextMatch(o[n], q) /\ f[x] = NextMatch(f[n], q)
    BY <1>12, <1>19, <2>4, <2>5
  <2>7. QED
    BY <1>17, <2>2, <2>5, <2>6
<1>21. h[N] = f[N] /\ SearchGood(f[N], N, q)
  BY <1>2, <1>11, <1>20
<1>22. QED
  BY <1>1, <1>16, <1>21

(* The search keeps within its budgets and passes over no match without a  *)
(* reason (knowledge/search.js), for all corpora, queries and budgets.     *)
SearchInv ==
  /\ question \in Questions
  /\ answer.bytes >= 0 =>
       \E a : SearchGood(a, Cardinality(Matches(question)), question) /\ answer = a.got

LEMMA SearchHolds == SearchSpec => []SearchInv
<1>1. SearchInit => SearchInv
  <2>1. SUFFICES ASSUME SearchInit PROVE SearchInv
    OBVIOUS
  <2>2. answer.bytes = -1 /\ ~(-1 >= 0)
    BY <2>1 DEF SearchInit
  <2>3. QED
    BY <2>1, <2>2 DEF SearchInit, SearchInv, Questions
<1>2. SearchInv /\ [SearchNext]_searchVars => SearchInv'
  <2>1. SUFFICES ASSUME SearchInv, [SearchNext]_searchVars PROVE SearchInv'
    OBVIOUS
  <2>2. CASE SearchNext
    <3>1. question' = question /\ answer' = Admitted(question) /\ question \in Questions
      BY <2>1, <2>2 DEF SearchInv, SearchNext
    <3>2. \E a : SearchGood(a, Cardinality(Matches(question)), question) /\ answer' = a.got
      BY <3>1, AdmittedIs
    <3>3. QED
      BY <3>1, <3>2 DEF SearchInv
  <2>3. CASE UNCHANGED searchVars
    BY <2>1, <2>3 DEF SearchInv, searchVars
  <2>4. QED
    BY <2>1, <2>2, <2>3
<1>3. QED
  BY <1>1, <1>2, PTL DEF SearchSpec

LEMMA SearchIsGood == SearchInv => WithinBudgets /\ BestThatFit
<1>1. SUFFICES ASSUME SearchInv, answer.bytes >= 0 PROVE WithinBudgets /\ BestThatFit
  BY DEF WithinBudgets, BestThatFit
<1>2. PICK a : SearchGood(a, Cardinality(Matches(question)), question) /\ answer = a.got
  BY <1>1 DEF SearchInv
<1>3. IsFiniteSet(Matches(question)) /\ Cardinality(Matches(question)) \in Nat
  BY <1>1, QuestionsAre DEF SearchInv
<1>4. a.rest = {}
  <2>1. /\ a.rest \in SUBSET Matches(question)
        /\ Cardinality(a.rest) + Cardinality(Matches(question)) = Cardinality(Matches(question))
    BY <1>2 DEF SearchGood
  <2>2. IsFiniteSet(a.rest) /\ Cardinality(a.rest) \in Nat
    BY <1>3, <2>1, FS_Subset, FS_CardinalityType
  <2>3. Cardinality(a.rest) = 0
    BY <1>3, <2>1, <2>2
  <2>4. QED
    BY <2>2, <2>3, FS_EmptySet
<1>5. WithinBudgets
  BY <1>2 DEF SearchGood, WithinBudgets, Matches
<1>6. BestThatFit
  BY <1>2, <1>4 DEF SearchGood, BestThatFit, PassedOver, Excused
<1>7. QED
  BY <1>5, <1>6

(***************************************************************************)
(* The header of a knowledge text.  A line that is no fence, no end of a   *)
(* comment and no status line leaves open what was open before it.         *)
(***************************************************************************)
Marks == [fence : BOOLEAN, comment : BOOLEAN]
AfterLine(before, line) ==
  LET fence == IF line = "fence" THEN ~before.fence ELSE before.fence
  IN  [fence |-> fence,
       comment |-> IF fence THEN before.comment
                   ELSE IF before.comment THEN line # "close" ELSE line = "open"]
Scans(o, lines) ==
  /\ o \in [0..Len(lines) -> Marks] /\ o[0] = [fence |-> FALSE, comment |-> FALSE]
  /\ \A k \in 1..Len(lines) : o[k] = AfterLine(o[k - 1], lines[k])

LEMMA LinesMark == ASSUME NEW b \in Marks, NEW line PROVE AfterLine(b, line) \in Marks
<1>1. PICK fence \in BOOLEAN : fence = IF line = "fence" THEN ~b.fence ELSE b.fence
  BY DEF Marks
<1>2. PICK comment \in BOOLEAN :
        comment = IF fence THEN b.comment ELSE IF b.comment THEN line # "close" ELSE line = "open"
  <2>1. b.comment \in BOOLEAN
    BY DEF Marks
  <2>2. PICK closes, opens \in BOOLEAN : closes = (line # "close") /\ opens = (line = "open")
    OBVIOUS
  <2>3. (IF fence THEN b.comment ELSE IF b.comment THEN closes ELSE opens) \in BOOLEAN
    BY <2>1
  <2>4. QED
    BY <2>2, <2>3
<1>3. AfterLine(b, line) = [fence |-> fence, comment |-> comment]
  BY <1>1, <1>2 DEF AfterLine
<1>4. QED
  BY <1>3 DEF Marks

LEMMA OpenIs == ASSUME NEW lines \in Seq(Lines) PROVE Scans(Open(lines), lines)
<1>1. PICK N : N = Len(lines) /\ N \in Nat
  OBVIOUS
<1>2. PICK start : start = [fence |-> FALSE, comment |-> FALSE]
  OBVIOUS
<1> DEFINE step == [x \in (1..N) \X Marks |-> AfterLine(x[2], lines[x[1]])]
           D(h) == [n \in 0..N |-> IF n = 0 THEN start ELSE AfterLine(h[n - 1], lines[n])]
<1>3. PICK f : Iteration(f, N, Marks, start, step)
  <2>1. PICK next : next = step
    OBVIOUS
  <2>2. start \in Marks
    BY <1>2 DEF Marks
  <2>3. \A x \in (1..N) \X Marks : AfterLine(x[2], lines[x[1]]) \in Marks
    BY LinesMark
  <2>4. next \in [(1..N) \X Marks -> Marks]
    BY <2>1, <2>3
  <2>5. \E f : Iteration(f, N, Marks, start, next)
    BY <1>1, <2>2, <2>4, Iterates
  <2>6. QED
    BY <2>1, <2>5
<1>4. /\ f \in [0..N -> Marks] /\ f[0] = start
      /\ \A k \in 1..N : f[k] = AfterLine(f[k - 1], lines[k])
  <2>1. /\ f \in [0..N -> Marks] /\ f[0] = start
        /\ \A k \in 1..N : f[k] = step[<<k, f[k - 1]>>]
    BY <1>3 DEF Iteration
  <2>2. ASSUME NEW k \in 1..N PROVE f[k] = AfterLine(f[k - 1], lines[k])
    <3>1. f[k - 1] \in Marks
      BY <1>1, <2>1
    <3>2. PICK b : b = f[k - 1]
      OBVIOUS
    <3>3. b \in Marks /\ f[k] = step[<<k, b>>]
      <4> HIDE DEF step
      <4>1. QED
        BY <2>1, <3>1, <3>2
    <3>4. QED
      BY <3>2, <3>3
  <2>3. QED
    BY <2>1, <2>2
<1>5. f = D(f)
  <2>1. f = [n \in 0..N |-> f[n]] /\ D(f) = [n \in 0..N |-> D(f)[n]]
    BY <1>4
  <2>2. ASSUME NEW n \in 0..N PROVE f[n] = D(f)[n]
    BY <1>1, <1>4
  <2> HIDE DEF D
  <2>3. QED
    BY <2>1, <2>2
<1>6. PICK h : h = CHOOSE t : t = D(t)
  OBVIOUS
<1>7. h = D(h)
  <2> HIDE DEF D
  <2>1. QED
    BY <1>5, <1>6
<1>8. Open(lines) = h
  BY <1>1, <1>2, <1>6 DEF Open, AfterLine
<1>9. PICK o : o = h
  OBVIOUS
<1>10. h = D(o)
  BY <1>7, <1>9
<1>11. /\ h = [n \in 0..N |-> h[n]] /\ h[0] = start
       /\ \A k \in 1..N : h[k] = AfterLine(o[k - 1], lines[k])
  BY <1>1, <1>10
<1>12. \A n \in 0..N : h[n] = f[n]
  <2> DEFINE W == {n \in 0..N : h[n] # f[n]}
  <2>1. SUFFICES ASSUME W # {} PROVE FALSE
    OBVIOUS
  <2>2. PICK x \in W : \A y \in W : x <= y
    <3>1. W \in SUBSET Nat
      OBVIOUS
    <3> HIDE DEF W
    <3>2. QED
      BY <2>1, <3>1, LeastNat
  <2>3. x # 0
    BY <1>4, <1>11, <2>2
  <2>4. PICK n : n = x - 1
    OBVIOUS
  <2>5. x \in 1..N /\ n \in 0..N /\ h[n] = f[n]
    BY <1>1, <2>2, <2>3, <2>4
  <2>6. h[x] = AfterLine(o[n], lines[x]) /\ f[x] = AfterLine(f[n], lines[x])
    BY <1>4, <1>11, <2>4, <2>5
  <2>7. QED
    BY <1>9, <2>2, <2>5, <2>6
<1>13. h = f
  <2>1. f = [n \in 0..N |-> f[n]]
    BY <1>4
  <2>2. QED
    BY <1>11, <1>12, <2>1
<1>14. Scans(f, lines)
  BY <1>1, <1>2, <1>4 DEF Scans
<1>15. QED
  BY <1>8, <1>13, <1>14

(* The line archiveDecision puts in shifts what is open by one line.       *)
LEMMA ArchivedScans ==
  ASSUME NEW lines \in Seq(Lines), NEW i \in 1..Len(lines), NEW o, Scans(o, lines),
         NEW u, PutIn(u, lines, Lines, i + 1, "Archived"), NEW p, Scans(p, u)
  PROVE  /\ \A j \in 0..i : p[j] = o[j]
         /\ \A j \in i..Len(lines) : p[j + 1] = o[j]
<1>1. PICK N : N = Len(lines) /\ N \in Nat
  OBVIOUS
<1>2. /\ u \in Seq(Lines) /\ Len(u) = N + 1 /\ u[i + 1] = "Archived"
      /\ \A k \in 1..i : u[k] = lines[k]
      /\ \A k \in (i + 1)..N : u[k + 1] = lines[k]
  BY <1>1 DEF PutIn
<1>3. /\ o \in [0..N -> Marks] /\ o[0] = [fence |-> FALSE, comment |-> FALSE]
      /\ \A k \in 1..N : o[k] = AfterLine(o[k - 1], lines[k])
  BY <1>1 DEF Scans
<1>4. /\ p \in [0..(N + 1) -> Marks] /\ p[0] = [fence |-> FALSE, comment |-> FALSE]
      /\ \A k \in 1..(N + 1) : p[k] = AfterLine(p[k - 1], u[k])
  BY <1>2 DEF Scans
<1>5. \A j \in 0..i : p[j] = o[j]
  <2> DEFINE W == {j \in 0..i : p[j] # o[j]}
  <2>1. SUFFICES ASSUME W # {} PROVE FALSE
    OBVIOUS
  <2>2. PICK x \in W : \A y \in W : x <= y
    <3>1. W \in SUBSET Nat
      OBVIOUS
    <3> HIDE DEF W
    <3>2. QED
      BY <2>1, <3>1, LeastNat
  <2>3. x # 0
    BY <1>3, <1>4, <2>2
  <2>4. PICK n : n = x - 1
    OBVIOUS
  <2>5. x \in 1..i /\ n \in 0..i /\ p[n] = o[n] /\ x \in 1..N /\ x \in 1..(N + 1)
    BY <1>1, <2>2, <2>3, <2>4
  <2>6. p[x] = AfterLine(p[n], u[x]) /\ o[x] = AfterLine(o[n], lines[x]) /\ u[x] = lines[x]
    BY <1>2, <1>3, <1>4, <2>4, <2>5
  <2>7. QED
    BY <2>2, <2>5, <2>6
<1>6. p[i + 1] = o[i]
  <2>1. PICK b : b = o[i] /\ b \in Marks
    BY <1>1, <1>3
  <2>2. p[i + 1] = AfterLine(b, "Archived")
    <3>1. i + 1 \in 1..(N + 1) /\ (i + 1) - 1 = i /\ i \in 0..i
      BY <1>1
    <3>2. p[i + 1] = AfterLine(p[i], u[i + 1])
      BY <1>4, <3>1
    <3>3. QED
      BY <1>2, <1>5, <2>1, <3>1, <3>2
  <2>3. AfterLine(b, "Archived") = [fence |-> b.fence, comment |-> b.comment]
    <3>1. PICK f, c \in BOOLEAN : f = b.fence /\ c = b.comment
      BY <2>1 DEF Marks
    <3>2. AfterLine(b, "Archived") =
            [fence |-> f, comment |-> IF f THEN c ELSE IF c THEN TRUE ELSE FALSE]
      BY <3>1 DEF AfterLine
    <3>3. (IF f THEN c ELSE IF c THEN TRUE ELSE FALSE) = c
      OBVIOUS
    <3>4. QED
      BY <3>1, <3>2, <3>3, Zenon
  <2>4. QED
    BY <2>1, <2>2, <2>3 DEF Marks
<1>7. \A j \in i..N : p[j + 1] = o[j]
  <2> DEFINE W == {j \in i..N : p[j + 1] # o[j]}
  <2>1. SUFFICES ASSUME W # {} PROVE FALSE
    OBVIOUS
  <2>2. PICK x \in W : \A y \in W : x <= y
    <3>1. W \in SUBSET Nat
      OBVIOUS
    <3> HIDE DEF W
    <3>2. QED
      BY <2>1, <3>1, LeastNat
  <2>3. x # i
    BY <1>6, <2>2
  <2>4. PICK n : n = x - 1
    OBVIOUS
  <2>5. x \in (i + 1)..N /\ n \in i..N /\ p[n + 1] = o[n] /\ n + 1 = x
    BY <1>1, <2>2, <2>3, <2>4
  <2>6. x \in 1..N /\ x + 1 \in 1..(N + 1) /\ (x + 1) - 1 = x
    BY <1>1, <2>5
  <2>7. p[x + 1] = AfterLine(p[x], u[x + 1]) /\ o[x] = AfterLine(o[n], lines[x])
    BY <1>3, <1>4, <2>4, <2>6
  <2>8. u[x + 1] = lines[x]
    BY <1>2, <2>5
  <2>9. QED
    BY <2>2, <2>5, <2>7, <2>8
<1>8. QED
  BY <1>1, <1>5, <1>7

(* The status line of a text is the one found, and the line put in after   *)
(* it leaves it where it was.                                              *)
LEMMA StatusLineIs ==
  ASSUME NEW lines \in Seq(Lines)
  PROVE  /\ StatusLine(lines) # 0 =>
              StatusLine(lines) \in 1..Len(lines) /\ Found(lines) = {StatusLine(lines)}
         /\ \A i : Found(lines) = {i} => StatusLine(lines) = i
<1>1. PICK found : found = Found(lines)
  OBVIOUS
<1>2. found \subseteq 1..Len(lines)
  BY <1>1 DEF Found
<1>3. ASSUME NEW i, found = {i} PROVE StatusLine(lines) = i
  <2>1. \E j \in found : found = {j}
    BY <1>3
  <2>2. (CHOOSE j \in found : TRUE) = i
    BY <1>3
  <2>3. QED
    BY <1>1, <2>1, <2>2 DEF StatusLine
<1>4. ASSUME StatusLine(lines) # 0 PROVE \E i \in found : found = {i}
  BY <1>1, <1>4 DEF StatusLine
<1>5. QED
  BY <1>1, <1>2, <1>3, <1>4

LEMMA ArchivedStatus ==
  ASSUME NEW lines \in Seq(Lines), NEW i \in 1..Len(lines), Found(lines) = {i},
         NEW u, PutIn(u, lines, Lines, i + 1, "Archived")
  PROVE  StatusLine(u) = i
<1>1. PICK o : o = Open(lines)
  OBVIOUS
<1>2. PICK p : p = Open(u)
  OBVIOUS
<1>3. u \in Seq(Lines) /\ Len(u) = Len(lines) + 1
  BY DEF PutIn
<1>4. Scans(o, lines) /\ Scans(p, u)
  BY <1>1, <1>2, <1>3, OpenIs
<1>5. /\ \A j \in 0..i : p[j] = o[j]
      /\ \A j \in i..Len(lines) : p[j + 1] = o[j]
  BY <1>4, ArchivedScans
<1>6. PICK N : N = Len(lines) /\ N \in Nat
  OBVIOUS
<1>7. {i} = {j \in 1..N : lines[j] \in StatusLines /\ ~o[j - 1].fence /\ ~o[j - 1].comment}
  BY <1>1, <1>6 DEF Found
<1>8. Found(u) = {j \in 1..(N + 1) : u[j] \in StatusLines /\ ~p[j - 1].fence /\ ~p[j - 1].comment}
  BY <1>2, <1>3, <1>6 DEF Found
<1>9. /\ u[i + 1] = "Archived"
      /\ \A k \in 1..i : u[k] = lines[k]
      /\ \A k \in (i + 1)..N : u[k + 1] = lines[k]
  BY <1>6 DEF PutIn
<1>10. i \in Found(u)
  <2>1. i - 1 \in 0..i /\ i \in 1..(N + 1) /\ i \in 1..i
    BY <1>6
  <2>2. lines[i] \in StatusLines /\ ~o[i - 1].fence /\ ~o[i - 1].comment
    BY <1>7
  <2>3. QED
    BY <1>5, <1>8, <1>9, <2>1, <2>2
<1>11. ASSUME NEW j \in Found(u) PROVE j = i
  <2>1. j \in 1..(N + 1) /\ u[j] \in StatusLines /\ ~p[j - 1].fence /\ ~p[j - 1].comment
    BY <1>8
  <2>2. CASE j <= i
    <3>1. j - 1 \in 0..i /\ j \in 1..i /\ j \in 1..N
      BY <1>6, <2>1, <2>2
    <3>2. lines[j] \in StatusLines /\ ~o[j - 1].fence /\ ~o[j - 1].comment
      BY <1>5, <1>9, <2>1, <3>1
    <3>3. QED
      BY <1>7, <3>1, <3>2
  <2>3. CASE j = i + 1
    BY <1>9, <2>1, <2>3 DEF StatusLines, LIFECYCLES, SOLUTION_STATUSES
  <2>4. CASE j > i + 1
    <3>1. PICK k : k = j - 1
      OBVIOUS
    <3>2. k \in (i + 1)..N /\ k \in 1..N /\ k - 1 \in i..N /\ (k - 1) + 1 = k /\ k + 1 = j
      BY <1>6, <2>1, <2>4, <3>1
    <3>3. p[k] = o[k - 1]
      BY <1>5, <1>6, <3>2
    <3>4. lines[k] \in StatusLines /\ ~o[k - 1].fence /\ ~o[k - 1].comment
      BY <1>9, <2>1, <3>1, <3>2, <3>3
    <3>5. k = i
      BY <1>7, <3>2, <3>4
    <3>6. QED
      BY <3>2, <3>5
  <2>5. QED
    BY <1>6, <2>1, <2>2, <2>3, <2>4
<1>12. Found(u) = {i}
  BY <1>10, <1>11
<1>13. QED
  BY <1>3, <1>12, StatusLineIs

(* The archived text, of a note that was in force with one status line.    *)
Notes == [kind : {"decision", "solution"}, folder : LIFECYCLES \cup {"none"},
          sections : DecisionSections \cup SolutionSections, lines : Seq(Lines), banned : BOOLEAN]
Archivable(n) == WellFormed(n) /\ n.folder = "implemented" /\ HeaderStatus(n.lines) # 0
ArchivedNote(n) ==
  [n EXCEPT !.folder = "archived", !.lines = InsertAt(@, HeaderStatus(@) + 1, "Archived")]

LEMMA HeaderStatusIs ==
  ASSUME NEW lines \in Seq(Lines)
  PROVE  /\ HeaderStatus(lines) # 0 => HeaderStatus(lines) \in Near(lines)
         /\ HeaderStatus(lines) = 0 => Near(lines) = {}
<1>1. PICK near : near = Near(lines)
  OBVIOUS
<1>2. Len(lines) \in Nat
  OBVIOUS
<1>3. near \in SUBSET Nat /\ 0 \notin near
  BY <1>1, <1>2 DEF Near
<1>4. CASE near = {}
  BY <1>1, <1>4 DEF HeaderStatus
<1>5. CASE near # {}
  <2>1. \E i \in near : \A j \in near : i <= j
    BY <1>3, <1>5, LeastNat
  <2>2. (CHOOSE i \in near : \A j \in near : i <= j) \in near
    BY <2>1
  <2>3. HeaderStatus(lines) = CHOOSE i \in near : \A j \in near : i <= j
    BY <1>1, <1>5 DEF HeaderStatus
  <2>4. PICK i : i = HeaderStatus(lines) /\ i \in near
    BY <2>2, <2>3
  <2>5. i # 0
    BY <1>3, <2>4
  <2>6. QED
    BY <1>1, <2>4, <2>5
<1>6. QED
  BY <1>4, <1>5

(* A text that says implemented has a status line that says so.            *)
LEMMA ImplementedStatus ==
  ASSUME NEW n \in Notes, StatusOf(n) = "implemented"
  PROVE  /\ StatusLine(n.lines) \in 1..Len(n.lines)
         /\ Found(n.lines) = {StatusLine(n.lines)}
         /\ n.lines[StatusLine(n.lines)] \in {"implemented", "Implemented"}
<1>1. PICK i : i = StatusLine(n.lines)
  OBVIOUS
<1>2. n.lines \in Seq(Lines)
  BY DEF Notes
<1>3. PICK line : line = n.lines[i]
  OBVIOUS
<1>4. i # 0
  BY <1>1 DEF StatusOf
<1>5. line # "unreasoned"
  BY <1>1, <1>3, <1>4 DEF StatusOf
<1>6. line = "Implemented" \/ line = "implemented"
  BY <1>1, <1>3, <1>4, <1>5 DEF StatusOf
<1>7. QED
  BY <1>1, <1>2, <1>3, <1>4, <1>6, StatusLineIs

LEMMA ArchivedStaysValid ==
  ASSUME NEW n \in Notes, n.kind = "decision", Archivable(n),
         Cardinality(SaysImplemented(n.lines)) = 1
  PROVE  WellFormed(ArchivedNote(n))
<1>1. PICK lines : lines = n.lines /\ lines \in Seq(Lines)
  BY DEF Notes
<1>2. PICK i : i = HeaderStatus(lines)
  OBVIOUS
<1>3. StatusOf(n) = "implemented"
  BY DEF Archivable, WellFormed
<1>4. i \in 1..Len(lines) /\ lines[i] = "implemented"
  <2>1. Len(lines) \in Nat
    BY <1>1
  <2>2. i \in Near(lines)
    BY <1>1, <1>2, HeaderStatusIs DEF Archivable
  <2>3. QED
    BY <2>1, <2>2 DEF Near
<1>5. Found(lines) = {i}
  <2>1. PICK says : says = SaysImplemented(lines)
    OBVIOUS
  <2>2. says \in SUBSET (1..Len(lines)) /\ Len(lines) \in Nat
    BY <1>1, <2>1 DEF SaysImplemented
  <2>3. IsFiniteSet(1..Len(lines))
    BY <2>2, FS_Interval
  <2>4. IsFiniteSet(says)
    BY <2>2, <2>3, FS_Subset
  <2>5. PICK x : says = {x}
    BY <1>1, <2>1, <2>4, FS_Singleton
  <2>6. i \in says
    BY <1>4, <2>1 DEF SaysImplemented
  <2>7. StatusLine(lines) \in says /\ Found(lines) = {StatusLine(lines)}
    BY <1>1, <1>3, <2>1, ImplementedStatus DEF SaysImplemented
  <2>8. QED
    BY <2>5, <2>6, <2>7
<1>6. PICK u : u = InsertAt(lines, i + 1, "Archived")
  OBVIOUS
<1>7. PutIn(u, lines, Lines, i + 1, "Archived")
  <2>1. i + 1 \in 1..(Len(lines) + 1) /\ "Archived" \in Lines
    BY <1>1, <1>4 DEF Lines
  <2>2. QED
    BY <1>1, <1>6, <2>1, InsertionIs
<1>8. StatusLine(u) = i
  BY <1>1, <1>4, <1>5, <1>7, ArchivedStatus
<1>9. PICK m : m = ArchivedNote(n)
  OBVIOUS
<1>10. /\ m.kind = "decision" /\ m.folder = "archived" /\ m.lines = u
       /\ m.sections = n.sections
  <2>1. m = [n EXCEPT !.folder = "archived", !.lines = u]
    BY <1>1, <1>2, <1>6, <1>9 DEF ArchivedNote
  <2>2. QED
    BY <2>1 DEF Notes
<1>11. u[i] = "implemented" /\ u[i + 1] = "Archived" /\ i < Len(u) /\ i # 0
  <2>1. i \in 1..((i + 1) - 1) /\ Len(lines) \in Nat
    BY <1>1, <1>4
  <2>2. QED
    BY <1>4, <1>7, <2>1 DEF PutIn
<1>12. StatusOf(m) = "implemented"
  BY <1>8, <1>10, <1>11 DEF StatusOf
<1>13. ProperlyArchived(m)
  BY <1>8, <1>10, <1>11, <1>12 DEF ProperlyArchived
<1>14. LifecycleOf(m) = "archived"
  BY <1>10 DEF LifecycleOf
<1>15. REQUIRED_SECTIONS["archived"] \subseteq m.sections
  <2>1. LifecycleOf(n) = "implemented"
    BY DEF LifecycleOf, Archivable
  <2>2. REQUIRED_SECTIONS["implemented"] \subseteq n.sections
    BY <2>1 DEF Archivable, WellFormed
  <2>3. QED
    BY <1>10, <2>2 DEF REQUIRED_SECTIONS
<1>16. WellFormed(m)
  BY <1>10, <1>12, <1>13, <1>14, <1>15 DEF WellFormed
<1>17. QED
  BY <1>9, <1>16

(* Every answer of archiveDecision is the one its text deserves.           *)
NoteInv ==
  /\ note \in Notes
  /\ archive.result = "archived" =>
       note.kind = "decision" /\ Archivable(note) /\ archive.note = ArchivedNote(note)
  /\ archive.result = "refused" => ~Archivable(note)

LEMMA NotesAreRead == NoteSpec => []NoteInv
<1>1. NoteInit => NoteInv
  <2>1. SUFFICES ASSUME NoteInit PROVE NoteInv
    OBVIOUS
  <2>2. Headers \subseteq Seq(Lines)
    <3>1. {"implemented", "fence", "other"} \subseteq Lines
      BY DEF Lines, StatusLines, LIFECYCLES, SOLUTION_STATUSES
    <3>2. \A S \in SUBSET Lines, m \in Nat : [1..m -> S] \subseteq Seq(Lines)
      OBVIOUS
    <3>3. \A S \in SUBSET Lines, m \in Nat : BoundedSeq(S, m) \subseteq Seq(Lines)
      BY <3>2 DEF BoundedSeq, SeqOf
    <3>4. MaxHeader \in Nat /\ 2 * MaxHeader \in Nat
      BY TextAssumption
    <3>5. QED
      BY <3>1, <3>3, <3>4 DEF Headers
  <2>3. \A s \in StatusLines : <<s>> \in Seq(Lines)
    BY DEF Lines
  <2>4. note \in Notes
    <3> DEFINE Decided == [kind : {"decision"}, folder : LIFECYCLES, sections : DecisionSections,
                           lines : {h \in Headers : ToSet(h) \cap SOLUTION_STATUSES = {}},
                           banned : BOOLEAN]
               Solved == [kind : {"solution"}, folder : {"none"}, sections : SolutionSections,
                          lines : {<<s>> : s \in StatusLines}, banned : {FALSE}]
    <3>1. note \in Decided \/ note \in Solved
      BY <2>1 DEF NoteInit
    <3>2. CASE note \in Decided
      BY <2>2, <3>2 DEF Notes
    <3>3. CASE note \in Solved
      BY <2>3, <3>3 DEF Notes
    <3>4. QED
      BY <3>1, <3>2, <3>3
  <2>5. QED
    BY <2>1, <2>4 DEF NoteInit, NoteInv
<1>2. NoteInv /\ [NoteNext]_noteVars => NoteInv'
  <2>1. SUFFICES ASSUME NoteInv, [NoteNext]_noteVars PROVE NoteInv'
    OBVIOUS
  <2>2. CASE NoteNext
    <3>1. /\ note' = note /\ note.kind = "decision"
          /\ archive' = IF Archivable(note) THEN [result |-> "archived", note |-> ArchivedNote(note)]
                        ELSE [result |-> "refused"]
      BY <2>2 DEF NoteNext, ArchiveText, Archivable, ArchivedNote
    <3>2. CASE Archivable(note)
      BY <2>1, <3>1, <3>2 DEF NoteInv
    <3>3. CASE ~Archivable(note)
      BY <2>1, <3>1, <3>3 DEF NoteInv
    <3>4. QED
      BY <3>2, <3>3
  <2>3. CASE UNCHANGED noteVars
    BY <2>1, <2>3 DEF NoteInv, noteVars, Archivable, ArchivedNote
  <2>4. QED
    BY <2>1, <2>2, <2>3
<1>3. QED
  BY <1>1, <1>2, PTL DEF NoteSpec

LEMMA NotesAreGood ==
  NoteInv => ArchivingKeepsValidity /\ DecisionsInForceCanBeArchived
<1>1. SUFFICES ASSUME NoteInv PROVE ArchivingKeepsValidity /\ DecisionsInForceCanBeArchived
  OBVIOUS
<1>2. ArchivingKeepsValidity
  BY <1>1, ArchivedStaysValid DEF NoteInv, ArchivingKeepsValidity
<1>3. ASSUME archive.result = "refused", WellFormed(note), note.kind = "decision",
             note.folder = "implemented"
      PROVE  StatusLine(note.lines) > 5 \/ note.lines[StatusLine(note.lines)] = "Implemented"
  <2>1. StatusOf(note) = "implemented"
    BY <1>3 DEF WellFormed
  <2>2. PICK lines, k : lines = note.lines /\ lines \in Seq(Lines) /\ k = StatusLine(lines)
    BY <1>1 DEF NoteInv, Notes
  <2>3. k \in 1..Len(lines) /\ lines[k] \in {"implemented", "Implemented"}
    BY <1>1, <2>1, <2>2, ImplementedStatus DEF NoteInv
  <2>4. Near(lines) = {}
    BY <1>1, <1>3, <2>2, HeaderStatusIs DEF NoteInv, Archivable
  <2>5. k > 5 \/ lines[k] # "implemented"
    <3>1. Len(lines) \in Nat
      BY <2>2
    <3>2. QED
      BY <2>3, <2>4, <3>1 DEF Near
  <2>6. QED
    BY <2>2, <2>3, <2>5
<1>4. QED
  BY <1>2, <1>3 DEF DecisionsInForceCanBeArchived

(* What the store and the search make of knowledge: archiving a decision   *)
(* in force keeps it a valid document, a search keeps its budgets and      *)
(* leaves out only what did not fit beside better matches                  *)
(* (src/knowledge/schema.js, store.js, search.js).                         *)
THEOREM KnowledgeIsReadTrue == NoteSpec /\ SearchSpec => []KnowledgeReadsTrue
<1>1. NoteInv /\ SearchInv => KnowledgeReadsTrue
  BY NotesAreGood, SearchIsGood DEF KnowledgeReadsTrue
<1>2. QED
  BY <1>1, NotesAreRead, SearchHolds, PTL
=============================================================================
