------------------------------ MODULE PriceGate ------------------------------
(***************************************************************************)
(* src/cost-policy.js, src/pricing.js, src/pricing-sources.js and the      *)
(* admission of src/runtime.js: whether a run may use a model, by the      *)
(* price known for it, how it is billed, the project's policy and the      *)
(* approvals of exactly that price.  A run freezes the settings and the    *)
(* prices it was queued with; an approval for it arrives in two writes     *)
(* (settings, then the run), and its author may die in between.            *)
(*                                                                         *)
(* Roles and models are one each: what varies is the provider, the billing *)
(* mode and the price.  A price is [from, level, version]; its version     *)
(* changes whenever its source or its numbers do.                          *)
(***************************************************************************)
EXTENDS Naturals, FiniteSets

CONSTANTS PricedRuns, Adapters, MaxFeeds, MaxPolicyEdits, MaxApprovals

VARIABLES
  priceSettings,  \* the project's settings, as far as money goes
  feed,           \* the cached price source
  runs,           \* run -> what it froze, and its authorizations
  queueing,       \* run -> what a createRun has read, before its locks
  approver,       \* the approval command in progress
  consents,       \* approvals somebody confirmed (history)
  edited          \* counters: policy edits and feed refreshes

gateVars == <<priceSettings, feed, runs, queueing, approver, consents, edited>>

NoPrice == [from |-> "nowhere", level |-> "unknown", version |-> 0]
Feed(level, n) == [from |-> "feed", level |-> level, version |-> n]
Builtin == [from |-> "builtin", level |-> "dear", version |-> 0]
NoRun == [made |-> FALSE]

(***************************************************************************)
(* resolvePrice: the project's override wins, even an incomplete one; then *)
(* the enabled source, then the bundled estimate.                          *)
(***************************************************************************)
resolvePrice(settings, records) ==
  IF settings.override # NoPrice THEN settings.override
  ELSE IF records # NoPrice THEN records ELSE Builtin

(***************************************************************************)
(* evaluateSelection.  No adapter delivers verified payment telemetry, so  *)
(* no selection is covered by a subscription, and none is measured.        *)
(***************************************************************************)
boundedPolicy(settings) == settings.bounds

(* Mutant: an approval holds for whatever the model costs.                 *)
SameModel(approval, price) == TRUE
SamePrice(approval, price) == approval.price = price

Decision(sel, price, settings, approvals) ==
  LET known == price.level \in {"cheap", "dear"}
      bounded == settings.policy = "bounded" /\ boundedPolicy(settings)
      boundedSubscription == sel.billing = "subscription" /\ sel.seen /\ settings.coverage = "bounded" /\ boundedPolicy(settings)
      requiresBounds == boundedSubscription
                        \/ (settings.policy = "bounded" /\ (~known \/ ~sel.provider \/ sel.billing = "unknown"))
      matching == sel.billing = "api" /\ sel.provider
                  /\ \E a \in approvals : SamePrice(a, price) /\ a.scope \in {"persistent", sel.run}
      refusals == (IF ~known /\ ~bounded THEN {"UNKNOWN_PRICE"} ELSE {})
             \cup (IF ~sel.provider /\ ~bounded THEN {"UNKNOWN_PROVIDER"} ELSE {})
             \cup (IF sel.billing \in {"subscription", "local-free"} /\ ~boundedSubscription THEN {"UNVERIFIED"} ELSE {})
             \cup (IF sel.billing = "unknown" /\ ~bounded THEN {"UNKNOWN_BILLING"} ELSE {})
             \cup (IF price.level = "dear" /\ ~matching /\ ~boundedSubscription THEN {"EXPENSIVE_MODEL"} ELSE {})
             \cup (IF settings.strict /\ sel.billing # "local-free" THEN {"MEASURED_COVERAGE_REQUIRED"} ELSE {})
  IN  [allowed |-> refusals = {}, requiresBounds |-> requiresBounds]

Selections == [provider : BOOLEAN, billing : {"api", "subscription", "local-free", "unknown"},
               seen : BOOLEAN, adapter : Adapters, run : PricedRuns]

(***************************************************************************)
(* Settings and the price source.                                          *)
(***************************************************************************)
PriceInit ==
  /\ priceSettings = [policy |-> "pause", bounds |-> FALSE, coverage |-> "pause", strict |-> FALSE,
                      override |-> NoPrice, approvals |-> {}]
  /\ feed = NoPrice /\ runs = [r \in PricedRuns |-> NoRun] /\ queueing = [r \in PricedRuns |-> NoRun]
  /\ approver = [at |-> "idle"] /\ consents = {} /\ edited = [policy |-> 0, feed |-> 0]

ConfigSetPricing ==
  /\ edited.policy < MaxPolicyEdits /\ edited' = [edited EXCEPT !.policy = @ + 1]
  /\ \E field \in {"policy", "coverage"}, value \in {"pause", "bounded"}, bounds, strict \in BOOLEAN :
       LET edit == [priceSettings EXCEPT ![field] = value, !.bounds = bounds, !.strict = strict]
       IN  /\ "bounded" \in {edit.policy, edit.coverage} => bounds
           /\ priceSettings' = edit
  /\ UNCHANGED <<feed, runs, queueing, approver, consents>>

SetOverride(level) ==
  /\ edited.policy < MaxPolicyEdits /\ edited' = [edited EXCEPT !.policy = @ + 1]
  /\ priceSettings' = [priceSettings EXCEPT !.override =
                         [from |-> "override", level |-> level, version |-> edited.policy + 1]]
  /\ UNCHANGED <<feed, runs, queueing, approver, consents>>

refreshPrices(level) ==
  /\ edited.feed < MaxFeeds /\ edited' = [edited EXCEPT !.feed = @ + 1]
  /\ feed' = Feed(level, edited.feed + 1)
  /\ UNCHANGED <<priceSettings, runs, queueing, approver, consents>>

(***************************************************************************)
(* createRun reads settings and prices, then freezes them under the locks  *)
(* unless the settings have changed meanwhile.                             *)
(***************************************************************************)
ReadForRun(r) ==
  /\ ~runs[r].made /\ ~queueing[r].made
  /\ queueing' = [queueing EXCEPT ![r] = [made |-> TRUE, settings |-> priceSettings, prices |-> feed]]
  /\ UNCHANGED <<priceSettings, feed, runs, approver, consents, edited>>

(* Mutant: what was read is frozen without another look.                   *)
FreezeAsRead(r) == TRUE
StillCurrent(r) == queueing[r].settings = priceSettings

FreezeRun(r) ==
  /\ queueing[r].made
  /\ queueing' = [queueing EXCEPT ![r] = NoRun]
  /\ runs' = IF StillCurrent(r)
             THEN [runs EXCEPT ![r] = [made |-> TRUE, settings |-> queueing[r].settings,
                                       prices |-> queueing[r].prices, authorizations |-> {}]]
             ELSE runs
  /\ UNCHANGED <<priceSettings, feed, approver, consents, edited>>

(***************************************************************************)
(* `mawf pricing approve`: the price is the frozen one for a run there is, *)
(* the current one otherwise.                                              *)
(***************************************************************************)
ConfirmApproval(scope) ==
  /\ approver.at = "idle" /\ Cardinality(consents) < MaxApprovals
  /\ LET price == IF scope \in PricedRuns /\ runs[scope].made
                  THEN resolvePrice(runs[scope].settings, runs[scope].prices)
                  ELSE resolvePrice(priceSettings, feed)
     IN  /\ price.level \in {"cheap", "dear"}
         /\ [price |-> price, scope |-> scope] \notin consents
         /\ approver' = [at |-> "settings", approval |-> [price |-> price, scope |-> scope]]
         /\ consents' = consents \cup {[price |-> price, scope |-> scope]}
  /\ UNCHANGED <<priceSettings, feed, runs, queueing, edited>>

ApproveInSettings ==
  /\ approver.at = "settings"
  /\ priceSettings' = [priceSettings EXCEPT !.approvals = @ \cup {approver.approval}]
  /\ approver' = IF approver.approval.scope \in PricedRuns THEN [approver EXCEPT !.at = "run"] ELSE [at |-> "idle"]
  /\ UNCHANGED <<feed, runs, queueing, consents, edited>>

(* A run that does not exist yet will freeze the approval from settings.   *)
recordRunApproval ==
  /\ approver.at = "run"
  /\ LET r == approver.approval.scope
     IN  runs' = IF runs[r].made THEN [runs EXCEPT ![r].authorizations = @ \cup {approver.approval}] ELSE runs
  /\ approver' = [at |-> "done", approval |-> approver.approval]
  /\ UNCHANGED <<priceSettings, feed, queueing, consents, edited>>

ApproverEnds ==
  /\ approver.at # "idle" /\ approver' = [at |-> "idle"]
  /\ UNCHANGED <<priceSettings, feed, runs, queueing, consents, edited>>

(***************************************************************************)
(* admission: the frozen settings and prices, the run's authorizations,    *)
(* and for a host-managed task no reliance on bounds it cannot enforce.    *)
(***************************************************************************)
(* Mutant: today's prices decide.                                          *)
PriceOfToday(r) == resolvePrice(priceSettings, feed)
FrozenPrice(r) == resolvePrice(runs[r].settings, runs[r].prices)

Enforces(sel) == sel.adapter # "host-managed"

Admits(sel) ==
  LET run == runs[sel.run]
      d == Decision(sel, FrozenPrice(sel.run), run.settings, run.settings.approvals \cup run.authorizations)
  IN  d.allowed /\ (d.requiresBounds => Enforces(sel))

PriceNext ==
  \/ ConfigSetPricing \/ ApproveInSettings \/ recordRunApproval \/ ApproverEnds
  \/ \E level \in {"cheap", "dear", "unknown"} : SetOverride(level)
  \/ \E level \in {"cheap", "dear"} : refreshPrices(level)
  \/ \E r \in PricedRuns : ReadForRun(r) \/ FreezeRun(r)
  \/ \E scope \in PricedRuns \cup {"persistent"} : ConfirmApproval(scope)
PriceSpec == PriceInit /\ [][PriceNext]_gateVars

(***************************************************************************)
(* A model dearer than the threshold is let into a run only if somebody    *)
(* confirmed exactly that price, for good or for that run, or the run was  *)
(* queued when its unverified subscription was accepted under bounds.      *)
(***************************************************************************)
DearNeedsConsent ==
  \A sel \in Selections :
    (runs[sel.run].made /\ Admits(sel) /\ FrozenPrice(sel.run).level = "dear") =>
      \/ \E scope \in {"persistent", sel.run} : [price |-> FrozenPrice(sel.run), scope |-> scope] \in consents
      \/ sel.billing = "subscription" /\ runs[sel.run].settings.coverage = "bounded" /\ runs[sel.run].settings.bounds

(***************************************************************************)
(* Once queued, a run's admissions do not change with the settings or the  *)
(* price source: only an approval recorded for that run adds to them, and  *)
(* nothing takes one away.                                                 *)
(***************************************************************************)
FrozenRunsDecideAlike ==
  [][\A sel \in Selections : runs[sel.run].made =>
       /\ Admits(sel) => Admits(sel)'
       /\ (Admits(sel)' /\ ~Admits(sel)) => runs'[sel.run].authorizations # runs[sel.run].authorizations]_gateVars

(***************************************************************************)
(* An approval whose command has finished is not lost between its two      *)
(* writes: if its run exists, the run has it, frozen or recorded.          *)
(***************************************************************************)
ApprovalReachesRun ==
  (approver.at = "done" /\ runs[approver.approval.scope].made) =>
    approver.approval \in runs[approver.approval.scope].settings.approvals
                          \cup runs[approver.approval.scope].authorizations

(* No run spends what nobody agreed to, and what was agreed to is neither  *)
(* lost nor withdrawn (cost-policy.js, pricing.js).                        *)
SpendingIsConsented ==
  FrozenRunsDecideAlike /\ [](DearNeedsConsent /\ ApprovalReachesRun)
=============================================================================
