----------------------------- MODULE ModelChoice -----------------------------
(***************************************************************************)
(* src/modelcap.js, and the choice planner.js builds on it: which provider *)
(* and model an agent of a role gets.  A model is its row in the curated   *)
(* table of capabilities; scores and weights are the source's.  Between    *)
(* two plans the quota of a provider is spent and the current one changes. *)
(***************************************************************************)
EXTENDS Integers, Sequences, FiniteSets, SequencesExt

CONSTANTS Offers,       \* records [provider, model, remaining, cost]; -1 = not known
          MaxOffers,
          ChoiceRoles,
          MaxSpends

ASSUME ChoiceAssumption ==
  /\ IsFiniteSet(Offers)
  /\ Offers \subseteq [provider : STRING, model : STRING, remaining : Int, cost : Int]

VARIABLES
  offers,    \* the configured providers' models, in order
  current,   \* the provider cc-switch has selected
  codexPro,  \* whether the local codex login carries a Pro plan
  choices,   \* role -> what the last plan chose for it
  spends

choiceVars == <<offers, current, codexPro, choices, spends>>

(***************************************************************************)
(* RULES: a capability is "yes", "no" or "unknown".                        *)
(***************************************************************************)
RoleCaps(agentic, reasoning, coding, vision) ==
  [agentic |-> agentic, reasoning |-> reasoning, coding |-> coding, visionIn |-> vision]
classifyModel(model) ==
  CASE model \in {"gpt-image", "veo"} -> RoleCaps("no", "no", "no", "yes")
    [] model \in {"whisper", "embed"} -> RoleCaps("no", "no", "no", "no")
    [] model \in {"deepseek", "qwen-coder", "glm"} -> RoleCaps("yes", "yes", "yes", "no")
    [] model \in {"deepseek-flash", "qwen-vl"} -> RoleCaps("yes", "yes", "unknown", "yes")
    [] model \in {"claude", "gpt", "gemini"} -> RoleCaps("yes", "yes", "yes", "yes")
    [] OTHER -> RoleCaps("unknown", "unknown", "unknown", "unknown")

Requirements(role) ==
  CASE role \in {"orchestrator", "researcher"} -> [require |-> {"agentic", "reasoning"}, prefer |-> {"visionIn"}]
    [] role = "implementer" -> [require |-> {"agentic", "coding"}, prefer |-> {"reasoning"}]
    [] role = "reviewer" -> [require |-> {"agentic", "reasoning", "coding"}, prefer |-> {}]
    [] OTHER -> [require |-> {"agentic"}, prefer |-> {}]

(* Out of 100, rounded to the nearest; the required capabilities weigh 80  *)
(* together, or all of it when nothing is preferred.                       *)
CountOf(caps, wanted, value) == Cardinality({c \in wanted : caps[c] = value})
capabilityScore(caps, role) ==
  LET need == Requirements(role).require  like == Requirements(role).prefer
      Weighed(wanted, weight) ==   \* times 10: an unknown is worth 4 tenths
        IF wanted = {} THEN 0
        ELSE (weight * (10 * CountOf(caps, wanted, "yes") + 4 * CountOf(caps, wanted, "unknown")))
               \div Cardinality(wanted)
      tenths == IF like = {} THEN Weighed(need, 100) ELSE Weighed(need, 80) + Weighed(like, 20)
  IN  IF CountOf(caps, need, "no") > 0 THEN 0 ELSE (tenths + 5) \div 10

(***************************************************************************)
(* selectModelForRole.                                                     *)
(***************************************************************************)
AtMost(n, bound) == IF n < bound THEN n ELSE bound
QuotaBonus(o) == IF o.remaining < 0 THEN 10 ELSE AtMost(o.remaining, 20)
PricePenalty(o, cheap) == (IF o.cost < 0 THEN 25 ELSE AtMost(o.cost, 20)) * (IF cheap THEN 3 ELSE 1)

(* Mutant: the fit counts as much as the rest.                             *)
UnscaledRank(o, role, cheap) ==
  capabilityScore(classifyModel(o.model), role) + (IF o.provider = current THEN 30 ELSE 0)
    + QuotaBonus(o) - PricePenalty(o, cheap)
Rank(o, role, cheap) ==
  100 * capabilityScore(classifyModel(o.model), role) + (IF o.provider = current THEN 30 ELSE 0)
    + QuotaBonus(o) - PricePenalty(o, cheap)

(* Mutant: a model whose fit is nought is only ranked last.                *)
AllCandidates(role) == 1..Len(offers)
Candidates(role) == {i \in 1..Len(offers) : capabilityScore(classifyModel(offers[i].model), role) > 0}

NoChoice == [provider |-> "none"]
Best(role, cheap) ==
  LET fit == Candidates(role)
      At == CHOOSE i \in fit :
              \A j \in fit :
                LET mine == Rank(offers[i], role, cheap)  theirs == Rank(offers[j], role, cheap)
                IN  theirs < mine \/ (theirs = mine /\ i <= j)
  IN  IF fit = {} THEN NoChoice ELSE offers[At]

(***************************************************************************)
(* A plan chooses a model for each of its roles; the reviewer of a codex   *)
(* with a Pro login gets the plan's own model instead.                     *)
(***************************************************************************)
ChoiceInit ==
  /\ offers \in UNION {{SetToSeq(s) : s \in {t \in SUBSET Offers : Cardinality(t) = n}} : n \in 0..MaxOffers}
  /\ current \in {o.provider : o \in Offers} \cup {"none"}
  /\ codexPro \in BOOLEAN
  /\ choices = [r \in ChoiceRoles |-> NoChoice] /\ spends = 0

(* pickModel: whatever the current provider is set to, fit or not.         *)
Fallback ==
  LET own == {i \in 1..Len(offers) : offers[i].provider = current}
      first == CHOOSE i \in own : \A j \in own : i <= j
  IN  [provider |-> "fallback", model |-> IF own = {} THEN "claude" ELSE offers[first].model]

Chosen(role, cheap) ==
  IF role = "reviewer" /\ codexPro THEN [provider |-> "login", model |-> "gpt"]
  ELSE LET best == Best(role, cheap) IN IF best = NoChoice THEN Fallback ELSE best

ChooseModels(cheap) ==
  /\ choices' = [r \in ChoiceRoles |-> Chosen(r, cheap /\ r = "researcher")]
  /\ UNCHANGED <<offers, current, codexPro, spends>>

SpendQuota(i) ==
  /\ spends < MaxSpends /\ offers[i].remaining > 0
  /\ offers' = [offers EXCEPT ![i].remaining = 0] /\ spends' = spends + 1
  /\ UNCHANGED <<current, codexPro, choices>>

SwitchProvider(p) ==
  /\ spends < MaxSpends /\ spends' = spends + 1 /\ current' = p
  /\ UNCHANGED <<offers, codexPro, choices>>

ChoiceNext ==
  \/ \E cheap \in BOOLEAN : ChooseModels(cheap)
  \/ \E i \in 1..Len(offers) : SpendQuota(i)
  \/ \E i \in 1..Len(offers) : SwitchProvider(offers[i].provider)
ChoiceSpec == ChoiceInit /\ [][ChoiceNext]_choiceVars

(***************************************************************************)
(* Properties.                                                             *)
(***************************************************************************)
Fit(o, role) == capabilityScore(classifyModel(o.model), role)

(* "drop unfit models": a selection never has a model that lacks what the  *)
(* role requires, whatever its price and its quota.                        *)
UnfitNeverChosen ==
  \A r \in ChoiceRoles : choices[r].provider \notin {"none", "fallback"} => Fit(choices[r], r) > 0

(* "capability fit first": no price, quota or current provider outweighs a *)
(* better fit.                                                             *)
FitFirst ==
  [][\A r \in ChoiceRoles : choices'[r] # choices[r] /\ choices'[r].provider \notin {"login", "fallback"} =>
       \A i \in 1..Len(offers) : Fit(offers[i], r) <= Fit(choices'[r], r)]_choiceVars

(* Fitness decides before price, quota and habit (modelcap.js).            *)
ModelsFit ==
  FitFirst /\ []UnfitNeverChosen
=============================================================================
