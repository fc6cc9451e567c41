------------------------------- MODULE Planner -------------------------------
(***************************************************************************)
(* src/planner.js, src/fixed-plan.js, src/modes.js and                     *)
(* src/role-overrides.js: from the signals of a project and the abilities  *)
(* of the host to a roster, its groups, gates and loops, and what the      *)
(* settings then take from it and add to it.  Scores are the source's.     *)
(* Which model an agent gets is ModelChoice's; here an agent only carries  *)
(* the application its model was selected from.                            *)
(***************************************************************************)
EXTENDS Naturals, Sequences, FiniteSets, SequencesExt

CONSTANTS Signals,      \* records [files, parallel, risk, value, context, type, hitl, persistence]
          Probes,       \* records [files, loc, languages] of a project on disk
          Hosts,        \* records [app, dynamic, codex]
          MaxConcurrencies,
          PlanHackers,
          Disabled,     \* sets of roles the settings may disable
          Customs       \* sets of roles the settings may add

(* A role is its base name and its number: "hacker-2" is Copy("hacker", 2),*)
(* and "hacker" alone is the first.                                        *)
Role(base) == <<base, 1>>
Copy(base, number) == <<base, number>>

ASSUME PlannerAssumption ==
  /\ Signals \subseteq [files : Nat, parallel : Nat, risk : STRING, value : STRING, context : STRING,
                        type : STRING, hitl : BOOLEAN, persistence : BOOLEAN]
  /\ Probes \subseteq [files : Nat, loc : Nat, languages : Nat]
  /\ Hosts \subseteq [app : STRING, dynamic : BOOLEAN, codex : BOOLEAN]
  /\ MaxConcurrencies \subseteq Nat /\ PlanHackers \in Nat
  /\ \A custom \in Customs : IsFiniteSet(custom)

VARIABLES signals, planHost, plan, planStage

plannerVars == <<signals, planHost, plan, planStage>>

Level(l) == CASE l = "low" -> 1 [] l = "high" -> 3 [] OTHER -> 2
Architectures == <<"loop", "orchestrator-workers", "multi-agent", "graph", "dynamic", "ultracode">>

(***************************************************************************)
(* inferSignals: the signals of a project nobody described.                *)
(***************************************************************************)
InferSignals(p) ==
  LET rounded == (p.files + 6) \div 12 + (IF p.languages > 1 THEN 1 ELSE 0)
      risk == IF p.files >= 50 \/ p.languages >= 4 THEN "high" ELSE IF p.files >= 15 THEN "medium" ELSE "low"
      context == IF p.files >= 80 \/ p.loc >= 5000 THEN "large" ELSE IF p.files >= 20 THEN "medium" ELSE "small"
  IN  [files |-> p.files, type |-> "coding", risk |-> risk, context |-> context,
       parallel |-> IF rounded < 1 THEN 1 ELSE IF rounded > 8 THEN 8 ELSE rounded,
       value |-> IF p.files >= 50 THEN "high" ELSE IF p.files >= 15 THEN "medium" ELSE "low",
       hitl |-> risk = "high", persistence |-> context = "large"]

(***************************************************************************)
(* scoreArchitectures.                                                     *)
(***************************************************************************)
When(condition, points) == IF condition THEN points ELSE 0
Least(a, b) == IF a < b THEN a ELSE b

(* Mutant: a greenfield project is scored as if it were complex coding.    *)
GenerousUltracode(s, h) ==
  LET risk == Level(s.risk)
  IN  When(s.type = "coding" /\ (s.files >= 20 \/ risk >= 2) /\ h.codex,
           45 + When(s.files >= 50, 10) + When(risk >= 2, 15) + When(s.files >= 20, 8))
      + When(s.type = "greenfield" /\ s.files >= 15, 60)
UltracodeScore(s, h) ==
  LET risk == Level(s.risk)
  IN  When(s.type = "coding" /\ (s.files >= 20 \/ risk >= 2) /\ h.codex,
           45 + When(s.files >= 50, 10) + When(risk >= 2, 15) + When(s.files >= 20, 8))
      + When(s.type = "greenfield" /\ s.files >= 15, 6)

ArchitectureScore(a, s, h) ==
  LET risk == Level(s.risk)  value == Level(s.value)  large == s.context = "large"
  IN  CASE a = "loop" -> When(~large, 45 + When(s.type = "coding", 10)) + When(s.type = "review", 8)
        [] a = "orchestrator-workers" -> When(s.parallel >= 3 \/ large, 55 + 4 * Least(s.parallel, 6))
        [] a = "multi-agent" -> When(value >= 2 /\ s.parallel >= 4, 50 + 6 * value) + When(s.type = "research", 10)
        [] a = "graph" -> When(s.hitl \/ s.persistence \/ risk >= 2,
                               40 + When(s.hitl, 12) + When(s.persistence, 10) + When(risk = 3, 8))
                          + When(s.type = "migration", 12)
        [] a = "dynamic" -> When(h.dynamic, 30)
        [] a = "ultracode" -> UltracodeScore(s, h)

(* Ties go to the one listed first; "none" is scored but never ranked.     *)
Primary(s, h) ==
  LET score == [i \in 1..Len(Architectures) |-> ArchitectureScore(Architectures[i], s, h)]
  IN  Architectures[CHOOSE i \in DOMAIN score :
        \A j \in DOMAIN score : score[j] < score[i] \/ (score[j] = score[i] /\ i <= j)]

(* Mutant: the loop is always layered on top.                              *)
AlwaysLoops(primary, h) == {primary, "loop"}
SelectedArchitecture(primary, h) ==
  CASE primary = "ultracode" -> {"graph", "loop", "ultracode"}
    [] primary \in {"multi-agent", "orchestrator-workers"} ->
         {IF h.dynamic THEN "dynamic" ELSE "orchestrator-workers"} \cup ({primary} \cap {"multi-agent"})
    [] OTHER -> {primary}

(***************************************************************************)
(* planWorkflow.  An agent is [role, app, from]: the application it runs   *)
(* under and the one its model was selected from.                          *)
(***************************************************************************)
DynamicPlan(s, h, cap) ==
  LET primary == Primary(s, h)
      selected == SelectedArchitecture(primary, h)
      app == IF h.app \in {"pi", "dsh"} THEN h.app ELSE "claude"
      Agent(role) == [role |-> role, app |-> app, from |-> app]
      least == IF "multi-agent" \in selected THEN 4 ELSE 2
      workers == Least(IF s.parallel > least THEN s.parallel ELSE least, cap)
      fanned == selected \cap {"multi-agent", "orchestrator-workers", "dynamic"} # {}
      looped == selected \cap {"loop", "ultracode"} # {}
      team == <<Role("researcher"), Role("implementer")>>
                 \o (IF workers >= 3 THEN <<Copy("implementer", 2)>> ELSE <<>>)
                 \o (IF workers >= 4 THEN <<Copy("researcher", 2)>> ELSE <<>>)
      Reviewer(ran, from) == <<[role |-> Role("reviewer"), app |-> ran, from |-> from]>>
      reviewer == IF h.codex THEN Reviewer("codex", "codex")
                  ELSE IF Level(s.risk) >= 2 THEN Reviewer("claude", app) ELSE <<>>
      roles == (IF fanned \/ "ultracode" \in selected THEN <<Role("orchestrator")>> ELSE <<>>)
                 \o (IF fanned THEN team ELSE <<>>) \o (IF looped THEN <<Role("implementer")>> ELSE <<>>)
      orchestrator == {Role("orchestrator")}
      Group(label, members, steps) == [label |-> label, agents |-> members, steps |-> steps]
      execute == IF fanned
                 THEN Group("execute-parallel", ToSet(roles) \ orchestrator, ToSet(team))
                 ELSE Group("execute", {Role("implementer")}, {Role("implementer")})
  IN  [mode |-> "dynamic", primary |-> primary, selected |-> selected,
       agents |-> [i \in 1..Len(roles) |-> Agent(roles[i])] \o reviewer,
       groups |-> <<Group("plan", orchestrator, orchestrator), execute,
                    Group("synthesize", orchestrator, orchestrator)>>,
       gates |-> (IF h.codex THEN <<"auto">> \o (IF Level(s.risk) >= 2 THEN <<"working-tree">> ELSE <<>>)
                  ELSE <<>>) \o (IF primary = "ultracode" THEN <<"branch">> ELSE <<>>),
       loops |-> IF looped THEN 1 ELSE 0]

(***************************************************************************)
(* fixedPlan: mode fixed-1 on Claude Code, at least one independent hacker *)
(* whatever the settings ask.                                              *)
(***************************************************************************)
Hackers(n) == LET count == IF n > 1 THEN n ELSE 1
              IN  [i \in 1..count |-> Copy("hacker", i)]
FixedPlan(hackers) ==
  LET roles == <<Role("orchestrator"), Role("implementer"), Role("researcher"), Role("advisor"),
                 Role("autoresearch")>> \o Hackers(hackers)
      Group(label, members) == [label |-> label, agents |-> members, steps |-> {}]
  IN  [mode |-> "fixed-1", primary |-> "fixed-1", selected |-> {"fixed-1"},
       agents |-> [i \in 1..Len(roles) |-> [role |-> roles[i], app |-> "claude", from |-> "claude"]],
       groups |-> <<Group("implement", {Role("implementer"), Role("researcher")}),
                    Group("optional-bounded-optimization", {Role("autoresearch")}),
                    Group("triggered-advice", {Role("advisor")}),
                    Group("independent-acceptance", ToSet(Hackers(hackers)))>>,
       gates |-> <<>>, loops |-> 0]

(***************************************************************************)
(* applyRoleOverrides.                                                     *)
(***************************************************************************)
RolesOf(agents) == {agents[i].role : i \in 1..Len(agents)}

(* Mutant: only a role's plain name is protected, not its numbered copies. *)
MandatoryByName(p, role) ==
  p.mode = "fixed-1" /\ role \in {Role("orchestrator"), Role("implementer"), Role("hacker")}
Mandatory(p, role) == p.mode = "fixed-1" /\ role[1] \in {"orchestrator", "implementer", "hacker"}

Kept(p, disabled) ==
  LET UpTo[n \in 0..Len(p.agents)] ==
        IF n = 0 THEN <<>>
        ELSE LET agent == p.agents[n]
             IN  IF agent.role \notin disabled \/ Mandatory(p, agent.role) THEN Append(UpTo[n - 1], agent)
                 ELSE UpTo[n - 1]
  IN  UpTo[Len(p.agents)]

(* Mutant: the roles that already stand in a group are taken to be those   *)
(* of the roster.                                                          *)
AssumeAssigned(p, agents) == {}
Unassigned(p, agents) == RolesOf(agents) \ UNION {p.groups[i].agents : i \in 1..Len(p.groups)}

Overridden(p, disabled, custom) ==
  LET kept == Kept(p, disabled)
      app == IF p.mode = "fixed-1" \/ planHost.app = "unknown" THEN "claude"
             ELSE IF planHost.app \in {"pi", "dsh", "codex"} THEN planHost.app ELSE "claude"
      added == SetToSeq(custom \ (disabled \cup RolesOf(kept)))
      agents == kept \o [i \in 1..Len(added) |-> [role |-> added[i], app |-> app, from |-> app]]
      extra == Unassigned(p, agents)
      place == CHOOSE i \in 1..Len(p.groups) : p.groups[i].label \in {"synthesize", "independent-acceptance"}
      groups == IF extra = {} THEN p.groups
                ELSE InsertAt(p.groups, place, [label |-> "custom-roles", agents |-> extra, steps |-> {}])
  IN  [p EXCEPT !.agents = agents,
                !.groups = [i \in 1..Len(groups) |->
                              [groups[i] EXCEPT !.agents = @ \cap RolesOf(agents)]]]

(***************************************************************************)
(* A plan is made once, then overridden.                                   *)
(***************************************************************************)
NoPlan == [mode |-> "none"]
NoSignals == [files |-> 0]

PlannerInit ==
  /\ signals \in Signals \cup {InferSignals(p) : p \in Probes}
  /\ planHost \in Hosts /\ plan = NoPlan /\ planStage = "asked"

PlanWorkflow ==
  /\ planStage = "asked" /\ planStage' = "planned"
  /\ \E cap \in MaxConcurrencies : plan' = DynamicPlan(signals, planHost, cap)
  /\ signals' = NoSignals
  /\ UNCHANGED planHost

PlanFixed ==
  /\ planStage = "asked" /\ planStage' = "planned"
  /\ plan' = FixedPlan(PlanHackers)
  /\ signals' = NoSignals
  /\ UNCHANGED planHost

ApplyRoleOverrides ==
  /\ planStage = "planned" /\ planStage' = "overridden"
  /\ \E disabled \in Disabled, custom \in Customs : plan' = Overridden(plan, disabled, custom)
  /\ UNCHANGED <<signals, planHost>>

PlannerNext == PlanWorkflow \/ PlanFixed \/ ApplyRoleOverrides
PlannerSpec == PlannerInit /\ [][PlannerNext]_plannerVars

(***************************************************************************)
(* Properties.                                                             *)
(***************************************************************************)
Planned == planStage \in {"planned", "overridden"}

(* No role is in a roster twice (each role has one file, one approval      *)
(* identity), whichever architectures are layered and roles added.         *)
RolesAreDistinct ==
  Planned => \A i, j \in 1..Len(plan.agents) : plan.agents[i].role = plan.agents[j].role => i = j

(* A gate codex is to pass is only planned on a host that has codex: the   *)
(* scores never let ultracode win without it.                              *)
CodexGatesHaveACodex ==
  Planned /\ plan.gates # <<>> => planHost.codex

(* In mode fixed-1 no setting removes the orchestrator, the implementer or *)
(* one of the independent hackers the acceptance asks for.                 *)
FixedRolesSurvive ==
  Planned /\ plan.mode = "fixed-1" =>
    /\ {Role("orchestrator"), Role("implementer")} \subseteq RolesOf(plan.agents)
    /\ \E i \in 1..Len(plan.groups) :
         plan.groups[i].label = "independent-acceptance"
         /\ Cardinality(plan.groups[i].agents \cap RolesOf(plan.agents)) >= PlanHackers

(* After the overrides every agent stands in exactly the groups that will  *)
(* run it: no agent without a group, no group with a role nobody has.      *)
GroupsAreTheRoster ==
  planStage = "overridden" =>
    UNION {plan.groups[i].agents : i \in 1..Len(plan.groups)} = RolesOf(plan.agents)

(* The parts of a plan agree with each other and with its host, whatever   *)
(* was scored, layered and overridden (planner.js).                        *)
PlansAreConsistent ==
  RolesAreDistinct /\ CodexGatesHaveACodex /\ FixedRolesSurvive /\ GroupsAreTheRoster
=============================================================================
