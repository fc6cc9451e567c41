---------------------------- MODULE MCDecisions -----------------------------
(***************************************************************************)
(* The decisions the program takes by computing: what runs next, which     *)
(* workflow, model and plugin, at what price, and what a knowledge text or *)
(* query is worth.  They do not share state: a behaviour is a behaviour of *)
(* one of them, the subject.                                               *)
(***************************************************************************)
EXTENDS WorkflowGraph, Planner, ModelChoice, PluginPool, PriceGate, KnowledgeText,
        KnowledgeSearch, TLC

MCShapes == [groups : {<<1, 1, 1>>, <<1, 2, 1>>, <<1, 3, 1>>}, reviews : 0 .. 2, loops : 0 .. 2]

MCSignals ==
  [files : {3, 20, 50}, parallel : {0, 2, 3, 4, 6}, risk : {"low", "medium", "high"},
   value : {"low", "medium", "high"}, context : {"small", "large"},
   type : {"coding", "review", "research", "migration", "greenfield", "ops"},
   hitl : BOOLEAN, persistence : BOOLEAN]
MCProbes == [files : {1, 10, 15, 20, 50, 80}, loc : {0, 5000}, languages : {1, 2, 4}]
MCHosts == [app : {"claude", "pi"}, dynamic : BOOLEAN, codex : BOOLEAN]
MCDisabled ==
  SUBSET {Role("orchestrator"), Role("implementer"), Copy("hacker", 2), Role("reviewer")}
MCCustoms == SUBSET {Role("scout"), Role("implementer")}

Offer(provider, model, remaining, cost) ==
  [provider |-> provider, model |-> model, remaining |-> remaining, cost |-> cost]
MCOffers ==
  {Offer("p1", "claude", 5, 18), Offer("p2", "claude", 20, 30), Offer("p3", "gpt", 2, 0),
   Offer("p1", "deepseek", 5, 1), Offer("p2", "deepseek-flash", 20, -1),
   Offer("p3", "veo", -1, 0), Offer("p4", "house-model", -1, 0), Offer("p4", "whisper", 20, 0)}

Entry(id, kind, lifecycle, status, exact, within, size) ==
  LET Hits(S) == [f \in Fields |-> IF f \in S THEN 1 ELSE 0]
  IN  [id |-> id, kind |-> kind, lifecycle |-> lifecycle, status |-> status, exact |-> Hits(exact),
       within |-> Hits(within), size |-> size]
MCCorpora == SUBSET
  {Entry(1, "decision", "implemented", "implemented", {"title"}, {}, 700),
   Entry(2, "decision", "archived", "implemented", {"title", "slug"}, {"slug"}, 600),
   Entry(3, "solution", "none", "superseded", {"body"}, {"problem"}, 700),
   Entry(4, "decision", "proposed", "proposed", {}, {"title"}, 1300),
   Entry(5, "solution", "none", "verified", {}, {"problem", "symptom"}, 520),
   Entry(6, "solution", "none", "candidate", {}, {}, 520)}
MCDocBudgets == {NotGiven, 0, 1, 2}
MCByteBudgets == {NotGiven, 0, 600, 1300, 2000}

VARIABLE subject  \* the component that moves in this behaviour

Subjects ==
  {"WorkflowGraph", "Planner", "ModelChoice",
   "PluginPool", "PriceGate", "KnowledgeText",
   "KnowledgeSearch"}

(* A component that is not the subject rests in one state.                 *)
Pinned ==
  /\ IF subject = "PluginPool" THEN TRUE
     ELSE installed = {}

UnionInit ==
  /\ subject \in Subjects /\ Pinned
  /\ IF subject = "WorkflowGraph" THEN GraphInit
     ELSE /\ graph = GraphFromPlan([groups |-> <<1, 1, 1>>, reviews |-> 0, loops |-> 0])
          /\ queue = {} /\ done = {} /\ emitted = [n \in graph.nodes |-> 0] /\ over = "no"
  /\ IF subject = "Planner" THEN PlannerInit
     ELSE /\ signals = InferSignals([files |-> 1, loc |-> 0, languages |-> 1])
          /\ planHost = [app |-> "claude", dynamic |-> FALSE, codex |-> FALSE]
          /\ plan = NoPlan /\ planStage = "asked"
  /\ IF subject = "ModelChoice" THEN ChoiceInit
     ELSE /\ offers = <<>>
          /\ current = "none"
          /\ codexPro = FALSE
          /\ choices = [r \in ChoiceRoles |-> NoChoice] /\ spends = 0
  /\ IF subject = "KnowledgeText" THEN NoteInit
     ELSE /\ note = [kind |-> "solution", folder |-> "none", lines |-> <<"candidate">>,
                   sections |-> REQUIRED_SECTIONS["candidate"], banned |-> FALSE]
          /\ archive = [result |-> "none"]
  /\ IF subject = "KnowledgeSearch" THEN SearchInit
     ELSE /\ question = [corpus |-> {}, kinds |-> {"decision"}, includeArchived |-> FALSE,
                       maxDocs |-> NotGiven, maxBytes |-> NotGiven]
          /\ answer = [taken |-> <<>>, bytes |-> -1, skipped |-> FALSE]
  /\ PoolInit /\ PriceInit

UnionNext ==
  \/ /\ subject = "WorkflowGraph" /\ GraphNext
     /\ UNCHANGED <<subject, plannerVars, choiceVars, poolVars, gateVars,
                   noteVars, searchVars>>
  \/ /\ subject = "Planner" /\ PlannerNext
     /\ UNCHANGED <<subject, graphVars, choiceVars, poolVars, gateVars,
                   noteVars, searchVars>>
  \/ /\ subject = "ModelChoice" /\ ChoiceNext
     /\ UNCHANGED <<subject, graphVars, plannerVars, poolVars, gateVars,
                   noteVars, searchVars>>
  \/ /\ subject = "PluginPool" /\ PoolNext
     /\ UNCHANGED <<subject, graphVars, plannerVars, choiceVars, gateVars,
                   noteVars, searchVars>>
  \/ /\ subject = "PriceGate" /\ PriceNext
     /\ UNCHANGED <<subject, graphVars, plannerVars, choiceVars, poolVars,
                   noteVars, searchVars>>
  \/ /\ subject = "KnowledgeText" /\ NoteNext
     /\ UNCHANGED <<subject, graphVars, plannerVars, choiceVars, poolVars,
                   gateVars, searchVars>>
  \/ /\ subject = "KnowledgeSearch" /\ SearchNext
     /\ UNCHANGED <<subject, graphVars, plannerVars, choiceVars, poolVars,
                   gateVars, noteVars>>

unionVars == <<subject, graphVars, plannerVars, choiceVars, poolVars,
         gateVars, noteVars, searchVars>>

UnionSpec == UnionInit /\ [][UnionNext]_unionVars

(* Archiving and searching treat a knowledge text as what it says it is.   *)
KnowledgeReadsTrue ==
  /\ ArchivingKeepsValidity /\ DecisionsInForceCanBeArchived
  /\ WithinBudgets /\ BestThatFit
=============================================================================
