---------------------------- MODULE WorkflowGraph ----------------------------
(***************************************************************************)
(* src/graph.js: the graph of a plan, its validation, and the order in     *)
(* which its nodes are handed out in batches.  A graph comes from a plan   *)
(* (graphFromPlan) or from a user's file (`mawf graph`); the batches also  *)
(* cut a plan into the stages of the plugin pool.                          *)
(***************************************************************************)
EXTENDS Naturals, FiniteSets, Sequences

CONSTANTS UserNodes,   \* node ids of the graphs a user's file may hold
          PlanShapes,  \* the plans: step counts of the groups, reviews, loops
          MaxRevisions

(* A plan has a step, and one with reviews or loops has a step in each of  *)
(* its groups: only the groups of a fixed plan, which has neither, lose    *)
(* theirs with the roles the settings disable.                             *)
ASSUME GraphAssumption ==
  /\ IsFiniteSet(UserNodes) /\ MaxRevisions \in Nat \ {0}
  /\ PlanShapes \subseteq [groups : Seq(Nat), reviews : Nat, loops : Nat]
  /\ \A p \in PlanShapes :
       /\ \E i \in DOMAIN p.groups : p.groups[i] > 0
       /\ p.reviews + p.loops > 0 => \A i \in DOMAIN p.groups : p.groups[i] > 0

VARIABLES
  graph,    \* nodes, kind of each, edges, and whether a plan made it
  queue,    \* nodes to hand out now
  done,     \* nodes handed out for good
  emitted,  \* node -> times it appears in the batches
  over      \* the loop has ended; whether with its note on what is left

graphVars == <<graph, queue, done, emitted, over>>

Into(g, n) == {e[1] : e \in {d \in g.edges : d[2] = n}}
Roots(g) == {n \in g.nodes : Into(g, n) = {}}

(***************************************************************************)
(* graphFromPlan: the steps of a group follow all steps of the one before; *)
(* reviews, then loops, follow one by one.                                 *)
(***************************************************************************)
Sizes(p) == p.groups \o [r \in 1..(p.reviews + p.loops) |-> 1]
Totals(p) ==
  LET T[i \in 0..Len(Sizes(p))] == IF i = 0 THEN 0 ELSE T[i - 1] + Sizes(p)[i] IN T
Layer(p, n) == 1 + Cardinality({i \in 1..Len(Sizes(p)) : Totals(p)[i] < n})
Kind(p, n) == IF Layer(p, n) <= Len(p.groups) THEN "task"
              ELSE IF Layer(p, n) <= Len(p.groups) + p.reviews THEN "review" ELSE "loop"

GraphFromPlan(p) ==
  LET nodes == 1..Totals(p)[Len(Sizes(p))]
      layer == [n \in nodes |-> Layer(p, n)]
  IN  [nodes |-> nodes, kind |-> [n \in nodes |-> Kind(p, n)], planned |-> TRUE,
       edges |-> {e \in nodes \X nodes : layer[e[2]] = layer[e[1]] + 1}
                   \cup {<<n, n>> : n \in {m \in nodes : Kind(p, m) = "loop"}}]

UserGraphs == [nodes : {UserNodes}, kind : [UserNodes -> {"task", "review", "loop"}],
               planned : {FALSE}, edges : SUBSET (UserNodes \X UserNodes)]

(***************************************************************************)
(* validate.  The walks start at the roots, so a cycle no root leads to is *)
(* only reported as unreachable nodes.                                     *)
(***************************************************************************)
LoopBacks(g) == {e \in g.edges : e[1] = e[2] /\ g.kind[e[1]] = "loop"}
Reached(g, edges, start) ==
  LET R[k \in 0..Cardinality(g.nodes)] ==
        IF k = 0 THEN start
        ELSE LET before == R[k - 1] IN before \cup {e[2] : e \in {d \in edges : d[1] \in before}}
  IN  R[Cardinality(g.nodes)]
OnCycle(g, n) ==
  LET edges == g.edges \ LoopBacks(g)
  IN  n \in Reached(g, edges, {e[2] : e \in {d \in edges : d[1] = n}})
Visited(g) == Reached(g, g.edges, Roots(g))
CycleFound(g) == \E n \in Visited(g) : OnCycle(g, n)
Accepted(g) == Roots(g) # {} /\ ~CycleFound(g)
NoWarnings(g) == Visited(g) = g.nodes

(***************************************************************************)
(* topoBatches.                                                            *)
(***************************************************************************)
Gate(n) == graph.kind[n] = "review"

GraphInit ==
  /\ graph \in UserGraphs \cup {GraphFromPlan(p) : p \in PlanShapes}
  /\ queue = Roots(graph)
  /\ done = {} /\ emitted = [n \in graph.nodes |-> 0] /\ over = "no"

(* Mutant: a loop waits for itself.                                        *)
SelfLoopsWait(n, finished) == Into(graph, n) \subseteq finished
(* Mutant: only gates are waited for.                                      *)
AwaitsGates(n, finished) == {m \in Into(graph, n) : Gate(m)} \subseteq finished
Unblocked(n, finished) ==
  Into(graph, n) \ (IF graph.kind[n] = "loop" THEN {n} ELSE {}) \subseteq finished

Requeue(finished) ==
  LET next == {n \in graph.nodes \ finished : Unblocked(n, finished)}
  IN  /\ done' = finished /\ queue' = next
      /\ over' = IF next # {} THEN "no" ELSE IF finished = graph.nodes THEN "complete" ELSE "noted"

(* Mutant: a loop of a plan is handed out as one node.                     *)
TimesOnce(n) == 1
Times(n) == IF graph.kind[n] = "loop" THEN MaxRevisions ELSE 1

(* A batch of nodes that may run together; a loop becomes its iterations.  *)
HandOut ==
  /\ over = "no" /\ queue # {} /\ \A n \in queue : ~Gate(n)
  /\ emitted' = [n \in graph.nodes |-> emitted[n] + IF n \in queue THEN Times(n) ELSE 0]
  /\ Requeue(done \cup queue)
  /\ UNCHANGED graph

(* Gates are batches of their own.  What is ready beside them goes first,  *)
(* as it is, and is not marked done: the next round hands it out again.    *)
HandOutGates ==
  /\ over = "no" /\ \E n \in queue : Gate(n)
  /\ emitted' = [n \in graph.nodes |-> emitted[n] + IF n \in queue THEN 1 ELSE 0]
  /\ Requeue(done \cup {n \in queue : Gate(n)})
  /\ UNCHANGED graph

(* Nothing was ready to begin with: the loop never runs.                   *)
NothingReady ==
  /\ over = "no" /\ queue = {} /\ over' = "silent"
  /\ UNCHANGED <<graph, queue, done, emitted>>

GraphNext == HandOut \/ HandOutGates \/ NothingReady
GraphSpec == GraphInit /\ [][GraphNext]_graphVars

(***************************************************************************)
(* Properties.                                                             *)
(***************************************************************************)
(* No node is handed out before everything it depends on, in any graph.    *)
DependenciesComeFirst ==
  \A n \in graph.nodes : emitted[n] > 0 => Into(graph, n) \ {n} \subseteq done

(* A graph that validates without a warning is handed out to its last      *)
(* node: the two algorithms agree on which cycles block.                   *)
ValidGraphsComplete ==
  over \in {"noted", "silent"} => ~(Accepted(graph) /\ NoWarnings(graph))

(* The graph of a plan validates, and each step and review is handed out   *)
(* once, each loop as many times as it may iterate.                        *)
PlansRunOnce ==
  graph.planned => /\ Accepted(graph) /\ NoWarnings(graph)
                   /\ over # "no" => \A n \in graph.nodes :
                        emitted[n] = IF graph.kind[n] = "loop" THEN MaxRevisions ELSE 1

(* Validation and batching agree on what runs, when, and how often         *)
(* (graph.js).                                                             *)
GraphsRunInOrder ==
  DependenciesComeFirst /\ ValidGraphsComplete /\ PlansRunOnce
=============================================================================
