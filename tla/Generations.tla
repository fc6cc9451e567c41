----------------------------- MODULE Generations -----------------------------
(***************************************************************************)
(* src/generated.js and the renderer of src/configgen.js: publishing a     *)
(* plan.  A publisher, under the generation lock, renders the plan into a  *)
(* directory of its own, copies its files over the compatibility views it  *)
(* owns, and then moves the pointer current.json.  Users edit the views;   *)
(* the publisher may die or fail between any two of its writes.            *)
(*                                                                         *)
(* A view's content is the number of the generation that wrote it.  The    *)
(* comparison of a view's hash and the copy over it are one step.          *)
(***************************************************************************)
EXTENDS Naturals, FiniteSets

CONSTANTS Roles,           \* agents a plan may have, each with its view
          MaxGenerations,
          MaxViewEdits

VARIABLES
  directories,  \* generation -> [whole, files]
  pointer,      \* the selected generation and the files it projected
  views,        \* view -> who wrote it: a generation, "user", "legacy" or nobody
  publisher,    \* the publisher's place in publishGeneration
  disturbed,    \* views whose last hand was not a publisher that finished
  viewEdits

generationVars == <<directories, pointer, views, publisher, disturbed, viewEdits>>

Views == Roles \cup {"workflow"}
NoView == [by |-> "nobody", generation |-> 0]
Users == [by |-> "user", generation |-> 0]
Legacy == [by |-> "legacy", generation |-> 0]  \* as the migration's backup has it
WrittenView(g) == [by |-> "mawf", generation |-> g]
NoPublisher == [at |-> "idle", generation |-> 0, files |-> {}, todo |-> {}, projected |-> {}]
NoPointer == [generation |-> 0, projected |-> [v \in {} |-> 0]]

GenerationInit ==
  /\ directories = [g \in {} |-> {}]
  /\ pointer = NoPointer
  /\ views \in [Views -> {NoView, Users, Legacy}]
  /\ publisher = NoPublisher
  /\ disturbed = {v \in Views : views[v] # NoView}
  /\ viewEdits = 0

(***************************************************************************)
(* renderConfigs writes workflow.json and a file for each agent of the     *)
(* plan into a new directory; when it throws the directory is removed.     *)
(***************************************************************************)
BeginPublish(agents) ==
  /\ publisher.at = "idle" /\ Cardinality(DOMAIN directories) < MaxGenerations
  /\ LET g == Cardinality(DOMAIN directories) + 1
     IN  /\ publisher' = [NoPublisher EXCEPT !.at = "rendering", !.generation = g,
                                             !.files = agents \cup {"workflow"}]
         /\ directories' = [h \in DOMAIN directories \cup {g} |->
                              IF h = g THEN {} ELSE directories[h]]
  /\ UNCHANGED <<pointer, views, disturbed, viewEdits>>

RenderFile(v) ==
  /\ publisher.at = "rendering" /\ v \in publisher.files \ directories[publisher.generation]
  /\ directories' = [directories EXCEPT ![publisher.generation] = @ \cup {v}]
  /\ UNCHANGED <<pointer, views, publisher, disturbed, viewEdits>>

(* Mutant: what was rendered before the failure is published.              *)
PublishAnyway ==
  /\ publisher.at = "rendering"
  /\ publisher' = [publisher EXCEPT !.at = "projecting", !.todo = publisher.files]
  /\ UNCHANGED <<directories, pointer, views, disturbed, viewEdits>>
RenderFails ==
  /\ publisher.at = "rendering"
  /\ directories' = [directories EXCEPT ![publisher.generation] = {}]
  /\ publisher' = NoPublisher
  /\ UNCHANGED <<pointer, views, disturbed, viewEdits>>

RenderEnds ==
  /\ publisher.at = "rendering" /\ directories[publisher.generation] = publisher.files
  /\ publisher' = [publisher EXCEPT !.at = "projecting", !.todo = publisher.files]
  /\ UNCHANGED <<directories, pointer, views, disturbed, viewEdits>>

(***************************************************************************)
(* A view is overwritten when nobody holds its name, when it is as the     *)
(* selected generation left it, or, before the first generation, as the    *)
(* migration backed it up.  Any other is preserved, with a warning.        *)
(***************************************************************************)
(* Mutant: a view once projected is owned for good.                        *)
OwnedByName(v) ==
  views[v] = NoView \/ v \in DOMAIN pointer.projected \/ (pointer = NoPointer /\ views[v] = Legacy)
RecordedAsOurs(v) ==
  \/ views[v] = NoView
  \/ v \in DOMAIN pointer.projected /\ views[v] = WrittenView(pointer.projected[v])
  \/ pointer = NoPointer /\ views[v] = Legacy

ProjectView(v) ==
  /\ publisher.at = "projecting" /\ v \in publisher.todo
  /\ publisher' = [publisher EXCEPT !.todo = @ \ {v},
                                    !.projected = @ \cup (IF RecordedAsOurs(v) THEN {v} ELSE {})]
  /\ views' = IF RecordedAsOurs(v) THEN [views EXCEPT ![v] = WrittenView(publisher.generation)] ELSE views
  /\ disturbed' = IF RecordedAsOurs(v) THEN disturbed \ {v} ELSE disturbed
  /\ UNCHANGED <<directories, pointer, viewEdits>>

(* Views of the selected generation that the new plan no longer has.       *)
(* Mutant: they stay.                                                      *)
NothingRetired == {}
Retired == {v \in (DOMAIN pointer.projected) \ publisher.files : views[v] = WrittenView(pointer.projected[v])}

RetireViews ==
  /\ publisher.at = "projecting" /\ publisher.todo = {}
  /\ views' = [v \in Views |-> IF v \in Retired THEN NoView ELSE views[v]]
  /\ publisher' = [publisher EXCEPT !.at = "selecting"]
  /\ UNCHANGED <<directories, pointer, disturbed, viewEdits>>

(* manifest.json, then current.json.                                       *)
SelectGeneration ==
  /\ publisher.at = "selecting"
  /\ pointer' = [generation |-> publisher.generation,
                 projected |-> [v \in publisher.projected |-> publisher.generation]]
  /\ publisher' = NoPublisher
  /\ UNCHANGED <<directories, views, disturbed, viewEdits>>

(* The process dies, or a copy or a write throws and the lock is released. *)
PublisherDies ==
  /\ publisher.at # "idle"
  /\ publisher' = NoPublisher
  /\ disturbed' = disturbed \cup {v \in Views : views[v] = WrittenView(publisher.generation)}
                            \cup {v \in DOMAIN pointer.projected : views[v] = NoView}
  /\ UNCHANGED <<directories, pointer, views, viewEdits>>

UserEdits(v) ==
  /\ viewEdits < MaxViewEdits /\ viewEdits' = viewEdits + 1
  /\ views' = [views EXCEPT ![v] = IF @ = Users THEN NoView ELSE Users]
  /\ disturbed' = disturbed \cup {v}
  /\ UNCHANGED <<directories, pointer, publisher>>

GenerationNext ==
  \/ \E agents \in SUBSET Roles : BeginPublish(agents)
  \/ \E v \in Views : RenderFile(v) \/ ProjectView(v) \/ UserEdits(v)
  \/ RenderFails \/ RenderEnds \/ RetireViews \/ SelectGeneration \/ PublisherDies
GenerationSpec == GenerationInit /\ [][GenerationNext]_generationVars

(***************************************************************************)
(* Properties.                                                             *)
(***************************************************************************)
(* Wherever a publisher fails or dies, the generation the pointer selects  *)
(* holds every file its plan has (readGeneratedPlan finds what it reads).  *)
SelectedPlanIsWhole ==
  /\ pointer # NoPointer => /\ "workflow" \in directories[pointer.generation]
                            /\ DOMAIN pointer.projected \subseteq directories[pointer.generation]
  /\ publisher.at \in {"projecting", "selecting"} => publisher.files = directories[publisher.generation]

(* What a user wrote into a view survives every publication, in whatever   *)
(* order edits, publications and crashes come.                             *)
UserFilesKept ==
  [][viewEdits' = viewEdits => \A v \in Views : views[v] = Users => views'[v] = Users]_generationVars

(* Between publications, each view nobody disturbed shows the selected     *)
(* generation: the file it projected, or nothing.  (A view copied by a     *)
(* publisher that died is nobody's, and is preserved as if it were a       *)
(* user's.)                                                                *)
OwnViewsFollow ==
  publisher.at = "idle" =>
    \A v \in Views \ disturbed :
      views[v] = IF v \in DOMAIN pointer.projected THEN WrittenView(pointer.projected[v]) ELSE NoView

(* Publication as a whole: the pointer, the views and the files of the     *)
(* user, whatever fails or dies (generated.js).                            *)
PlansArePublishedWhole ==
  UserFilesKept /\ [](SelectedPlanIsWhole /\ OwnViewsFollow)
=============================================================================
