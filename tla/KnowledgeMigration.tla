------------------------- MODULE KnowledgeMigration -------------------------
(***************************************************************************)
(* src/knowledge/migrate.js: the documents of a legacy root are moved one  *)
(* by one to the default root, by a rename or, across devices, by a copy   *)
(* and an unlink; destinations that exist are left alone; a record written *)
(* at the end lets rollback undo exactly the moves made.  The process may  *)
(* die between any two file operations, and be started again.              *)
(***************************************************************************)
EXTENDS Naturals, FiniteSets

CONSTANTS Notes  \* relative paths of documents

VARIABLES
  legacyRoot,   \* whose text is at each path of the legacy root: "old" or none
  defaultRoot,  \* ... and of the default root: "old", or "own" when it was there first
  legacyExists, \* the legacy root is still a directory: the store then uses it
  moving,    \* the process: what it does, what it has still to move, what it moved
  records,      \* rollback records: sets of moves
  started,      \* history: the roots when the last migration began
  latest        \* history: its record, until other work disturbs it

migrationVars == <<legacyRoot, defaultRoot, legacyExists, moving, records, started, latest>>
roots == <<legacyRoot, defaultRoot, legacyExists>>

MigrationRests == [does |-> "nothing", left |-> {}, done |-> {}]
NoRecord == <<>>
NoteContents(root) == {n \in Notes : root[n] # "none"}

MigrationInit ==
  /\ legacyRoot \in [Notes -> {"old", "none"}]
  /\ defaultRoot \in [Notes -> {"own", "none"}]
  /\ legacyExists = (NoteContents(legacyRoot) # {})
  /\ moving = MigrationRests
  /\ records = {}
  /\ started = <<legacyRoot, defaultRoot>>
  /\ latest = NoRecord

(* Mutant: destinations are not looked at.                                 *)
MovesAll == IF legacyExists THEN NoteContents(legacyRoot) ELSE {}

(* planMigration: what may move; the rest are conflicts.                   *)
PlannedMoves == IF legacyExists THEN NoteContents(legacyRoot) \ NoteContents(defaultRoot) ELSE {}

BeginMigration ==
  /\ moving.does = "nothing"
  /\ PlannedMoves # {}
  /\ moving' = [does |-> "move", left |-> PlannedMoves, done |-> {}]
  /\ started' = <<legacyRoot, defaultRoot>>
  /\ latest' = NoRecord
  /\ UNCHANGED <<roots, records>>

MoveByRename(n) ==
  /\ moving.does = "move" /\ n \in moving.left
  /\ legacyRoot' = [legacyRoot EXCEPT ![n] = "none"]
  /\ defaultRoot' = [defaultRoot EXCEPT ![n] = legacyRoot[n]]
  /\ moving' = [moving EXCEPT !.left = @ \ {n}, !.done = @ \cup {n}]
  /\ UNCHANGED <<legacyExists, records, started, latest>>

(* The roots are on different devices: the copy comes first.               *)
CopyNote(n) ==
  /\ moving.does = "move" /\ n \in moving.left
  /\ defaultRoot' = [defaultRoot EXCEPT ![n] = legacyRoot[n]]
  /\ moving' = [moving EXCEPT !.does = "unlink", !.left = @ \ {n}, !.done = @ \cup {n}]
  /\ UNCHANGED <<legacyRoot, legacyExists, records, started, latest>>

UnlinkCopied ==
  /\ moving.does = "unlink"
  /\ \E n \in moving.done :
       /\ legacyRoot[n] # "none"
       /\ legacyRoot' = [legacyRoot EXCEPT ![n] = "none"]
  /\ moving' = [moving EXCEPT !.does = "move"]
  /\ UNCHANGED <<defaultRoot, legacyExists, records, started, latest>>

(* A move that fails, or a copy that cannot be unlinked, is skipped and    *)
(* not recorded as made.                                                   *)
SkipNote(n) ==
  /\ \/ moving.does = "move" /\ n \in moving.left
     \/ moving.does = "unlink" /\ n \in moving.done /\ legacyRoot[n] # "none"
  /\ moving' = [does |-> "move", left |-> moving.left \ {n}, done |-> moving.done \ {n}]
  /\ UNCHANGED <<roots, records, started, latest>>

(* pruneEmptyDirs, then the record.                                        *)
PruneLegacy ==
  /\ moving.does = "move" /\ moving.left = {}
  /\ legacyExists' = (NoteContents(legacyRoot) # {})
  /\ moving' = [moving EXCEPT !.does = "record"]
  /\ UNCHANGED <<legacyRoot, defaultRoot, records, started, latest>>

(* Mutant: what is left to move is recorded.                               *)
RecordLeft ==
  /\ moving.does = "record"
  /\ records' = records \cup {NoteContents(legacyRoot)}
  /\ latest' = <<NoteContents(legacyRoot)>>
  /\ moving' = MigrationRests
  /\ UNCHANGED <<roots, started>>

WriteMigrationRecord ==
  /\ moving.does = "record"
  /\ records' = records \cup {moving.done}
  /\ latest' = <<moving.done>>
  /\ moving' = MigrationRests
  /\ UNCHANGED <<roots, started>>

BeginRollback(r) ==
  /\ moving.does = "nothing"
  /\ r # {}
  /\ moving' = [does |-> "restore", left |-> r, done |-> r]
  /\ latest' = IF latest = <<r>> THEN latest ELSE NoRecord
  /\ UNCHANGED <<roots, records, started>>

(* Mutant: the origin is overwritten.                                      *)
RestorableAnyway(n) == defaultRoot[n] # "none"

(* A destination that is missing or an origin that is occupied is skipped. *)
Restorable(n) == defaultRoot[n] # "none" /\ legacyRoot[n] = "none"

RestoreNote(n) ==
  /\ moving.does = "restore" /\ n \in moving.left
  /\ IF Restorable(n)
     THEN /\ legacyRoot' = [legacyRoot EXCEPT ![n] = defaultRoot[n]]
          /\ defaultRoot' = [defaultRoot EXCEPT ![n] = "none"]
          /\ legacyExists' = TRUE
     ELSE UNCHANGED roots
  /\ moving' = [moving EXCEPT !.left = @ \ {n}]
  /\ UNCHANGED <<records, started, latest>>

EndRollback ==
  /\ moving.does = "restore" /\ moving.left = {}
  /\ moving' = MigrationRests
  /\ UNCHANGED <<roots, records, started, latest>>

MigratorDies ==
  /\ moving.does # "nothing"
  /\ moving' = MigrationRests
  /\ UNCHANGED <<roots, records, started, latest>>

(* A document is written where the layout says: in the legacy root while   *)
(* there is one.                                                           *)
WriteNote(n) ==
  /\ moving.does = "nothing"
  /\ IF legacyExists
     THEN legacyRoot[n] = "none" /\ legacyRoot' = [legacyRoot EXCEPT ![n] = "late"]
          /\ UNCHANGED defaultRoot
     ELSE defaultRoot[n] = "none" /\ defaultRoot' = [defaultRoot EXCEPT ![n] = "late"]
          /\ UNCHANGED legacyRoot
  /\ latest' = NoRecord
  /\ UNCHANGED <<legacyExists, moving, records, started>>

MigrationNext ==
  \/ BeginMigration \/ UnlinkCopied \/ PruneLegacy \/ WriteMigrationRecord \/ EndRollback \/ MigratorDies
  \/ \E n \in Notes : MoveByRename(n) \/ CopyNote(n) \/ SkipNote(n) \/ RestoreNote(n) \/ WriteNote(n)
  \/ \E r \in records : BeginRollback(r)

MigrationSpec == MigrationInit /\ [][MigrationNext]_migrationVars
-----------------------------------------------------------------------------
(* Zero data loss: a text never disappears from both roots, whatever order *)
(* of migrations, crashes, rollbacks and new documents.                    *)
NoTextIsLost ==
  [][\A n \in Notes, text \in {"old", "own", "late"} :
       text \in {legacyRoot[n], defaultRoot[n]} =>
         text \in {legacyRoot'[n], defaultRoot'[n]}]_migrationVars

(* A file that was in the default root before any migration stays there    *)
(* with its text.                                                          *)
OwnFilesStay == [][\A n \in Notes : defaultRoot[n] = "own" => defaultRoot'[n] = "own"]_migrationVars

(* Rolling back the latest migration puts every document of the legacy     *)
(* root back where it was, also when a rollback dies halfway and is begun  *)
(* again, or moves had to be skipped.                                      *)
NotesRollbackRestores ==
  moving.does = "restore" /\ moving.left = {} /\ latest = <<moving.done>>
    => legacyRoot = started[1]
=============================================================================
