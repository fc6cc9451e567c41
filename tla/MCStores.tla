------------------------------ MODULE MCStores ------------------------------
(***************************************************************************)
(* The components that keep files on a disk, checked in one run.  They do  *)
(* not share state: a behaviour is a behaviour of one of them, the subject.*)
(***************************************************************************)
EXTENDS KnowledgeStore, KnowledgeMigration, Settings, Generations,
        ComponentRegistry, HostInstall, ManagedBlocks, SessionRecord, TLC

CONSTANTS w1, w2, d1, d2, n1, n2, e1, i1, i2, s1, s2, orig, nil

(* Two package versions: the second drops "old" and adds "grill".          *)
MCShips == (1 :> {"guide", "old"}) @@ (2 :> {"guide", "grill"})

Sym == Permutations(Writers) \cup Permutations(Documents)

VARIABLE subject  \* the component that moves in this behaviour

Subjects ==
  {"KnowledgeStore", "KnowledgeMigration", "Settings",
   "Generations", "ComponentRegistry", "HostInstall",
   "ManagedBlocks", "SessionRecord"}

(* A component that is not the subject rests in one state.                 *)
Pinned ==
  /\ IF subject = "KnowledgeStore" THEN TRUE
     ELSE live = [d \in Documents |-> Nothing]
  /\ IF subject = "KnowledgeMigration" THEN TRUE
     ELSE /\ legacyRoot = [n \in Notes |-> "none"]
          /\ defaultRoot = [n \in Notes |-> "none"]
  /\ IF subject = "Generations" THEN TRUE
     ELSE views = [v \in Views |-> NoView]
  /\ IF subject = "ComponentRegistry" THEN TRUE
     ELSE bundled = FALSE
  /\ IF subject = "HostInstall" THEN TRUE
     ELSE package = [layout |-> "npm", tree |-> "clean", version |-> 1, upgrade |-> "rest"]
  /\ IF subject = "ManagedBlocks" THEN TRUE
     ELSE doc = [t \in TargetNames |-> NoTarget]

UnionInit ==
  /\ subject \in Subjects /\ Pinned
  /\ KnowledgeInit /\ MigrationInit /\ SettingsInit
  /\ GenerationInit /\ RegistryInit /\ HostInit
  /\ BlocksInit /\ SessionInit

UnionNext ==
  \/ /\ subject = "KnowledgeStore" /\ KnowledgeNext
     /\ UNCHANGED <<subject, migrationVars, settingsVars, generationVars,
                   registryVars, installVars, blockVars, sessionVars>>
  \/ /\ subject = "KnowledgeMigration" /\ MigrationNext
     /\ UNCHANGED <<subject, knowledgeVars, settingsVars, generationVars,
                   registryVars, installVars, blockVars, sessionVars>>
  \/ /\ subject = "Settings" /\ SettingsNext
     /\ UNCHANGED <<subject, knowledgeVars, migrationVars, generationVars,
                   registryVars, installVars, blockVars, sessionVars>>
  \/ /\ subject = "Generations" /\ GenerationNext
     /\ UNCHANGED <<subject, knowledgeVars, migrationVars, settingsVars,
                   registryVars, installVars, blockVars, sessionVars>>
  \/ /\ subject = "ComponentRegistry" /\ RegistryNext
     /\ UNCHANGED <<subject, knowledgeVars, migrationVars, settingsVars,
                   generationVars, installVars, blockVars, sessionVars>>
  \/ /\ subject = "HostInstall" /\ HostNext
     /\ UNCHANGED <<subject, knowledgeVars, migrationVars, settingsVars,
                   generationVars, registryVars, blockVars, sessionVars>>
  \/ /\ subject = "ManagedBlocks" /\ BlocksNext
     /\ UNCHANGED <<subject, knowledgeVars, migrationVars, settingsVars,
                   generationVars, registryVars, installVars, sessionVars>>
  \/ /\ subject = "SessionRecord" /\ SessionNext
     /\ UNCHANGED <<subject, knowledgeVars, migrationVars, settingsVars,
                   generationVars, registryVars, installVars, blockVars>>

unionVars == <<subject, knowledgeVars, migrationVars, settingsVars,
         generationVars, registryVars, installVars, blockVars, sessionVars>>

UnionSpec == UnionInit /\ [][UnionNext]_unionVars

(* Nobody overwrites what he has not seen: edits of knowledge documents    *)
(* and settings replace what their author read, rolling settings back      *)
(* keeps what was changed since, and a late update does not revive a       *)
(* session that has ended.                                                 *)
NoUpdateIsLost ==
  EditsReplaceWhatTheyRead /\ CheckedEditsSeeTheirBase /\ RollbackKeepsLaterEdits
  /\ OnlyStartRevives

(* No knowledge text is lost and the files of the store agree, through     *)
(* writing, archiving, migrating and rolling back.                         *)
KnowledgeIsKept ==
  NoTextIsLost /\ OwnFilesStay /\ [](StoreIsConsistent /\ NotesRollbackRestores)

(* What users wrote into files that installations share with them stays,   *)
(* and what is recorded as the program's own is.                           *)
UsersFilesSurvive ==
  /\ UnrecordedFilesSurvive /\ OtherHostsKept /\ UserTextSurvives
  /\ [](ManifestIsOurs /\ PurgeTakesOurs)
=============================================================================
