------------------------------ MODULE Settings ------------------------------
(***************************************************************************)
(* src/settings.js, control.js and legacy-migration.js: the settings file  *)
(* of a project, edited under a lock and checked as a whole, and the       *)
(* import of a legacy configuration with its roll-back.  Editors read the  *)
(* settings first and may name the revision they read; importers back the  *)
(* settings up, change them, then write the record a roll-back starts      *)
(* from.  A command may die between two of these writes.                   *)
(***************************************************************************)
EXTENDS Naturals

CONSTANTS Editors, Importers, MaxRevision

VARIABLES
  settings,   \* settings.json, or NoSettings
  basis,      \* editor -> the settings it read, and whether a roll-back came since
  importer,   \* importer -> step, the settings it saved and those it wrote
  importing,  \* migrations/legacy-v1.json with the backup it names
  undo        \* step of a roll-back

settingsVars == <<settings, basis, importer, importing, undo>>

DefaultSettings ==
  [rev |-> 0, mode |-> "dynamic", hackers |-> 1, tests |-> "unset",
   role |-> "none", history |-> 0, migrated |-> FALSE]
NoSettings == [DefaultSettings EXCEPT !.mode = "no file"]

SettingsInit ==
  /\ settings = NoSettings
  /\ basis = [e \in Editors |-> [read |-> NoSettings, undone |-> FALSE]]
  /\ importer = [i \in Importers |-> [at |-> "idle", saved |-> NoSettings, wrote |-> NoSettings]]
  /\ importing = [state |-> "none", saved |-> NoSettings, after |-> NoSettings]
  /\ undo = "idle"

Exists == settings # NoSettings
CurrentSettings == IF Exists THEN settings ELSE DefaultSettings

(* Mutant: the hacker minimum is not tied to the mode.                     *)
ValidAnyMode(s) == s.mode = "fixed-1" => s.tests # "on"

(* validateSettings, on every read and every write.                        *)
ValidSettings(s) ==
  s.mode = "fixed-1" => s.hackers >= 1 /\ s.tests # "on"

(* Mutant: a roll-back does not keep edits out.                            *)
UpdateAnyTime(draft) ==
  /\ CurrentSettings.rev < MaxRevision /\ ValidSettings(draft)
  /\ settings' = [draft EXCEPT !.rev = CurrentSettings.rev + 1]

(* updateSettings: under the lock, which a roll-back holds too; a draft    *)
(* that does not validate throws and changes nothing.                      *)
UpdateSettings(draft) ==
  /\ CurrentSettings.rev < MaxRevision /\ undo = "idle" /\ ValidSettings(draft)
  /\ settings' = [draft EXCEPT !.rev = CurrentSettings.rev + 1]

(***************************************************************************)
(* `mawf mode` and `mawf config --set`.                                    *)
(***************************************************************************)
SetMode(m) ==
  /\ UpdateSettings(IF m = "fixed-1"
       THEN [CurrentSettings EXCEPT !.mode = m, !.tests = "off", !.hackers = IF @ < 1 THEN 1 ELSE @]
       ELSE [CurrentSettings EXCEPT !.mode = m, !.tests = "unset"])
  /\ UNCHANGED <<basis, importer, importing, undo>>

ReadSettings(e) ==
  /\ basis[e].read # CurrentSettings
  /\ basis' = [basis EXCEPT ![e] = [read |-> CurrentSettings, undone |-> FALSE]]
  /\ UNCHANGED <<settings, importer, importing, undo>>

(* The JSON patches the properties tell apart, merged into the draft.      *)
Patches == {[CurrentSettings EXCEPT !.mode = "fixed-1"], [CurrentSettings EXCEPT !.hackers = 0],
            [CurrentSettings EXCEPT !.tests = "on"],
            [CurrentSettings EXCEPT !.role = "user"]}

(* Mutant: the revision is compared with the one on offer, not with the    *)
(* one in the file.                                                        *)
AnyRevision(e) == basis[e].read # NoSettings
(* --expected-revision.                                                    *)
SameRevision(e) == basis[e].read # NoSettings /\ basis[e].read.rev = CurrentSettings.rev

ConfigSet(e) ==
  /\ SameRevision(e)
  /\ \E p \in Patches : UpdateSettings(p)
  /\ basis' = [basis EXCEPT ![e].read = NoSettings]
  /\ UNCHANGED <<importer, importing, undo>>

(***************************************************************************)
(* migrateLegacyProject.  The directory holds a legacy configuration.      *)
(***************************************************************************)
ImportGoes(i, at) == importer' = [importer EXCEPT ![i] = [at |-> at, saved |-> NoSettings, wrote |-> NoSettings]]
MigrationLockFree == undo = "idle" /\ \A i \in Importers : importer[i].at \in {"idle", "wanted"}

ImportStarts(i) ==
  /\ importer[i].at = "idle" /\ ~CurrentSettings.migrated
  /\ ImportGoes(i, "wanted")
  /\ UNCHANGED <<settings, basis, importing, undo>>

(* Mutant: the check made before the lock was taken is trusted.            *)
AskedBefore == TRUE
NotYetImported == ~CurrentSettings.migrated

(* Under the migration lock: ask again, then copy the tracked files.       *)
ImportSaves(i) ==
  /\ importer[i].at = "wanted" /\ MigrationLockFree
  /\ IF NotYetImported
     THEN importer' = [importer EXCEPT ![i] = [at |-> "saved", saved |-> settings, wrote |-> NoSettings]]
     ELSE ImportGoes(i, "idle")
  /\ UNCHANGED <<settings, basis, importing, undo>>

(* What the user set for a role is kept.                                   *)
ImportChanges(i) ==
  /\ importer[i].at = "saved"
  /\ UpdateSettings([CurrentSettings EXCEPT !.role = IF @ = "none" THEN "legacy" ELSE @,
                                    !.history = @ + 1, !.migrated = TRUE])
  /\ importer' = [importer EXCEPT ![i].at = "changed", ![i].wrote = settings']
  /\ UNCHANGED <<basis, importing, undo>>

ImportRecords(i) ==
  /\ importer[i].at = "changed"
  /\ importing' = [state |-> "applied", saved |-> importer[i].saved, after |-> importer[i].wrote]
  /\ ImportGoes(i, "idle")
  /\ UNCHANGED <<settings, basis, undo>>

ImportDies(i) ==
  /\ importer[i].at \in {"saved", "changed"} /\ ImportGoes(i, "idle")
  /\ UNCHANGED <<settings, basis, importing, undo>>

(***************************************************************************)
(* rollbackLegacyProject, under both locks.                                *)
(***************************************************************************)
SettingsAsImported(force) == force \/ CurrentSettings = importing.after

RollbackStarts(force) ==
  /\ MigrationLockFree /\ importing.state = "applied" /\ SettingsAsImported(force)
  /\ undo' = IF force THEN "forced" ELSE "checked"
  /\ UNCHANGED <<settings, basis, importer, importing>>

(* Settings the backup does not have are deleted, which throws when they   *)
(* are gone already.                                                       *)
RollbackRestores ==
  /\ undo \in {"forced", "checked"}
  /\ IF importing.saved = NoSettings /\ ~Exists
     THEN undo' = "idle" /\ UNCHANGED <<settings, basis>>
     ELSE /\ settings' = importing.saved /\ undo' = "restored"
          /\ basis' = [e \in Editors |-> [basis[e] EXCEPT !.undone = TRUE]]
  /\ UNCHANGED <<importer, importing>>

RollbackRecords ==
  /\ undo = "restored"
  /\ importing' = [importing EXCEPT !.state = "rolled_back"] /\ undo' = "idle"
  /\ UNCHANGED <<settings, basis, importer>>

RollbackDies ==
  /\ undo # "idle" /\ undo' = "idle"
  /\ UNCHANGED <<settings, basis, importer, importing>>

SettingsNext ==
  \/ \E m \in {"dynamic", "fixed-1"} : SetMode(m)
  \/ \E e \in Editors : ReadSettings(e) \/ ConfigSet(e)
  \/ \E i \in Importers :
       ImportStarts(i) \/ ImportSaves(i) \/ ImportChanges(i) \/ ImportRecords(i) \/ ImportDies(i)
  \/ \E force \in BOOLEAN : RollbackStarts(force)
  \/ RollbackRestores \/ RollbackRecords \/ RollbackDies

SettingsSpec == SettingsInit /\ [][SettingsNext]_settingsVars

(***************************************************************************)
(* Properties.                                                             *)
(***************************************************************************)
(* Whatever patches, imports, dead commands and roll-backs did, the fixed  *)
(* mode never stands with its demands relaxed.                             *)
FixedModeIsStrict ==
  CurrentSettings.mode = "fixed-1" => CurrentSettings.hackers >= 1 /\ CurrentSettings.tests # "on"

(* Two migrations that were started at once, or one that follows a dead    *)
(* one, never import the legacy approvals twice.                           *)
ImportedOnce == CurrentSettings.history <= 1 /\ (CurrentSettings.migrated => CurrentSettings.history = 1)

(* An edit that named its revision changes the settings its author saw,    *)
(* unless a roll-back, which gives old revisions out again, came between.  *)
CheckedEditsSeeTheirBase ==
  [][\A e \in Editors : ConfigSet(e) => basis[e].undone \/ basis[e].read = CurrentSettings]_settingsVars

(* Until it is forced, a roll-back takes away no edit made after the       *)
(* import.                                                                 *)
RollbackKeepsLaterEdits ==
  [][undo = "checked" /\ settings' # settings => CurrentSettings = importing.after]_settingsVars

(* Two properties of every settings file the program writes, by editing,   *)
(* migrating or rolling back (settings.js, legacy-migration.js).           *)
SettingsAreStrict ==
  FixedModeIsStrict /\ ImportedOnce
=============================================================================
