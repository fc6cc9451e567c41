---------------------------- MODULE StoreProofs ----------------------------
(***************************************************************************)
(* What the run stores checks on one small instance, proved for any number *)
(* of actors, versions, revisions, files and documents: the settings file  *)
(* (src/settings.js), the component registry (src/components/registry.js), *)
(* session records (src/workspace/sessions.js), published generations      *)
(* (src/generated.js), the migration of notes (src/knowledge/migrate.js),  *)
(* the knowledge store (src/knowledge/store.js), installations in a host   *)
(* (src/selected-install.js) and managed blocks (src/injectblock.js).      *)
(***************************************************************************)
EXTENDS MCStores, SequenceFacts

(***************************************************************************)
(* The settings.  Every settings value the program keeps, in the file or   *)
(* in a backup, is sound; and an importer that has saved and not yet       *)
(* changed them holds the migration lock against imports and roll-backs,   *)
(* so nobody else can import in between.                                   *)
(***************************************************************************)
Fields == {"rev", "mode", "hackers", "tests", "role", "history", "migrated"}

Sound(s) ==
  /\ DOMAIN s = Fields /\ s = [f \in Fields |-> s[f]]
  /\ s.rev \in Nat /\ s.hackers \in Nat
  /\ s.migrated \in BOOLEAN
  /\ ValidSettings(s)
  /\ s.history = IF s.migrated THEN 1 ELSE 0

Steps == {"idle", "wanted", "saved", "changed"}

Imports ==
  /\ importer = [i \in Importers |-> importer[i]]
  /\ \A i \in Importers : /\ DOMAIN importer[i] = {"at", "saved", "wrote"}
                          /\ importer[i].at \in Steps /\ Sound(importer[i].saved)
  /\ DOMAIN importing = {"state", "saved", "after"} /\ Sound(importing.saved)

LockHeld ==
  /\ undo # "idle" => \A i \in Importers : importer[i].at \in {"idle", "wanted"}
  /\ \A i \in Importers : importer[i].at \in {"saved", "changed"} =>
       \A j \in Importers : importer[j].at \in {"saved", "changed"} => i = j
  /\ \A i \in Importers : importer[i].at = "saved" => ~CurrentSettings.migrated

SettingsInv == Sound(settings) /\ Imports /\ LockHeld

LEMMA SoundDefaults ==
  /\ Sound(DefaultSettings) /\ Sound(NoSettings)
  /\ DefaultSettings.migrated = FALSE /\ NoSettings.migrated = FALSE
  BY DEF Sound, Fields, DefaultSettings, NoSettings, ValidSettings

LEMMA SoundCurrent == ASSUME Sound(settings) PROVE Sound(CurrentSettings)
  BY SoundDefaults DEF CurrentSettings

(* What a command writes over sound settings, when it validates.           *)
LEMMA SoundUpdate ==
  ASSUME Sound(CurrentSettings), NEW draft, UpdateSettings(draft),
         DOMAIN draft = Fields, draft = [f \in Fields |-> draft[f]],
         draft.hackers \in Nat, draft.migrated \in BOOLEAN,
         draft.history = IF draft.migrated THEN 1 ELSE 0
  PROVE  Sound(settings') /\ settings'.migrated = draft.migrated
  BY DEF Sound, Fields, UpdateSettings, ValidSettings

LEMMA CurrentMigrated ==
  /\ CurrentSettings.migrated = settings.migrated
  /\ CurrentSettings'.migrated = settings'.migrated
  BY SoundDefaults DEF CurrentSettings, Exists

LEMMA SettingsInitially == SettingsInit => SettingsInv
  BY SoundDefaults DEF SettingsInit, SettingsInv, Imports, LockHeld, Steps

(* A command that keeps what was imported.                                 *)
LEMMA EditKept ==
  ASSUME SettingsInv, Sound(settings'), settings'.migrated = CurrentSettings.migrated,
         UNCHANGED <<importer, importing, undo>>
  PROVE  SettingsInv'
<1>1. CurrentSettings'.migrated = CurrentSettings.migrated
  BY CurrentMigrated
<1>2. QED
  BY <1>1 DEF SettingsInv, Imports, LockHeld, Steps, Sound

LEMMA SettingsKept == SettingsInv /\ [SettingsNext]_settingsVars => SettingsInv'
<1>1. SUFFICES ASSUME SettingsInv, [SettingsNext]_settingsVars PROVE SettingsInv'
  OBVIOUS
<1>2. Sound(CurrentSettings)
  BY <1>1, SoundCurrent DEF SettingsInv
<1>3. ASSUME NEW m \in {"dynamic", "fixed-1"}, SetMode(m) PROVE SettingsInv'
  <2> DEFINE draft == IF m = "fixed-1"
         THEN [CurrentSettings EXCEPT !.mode = m, !.tests = "off", !.hackers = IF @ < 1 THEN 1 ELSE @]
         ELSE [CurrentSettings EXCEPT !.mode = m, !.tests = "unset"]
  <2>1. /\ DOMAIN draft = Fields /\ draft = [f \in Fields |-> draft[f]]
        /\ draft.hackers \in Nat /\ draft.migrated = CurrentSettings.migrated
        /\ draft.history = CurrentSettings.history
    BY <1>2 DEF Sound, Fields
  <2>2. UpdateSettings(draft) /\ UNCHANGED <<importer, importing, undo>>
    BY <1>3 DEF SetMode
  <2> HIDE DEF draft
  <2>3. draft.migrated \in BOOLEAN /\ (draft.history = IF draft.migrated THEN 1 ELSE 0)
    BY <1>2, <2>1 DEF Sound
  <2>4. Sound(settings') /\ settings'.migrated = CurrentSettings.migrated
    BY <1>2, <2>1, <2>2, <2>3, SoundUpdate
  <2>5. QED
    BY <1>1, <2>2, <2>4, EditKept
<1>4. ASSUME NEW e \in Editors, ConfigSet(e) PROVE SettingsInv'
  <2>1. PICK p \in Patches : UpdateSettings(p)
    BY <1>4 DEF ConfigSet
  <2>2. /\ DOMAIN p = Fields /\ p = [f \in Fields |-> p[f]]
        /\ p.hackers \in Nat /\ p.migrated = CurrentSettings.migrated
        /\ p.history = CurrentSettings.history
    BY <1>2, <2>1 DEF Patches, Sound, Fields
  <2>3. p.migrated \in BOOLEAN /\ (p.history = IF p.migrated THEN 1 ELSE 0)
    BY <1>2, <2>2 DEF Sound
  <2>4. Sound(settings') /\ settings'.migrated = CurrentSettings.migrated
    BY <1>2, <2>1, <2>2, <2>3, SoundUpdate
  <2>5. QED
    BY <1>1, <1>4, <2>4, EditKept DEF ConfigSet
<1>5. ASSUME NEW e \in Editors, ReadSettings(e) PROVE SettingsInv'
  BY <1>1, <1>5 DEF ReadSettings, SettingsInv, Imports, LockHeld, CurrentSettings, Exists
<1>6. ASSUME NEW i \in Importers, ImportStarts(i) \/ ImportSaves(i) \/ ImportRecords(i) \/ ImportDies(i)
      PROVE  SettingsInv'
  <2>1. /\ UNCHANGED <<settings, undo>> /\ CurrentSettings' = CurrentSettings
        /\ \/ importing' = importing
           \/ importing' = [state |-> "applied", saved |-> importer[i].saved, after |-> importer[i].wrote]
    <3>1. CASE ImportRecords(i)
      BY <1>1, <3>1 DEF ImportRecords, ImportGoes, CurrentSettings, Exists, SettingsInv,
          Imports
    <3>2. CASE ImportStarts(i) \/ ImportSaves(i) \/ ImportDies(i)
      <4>1. UNCHANGED <<settings, undo, importing>>
        BY <3>2 DEF ImportStarts, ImportSaves, ImportDies
      <4>2. CurrentSettings' = CurrentSettings
        BY <4>1 DEF CurrentSettings, Exists
      <4>3. QED
        BY <4>1, <4>2
    <3>3. QED
      BY <1>6, <3>1, <3>2
  <2>2. /\ importer' = [k \in Importers |-> importer'[k]]
        /\ \A k \in Importers \ {i} : importer'[k] = importer[k]
        /\ DOMAIN importer'[i] = {"at", "saved", "wrote"} /\ importer'[i].at \in Steps
        /\ importer'[i].saved \in {NoSettings, settings}
        /\ importer'[i].at \in {"saved", "changed"} =>
              importer'[i].at = "saved" /\ MigrationLockFree /\ ~CurrentSettings.migrated
    BY <1>1, <1>6 DEF ImportStarts, ImportSaves, ImportRecords, ImportDies, ImportGoes,
        NotYetImported,
                      SettingsInv, Imports, Steps
  <2>3. Imports'
    BY <1>1, <2>1, <2>2, SoundDefaults DEF SettingsInv, Imports
  <2>4. LockHeld'
    BY <1>1, <2>1, <2>2 DEF SettingsInv, LockHeld, MigrationLockFree, Steps
  <2>5. QED
    BY <1>1, <2>1, <2>3, <2>4 DEF SettingsInv
<1>7. ASSUME NEW i \in Importers, ImportChanges(i) PROVE SettingsInv'
  <2> DEFINE draft == [CurrentSettings EXCEPT !.role = IF @ = "none" THEN "legacy" ELSE @,
                                              !.history = @ + 1, !.migrated = TRUE]
  <2>1. ~CurrentSettings.migrated /\ importer[i].at = "saved"
    BY <1>1, <1>7 DEF ImportChanges, SettingsInv, LockHeld
  <2>2. /\ DOMAIN draft = Fields /\ draft = [f \in Fields |-> draft[f]]
        /\ draft.hackers \in Nat /\ draft.migrated = TRUE /\ draft.history = 1
    <3>1. CurrentSettings.history = 0
      BY <1>2, <2>1 DEF Sound
    <3>2. /\ DOMAIN CurrentSettings = Fields /\ CurrentSettings.hackers \in Nat
          /\ CurrentSettings = [f \in Fields |-> CurrentSettings[f]]
      BY <1>2 DEF Sound
    <3>3. draft.migrated = TRUE /\ draft.history = 1 /\ draft.hackers \in Nat
      BY <3>1, <3>2 DEF Fields
    <3>4. DOMAIN draft = Fields /\ draft = [f \in Fields |-> draft[f]]
      BY <3>2
    <3>5. QED
      BY <3>3, <3>4
  <2>3. UpdateSettings(draft)
    BY <1>7 DEF ImportChanges
  <2> HIDE DEF draft
  <2>4. Sound(settings')
    BY <1>2, <2>2, <2>3, SoundUpdate
  <2>5. /\ importer' = [k \in Importers |-> importer'[k]]
        /\ \A k \in Importers \ {i} : importer'[k] = importer[k]
        /\ DOMAIN importer'[i] = {"at", "saved", "wrote"} /\ importer'[i].at = "changed"
        /\ importer'[i].saved = importer[i].saved
        /\ UNCHANGED <<importing, undo>>
    BY <1>1, <1>7 DEF ImportChanges, SettingsInv, Imports
  <2>6. Imports'
    BY <1>1, <2>5 DEF SettingsInv, Imports, Steps
  <2>7. LockHeld'
    BY <1>1, <2>1, <2>5 DEF SettingsInv, LockHeld
  <2>8. QED
    BY <2>4, <2>6, <2>7 DEF SettingsInv
<1>8. CASE (\E force \in BOOLEAN : RollbackStarts(force)) \/ RollbackRecords \/ RollbackDies
  BY <1>1, <1>8 DEF RollbackStarts, RollbackRecords, RollbackDies, MigrationLockFree,
      SettingsInv, Imports,
                    LockHeld, CurrentSettings, Exists
<1>9. CASE RollbackRestores
  <2>1. \A i \in Importers : importer[i].at \in {"idle", "wanted"}
    BY <1>1, <1>9 DEF RollbackRestores, SettingsInv, LockHeld
  <2>2. UNCHANGED <<importer, importing>> /\ settings' \in {settings, importing.saved}
    BY <1>9 DEF RollbackRestores
  <2>3. QED
    BY <1>1, <2>1, <2>2 DEF SettingsInv, Imports, LockHeld
<1>10. CASE UNCHANGED settingsVars
  BY <1>1, <1>10 DEF settingsVars, SettingsInv, Imports, LockHeld, CurrentSettings, Exists
<1>11. QED
  BY <1>1, <1>3, <1>4, <1>5, <1>6, <1>7, <1>8, <1>9, <1>10 DEF SettingsNext

(* Whatever is patched, imported, rolled back or left half done, the       *)
(* settings in force satisfy the demands of their mode, and a legacy       *)
(* configuration is imported once (settings.js, legacy-migration.js).      *)
THEOREM SettingsStrict == SettingsSpec => []SettingsAreStrict
<1>1. SettingsInv => SettingsAreStrict
  BY SoundCurrent DEF SettingsInv, Sound, ValidSettings, SettingsAreStrict,
      FixedModeIsStrict, ImportedOnce
<1>2. QED
  BY SettingsInitially, SettingsKept, <1>1, PTL DEF SettingsSpec

(***************************************************************************)
(* The registry.  What an installer is about to record or to activate, and *)
(* what a verification or a roll-back may put back, was validated before.  *)
(***************************************************************************)
Proven(p) ==
  /\ DOMAIN p = {"version", "entry", "tested", "previous"} /\ p.tested \in BOOLEAN
  /\ p.version \in validated \cup {NoVersion} /\ p.previous \in validated \cup {NoVersion}
  /\ p.tested => p.version \in passed

RegistryInv ==
  /\ installer = [i \in Installers |-> installer[i]]
  /\ \A i \in Installers : /\ DOMAIN installer[i] = {"at", "version"}
                           /\ installer[i].at \in {"rest", "extract", "validate", "record", "activate"}
                           /\ installer[i].at \in {"record", "activate"} => installer[i].version \in validated
  /\ Proven(active) /\ Proven(verifier)

LEMMA RegistryInitially == RegistryInit => RegistryInv
<1>1. /\ NotInstalled.version = NoVersion /\ NotInstalled.previous = NoVersion
      /\ NotInstalled.tested = FALSE
      /\ DOMAIN NotInstalled = {"version", "entry", "tested", "previous"}
  BY DEF NotInstalled
<1>2. RegistryRests.at = "rest" /\ DOMAIN RegistryRests = {"at", "version"}
  BY DEF RegistryRests
<1>3. ASSUME RegistryInit PROVE Proven(NotInstalled)
  BY <1>1 DEF Proven
<1>4. ASSUME RegistryInit PROVE RegistryInv
  BY <1>2, <1>3, <1>4 DEF RegistryInit, RegistryInv
<1>5. QED
  BY <1>4

(* Nothing is ever taken out of what was validated or has passed.          *)
LEMMA ProvenStays ==
  ASSUME NEW p, Proven(p), validated \subseteq validated', passed \subseteq passed'
  PROVE  Proven(p)'
  BY DEF Proven

LEMMA RegistryKept == RegistryInv /\ [RegistryNext]_registryVars => RegistryInv'
<1>1. SUFFICES ASSUME RegistryInv, [RegistryNext]_registryVars PROVE RegistryInv'
  OBVIOUS
<1>2. ASSUME NEW i \in Installers,
             \/ \E v \in Versions : InstallStarts(i, v)
             \/ Extract(i) \/ Validate(i) \/ InstallFails(i) \/ WriteComponentRecord(i) \/ InstallDies(i)
      PROVE  RegistryInv'
  <2>1. /\ validated \subseteq validated' /\ UNCHANGED <<passed, verifier, active>>
        /\ installer' = [k \in Installers |-> installer'[k]]
        /\ \A k \in Installers \ {i} : installer'[k] = installer[k]
        /\ DOMAIN installer'[i] = {"at", "version"}
        /\ installer'[i].at \in {"rest", "extract", "validate", "record", "activate"}
        /\ installer'[i].at \in {"record", "activate"} => installer'[i].version \in validated'
    BY <1>1, <1>2 DEF InstallStarts, Extract, Validate, InstallFails, WriteComponentRecord,
        InstallDies,
                      RegistryInv, RegistryRests
  <2>2. Proven(active)' /\ Proven(verifier)'
    BY <1>1, <2>1, ProvenStays DEF RegistryInv
  <2>3. QED
    BY <1>1, <2>1, <2>2 DEF RegistryInv
<1>3. ASSUME NEW i \in Installers, Activate(i) PROVE RegistryInv'
  BY <1>1, <1>3 DEF Activate, Activatable, RegistryInv, Proven, RegistryRests
<1>4. CASE VerifyStarts
  BY <1>1, <1>4 DEF VerifyStarts, RegistryInv, Proven
<1>5. CASE VerifyPasses
  BY <1>1, <1>5 DEF VerifyPasses, Judged, RegistryInv, Proven, NotInstalled, NoVersion
<1>6. CASE VerifyFails
  BY <1>1, <1>6 DEF VerifyFails, RegistryInv, Proven, NotInstalled, NoVersion
<1>7. CASE Rollback
  BY <1>1, <1>7 DEF Rollback, RegistryInv, Proven, NoVersion
<1>8. CASE UNCHANGED registryVars
  BY <1>1, <1>8 DEF registryVars, RegistryInv, Proven
<1>9. QED
  BY <1>1, <1>2, <1>3, <1>4, <1>5, <1>6, <1>7, <1>8 DEF RegistryNext

(* Whatever two installers, failures, crashes, verifications and           *)
(* roll-backs do, what is active was validated, and it is called tested    *)
(* only when its own doctor passed (components/registry.js).               *)
THEOREM UpdatesProven == RegistrySpec => []UpdatesAreProven
<1>1. RegistryInv => UpdatesAreProven
  BY DEF RegistryInv, Proven, UpdatesAreProven, ActiveWasValidated, TestedMeansTested
<1>2. QED
  BY RegistryInitially, RegistryKept, <1>1, PTL DEF RegistrySpec

(***************************************************************************)
(* The settings again: what an editor or a roll-back replaces.  While a    *)
(* roll-back that was not forced is under way the settings are those of    *)
(* its record; and what an editor has read is what stands, or is older, or *)
(* a roll-back came between.                                               *)
(***************************************************************************)
Reading(e) ==
  basis[e].undone \/ basis[e].read = NoSettings
    \/ basis[e].read = CurrentSettings \/ basis[e].read.rev < CurrentSettings.rev

EditsInv ==
  /\ SettingsInv
  /\ basis = [e \in Editors |-> basis[e]]
  /\ \A e \in Editors : /\ DOMAIN basis[e] = {"read", "undone"}
                        /\ basis[e].undone \in BOOLEAN /\ Sound(basis[e].read) /\ Reading(e)
  /\ undo = "checked" => CurrentSettings = importing.after

LEMMA EditsInitially == SettingsInit => EditsInv
<1>1. SUFFICES ASSUME SettingsInit PROVE EditsInv
  OBVIOUS
<1>2. SettingsInv
  BY <1>1, SettingsInitially
<1>3. undo = "idle" /\ basis = [e \in Editors |-> [read |-> NoSettings, undone |-> FALSE]]
  BY <1>1 DEF SettingsInit
<1>4. \A e \in Editors : basis[e] = [read |-> NoSettings, undone |-> FALSE]
  BY <1>3
<1>5. QED
  BY <1>2, <1>3, <1>4, SoundDefaults DEF EditsInv, Reading

(* An update raises the revision, so that whatever was read before is older. *)
Updating == settings'.rev = CurrentSettings.rev + 1 /\ undo = "idle" /\ undo' = "idle"

LEMMA UpdatesRaise ==
  ASSUME Sound(CurrentSettings),
         \/ \E m \in {"dynamic", "fixed-1"} : SetMode(m)
         \/ \E e \in Editors : ConfigSet(e)
         \/ \E i \in Importers : ImportChanges(i)
  PROVE  Updating
<1>1. ASSUME NEW draft, UpdateSettings(draft), DOMAIN draft = DOMAIN CurrentSettings
      PROVE  settings'.rev = CurrentSettings.rev + 1 /\ undo = "idle"
  BY <1>1 DEF UpdateSettings, Sound, Fields
<1>2. CASE \E m \in {"dynamic", "fixed-1"} : SetMode(m)
  <2>1. PICK m \in {"dynamic", "fixed-1"} : SetMode(m)
    BY <1>2
  <2> DEFINE draft == IF m = "fixed-1"
         THEN [CurrentSettings EXCEPT !.mode = m, !.tests = "off", !.hackers = IF @ < 1 THEN 1 ELSE @]
         ELSE [CurrentSettings EXCEPT !.mode = m, !.tests = "unset"]
  <2>2. DOMAIN draft = DOMAIN CurrentSettings
    OBVIOUS
  <2>3. UpdateSettings(draft) /\ undo' = undo
    BY <2>1 DEF SetMode
  <2> HIDE DEF draft
  <2>4. QED
    BY <1>1, <2>2, <2>3 DEF Updating
<1>3. CASE \E e \in Editors : ConfigSet(e)
  <2>1. PICK p \in Patches : UpdateSettings(p) /\ undo' = undo
    BY <1>3 DEF ConfigSet
  <2>2. DOMAIN p = DOMAIN CurrentSettings
    BY DEF Patches
  <2>3. QED
    BY <1>1, <2>1, <2>2 DEF Updating
<1>4. CASE \E i \in Importers : ImportChanges(i)
  <2> DEFINE draft == [CurrentSettings EXCEPT !.role = IF @ = "none" THEN "legacy" ELSE @,
                                              !.history = @ + 1, !.migrated = TRUE]
  <2>1. UpdateSettings(draft) /\ undo' = undo
    BY <1>4 DEF ImportChanges
  <2>2. DOMAIN draft = DOMAIN CurrentSettings
    OBVIOUS
  <2> HIDE DEF draft
  <2>3. QED
    BY <1>1, <2>1, <2>2 DEF Updating
<1>5. QED
  BY <1>2, <1>3, <1>4

LEMMA UpdateOutdates ==
  ASSUME EditsInv, SettingsInv', Updating,
         basis' = [e \in Editors |-> basis'[e]],
         \A e \in Editors : basis'[e] = basis[e]
                              \/ basis'[e] = [read |-> NoSettings, undone |-> basis[e].undone]
  PROVE  EditsInv'
<1>1. CurrentSettings.rev \in Nat /\ (\A e \in Editors : basis[e].read.rev \in Nat)
  BY SoundCurrent DEF EditsInv, SettingsInv, Sound
<1>2. NoSettings.rev = 0
  BY DEF NoSettings, DefaultSettings
<1>3. CurrentSettings' = settings'
  BY <1>1, <1>2 DEF CurrentSettings, Exists, Updating
<1>4. ASSUME NEW e \in Editors
      PROVE  /\ DOMAIN basis'[e] = {"read", "undone"} /\ basis'[e].undone \in BOOLEAN
             /\ Sound(basis'[e].read) /\ Reading(e)'
  <2>1. CASE basis'[e] = basis[e]
    <3>1. Reading(e)
      BY DEF EditsInv
    <3>2. Reading(e)'
      BY <1>1, <1>3, <2>1, <3>1 DEF Reading, Updating
    <3>3. QED
      BY <2>1, <3>2 DEF EditsInv
  <2>2. CASE basis'[e] = [read |-> NoSettings, undone |-> basis[e].undone]
    BY <2>2, SoundDefaults DEF EditsInv, Reading
  <2>3. QED
    BY <2>1, <2>2
<1>5. QED
  BY <1>4 DEF EditsInv, Updating

LEMMA EditsKept == EditsInv /\ [SettingsNext]_settingsVars => EditsInv'
<1>1. SUFFICES ASSUME EditsInv, [SettingsNext]_settingsVars PROVE EditsInv'
  OBVIOUS
<1>2. SettingsInv /\ SettingsInv' /\ Sound(CurrentSettings)
  BY <1>1, SettingsKept, SoundCurrent DEF EditsInv, SettingsInv
<1>3. CASE (\E m \in {"dynamic", "fixed-1"} : SetMode(m)) \/ (\E i \in Importers : ImportChanges(i))
  <2>1. Updating
    BY <1>2, <1>3, UpdatesRaise
  <2>2. basis' = basis
    BY <1>3 DEF SetMode, ImportChanges
  <2>3. QED
    BY <1>1, <1>2, <2>1, <2>2, UpdateOutdates DEF EditsInv
<1>4. ASSUME NEW e \in Editors, ConfigSet(e) PROVE EditsInv'
  <2>1. Updating
    BY <1>2, <1>4, UpdatesRaise
  <2>2. basis' = [basis EXCEPT ![e].read = NoSettings]
    BY <1>4 DEF ConfigSet
  <2>3. /\ basis' = [k \in Editors |-> basis'[k]]
        /\ \A k \in Editors : basis'[k] = basis[k]
                                \/ basis'[k] = [read |-> NoSettings, undone |-> basis[k].undone]
    BY <1>1, <2>2 DEF EditsInv
  <2>4. QED
    BY <1>1, <1>2, <2>1, <2>3, UpdateOutdates
<1>5. ASSUME NEW e \in Editors, ReadSettings(e) PROVE EditsInv'
  <2>1. UNCHANGED <<settings, importing, undo>> /\ CurrentSettings' = CurrentSettings
    BY <1>5 DEF ReadSettings, CurrentSettings, Exists
  <2>2. basis' = [basis EXCEPT ![e] = [read |-> CurrentSettings, undone |-> FALSE]]
    BY <1>5 DEF ReadSettings
  <2>3. QED
    BY <1>1, <1>2, <2>1, <2>2 DEF EditsInv, Reading
<1>6. CASE \/ \E i \in Importers : ImportStarts(i) \/ ImportSaves(i) \/ ImportDies(i)
           \/ \E force \in BOOLEAN : RollbackStarts(force)
           \/ RollbackRecords \/ RollbackDies
  <2>1. UNCHANGED <<settings, basis>> /\ CurrentSettings' = CurrentSettings
    BY <1>6 DEF ImportStarts, ImportSaves, ImportDies, RollbackStarts, RollbackRecords,
        RollbackDies, CurrentSettings, Exists
  <2>2. undo' = "checked" => CurrentSettings' = importing'.after
    BY <1>1, <1>6, <2>1 DEF ImportStarts, ImportSaves, ImportDies, RollbackStarts,
        RollbackRecords, RollbackDies, SettingsAsImported, EditsInv
  <2>3. QED
    BY <1>1, <1>2, <2>1, <2>2 DEF EditsInv, Reading
<1>7. ASSUME NEW i \in Importers, ImportRecords(i) PROVE EditsInv'
  <2>1. UNCHANGED <<settings, basis, undo>> /\ CurrentSettings' = CurrentSettings
    BY <1>7 DEF ImportRecords, CurrentSettings, Exists
  <2>2. undo = "idle"
    BY <1>2, <1>7 DEF ImportRecords, SettingsInv, LockHeld
  <2>3. QED
    BY <1>1, <1>2, <2>1, <2>2 DEF EditsInv, Reading
<1>8. CASE RollbackRestores
  <2>1. CASE UNCHANGED <<settings, basis>> /\ undo' = "idle"
    BY <1>1, <1>2, <1>8, <2>1 DEF EditsInv, Reading, CurrentSettings, Exists
  <2>2. CASE undo' = "restored" /\ basis' = [e \in Editors |-> [basis[e] EXCEPT !.undone = TRUE]]
    BY <1>1, <1>2, <2>2 DEF EditsInv, Reading
  <2>3. QED
    BY <1>8, <2>1, <2>2 DEF RollbackRestores
<1>9. CASE UNCHANGED settingsVars
  BY <1>1, <1>2, <1>9 DEF settingsVars, EditsInv, Reading, CurrentSettings, Exists
<1>10. QED
  BY <1>1, <1>3, <1>4, <1>5, <1>6, <1>7, <1>8, <1>9 DEF SettingsNext

(* An edit that names its revision, and a roll-back that is not forced.    *)
LEMMA EditsSeeTheirBase ==
  ASSUME EditsInv, NEW e \in Editors, ConfigSet(e)
  PROVE  basis[e].undone \/ basis[e].read = CurrentSettings
<1>1. basis[e].read # NoSettings /\ basis[e].read.rev = CurrentSettings.rev
  BY DEF ConfigSet, SameRevision
<1>2. CurrentSettings.rev \in Nat
  BY SoundCurrent DEF EditsInv, SettingsInv, Sound
<1>3. QED
  BY <1>1, <1>2 DEF EditsInv, Reading

(* An edit that names its revision changes the settings its author saw,    *)
(* and a roll-back that is not forced takes away no later edit             *)
(* (control.js, legacy-migration.js).                                      *)
THEOREM SettingsEditsAreSeen ==
  SettingsSpec => CheckedEditsSeeTheirBase /\ RollbackKeepsLaterEdits
<1>1. SettingsSpec => []EditsInv
  BY EditsInitially, EditsKept, PTL DEF SettingsSpec
<1>2. EditsInv => [\A e \in Editors :
                     ConfigSet(e) => basis[e].undone \/ basis[e].read = CurrentSettings]_settingsVars
  BY EditsSeeTheirBase
<1>3. EditsInv => [undo = "checked" /\ settings' # settings =>
                     CurrentSettings = importing.after]_settingsVars
  BY DEF EditsInv
<1>4. QED
  BY <1>1, <1>2, <1>3, PTL DEF CheckedEditsSeeTheirBase, RollbackKeepsLaterEdits

(***************************************************************************)
(* A session's record.  Only the writer whose directory is the lock goes   *)
(* on to write, and the record is still as it read it.                     *)
(***************************************************************************)
WriterFields == {"at", "does", "now", "read"}
WriterTyped(r) ==
  /\ DOMAIN r = WriterFields /\ r = [f \in WriterFields |-> r[f]]
  /\ r.at \in {"idle", "waiting", "locked", "writing", "dead"}
  /\ r.does \in {"none", "start", "heartbeat", "stop"}

HoldsRecord(w) ==
  /\ writers[w].at \in {"waiting", "locked", "writing"} => writers[w].does # "none"
  /\ writers[w].at \in {"locked", "writing"} => dirLock = w
  /\ writers[w].at = "writing" =>
       /\ writers[w].read = session
       /\ ~(writers[w].does = "heartbeat" /\ session.status = "stopped")

SessionInv ==
  /\ writers = [w \in SessionWriters |-> writers[w]]
  /\ \A w \in SessionWriters : WriterTyped(writers[w]) /\ HoldsRecord(w)

LEMMA SessionInitially == SessionInit => SessionInv
BY DEF SessionInit, SessionInv, WriterTyped, WriterFields, HoldsRecord, ResetWriter

LEMMA ResetIsIdle == WriterTyped(ResetWriter) /\ ResetWriter.at = "idle"
BY DEF WriterTyped, WriterFields, ResetWriter

LEMMA OneMoves ==
  ASSUME NEW w \in SessionWriters, writers = [k \in SessionWriters |-> writers[k]],
         NEW r, writers' = [writers EXCEPT ![w] = r]
  PROVE  /\ writers' = [k \in SessionWriters |-> writers'[k]]
         /\ \A k \in SessionWriters \ {w} : writers'[k] = writers[k]
         /\ writers'[w] = r
OBVIOUS

LEMMA SessionKept == SessionInv /\ [SessionNext]_sessionVars => SessionInv'
<1>1. SUFFICES ASSUME SessionInv, [SessionNext]_sessionVars PROVE SessionInv'
  OBVIOUS
<1>2. ASSUME NEW w \in SessionWriters,
             CallSession(w) \/ LockSession(w) \/ ReadSession(w) \/ WriterDies(w)
      PROVE  SessionInv'
  <2>1. session' = session
    BY <1>2 DEF CallSession, LockSession, ReadSession, WriterDies
  <2>2. /\ writers = [k \in SessionWriters |-> writers[k]] /\ WriterTyped(writers[w])
        /\ HoldsRecord(w)
    BY <1>1 DEF SessionInv
  <2>3. PICK r : /\ writers' = [writers EXCEPT ![w] = r] /\ WriterTyped(r)
                 /\ r.at \in {"waiting", "locked", "writing"} => r.does # "none"
                 /\ r.at \in {"locked", "writing"} => dirLock' = w
                 /\ r.at = "writing" =>
                      r.read = session /\ ~(r.does = "heartbeat" /\ session.status = "stopped")
    <3>1. CASE CallSession(w)
      <4>1. PICK action \in {"start", "heartbeat", "stop"} :
              writers' = [writers EXCEPT
                ![w] = [ResetWriter EXCEPT !.at = "waiting", !.does = action, !.now = moment]]
        BY <3>1 DEF CallSession
      <4> DEFINE q == [ResetWriter EXCEPT !.at = "waiting", !.does = action, !.now = moment]
      <4>2. q.at = "waiting" /\ q.does = action /\ WriterTyped(q)
        BY DEF WriterTyped, WriterFields, ResetWriter
      <4>3. QED
        BY <4>1, <4>2
    <3>2. CASE LockSession(w)
      <4>1. CASE writers' = [writers EXCEPT ![w].at = "locked"] /\ dirLock' = w
        <5> DEFINE q == [writers[w] EXCEPT !.at = "locked"]
        <5>1. q.at = "locked" /\ q.does = writers[w].does /\ WriterTyped(q)
          BY <2>2 DEF WriterTyped, WriterFields
        <5>2. q.does # "none"
          BY <2>2, <3>2, <5>1 DEF LockSession, HoldsRecord
        <5>3. writers' = [writers EXCEPT ![w] = q]
          BY <4>1
        <5> HIDE DEF q
        <5>4. QED
          BY <4>1, <5>1, <5>2, <5>3
      <4>2. CASE writers' = [writers EXCEPT ![w] = ResetWriter]
        BY <4>2, ResetIsIdle
      <4>3. QED
        BY <3>2, <4>1, <4>2 DEF LockSession
    <3>3. CASE ReadSession(w)
      <4>1. CASE writers' = [writers EXCEPT ![w] = ResetWriter]
        BY <4>1, ResetIsIdle
      <4>2. CASE /\ writers' = [writers EXCEPT ![w].at = "writing", ![w].read = session]
                 /\ dirLock' = dirLock
                 /\ ~(writers[w].does = "heartbeat" /\ session.status = "stopped")
        <5> DEFINE q == [writers[w] EXCEPT !.at = "writing", !.read = session]
        <5>1. /\ q.at = "writing" /\ q.does = writers[w].does /\ q.read = session
              /\ WriterTyped(q)
          BY <2>2 DEF WriterTyped, WriterFields
        <5>2. q.does # "none" /\ dirLock' = w
          BY <2>2, <3>3, <4>2, <5>1 DEF ReadSession, HoldsRecord
        <5>3. writers' = [writers EXCEPT ![w] = q]
          BY <4>2
        <5> HIDE DEF q
        <5>4. QED
          BY <4>2, <5>1, <5>2, <5>3
      <4>3. QED
        BY <3>3, <4>1, <4>2 DEF ReadSession
    <3>4. CASE WriterDies(w)
      <4> DEFINE q == [writers[w] EXCEPT !.at = "dead"]
      <4>1. q.at = "dead" /\ WriterTyped(q)
        BY <2>2 DEF WriterTyped, WriterFields
      <4>2. writers' = [writers EXCEPT ![w] = q]
        BY <3>4 DEF WriterDies
      <4> HIDE DEF q
      <4>3. QED
        BY <4>1, <4>2
    <3>5. QED
      BY <1>2, <3>1, <3>2, <3>3, <3>4
  <2>4. /\ writers' = [k \in SessionWriters |-> writers'[k]]
        /\ \A k \in SessionWriters \ {w} : writers'[k] = writers[k]
        /\ writers'[w] = r
    BY <2>2, <2>3, OneMoves
  <2>5. WriterTyped(writers'[w]) /\ HoldsRecord(w)'
    BY <2>1, <2>3, <2>4 DEF HoldsRecord
  <2>6. ASSUME NEW k \in SessionWriters \ {w} PROVE HoldsRecord(k)'
    <3>1. HoldsRecord(k) /\ HoldsRecord(w) /\ w # NoOne
      BY <1>1, SessionWritersAssumption DEF SessionInv
    <3>2. dirLock' = dirLock \/ dirLock = NoOne \/ dirLock = w
      BY <1>2, <3>1 DEF CallSession, LockSession, ReadSession, WriterDies, HoldsRecord,
          UnlockSession
    <3>3. QED
      BY <2>1, <2>4, <3>1, <3>2, SessionWritersAssumption DEF HoldsRecord
  <2>7. \A k \in SessionWriters : WriterTyped(writers'[k]) /\ HoldsRecord(k)'
    BY <1>1, <2>4, <2>5, <2>6 DEF SessionInv
  <2>8. QED
    BY <2>4, <2>7 DEF SessionInv
<1>3. ASSUME NEW w \in SessionWriters, WriteSession(w) PROVE SessionInv'
  <2>1. dirLock = w /\ writers' = [writers EXCEPT ![w] = ResetWriter]
    BY <1>1, <1>3 DEF WriteSession, SessionInv, HoldsRecord
  <2>2. \A k \in SessionWriters \ {w} : writers[k].at \notin {"locked", "writing"}
    BY <1>1, <2>1 DEF SessionInv, HoldsRecord
  <2>3. QED
    BY <1>1, <2>1, <2>2 DEF SessionInv, HoldsRecord, WriterTyped, WriterFields, ResetWriter
<1>4. CASE UNCHANGED sessionVars
  BY <1>1, <1>4 DEF sessionVars, SessionInv, HoldsRecord
<1>5. QED
  BY <1>1, <1>2, <1>3, <1>4 DEF SessionNext

Revives ==
  \/ session.status = "absent"
  \/ \E w \in SessionWriters : writers[w].does = "start" /\ writers[w].at = "writing" /\ dirLock = w
  \/ /\ session'.started = session.started
     /\ ~(session.status = "stopped" /\ session'.status = "active")

LEMMA StartsRevive == SessionInv /\ [SessionNext]_sessionVars => [Revives]_sessionVars
<1>1. SUFFICES ASSUME SessionInv, SessionNext PROVE Revives
  BY DEF sessionVars
<1>2. CASE session' = session
  BY <1>2 DEF Revives
<1>3. ASSUME NEW w \in SessionWriters, WriteSession(w) PROVE Revives
  <2>1. /\ writers[w].at = "writing" /\ writers[w].read = session /\ dirLock = w
        /\ writers[w].does = "heartbeat" => session.status # "stopped"
    BY <1>1, <1>3 DEF WriteSession, SessionInv, HoldsRecord
  <2>2. /\ session'.status = IF writers[w].does = "stop" THEN "stopped" ELSE "active"
        /\ writers[w].does # "start" /\ session.status # "absent" =>
             session'.started = session.started
    BY <1>3, <2>1 DEF WriteSession
  <2>3. writers[w].does # "none"
    BY <1>1, <2>1 DEF SessionInv, HoldsRecord
  <2>4. QED
    BY <1>1, <2>1, <2>2, <2>3 DEF Revives, SessionInv, WriterTyped
<1>4. QED
  BY <1>1, <1>2, <1>3 DEF SessionNext, CallSession, LockSession, ReadSession, WriterDies

(* A stopped session comes back only by a start, and only a start moves    *)
(* the moment it began, for any number of hooks (workspace/sessions.js).   *)
THEOREM StartsAloneRevive == SessionSpec => OnlyStartRevives
<1>1. SessionSpec => []SessionInv
  BY SessionInitially, SessionKept, PTL DEF SessionSpec
<1>2. QED
  BY <1>1, StartsRevive, PTL DEF OnlyStartRevives, SessionSpec, Revives

(***************************************************************************)
(* Publishing.  A publisher renders the newest directory, which the        *)
(* pointer does not select.  What nobody disturbed shows the selected      *)
(* generation until the publisher copies over it; it may copy over all of  *)
(* it, so what it left alone is disturbed.                                 *)
(***************************************************************************)
Shows(v) == views[v] = IF v \in DOMAIN pointer.projected THEN WrittenView(pointer.projected[v])
                       ELSE NoView

PublisherTyped ==
  /\ DOMAIN publisher = {"at", "generation", "files", "todo", "projected"}
  /\ publisher = [f \in {"at", "generation", "files", "todo", "projected"} |-> publisher[f]]
  /\ publisher.at \in {"idle", "rendering", "projecting", "selecting"}
  /\ publisher.at # "idle" =>
       /\ "workflow" \in publisher.files /\ publisher.files \subseteq Views
       /\ publisher.todo \subseteq publisher.files
       /\ publisher.projected \subseteq publisher.files
  /\ publisher.at = "rendering" => publisher.todo = {} /\ publisher.projected = {}
  /\ publisher.at = "selecting" => publisher.todo = {}

DirectoriesInOrder ==
  /\ \E n \in Nat : /\ DOMAIN directories = 1..n
                    /\ publisher.at # "idle" => publisher.generation = n /\ n > 0
  /\ directories = [g \in DOMAIN directories |-> directories[g]]

PointerHolds ==
  \/ pointer = NoPointer
  \/ /\ pointer.generation \in DOMAIN directories
     /\ publisher.at # "idle" => pointer.generation # publisher.generation

ViewsFollow ==
  /\ views = [v \in Views |-> views[v]]
  /\ DOMAIN pointer.projected \subseteq Views
  /\ \A v \in Views \ disturbed :
       \/ publisher.at \in {"idle", "rendering"} /\ Shows(v)
       \/ /\ publisher.at \in {"projecting", "selecting"} /\ v \in publisher.projected
          /\ views[v] = WrittenView(publisher.generation)
       \/ publisher.at = "projecting" /\ v \notin publisher.projected /\ Shows(v)
            /\ (v \in publisher.files => v \in publisher.todo)
       \/ publisher.at = "selecting" /\ v \notin publisher.files /\ views[v] = NoView

PublishInv ==
  /\ PublisherTyped /\ DirectoriesInOrder /\ PointerHolds /\ ViewsFollow
  /\ SelectedPlanIsWhole /\ viewEdits \in Nat

LEMMA PublishInitially == GenerationInit => PublishInv
<1>1. SUFFICES ASSUME GenerationInit PROVE PublishInv
  OBVIOUS
<1>2. publisher = NoPublisher /\ pointer = NoPointer /\ DOMAIN directories = {}
      /\ viewEdits = 0 /\ views \in [Views -> {NoView, Users, Legacy}]
      /\ directories = [g \in {} |-> {}]
  BY <1>1 DEF GenerationInit
<1>3. PublisherTyped /\ PointerHolds /\ SelectedPlanIsWhole
  BY <1>2 DEF PublisherTyped, NoPublisher, PointerHolds, SelectedPlanIsWhole
<1>4. DirectoriesInOrder
  <2>1. 0 \in Nat /\ DOMAIN directories = 1..0
    BY <1>2
  <2>2. QED
    BY <1>2, <2>1 DEF DirectoriesInOrder, NoPublisher
<1>5. \A v \in Views \ disturbed : Shows(v)
  BY <1>1, <1>2 DEF GenerationInit, Shows, NoPointer
<1>6. ViewsFollow
  BY <1>2, <1>5 DEF ViewsFollow, NoPublisher, NoPointer
<1>7. QED
  BY <1>2, <1>3, <1>4, <1>6 DEF PublishInv

LEMMA BeginKeeps ==
  ASSUME PublishInv, NEW agents \in SUBSET Roles, BeginPublish(agents) PROVE PublishInv'
<1>1. PICK n \in Nat : DOMAIN directories = 1..n
  BY DEF PublishInv, DirectoriesInOrder
<1>2. Cardinality(DOMAIN directories) + 1 = n + 1
  <2>1. 1 \in Int /\ n \in Int
    OBVIOUS
  <2>2. Cardinality(1..n) = IF 1 > n THEN 0 ELSE n - 1 + 1
    BY <2>1, FS_Interval
  <2>3. Cardinality(1..n) = n
    BY <2>2
  <2>4. QED
    BY <1>1, <2>3
<1>3. /\ publisher.at = "idle"
      /\ publisher' = [NoPublisher EXCEPT !.at = "rendering", !.generation = n + 1,
                                          !.files = agents \cup {"workflow"}]
      /\ directories' = [h \in 1..n \cup {n + 1} |-> IF h = n + 1 THEN {} ELSE directories[h]]
      /\ UNCHANGED <<pointer, views, disturbed, viewEdits>>
  BY <1>1, <1>2 DEF BeginPublish
<1>4. DOMAIN directories' = 1..(n + 1) /\ \A h \in 1..n : directories'[h] = directories[h]
  BY <1>1, <1>3
<1>5. /\ publisher'.at = "rendering" /\ publisher'.generation = n + 1
      /\ publisher'.files = agents \cup {"workflow"} /\ publisher'.todo = {}
      /\ publisher'.projected = {} /\ PublisherTyped'
  BY <1>3 DEF NoPublisher, PublisherTyped, Views
<1>6. DirectoriesInOrder'
  BY <1>1, <1>3, <1>4, <1>5 DEF DirectoriesInOrder
<1>7. PointerHolds'
  BY <1>1, <1>3, <1>4, <1>5 DEF PublishInv, PointerHolds
<1>8. ViewsFollow'
  BY <1>3, <1>5 DEF PublishInv, ViewsFollow, Shows
<1>9. SelectedPlanIsWhole'
  BY <1>1, <1>3, <1>4, <1>5 DEF PublishInv, SelectedPlanIsWhole, PointerHolds
<1>10. QED
  BY <1>3, <1>5, <1>6, <1>7, <1>8, <1>9 DEF PublishInv

LEMMA RenderKeeps ==
  ASSUME PublishInv, NEW v \in Views, RenderFile(v) PROVE PublishInv'
<1>1. PICK n \in Nat : DOMAIN directories = 1..n /\ publisher.generation = n /\ n > 0
  BY DEF PublishInv, DirectoriesInOrder, RenderFile
<1>2. /\ publisher.at = "rendering" /\ UNCHANGED <<pointer, views, publisher, disturbed, viewEdits>>
      /\ directories' = [directories EXCEPT ![n] = @ \cup {v}]
  BY <1>1 DEF RenderFile
<1>3. /\ DOMAIN directories' = 1..n /\ n \in 1..n
      /\ directories' = [g \in DOMAIN directories' |-> directories'[g]]
      /\ \A g \in 1..n : directories[g] \subseteq directories'[g]
  <2>1. directories = [g \in 1..n |-> directories[g]] /\ n \in 1..n
    BY <1>1 DEF PublishInv, DirectoriesInOrder
  <2>2. directories' = [g \in 1..n |-> IF g = n THEN directories[n] \cup {v} ELSE directories[g]]
    BY <1>2, <2>1
  <2>3. QED
    BY <2>1, <2>2
<1>4. DirectoriesInOrder'
  BY <1>1, <1>2, <1>3 DEF DirectoriesInOrder
<1>5. PublisherTyped' /\ ViewsFollow' /\ viewEdits' \in Nat
  BY <1>2 DEF PublishInv, PublisherTyped, ViewsFollow, Shows
<1>6. PointerHolds'
  BY <1>1, <1>2, <1>3 DEF PublishInv, PointerHolds
<1>7. SelectedPlanIsWhole'
  BY <1>1, <1>2, <1>3 DEF PublishInv, SelectedPlanIsWhole, PointerHolds
<1>8. QED
  BY <1>4, <1>5, <1>6, <1>7 DEF PublishInv

LEMMA RenderFailsKeeps == ASSUME PublishInv, RenderFails PROVE PublishInv'
<1>1. PICK n \in Nat : DOMAIN directories = 1..n /\ publisher.generation = n /\ n > 0
  BY DEF PublishInv, DirectoriesInOrder, RenderFails
<1>2. /\ publisher.at = "rendering" /\ UNCHANGED <<pointer, views, disturbed, viewEdits>>
      /\ directories' = [directories EXCEPT ![n] = {}] /\ publisher' = NoPublisher
  BY <1>1 DEF RenderFails
<1>3. /\ DOMAIN directories' = 1..n /\ n \in 1..n
      /\ directories' = [g \in DOMAIN directories' |-> directories'[g]]
      /\ \A g \in 1..n : g # n => directories[g] = directories'[g]
  <2>1. directories = [g \in 1..n |-> directories[g]] /\ n \in 1..n
    BY <1>1 DEF PublishInv, DirectoriesInOrder
  <2>2. directories' = [g \in 1..n |-> IF g = n THEN {} ELSE directories[g]]
    BY <1>2, <2>1
  <2>3. QED
    BY <2>1, <2>2
<1>4. publisher'.at = "idle" /\ PublisherTyped'
  BY <1>2 DEF NoPublisher, PublisherTyped
<1>5. DirectoriesInOrder'
  BY <1>1, <1>3, <1>4 DEF DirectoriesInOrder
<1>6. ViewsFollow'
  BY <1>2, <1>4 DEF PublishInv, ViewsFollow, Shows
<1>7. PointerHolds'
  BY <1>1, <1>2, <1>3, <1>4 DEF PublishInv, PointerHolds
<1>8. SelectedPlanIsWhole'
  BY <1>1, <1>2, <1>3, <1>4 DEF PublishInv, SelectedPlanIsWhole, PointerHolds
<1>9. QED
  BY <1>2, <1>4, <1>5, <1>6, <1>7, <1>8 DEF PublishInv

LEMMA RenderEndsKeeps == ASSUME PublishInv, RenderEnds PROVE PublishInv'
<1>1. /\ publisher.at = "rendering" /\ directories[publisher.generation] = publisher.files
      /\ publisher' = [publisher EXCEPT !.at = "projecting", !.todo = publisher.files]
      /\ UNCHANGED <<directories, pointer, views, disturbed, viewEdits>>
  BY DEF RenderEnds
<1>2. /\ publisher'.at = "projecting" /\ publisher'.todo = publisher.files
      /\ publisher'.files = publisher.files /\ publisher'.generation = publisher.generation
      /\ publisher'.projected = publisher.projected /\ publisher.projected = {}
      /\ PublisherTyped'
  BY <1>1 DEF PublishInv, PublisherTyped
<1>3. DirectoriesInOrder'
  BY <1>1, <1>2 DEF PublishInv, DirectoriesInOrder
<1>4. PointerHolds'
  BY <1>1, <1>2 DEF PublishInv, PointerHolds
<1>5. ViewsFollow'
  BY <1>1, <1>2 DEF PublishInv, ViewsFollow, Shows
<1>6. SelectedPlanIsWhole'
  BY <1>1, <1>2 DEF PublishInv, SelectedPlanIsWhole
<1>7. QED
  BY <1>1, <1>2, <1>3, <1>4, <1>5, <1>6 DEF PublishInv

(* A view nobody disturbed is as the selected generation left it.          *)
LEMMA ShownIsOurs == ASSUME NEW v, Shows(v) PROVE RecordedAsOurs(v)
BY DEF Shows, RecordedAsOurs

LEMMA ProjectKeeps ==
  ASSUME PublishInv, NEW v \in Views, ProjectView(v) PROVE PublishInv'
<1>1. /\ publisher.at = "projecting" /\ v \in publisher.todo
      /\ publisher' = [publisher EXCEPT !.todo = @ \ {v},
                         !.projected = @ \cup (IF RecordedAsOurs(v) THEN {v} ELSE {})]
      /\ views' = IF RecordedAsOurs(v)
                  THEN [views EXCEPT ![v] = WrittenView(publisher.generation)] ELSE views
      /\ disturbed' = IF RecordedAsOurs(v) THEN disturbed \ {v} ELSE disturbed
      /\ UNCHANGED <<directories, pointer, viewEdits>>
  BY DEF ProjectView
<1>2. /\ publisher'.at = "projecting" /\ publisher'.todo = publisher.todo \ {v}
      /\ publisher'.files = publisher.files /\ publisher'.generation = publisher.generation
      /\ publisher'.projected = publisher.projected \cup (IF RecordedAsOurs(v) THEN {v} ELSE {})
      /\ PublisherTyped'
  <2> DEFINE more == IF RecordedAsOurs(v) THEN {v} ELSE {}
  <2>1. more \subseteq {v} /\ publisher' = [publisher EXCEPT !.todo = @ \ {v},
                                              !.projected = @ \cup more]
    BY <1>1
  <2> HIDE DEF more
  <2>2. /\ publisher'.at = "projecting" /\ publisher'.todo = publisher.todo \ {v}
        /\ publisher'.files = publisher.files /\ publisher'.generation = publisher.generation
        /\ publisher'.projected = publisher.projected \cup more /\ PublisherTyped'
    BY <1>1, <2>1 DEF PublishInv, PublisherTyped
  <2>3. QED
    BY <2>2 DEF more
<1>3. DirectoriesInOrder'
  BY <1>1, <1>2 DEF PublishInv, DirectoriesInOrder
<1>4. PointerHolds'
  BY <1>1, <1>2 DEF PublishInv, PointerHolds
<1>5. ViewsFollow'
  <2>1. CASE RecordedAsOurs(v)
    BY <1>1, <1>2, <2>1 DEF PublishInv, ViewsFollow, Shows
  <2>2. CASE ~RecordedAsOurs(v)
    <3>1. views' = views /\ disturbed' = disturbed /\ publisher'.projected = publisher.projected
      BY <1>1, <1>2, <2>2
    <3>2. v \in disturbed \/ v \in publisher.projected
      BY <1>1, <2>2, ShownIsOurs DEF PublishInv, ViewsFollow
    <3>3. QED
      BY <1>1, <1>2, <3>1, <3>2 DEF PublishInv, ViewsFollow, Shows
  <2>3. QED
    BY <2>1, <2>2
<1>6. SelectedPlanIsWhole'
  BY <1>1, <1>2 DEF PublishInv, SelectedPlanIsWhole
<1>7. QED
  BY <1>1, <1>2, <1>3, <1>4, <1>5, <1>6 DEF PublishInv

LEMMA RetireKeeps == ASSUME PublishInv, RetireViews PROVE PublishInv'
<1>1. /\ publisher.at = "projecting" /\ publisher.todo = {}
      /\ views' = [v \in Views |-> IF v \in Retired THEN NoView ELSE views[v]]
      /\ publisher' = [publisher EXCEPT !.at = "selecting"]
      /\ UNCHANGED <<directories, pointer, disturbed, viewEdits>>
  BY DEF RetireViews
<1>2. /\ publisher'.at = "selecting" /\ publisher'.todo = {}
      /\ publisher'.files = publisher.files /\ publisher'.generation = publisher.generation
      /\ publisher'.projected = publisher.projected /\ PublisherTyped'
  BY <1>1 DEF PublishInv, PublisherTyped
<1>3. DirectoriesInOrder'
  BY <1>1, <1>2 DEF PublishInv, DirectoriesInOrder
<1>4. PointerHolds'
  BY <1>1, <1>2 DEF PublishInv, PointerHolds
<1>5. ASSUME NEW v \in Views \ disturbed
      PROVE  \/ v \in publisher.projected /\ views'[v] = WrittenView(publisher.generation)
             \/ v \notin publisher.files /\ views'[v] = NoView
  <2>1. CASE v \in publisher.projected /\ views[v] = WrittenView(publisher.generation)
    <3>1. v \in publisher.files
      BY <1>1, <2>1 DEF PublishInv, PublisherTyped
    <3>2. v \notin Retired
      BY <3>1 DEF Retired
    <3>3. QED
      BY <1>1, <2>1, <3>2
  <2>2. CASE v \notin publisher.files /\ Shows(v)
    BY <1>1, <2>2 DEF Shows, Retired
  <2>3. QED
    BY <1>1, <2>1, <2>2 DEF PublishInv, ViewsFollow
<1>6. ViewsFollow'
  BY <1>1, <1>2, <1>5 DEF PublishInv, ViewsFollow
<1>7. SelectedPlanIsWhole'
  BY <1>1, <1>2 DEF PublishInv, SelectedPlanIsWhole
<1>8. QED
  BY <1>1, <1>2, <1>3, <1>4, <1>6, <1>7 DEF PublishInv

LEMMA SelectKeeps == ASSUME PublishInv, SelectGeneration PROVE PublishInv'
<1>1. /\ publisher.at = "selecting" /\ publisher' = NoPublisher
      /\ pointer' = [generation |-> publisher.generation,
                     projected |-> [v \in publisher.projected |-> publisher.generation]]
      /\ UNCHANGED <<directories, views, disturbed, viewEdits>>
  BY DEF SelectGeneration
<1>2. publisher'.at = "idle" /\ PublisherTyped'
  BY <1>1 DEF NoPublisher, PublisherTyped
<1>3. /\ pointer'.generation = publisher.generation
      /\ DOMAIN pointer'.projected = publisher.projected
      /\ \A v \in publisher.projected : pointer'.projected[v] = publisher.generation
  BY <1>1
<1>4. PICK n \in Nat : DOMAIN directories = 1..n /\ publisher.generation = n /\ n > 0
  BY <1>1 DEF PublishInv, DirectoriesInOrder
<1>5. DirectoriesInOrder' /\ PointerHolds'
  BY <1>1, <1>2, <1>3, <1>4 DEF PublishInv, DirectoriesInOrder, PointerHolds
<1>6. \A v \in Views \ disturbed : Shows(v)'
  BY <1>1, <1>3 DEF PublishInv, ViewsFollow, Shows, PublisherTyped
<1>7. ViewsFollow'
  BY <1>1, <1>2, <1>3, <1>6 DEF PublishInv, ViewsFollow, PublisherTyped
<1>8. SelectedPlanIsWhole'
  BY <1>1, <1>2, <1>3 DEF PublishInv, SelectedPlanIsWhole, PublisherTyped
<1>9. QED
  BY <1>1, <1>2, <1>5, <1>7, <1>8 DEF PublishInv

LEMMA PublisherDiesKeeps == ASSUME PublishInv, PublisherDies PROVE PublishInv'
<1>1. /\ publisher.at # "idle" /\ publisher' = NoPublisher
      /\ disturbed' = disturbed \cup {v \in Views : views[v] = WrittenView(publisher.generation)}
                                \cup {v \in DOMAIN pointer.projected : views[v] = NoView}
      /\ UNCHANGED <<directories, pointer, views, viewEdits>>
  BY DEF PublisherDies
<1>2. publisher'.at = "idle" /\ PublisherTyped'
  BY <1>1 DEF NoPublisher, PublisherTyped
<1>3. DirectoriesInOrder' /\ PointerHolds'
  BY <1>1, <1>2 DEF PublishInv, DirectoriesInOrder, PointerHolds
<1>4. \A v \in Views \ disturbed' : Shows(v)'
  BY <1>1 DEF PublishInv, ViewsFollow, Shows
<1>5. ViewsFollow'
  BY <1>1, <1>2, <1>4 DEF PublishInv, ViewsFollow
<1>6. SelectedPlanIsWhole'
  BY <1>1, <1>2 DEF PublishInv, SelectedPlanIsWhole
<1>7. QED
  BY <1>1, <1>2, <1>3, <1>5, <1>6 DEF PublishInv

LEMMA UserEditsKeeps == ASSUME PublishInv, NEW v \in Views, UserEdits(v) PROVE PublishInv'
<1>1. /\ viewEdits' = viewEdits + 1 /\ disturbed' = disturbed \cup {v}
      /\ views' = [views EXCEPT ![v] = IF @ = Users THEN NoView ELSE Users]
      /\ UNCHANGED <<directories, pointer, publisher>>
  BY DEF UserEdits
<1>2. /\ views' = [k \in Views |-> views'[k]]
      /\ \A k \in Views \ {v} : views'[k] = views[k]
  BY <1>1 DEF PublishInv, ViewsFollow
<1>3. ViewsFollow'
  BY <1>1, <1>2 DEF PublishInv, ViewsFollow, Shows
<1>4. QED
  BY <1>1, <1>3 DEF PublishInv, PublisherTyped, DirectoriesInOrder, PointerHolds,
      SelectedPlanIsWhole

LEMMA PublishKept == PublishInv /\ [GenerationNext]_generationVars => PublishInv'
<1>1. SUFFICES ASSUME PublishInv, [GenerationNext]_generationVars PROVE PublishInv'
  OBVIOUS
<1>2. CASE UNCHANGED generationVars
  BY <1>1, <1>2 DEF generationVars, PublishInv, PublisherTyped, DirectoriesInOrder, PointerHolds,
      ViewsFollow, Shows, SelectedPlanIsWhole
<1>3. QED
  BY <1>1, <1>2, BeginKeeps, RenderKeeps, RenderFailsKeeps, RenderEndsKeeps, ProjectKeeps,
     RetireKeeps, SelectKeeps, PublisherDiesKeeps, UserEditsKeeps DEF GenerationNext

(* A view a user holds is not one the publisher takes for its own.         *)
LEMMA UserViewsStay ==
  ASSUME PublishInv, [GenerationNext]_generationVars, viewEdits' = viewEdits,
         NEW v \in Views, views[v] = Users
  PROVE  views'[v] = Users
<1>1. ~RecordedAsOurs(v) /\ v \notin Retired
  BY DEF RecordedAsOurs, Retired, Users, NoView, WrittenView, Legacy
<1>2. ASSUME NEW u \in Views, ProjectView(u) PROVE views'[v] = Users
  BY <1>1, <1>2 DEF ProjectView
<1>3. CASE RetireViews
  BY <1>1, <1>3 DEF RetireViews
<1>4. ASSUME NEW u \in Views, UserEdits(u) PROVE FALSE
  BY <1>4 DEF UserEdits, PublishInv
<1>5. CASE UNCHANGED views
  BY <1>5
<1>6. QED
  BY <1>2, <1>3, <1>4, <1>5 DEF GenerationNext, BeginPublish, RenderFile, RenderFails, RenderEnds,
      SelectGeneration, PublisherDies, generationVars

LEMMA PublishedWhole ==
  PublishInv => SelectedPlanIsWhole /\ OwnViewsFollow
BY DEF PublishInv, ViewsFollow, Shows, OwnViewsFollow

(* Wherever a publisher fails or dies, the selected generation holds its   *)
(* plan's files, what a user wrote stays, and what nobody disturbed shows  *)
(* the selected generation (generated.js).                                 *)
THEOREM PlansPublishedWhole == GenerationSpec => PlansArePublishedWhole
<1>1. GenerationSpec => []PublishInv
  BY PublishInitially, PublishKept, PTL DEF GenerationSpec
<1>2. PublishInv /\ [GenerationNext]_generationVars =>
        [viewEdits' = viewEdits =>
           \A v \in Views : views[v] = Users => views'[v] = Users]_generationVars
  BY UserViewsStay
<1>3. QED
  BY <1>1, <1>2, PublishedWhole, PTL DEF GenerationSpec, PlansArePublishedWhole, UserFilesKept

(***************************************************************************)
(* Moving the notes.  Compared with the roots the last migration began     *)
(* with, a note is where it was, or moved, or, once at a time, copied; a   *)
(* file that was in the default root first is in no record.                *)
(***************************************************************************)
OldTexts == {"old", "late"}
Untouched(n) == legacyRoot[n] = started[1][n]
NoteMoved(n) ==
  legacyRoot[n] = "none" /\ defaultRoot[n] = started[1][n] /\ defaultRoot[n] \in OldTexts
NoteCopied(n) ==
  Untouched(n) /\ defaultRoot[n] = legacyRoot[n] /\ defaultRoot[n] \in OldTexts

RootsTyped ==
  /\ legacyRoot \in [Notes -> OldTexts \cup {"none"}]
  /\ defaultRoot \in [Notes -> OldTexts \cup {"none", "own"}]
  /\ started[1] \in [Notes -> OldTexts \cup {"none"}]

MovingTyped ==
  moving \in [does : {"nothing", "move", "unlink", "record", "restore"},
              left : SUBSET Notes, done : SUBSET Notes]

Underway ==
  /\ moving.does \in {"move", "unlink"} =>
       \A n \in moving.left : defaultRoot[n] = "none" /\ Untouched(n) /\ n \notin moving.done
                                /\ legacyRoot[n] \in OldTexts
  /\ moving.does \in {"move", "unlink", "record"} =>
       /\ \A n \in Notes \ moving.done : Untouched(n)
       /\ latest = NoRecord
  /\ moving.does \in {"move", "record"} => \A n \in moving.done : NoteMoved(n)
  /\ moving.does = "unlink" =>
       \E m \in moving.done : NoteCopied(m) /\ \A n \in moving.done \ {m} : NoteMoved(n)

OthersFiles ==
  /\ \A r \in records : r \subseteq Notes /\ \A n \in r : defaultRoot[n] # "own"
  /\ moving.does = "restore" =>
       moving.left \subseteq moving.done /\ \A n \in moving.done : defaultRoot[n] # "own"

LatestKnown ==
  \/ latest = NoRecord
  \/ \E r \in SUBSET Notes :
       /\ latest = <<r>>
       /\ \A n \in r : started[1][n] # "none" /\ (NoteMoved(n) \/ Untouched(n))
       /\ \A n \in Notes \ r : Untouched(n)
       /\ moving.does = "restore" =>
            moving.done = r /\ \A n \in r \ moving.left : Untouched(n)

MigrationInv == RootsTyped /\ MovingTyped /\ Underway /\ OthersFiles /\ LatestKnown

LEMMA MigrationInitially == MigrationInit => MigrationInv
<1>1. SUFFICES ASSUME MigrationInit PROVE MigrationInv
  OBVIOUS
<1>2. RootsTyped
  BY <1>1 DEF MigrationInit, RootsTyped, OldTexts
<1>3. QED
  BY <1>1, <1>2 DEF MigrationInit, MigrationInv, MovingTyped, Underway, OthersFiles, LatestKnown,
      MigrationRests

LEMMA BeginMigrationKeeps == ASSUME MigrationInv, BeginMigration PROVE MigrationInv'
<1>1. /\ moving' = [does |-> "move", left |-> PlannedMoves, done |-> {}]
      /\ started' = <<legacyRoot, defaultRoot>> /\ latest' = NoRecord
      /\ UNCHANGED <<legacyRoot, defaultRoot, records>>
  BY DEF BeginMigration, roots
<1>2. /\ PlannedMoves \subseteq Notes
      /\ \A n \in PlannedMoves : legacyRoot[n] # "none" /\ defaultRoot[n] = "none"
  BY DEF PlannedMoves, NoteContents
<1>3. RootsTyped' /\ MovingTyped' /\ (\A n \in Notes : Untouched(n)')
  BY <1>1, <1>2 DEF MigrationInv, RootsTyped, MovingTyped, Untouched
<1>4. Underway'
  BY <1>1, <1>2, <1>3 DEF MigrationInv, RootsTyped, Underway
<1>5. OthersFiles' /\ LatestKnown'
  BY <1>1 DEF MigrationInv, OthersFiles, LatestKnown
<1>6. QED
  BY <1>3, <1>4, <1>5 DEF MigrationInv

LEMMA MoveKeeps ==
  ASSUME MigrationInv, NEW n \in Notes, MoveByRename(n) PROVE MigrationInv'
<1>1. /\ moving.does = "move" /\ n \in moving.left
      /\ legacyRoot' = [legacyRoot EXCEPT ![n] = "none"]
      /\ defaultRoot' = [defaultRoot EXCEPT ![n] = legacyRoot[n]]
      /\ moving' = [moving EXCEPT !.left = @ \ {n}, !.done = @ \cup {n}]
      /\ UNCHANGED <<records, started, latest>>
  BY DEF MoveByRename
<1>2. defaultRoot[n] = "none" /\ Untouched(n) /\ legacyRoot[n] \in OldTexts /\ latest = NoRecord
  BY <1>1 DEF MigrationInv, Underway
<1>3. /\ legacyRoot'[n] = "none" /\ defaultRoot'[n] = legacyRoot[n]
      /\ \A k \in Notes \ {n} : legacyRoot'[k] = legacyRoot[k] /\ defaultRoot'[k] = defaultRoot[k]
      /\ RootsTyped'
  BY <1>1, <1>2 DEF MigrationInv, RootsTyped
<1>4. /\ moving'.does = "move" /\ moving'.left = moving.left \ {n}
      /\ moving'.done = moving.done \cup {n} /\ MovingTyped'
  BY <1>1 DEF MigrationInv, MovingTyped
<1>5. NoteMoved(n)'
  BY <1>1, <1>2, <1>3 DEF NoteMoved, Untouched
<1>6. \A k \in Notes \ {n} : Untouched(k)' = Untouched(k) /\ NoteMoved(k)' = NoteMoved(k)
  BY <1>1, <1>3 DEF NoteMoved, Untouched
<1>7. Underway'
  BY <1>1, <1>2, <1>3, <1>4, <1>5, <1>6 DEF MigrationInv, Underway, MovingTyped
<1>8. OthersFiles' /\ LatestKnown'
  BY <1>1, <1>2, <1>3, <1>4 DEF MigrationInv, OthersFiles, LatestKnown, OldTexts
<1>9. QED
  BY <1>3, <1>4, <1>7, <1>8 DEF MigrationInv

LEMMA CopyKeeps ==
  ASSUME MigrationInv, NEW n \in Notes, CopyNote(n) PROVE MigrationInv'
<1>1. /\ moving.does = "move" /\ n \in moving.left /\ legacyRoot' = legacyRoot
      /\ defaultRoot' = [defaultRoot EXCEPT ![n] = legacyRoot[n]]
      /\ moving' = [moving EXCEPT !.does = "unlink", !.left = @ \ {n}, !.done = @ \cup {n}]
      /\ UNCHANGED <<records, started, latest>>
  BY DEF CopyNote
<1>2. defaultRoot[n] = "none" /\ Untouched(n) /\ legacyRoot[n] \in OldTexts /\ latest = NoRecord
  BY <1>1 DEF MigrationInv, Underway
<1>3. /\ defaultRoot'[n] = legacyRoot[n] /\ RootsTyped'
      /\ \A k \in Notes \ {n} : defaultRoot'[k] = defaultRoot[k]
  BY <1>1, <1>2 DEF MigrationInv, RootsTyped
<1>4. /\ moving'.does = "unlink" /\ moving'.left = moving.left \ {n}
      /\ moving'.done = moving.done \cup {n} /\ MovingTyped'
  BY <1>1 DEF MigrationInv, MovingTyped
<1>5. NoteCopied(n)' /\ n \notin moving.done
  BY <1>1, <1>2, <1>3 DEF NoteCopied, Untouched, MigrationInv, Underway
<1>6. \A k \in Notes : Untouched(k)' = Untouched(k)
  BY <1>1 DEF Untouched
<1>7. \A k \in moving.done : NoteMoved(k)'
  BY <1>1, <1>3, <1>5 DEF NoteMoved, MigrationInv, Underway, MovingTyped
<1>8. Underway'
  BY <1>1, <1>2, <1>3, <1>4, <1>5, <1>6, <1>7 DEF MigrationInv, Underway, MovingTyped
<1>9. OthersFiles' /\ LatestKnown'
  BY <1>1, <1>2, <1>3, <1>4 DEF MigrationInv, OthersFiles, LatestKnown, OldTexts
<1>10. QED
  BY <1>3, <1>4, <1>8, <1>9 DEF MigrationInv

(* The note that was copied is the one still in the legacy root.           *)
LEMMA CopiedOne ==
  ASSUME MigrationInv, moving.does = "unlink"
  PROVE  \E m \in moving.done : /\ NoteCopied(m) /\ legacyRoot[m] # "none"
                                /\ \A n \in moving.done \ {m} : NoteMoved(n) /\ legacyRoot[n] = "none"
BY DEF MigrationInv, Underway, NoteCopied, NoteMoved, OldTexts

LEMMA UnlinkKeeps == ASSUME MigrationInv, UnlinkCopied PROVE MigrationInv'
<1>1. PICK m \in moving.done :
        /\ moving.does = "unlink" /\ legacyRoot[m] # "none"
        /\ legacyRoot' = [legacyRoot EXCEPT ![m] = "none"]
        /\ moving' = [moving EXCEPT !.does = "move"]
        /\ UNCHANGED <<defaultRoot, records, started, latest>>
  BY DEF UnlinkCopied
<1>2. NoteCopied(m) /\ \A n \in moving.done \ {m} : NoteMoved(n)
  BY <1>1, CopiedOne
<1>3. m \in Notes /\ latest = NoRecord
  BY <1>1 DEF MigrationInv, MovingTyped, Underway
<1>4. /\ legacyRoot'[m] = "none" /\ (\A k \in Notes \ {m} : legacyRoot'[k] = legacyRoot[k])
      /\ RootsTyped'
  BY <1>1, <1>3 DEF MigrationInv, RootsTyped
<1>5. /\ moving'.does = "move" /\ moving'.left = moving.left /\ moving'.done = moving.done
      /\ MovingTyped'
  BY <1>1 DEF MigrationInv, MovingTyped
<1>6. NoteMoved(m)'
  BY <1>1, <1>2, <1>4 DEF NoteMoved, NoteCopied, Untouched
<1>7. \A k \in Notes \ {m} : Untouched(k)' = Untouched(k) /\ NoteMoved(k)' = NoteMoved(k)
  BY <1>1, <1>4 DEF NoteMoved, Untouched
<1>8. Underway'
  BY <1>1, <1>2, <1>3, <1>4, <1>5, <1>6, <1>7 DEF MigrationInv, Underway, MovingTyped
<1>9. OthersFiles' /\ LatestKnown'
  BY <1>1, <1>3, <1>5 DEF MigrationInv, OthersFiles, LatestKnown
<1>10. QED
  BY <1>4, <1>5, <1>8, <1>9 DEF MigrationInv

LEMMA SkipKeeps ==
  ASSUME MigrationInv, NEW n \in Notes, SkipNote(n) PROVE MigrationInv'
<1>1. /\ \/ moving.does = "move" /\ n \in moving.left
         \/ moving.does = "unlink" /\ n \in moving.done /\ legacyRoot[n] # "none"
      /\ moving' = [does |-> "move", left |-> moving.left \ {n}, done |-> moving.done \ {n}]
      /\ UNCHANGED <<legacyRoot, defaultRoot, records, started, latest>>
  BY DEF SkipNote, roots
<1>2. RootsTyped' /\ MovingTyped' /\ latest = NoRecord
  BY <1>1 DEF MigrationInv, RootsTyped, MovingTyped, Underway
<1>3. /\ Untouched(n) /\ (\A k \in moving.done \ {n} : NoteMoved(k))
      /\ (\A k \in Notes \ moving.done : Untouched(k))
  BY <1>1, CopiedOne DEF MigrationInv, Underway, NoteCopied
<1>4. \A k \in Notes : Untouched(k)' = Untouched(k) /\ NoteMoved(k)' = NoteMoved(k)
  BY <1>1 DEF NoteMoved, Untouched
<1>5. Underway'
  BY <1>1, <1>2, <1>3, <1>4 DEF MigrationInv, Underway, MovingTyped
<1>6. OthersFiles' /\ LatestKnown'
  BY <1>1, <1>2 DEF MigrationInv, OthersFiles, LatestKnown
<1>7. QED
  BY <1>2, <1>5, <1>6 DEF MigrationInv

LEMMA RecordKeeps == ASSUME MigrationInv, WriteMigrationRecord PROVE MigrationInv'
<1>1. /\ moving.does = "record" /\ records' = records \cup {moving.done}
      /\ latest' = <<moving.done>> /\ moving' = MigrationRests
      /\ UNCHANGED <<legacyRoot, defaultRoot, started>>
  BY DEF WriteMigrationRecord, roots
<1>2. RootsTyped' /\ MovingTyped' /\ moving'.does = "nothing" /\ moving.done \in SUBSET Notes
  BY <1>1 DEF MigrationInv, RootsTyped, MovingTyped, MigrationRests
<1>3. \A k \in Notes : Untouched(k)' = Untouched(k) /\ NoteMoved(k)' = NoteMoved(k)
  BY <1>1 DEF NoteMoved, Untouched
<1>4. /\ \A k \in moving.done : NoteMoved(k) /\ defaultRoot[k] # "own" /\ started[1][k] # "none"
      /\ \A k \in Notes \ moving.done : Untouched(k)
  BY <1>1 DEF MigrationInv, Underway, NoteMoved, OldTexts
<1>5. Underway'
  BY <1>2 DEF Underway
<1>6. OthersFiles'
  BY <1>1, <1>2, <1>4 DEF MigrationInv, OthersFiles
<1>7. LatestKnown'
  BY <1>1, <1>2, <1>3, <1>4 DEF LatestKnown
<1>8. QED
  BY <1>2, <1>5, <1>6, <1>7 DEF MigrationInv

LEMMA BeginRollbackKeeps ==
  ASSUME MigrationInv, NEW r \in records, BeginRollback(r) PROVE MigrationInv'
<1>1. /\ moving.does = "nothing" /\ moving' = [does |-> "restore", left |-> r, done |-> r]
      /\ latest' = IF latest = <<r>> THEN latest ELSE NoRecord
      /\ UNCHANGED <<legacyRoot, defaultRoot, records, started>>
  BY DEF BeginRollback, roots
<1>2. /\ moving'.does = "restore" /\ moving'.left = r /\ moving'.done = r /\ r \in SUBSET Notes
      /\ RootsTyped' /\ MovingTyped'
  BY <1>1 DEF MigrationInv, RootsTyped, MovingTyped, OthersFiles
<1>3. \A k \in Notes : Untouched(k)' = Untouched(k) /\ NoteMoved(k)' = NoteMoved(k)
  BY <1>1 DEF NoteMoved, Untouched
<1>4. Underway' /\ OthersFiles'
  BY <1>1, <1>2 DEF MigrationInv, Underway, OthersFiles
<1>5. LatestKnown'
  <2>1. CASE latest = <<r>> /\ latest # NoRecord
    <3>1. PICK q \in SUBSET Notes : /\ latest = <<q>>
                                    /\ \A n \in q : /\ started[1][n] # "none"
                                                    /\ NoteMoved(n) \/ Untouched(n)
                                    /\ \A n \in Notes \ q : Untouched(n)
      BY <2>1 DEF MigrationInv, LatestKnown
    <3>2. q = r
      <4>1. <<q>>[1] = <<r>>[1]
        BY <2>1, <3>1
      <4>2. QED
        BY <4>1
    <3>3. QED
      BY <1>1, <1>2, <1>3, <2>1, <3>1, <3>2 DEF LatestKnown
  <2>2. CASE latest' = NoRecord
    BY <2>2 DEF LatestKnown
  <2>3. QED
    BY <1>1, <2>1, <2>2
<1>6. QED
  BY <1>2, <1>4, <1>5 DEF MigrationInv

LEMMA RestoreKeeps ==
  ASSUME MigrationInv, NEW n \in Notes, RestoreNote(n) PROVE MigrationInv'
<1>1. /\ moving.does = "restore" /\ n \in moving.left
      /\ \/ /\ Restorable(n)
            /\ legacyRoot' = [legacyRoot EXCEPT ![n] = defaultRoot[n]]
            /\ defaultRoot' = [defaultRoot EXCEPT ![n] = "none"]
         \/ ~Restorable(n) /\ UNCHANGED <<legacyRoot, defaultRoot>>
      /\ moving' = [moving EXCEPT !.left = @ \ {n}]
      /\ UNCHANGED <<records, started, latest>>
  BY DEF RestoreNote, roots
<1>2. moving.left \subseteq moving.done /\ n \in moving.done /\ defaultRoot[n] # "own"
  BY <1>1 DEF MigrationInv, OthersFiles
<1>3. /\ moving'.does = "restore" /\ moving'.left = moving.left \ {n}
      /\ moving'.done = moving.done /\ MovingTyped'
  BY <1>1 DEF MigrationInv, MovingTyped
<1>4. /\ \A k \in Notes \ {n} : legacyRoot'[k] = legacyRoot[k] /\ defaultRoot'[k] = defaultRoot[k]
      /\ defaultRoot'[n] # "own" /\ RootsTyped'
  BY <1>1, <1>2 DEF MigrationInv, RootsTyped, OldTexts, Restorable
<1>5. \A k \in Notes \ {n} : Untouched(k)' = Untouched(k) /\ NoteMoved(k)' = NoteMoved(k)
  BY <1>1, <1>4 DEF NoteMoved, Untouched
<1>6. started[1][n] # "none" /\ (NoteMoved(n) \/ Untouched(n)) => Untouched(n)'
  <2>1. CASE Restorable(n)
    <3>1. legacyRoot'[n] = defaultRoot[n] /\ legacyRoot[n] = "none" /\ started' = started
      BY <1>1, <2>1 DEF Restorable, MigrationInv, RootsTyped
    <3>2. QED
      BY <3>1 DEF NoteMoved, Untouched
  <2>2. CASE ~Restorable(n)
    BY <1>1, <2>2 DEF NoteMoved, Untouched, Restorable, OldTexts
  <2>3. QED
    BY <2>1, <2>2
<1>7. Underway' /\ OthersFiles'
  <2>1. \A k \in Notes : defaultRoot[k] # "own" => defaultRoot'[k] # "own"
    BY <1>4
  <2>2. QED
    BY <1>1, <1>2, <1>3, <2>1 DEF MigrationInv, Underway, OthersFiles, MovingTyped
<1>8. LatestKnown'
  <2>1. CASE latest = NoRecord
    BY <1>1, <2>1 DEF LatestKnown
  <2>2. CASE latest # NoRecord
    <3>1. PICK r \in SUBSET Notes :
            /\ latest = <<r>> /\ moving.done = r
            /\ \A k \in r : started[1][k] # "none" /\ (NoteMoved(k) \/ Untouched(k))
            /\ \A k \in Notes \ r : Untouched(k)
            /\ \A k \in r \ moving.left : Untouched(k)
      BY <1>1, <2>2 DEF MigrationInv, LatestKnown
    <3>2. Untouched(n)' /\ latest' = <<r>>
      BY <1>1, <1>2, <1>6, <3>1
    <3>3. /\ \A k \in r : started'[1][k] # "none" /\ (NoteMoved(k)' \/ Untouched(k)')
          /\ \A k \in Notes \ r : Untouched(k)'
          /\ \A k \in r \ moving'.left : Untouched(k)'
      BY <1>1, <1>3, <1>5, <3>1, <3>2
    <3>4. QED
      BY <1>3, <3>1, <3>2, <3>3 DEF LatestKnown
  <2>3. QED
    BY <2>1, <2>2
<1>9. QED
  BY <1>3, <1>4, <1>7, <1>8 DEF MigrationInv

LEMMA WriteNoteKeeps ==
  ASSUME MigrationInv, NEW n \in Notes, WriteNote(n) PROVE MigrationInv'
<1>1. /\ moving.does = "nothing" /\ latest' = NoRecord
      /\ \/ legacyRoot' = [legacyRoot EXCEPT ![n] = "late"] /\ defaultRoot' = defaultRoot
         \/ defaultRoot' = [defaultRoot EXCEPT ![n] = "late"] /\ legacyRoot' = legacyRoot
      /\ UNCHANGED <<moving, records, started>>
  BY DEF WriteNote
<1>2. RootsTyped' /\ MovingTyped' /\ \A k \in Notes : defaultRoot[k] # "own" => defaultRoot'[k] # "own"
  BY <1>1 DEF MigrationInv, RootsTyped, MovingTyped, OldTexts
<1>3. Underway' /\ LatestKnown'
  BY <1>1 DEF MigrationInv, Underway, LatestKnown
<1>4. OthersFiles'
  BY <1>1, <1>2 DEF MigrationInv, OthersFiles
<1>5. QED
  BY <1>2, <1>3, <1>4 DEF MigrationInv

(* Pruning, and the ends of a roll-back or of the process.                 *)
LEMMA RestKeeps ==
  ASSUME MigrationInv, UNCHANGED <<legacyRoot, defaultRoot, records, started, latest>>,
         \/ PruneLegacy \/ EndRollback \/ MigratorDies \/ UNCHANGED moving
  PROVE  MigrationInv'
<1>1. \A k \in Notes : Untouched(k)' = Untouched(k) /\ NoteMoved(k)' = NoteMoved(k)
                         /\ NoteCopied(k)' = NoteCopied(k)
  BY DEF NoteMoved, Untouched, NoteCopied
<1>2. CASE PruneLegacy
  <2>1. /\ moving.does = "move" /\ moving'.does = "record" /\ moving'.done = moving.done
        /\ MovingTyped' /\ moving.done \subseteq Notes
    BY <1>2 DEF PruneLegacy, MigrationInv, MovingTyped
  <2>2. QED
    <3>1. Underway' /\ latest = NoRecord
      BY <1>1, <2>1 DEF MigrationInv, Underway
    <3>2. QED
      BY <2>1, <3>1 DEF MigrationInv, RootsTyped, OthersFiles, LatestKnown
<1>3. CASE EndRollback \/ MigratorDies
  <2>1. moving'.does = "nothing" /\ MovingTyped'
    BY <1>3 DEF EndRollback, MigratorDies, MigrationRests, MovingTyped
  <2>2. LatestKnown'
    BY <1>1, <2>1 DEF MigrationInv, LatestKnown
  <2>3. QED
    BY <2>1, <2>2 DEF MigrationInv, RootsTyped, Underway, OthersFiles
<1>4. CASE UNCHANGED moving
  <2>1. Underway'
    BY <1>1, <1>4 DEF MigrationInv, Underway, MovingTyped
  <2>2. LatestKnown'
    BY <1>1, <1>4 DEF MigrationInv, LatestKnown
  <2>3. QED
    BY <1>4, <2>1, <2>2 DEF MigrationInv, RootsTyped, MovingTyped, OthersFiles
<1>5. QED
  BY <1>2, <1>3, <1>4

LEMMA MigrationKept == MigrationInv /\ [MigrationNext]_migrationVars => MigrationInv'
<1>1. SUFFICES ASSUME MigrationInv, [MigrationNext]_migrationVars PROVE MigrationInv'
  OBVIOUS
<1>2. CASE PruneLegacy \/ EndRollback \/ MigratorDies
  <2>1. UNCHANGED <<legacyRoot, defaultRoot, records, started, latest>>
    BY <1>2 DEF PruneLegacy, EndRollback, MigratorDies, roots
  <2>2. QED
    BY <1>1, <1>2, <2>1, RestKeeps
<1>3. CASE UNCHANGED migrationVars
  <2>1. UNCHANGED <<legacyRoot, defaultRoot, records, started, latest, moving>>
    BY <1>3 DEF migrationVars
  <2>2. QED
    BY <1>1, <2>1, RestKeeps
<1>4. QED
  BY <1>1, <1>2, <1>3, BeginMigrationKeeps, MoveKeeps, CopyKeeps, UnlinkKeeps, SkipKeeps,
     RecordKeeps, BeginRollbackKeeps, RestoreKeeps, WriteNoteKeeps DEF MigrationNext

(* What one step does to the text of a note in the two roots.              *)
TextKept(n) ==
  /\ \A text \in {"old", "own", "late"} :
       text \in {legacyRoot[n], defaultRoot[n]} => text \in {legacyRoot'[n], defaultRoot'[n]}
  /\ defaultRoot[n] = "own" => defaultRoot'[n] = "own"

LEMMA TextsStay ==
  ASSUME MigrationInv, [MigrationNext]_migrationVars, NEW n \in Notes
  PROVE  TextKept(n)
<1>1. /\ legacyRoot \in [Notes -> OldTexts \cup {"none"}]
      /\ defaultRoot \in [Notes -> OldTexts \cup {"none", "own"}]
  BY DEF MigrationInv, RootsTyped
<1>2. CASE UNCHANGED <<legacyRoot, defaultRoot>>
  BY <1>2 DEF TextKept
<1>3. ASSUME NEW k \in Notes, MoveByRename(k) \/ CopyNote(k) PROVE TextKept(n)
  <2>1. defaultRoot[k] = "none"
    BY <1>3 DEF MoveByRename, CopyNote, MigrationInv, Underway
  <2>2. QED
    BY <1>1, <1>3, <2>1 DEF MoveByRename, CopyNote, TextKept
<1>4. CASE UnlinkCopied
  <2>1. PICK m \in moving.done :
          /\ moving.does = "unlink" /\ legacyRoot[m] # "none"
          /\ legacyRoot' = [legacyRoot EXCEPT ![m] = "none"] /\ defaultRoot' = defaultRoot
    BY <1>4 DEF UnlinkCopied
  <2>2. defaultRoot[m] = legacyRoot[m]
    BY <2>1, CopiedOne DEF NoteCopied
  <2>3. QED
    BY <1>1, <2>1, <2>2 DEF TextKept
<1>5. ASSUME NEW k \in Notes, RestoreNote(k) PROVE TextKept(n)
  <2>1. defaultRoot[k] # "own"
    BY <1>5 DEF RestoreNote, MigrationInv, OthersFiles
  <2>2. QED
    BY <1>1, <1>5, <2>1 DEF RestoreNote, Restorable, TextKept, roots
<1>6. ASSUME NEW k \in Notes, WriteNote(k) PROVE TextKept(n)
  BY <1>1, <1>6 DEF WriteNote, TextKept
<1>7. QED
  BY <1>2, <1>3, <1>4, <1>5, <1>6 DEF MigrationNext, migrationVars, roots, BeginMigration, SkipNote,
      PruneLegacy, WriteMigrationRecord, EndRollback, MigratorDies, BeginRollback

LEMMA LatestRestored == MigrationInv => NotesRollbackRestores
<1>1. SUFFICES ASSUME MigrationInv, moving.does = "restore", moving.left = {},
                      latest = <<moving.done>>
               PROVE  legacyRoot = started[1]
  BY DEF NotesRollbackRestores
<1>2. latest # NoRecord
  BY <1>1 DEF NoRecord
<1>3. \A n \in Notes : Untouched(n)
  BY <1>1, <1>2 DEF MigrationInv, LatestKnown
<1>4. QED
  BY <1>1, <1>3 DEF MigrationInv, RootsTyped, Untouched

(* In whatever order migrations, crashes, roll-backs and new documents     *)
(* come, no text disappears from both roots, a file that was in the        *)
(* default root first stays, and rolling the latest migration back puts    *)
(* the legacy root back (knowledge/migrate.js).                            *)
THEOREM MigrationsKeepTexts ==
  MigrationSpec => NoTextIsLost /\ OwnFilesStay /\ []NotesRollbackRestores
<1>1. MigrationSpec => []MigrationInv
  BY MigrationInitially, MigrationKept, PTL DEF MigrationSpec
<1>2. MigrationInv /\ [MigrationNext]_migrationVars =>
        /\ [\A n \in Notes, text \in {"old", "own", "late"} :
              text \in {legacyRoot[n], defaultRoot[n]} =>
                text \in {legacyRoot'[n], defaultRoot'[n]}]_migrationVars
        /\ [\A n \in Notes : defaultRoot[n] = "own" => defaultRoot'[n] = "own"]_migrationVars
  BY TextsStay DEF TextKept
<1>3. QED
  BY <1>1, <1>2, LatestRestored, PTL DEF MigrationSpec, NoTextIsLost, OwnFilesStay

(***************************************************************************)
(* The knowledge store.  A writer between taking and releasing its lock    *)
(* holds it, unless somebody broke it.                                     *)
(***************************************************************************)
DocumentTexts == Writers \cup {Original, Nothing}
OperationFields == {"op", "doc", "at", "base", "seals"}
Inside == {"check", "write", "sidecar", "drop", "release", "seal", "sealing", "remove"}

OperationTyped(r) ==
  /\ DOMAIN r = OperationFields /\ r = [f \in OperationFields |-> r[f]]
  /\ r.at \in Inside \cup {"idle", "lock", "break", "over"} /\ r.base \in DocumentTexts
  /\ IF r.at = "idle" THEN r.op = "none" ELSE r.op \in Operations /\ r.doc \in Documents
  /\ r.at \in {"seal", "sealing", "remove"} => r.op = "archive"

StoreTyped ==
  /\ writer = [w \in Writers |-> writer[w]] /\ \A w \in Writers : OperationTyped(writer[w])
  /\ live \in [Documents -> DocumentTexts]
  /\ archived = [d \in Documents |-> archived[d]]
  /\ lockDir \in [Keys -> Writers \cup {Nothing}]

Holds(w) == writer[w].at \in Inside => lockDir[KeyOf(w)] = w \/ KeyOf(w) \in broken

LocksInv == StoreTyped /\ \A w \in Writers : Holds(w)

LEMMA LocksInitially == KnowledgeInit => LocksInv
BY DEF KnowledgeInit, LocksInv, StoreTyped, Holds, OperationTyped, OperationFields, NotStarted,
  DocumentTexts, Inside

LEMMA GoMoves ==
  ASSUME StoreTyped, NEW w \in Writers, NEW place, Go(w, place)
  PROVE  /\ writer' = [u \in Writers |-> writer'[u]]
         /\ \A u \in Writers \ {w} : writer'[u] = writer[u]
         /\ DOMAIN writer'[w] = OperationFields
         /\ writer'[w] = [f \in OperationFields |-> writer'[w][f]]
         /\ writer'[w].at = place /\ writer'[w].op = writer[w].op /\ writer'[w].doc = writer[w].doc
         /\ writer'[w].base = writer[w].base /\ writer'[w].seals = writer[w].seals
         /\ KeyOf(w)' = KeyOf(w)
<1>1. OperationTyped(writer[w]) /\ writer = [u \in Writers |-> writer[u]]
  BY DEF StoreTyped
<1> DEFINE r == [writer[w] EXCEPT !.at = place]
<1>2. /\ DOMAIN r = OperationFields /\ r = [f \in OperationFields |-> r[f]]
      /\ r.at = place /\ r.op = writer[w].op /\ r.doc = writer[w].doc
      /\ r.base = writer[w].base /\ r.seals = writer[w].seals
  BY <1>1 DEF OperationTyped, OperationFields
<1>3. writer' = [writer EXCEPT ![w] = r]
  BY DEF Go
<1> HIDE DEF r
<1>4. /\ writer' = [u \in Writers |-> writer'[u]] /\ writer'[w] = r
      /\ \A u \in Writers \ {w} : writer'[u] = writer[u]
  BY <1>1, <1>3
<1>5. QED
  BY <1>2, <1>4 DEF KeyOf

LEMMA KeysAreKeys ==
  ASSUME StoreTyped, NEW w \in Writers, writer[w].at # "idle"
  PROVE  KeyOf(w) \in Keys
BY DEF StoreTyped, OperationTyped, KeyOf, LockKey, Keys, Operations

LEMMA OneWriterMoves ==
  ASSUME StoreTyped, NEW w \in Writers, WriterStep(w)
  PROVE  /\ writer' = [u \in Writers |-> writer'[u]]
         /\ \A u \in Writers \ {w} : writer'[u] = writer[u]
         /\ OperationTyped(writer'[w])
         /\ writer[w].at # "idle" =>
              /\ writer'[w].op = writer[w].op /\ writer'[w].doc = writer[w].doc
              /\ KeyOf(w)' = KeyOf(w)
         /\ writer'[w].at # "idle"
         /\ writer'[w].at \in Inside => writer[w].at \in Inside \/ TakeLock(w)
<1> DEFINE Moved == /\ writer' = [u \in Writers |-> writer'[u]]
                    /\ \A u \in Writers \ {w} : writer'[u] = writer[u]
                    /\ OperationTyped(writer'[w])
                    /\ writer[w].at # "idle" =>
                         /\ writer'[w].op = writer[w].op /\ writer'[w].doc = writer[w].doc
                         /\ KeyOf(w)' = KeyOf(w)
                    /\ writer'[w].at # "idle"
                    /\ writer'[w].at \in Inside => writer[w].at \in Inside \/ TakeLock(w)
<1>1. OperationTyped(writer[w]) /\ writer = [u \in Writers |-> writer[u]]
      /\ live \in [Documents -> DocumentTexts]
  BY DEF StoreTyped
<1>2. ASSUME NEW place \in Inside \cup {"lock", "break", "over"}, Go(w, place),
             writer[w].at # "idle",
             place \in {"seal", "sealing", "remove"} => writer[w].op = "archive",
             place \in Inside => writer[w].at \in Inside \/ TakeLock(w)
      PROVE  Moved
  BY <1>1, <1>2, GoMoves DEF OperationTyped, Inside
<1>3. ASSUME NEW op \in Operations, NEW d \in Documents, StartOperation(w, op, d) PROVE Moved
  <2> DEFINE r == [op |-> op, doc |-> d, at |-> "lock", base |-> live[d], seals |-> Nothing]
  <2>1. OperationTyped(r) /\ r.at = "lock"
    BY <1>1 DEF OperationTyped, OperationFields, Inside
  <2>2. writer' = [writer EXCEPT ![w] = r] /\ writer[w].at = "idle"
    BY <1>3 DEF StartOperation, At
  <2> HIDE DEF r
  <2>3. QED
    BY <1>1, <2>1, <2>2 DEF Inside
<1>4. CASE TakeLock(w)
  BY <1>2, <1>4 DEF TakeLock, At, Inside
<1>5. CASE BreakLock(w) \/ ReleaseLock(w) \/ KnowledgeWriterDies(w)
  BY <1>2, <1>5 DEF BreakLock, ReleaseLock, KnowledgeWriterDies, At, Inside
<1>6. CASE CheckFiles(w)
  <2> DEFINE at == IF AdmitsLock(writer[w].op, writer[w].doc, writer[w].base)
                   THEN "write" ELSE "release"
             base == IF writer[w].op = "archive" THEN live[writer[w].doc] ELSE writer[w].base
             r == [writer[w] EXCEPT !.at = at, !.base = base]
  <2>1. writer' = [writer EXCEPT ![w] = r] /\ writer[w].at = "check"
    BY <1>6 DEF CheckFiles, At
  <2>2. at \in {"write", "release"} /\ base \in DocumentTexts
    BY <1>1, <2>1 DEF OperationTyped
  <2> HIDE DEF at, base
  <2>3. /\ OperationTyped(r) /\ r.at = at /\ r.op = writer[w].op /\ r.doc = writer[w].doc
    BY <1>1, <2>1, <2>2 DEF OperationTyped, OperationFields, Inside
  <2> HIDE DEF r
  <2>4. QED
    BY <1>1, <2>1, <2>2, <2>3 DEF Inside, KeyOf
<1>7. CASE ReadManifest(w)
  <2> DEFINE r == [writer[w] EXCEPT !.at = "sealing", !.seals = sealList]
  <2>1. writer' = [writer EXCEPT ![w] = r] /\ writer[w].at = "seal"
    BY <1>7 DEF ReadManifest, At
  <2>2. /\ OperationTyped(r) /\ r.at = "sealing" /\ r.op = writer[w].op /\ r.doc = writer[w].doc
    BY <1>1, <2>1 DEF OperationTyped, OperationFields, Inside
  <2> HIDE DEF r
  <2>3. QED
    BY <1>1, <2>1, <2>2 DEF Inside, KeyOf
<1>8. CASE WriteDocument(w) \/ WriteSidecar(w) \/ InvalidateIndex(w) \/ MoveSidecar(w)
  BY <1>2, <1>8 DEF WriteDocument, WriteSidecar, InvalidateIndex, MoveSidecar, At, Inside
<1>9. CASE WriteArchive(w) \/ SealArchived(w) \/ RemoveSource(w)
  BY <1>1, <1>2, <1>9 DEF WriteArchive, SealArchived, RemoveSource, At, Inside, OperationTyped
<1>10. QED
  BY <1>3, <1>4, <1>5, <1>6, <1>7, <1>8, <1>9 DEF WriterStep

(* Two writers inside under one unbroken lock are one.                     *)
LEMMA Exclusive ==
  ASSUME LocksInv, NEW w \in Writers, NEW u \in Writers, KeyOf(w) = KeyOf(u),
         writer[w].at \in Inside, writer[u].at \in Inside
  PROVE  w = u \/ KeyOf(w) \in broken
BY DEF LocksInv, Holds

(* What a step of a writer does to the locks.                              *)
LEMMA LockMoves ==
  ASSUME StoreTyped, NEW w \in Writers, WriterStep(w)
  PROVE  /\ lockDir' \in [Keys -> Writers \cup {Nothing}] /\ broken \subseteq broken'
         /\ \/ lockDir' = lockDir /\ ~(writer[w].at \notin Inside /\ writer'[w].at \in Inside)
            \/ /\ writer[w].at = "lock" /\ lockDir[KeyOf(w)] = Nothing
               /\ lockDir' = [lockDir EXCEPT ![KeyOf(w)] = w]
            \/ /\ writer[w].at = "break" /\ KeyOf(w) \in broken'
               /\ lockDir' = [lockDir EXCEPT ![KeyOf(w)] = Nothing]
            \/ /\ writer[w].at = "release" /\ writer'[w].at = "over"
               /\ lockDir' = [lockDir EXCEPT ![KeyOf(w)] = Nothing]
<1>1. lockDir \in [Keys -> Writers \cup {Nothing}]
  BY DEF StoreTyped
<1>2. CASE TakeLock(w)
  <2>1. writer[w].at = "lock" /\ broken' = broken
    BY <1>2 DEF TakeLock, At
  <2>2. CASE lockDir[KeyOf(w)] = Nothing
    <3>1. lockDir' = [lockDir EXCEPT ![KeyOf(w)] = w]
      BY <1>2, <2>2 DEF TakeLock
    <3>2. QED
      BY <1>1, <2>1, <2>2, <3>1
  <2>3. CASE lockDir[KeyOf(w)] # Nothing
    <3>1. lockDir' = lockDir /\ (Go(w, "break") \/ Go(w, "over"))
      BY <1>2, <2>3 DEF TakeLock
    <3>2. writer'[w].at \in {"break", "over"}
      BY <3>1, GoMoves
    <3>3. QED
      BY <1>1, <2>1, <3>1, <3>2 DEF Inside
  <2>4. QED
    BY <2>2, <2>3
<1>3. CASE BreakLock(w)
  BY <1>1, <1>3, GoMoves DEF BreakLock, At, Inside
<1>4. CASE ReleaseLock(w)
  BY <1>1, <1>4, GoMoves DEF ReleaseLock, At, Inside
<1>5. CASE ~(TakeLock(w) \/ BreakLock(w) \/ ReleaseLock(w))
  <2>1. lockDir' = lockDir /\ broken' = broken
    BY <1>5 DEF WriterStep, locks, StartOperation, CheckFiles, WriteDocument, WriteSidecar,
        InvalidateIndex, WriteArchive, ReadManifest, SealArchived, RemoveSource, MoveSidecar,
        KnowledgeWriterDies
  <2>2. QED
    BY <1>1, <1>5, <2>1, OneWriterMoves
<1>6. QED
  BY <1>2, <1>3, <1>4, <1>5

(* What a step of the store leaves of its documents.                       *)
LEMMA TextsMove ==
  ASSUME StoreTyped, NEW w \in Writers, WriterStep(w)
  PROVE  /\ \/ live' = live
            \/ /\ WriteDocument(w) /\ live' = [live EXCEPT ![writer[w].doc] = w]
            \/ /\ RemoveSource(w) /\ live' = [live EXCEPT ![writer[w].doc] = Nothing]
         /\ \/ archived' = archived
            \/ /\ WriteArchive(w)
               /\ archived' = [archived EXCEPT ![writer[w].doc] = <<writer[w].base, w>>]
         /\ sealList' = sealList \/ SealArchived(w)
         /\ known' = known \/ WriteDocument(w)
BY DEF WriterStep, diskFiles, StartOperation, TakeLock, BreakLock, ReleaseLock, CheckFiles,
  WriteDocument, WriteSidecar, InvalidateIndex, WriteArchive, ReadManifest, SealArchived,
  RemoveSource, MoveSidecar, KnowledgeWriterDies

LEMMA LocksKept == LocksInv /\ [KnowledgeNext]_knowledgeVars => LocksInv'
<1>1. SUFFICES ASSUME LocksInv, [KnowledgeNext]_knowledgeVars PROVE LocksInv'
  OBVIOUS
<1>2. ASSUME NEW w \in Writers, WriterStep(w) PROVE LocksInv'
  <2>1. StoreTyped /\ OperationTyped(writer[w]) /\ Holds(w)
    BY <1>1 DEF LocksInv, StoreTyped
  <2>2. live' \in [Documents -> DocumentTexts] /\ archived' = [d \in Documents |-> archived'[d]]
    BY <1>2, <2>1, TextsMove DEF StoreTyped, DocumentTexts
  <2>3. StoreTyped'
    BY <1>2, <2>1, <2>2, OneWriterMoves, LockMoves DEF StoreTyped
  <2>4. ASSUME NEW u \in Writers \ {w} PROVE Holds(u)'
    <3>1. Holds(u) /\ writer'[u] = writer[u] /\ KeyOf(u)' = KeyOf(u)
      BY <1>1, <1>2, <2>1, OneWriterMoves DEF LocksInv, KeyOf
    <3>2. SUFFICES ASSUME writer[u].at \in Inside, KeyOf(u) \notin broken'
                   PROVE  lockDir'[KeyOf(u)] = u
      BY <3>1 DEF Holds
    <3>3. KeyOf(u) \notin broken /\ lockDir[KeyOf(u)] = u
      BY <1>2, <2>1, <3>1, <3>2, LockMoves DEF Holds
    <3>4. KeyOf(w) = KeyOf(u) => writer[w].at # "release" /\ lockDir[KeyOf(w)] # Nothing
                                   /\ ~(KeyOf(w) \in broken')
      BY <1>1, <2>1, <3>2, <3>3, KnowledgeAssumption DEF Holds, Inside
    <3>5. KeyOf(u) \in Keys
      BY <2>1, <3>2, KeysAreKeys DEF Inside
    <3>6. QED
      BY <1>2, <2>1, <3>3, <3>4, <3>5, LockMoves DEF StoreTyped
  <2>5. Holds(w)'
    <3>1. SUFFICES ASSUME writer'[w].at \in Inside
                   PROVE  lockDir'[KeyOf(w)'] = w \/ KeyOf(w)' \in broken'
      BY DEF Holds
    <3>2. writer[w].at # "idle" /\ KeyOf(w)' = KeyOf(w)
      BY <1>2, <2>1, <3>1, OneWriterMoves DEF Inside, TakeLock, At
    <3>3. KeyOf(w) \in Keys
      BY <2>1, <3>2, KeysAreKeys
    <3>4. \/ writer[w].at \in Inside /\ lockDir' = lockDir
          \/ lockDir' = [lockDir EXCEPT ![KeyOf(w)] = w] \/ KeyOf(w) \in broken'
      BY <1>2, <2>1, <3>1, LockMoves DEF Inside
    <3>5. QED
      BY <1>2, <2>1, <3>2, <3>3, <3>4, LockMoves DEF Holds, StoreTyped
  <2>6. QED
    BY <2>3, <2>4, <2>5 DEF LocksInv
<1>3. CASE (\E k \in Keys : LockAges(k)) \/ BuildIndex \/ WriteIndex \/ UNCHANGED knowledgeVars
  BY <1>1, <1>3 DEF LockAges, BuildIndex, WriteIndex, knowledgeVars, diskFiles, locks, LocksInv,
     StoreTyped, Holds, KeyOf
<1>4. QED
  BY <1>1, <1>2, <1>3 DEF KnowledgeNext

(***************************************************************************)
(* Archiving.  An archiver that will write finds the destination free, and *)
(* its text stays there; so a seal, read before another was written, still *)
(* agrees with the text it names, unless the archive's lock was broken.    *)
(***************************************************************************)
SealFits(seal, d) == seal = Nothing \/ seal = archived[d] \/ LockKey("archive", d) \in broken

ArchiverFits(w) ==
  writer[w].op = "archive" =>
    /\ writer[w].at = "write" => archived[writer[w].doc] = Nothing \/ KeyOf(w) \in broken
    /\ writer[w].at \in {"seal", "sealing"} =>
         archived[writer[w].doc] = <<writer[w].base, w>> \/ KeyOf(w) \in broken
    /\ writer[w].at \in {"seal", "sealing", "remove"} => archived[writer[w].doc] # Nothing
    /\ writer[w].at = "sealing" =>
         /\ writer[w].seals = [d \in Documents |-> writer[w].seals[d]]
         /\ \A d \in Documents : SealFits(writer[w].seals[d], d)

UpdateFits(w) ==
  writer[w].at = "write" /\ writer[w].op = "update" =>
    \/ live[writer[w].doc] = writer[w].base \/ KeyOf(w) \in broken \/ Archiving(writer[w].doc)

DocumentsInv ==
  /\ \A w \in Writers : ArchiverFits(w) /\ UpdateFits(w)
  /\ sealList = [d \in Documents |-> sealList[d]] /\ \A d \in Documents : SealFits(sealList[d], d)
  /\ known \subseteq Documents /\ \A d \in known : live[d] # Nothing \/ archived[d] # Nothing

LEMMA DocumentsInitially == KnowledgeInit => DocumentsInv
BY DEF KnowledgeInit, DocumentsInv, ArchiverFits, UpdateFits, SealFits, NotStarted

(* Nothing is archived over a text, except under a broken lock.            *)
LEMMA ArchivedStays ==
  ASSUME LocksInv, DocumentsInv, NEW w \in Writers, WriterStep(w), NEW d \in Documents
  PROVE  /\ archived[d] # Nothing => archived'[d] # Nothing
         /\ \/ archived'[d] = archived[d]
            \/ /\ WriteArchive(w) /\ writer[w].doc = d /\ archived'[d] = <<writer[w].base, w>>
               /\ archived[d] = Nothing \/ KeyOf(w) \in broken
         /\ \A seal : SealFits(seal, d) => SealFits(seal, d)'
<1>1. StoreTyped /\ OperationTyped(writer[w]) /\ ArchiverFits(w) /\ broken \subseteq broken'
  BY LockMoves DEF LocksInv, StoreTyped, DocumentsInv
<1>2. CASE archived'[d] = archived[d]
  BY <1>1, <1>2 DEF SealFits, LockKey
<1>3. CASE archived'[d] # archived[d]
  <2>1. /\ WriteArchive(w) /\ archived' = [archived EXCEPT ![writer[w].doc] = <<writer[w].base, w>>]
        /\ writer[w].at = "write" /\ writer[w].op = "archive"
    BY <1>1, <1>3, TextsMove DEF WriteArchive, At
  <2>2. writer[w].doc = d /\ archived'[d] = <<writer[w].base, w>> /\ <<writer[w].base, w>> # Nothing
    BY <1>1, <1>3, <2>1, KnowledgeAssumption DEF StoreTyped, OperationTyped, DocumentTexts
  <2>3. archived[d] = Nothing \/ KeyOf(w) \in broken
    BY <1>1, <2>1, <2>2 DEF ArchiverFits
  <2>4. KeyOf(w) = LockKey("archive", d)
    BY <2>1, <2>2 DEF KeyOf
  <2>5. QED
    BY <1>1, <2>1, <2>2, <2>3, <2>4 DEF SealFits, LockKey
<1>4. QED
  BY <1>2, <1>3

(* A writer that stands still while another steps.                         *)
LEMMA OthersFit ==
  ASSUME LocksInv, DocumentsInv, NEW w \in Writers, WriterStep(w), NEW u \in Writers \ {w}
  PROVE  ArchiverFits(u)' /\ UpdateFits(u)'
<1>1. /\ StoreTyped /\ OperationTyped(writer[u]) /\ ArchiverFits(u) /\ UpdateFits(u)
      /\ broken \subseteq broken'
  BY LockMoves DEF LocksInv, StoreTyped, DocumentsInv
<1>2. writer'[u] = writer[u] /\ KeyOf(u)' = KeyOf(u)
  BY <1>1, OneWriterMoves DEF KeyOf
<1>3. ASSUME writer[u].op = "archive", writer[u].at \in {"write", "seal", "sealing", "remove"}
      PROVE  /\ archived[writer[u].doc] # Nothing => archived'[writer[u].doc] # Nothing
             /\ archived'[writer[u].doc] = archived[writer[u].doc] \/ KeyOf(u) \in broken
                  \/ writer[u].at = "remove"
  <2>1. writer[u].doc \in Documents
    BY <1>1, <1>3 DEF OperationTyped
  <2>2. ASSUME WriteArchive(w), writer[w].doc = writer[u].doc, writer[u].at # "remove"
        PROVE  KeyOf(u) \in broken
    <3>1. KeyOf(w) = KeyOf(u) /\ writer[w].at \in Inside /\ writer[u].at \in Inside
      BY <1>3, <2>2 DEF WriteArchive, At, KeyOf, Inside
    <3>2. QED
      BY <3>1, Exclusive
  <2>3. QED
    BY <2>1, <2>2, ArchivedStays
<1>4. ArchiverFits(u)'
  <2>1. ASSUME NEW d \in Documents, SealFits(writer[u].seals[d], d)
        PROVE  SealFits(writer[u].seals[d], d)'
    <3>1. \A seal : SealFits(seal, d) => SealFits(seal, d)'
      BY ArchivedStays
    <3>2. QED
      BY <1>2, <2>1, <3>1 DEF SealFits
  <2>2. QED
    BY <1>1, <1>2, <1>3, <2>1 DEF ArchiverFits, SealFits
<1>5. UpdateFits(u)'
  <2>1. PICK d : d = writer[u].doc /\ d = writer'[u].doc
    BY <1>2
  <2>2. SUFFICES ASSUME writer[u].at = "write", writer[u].op = "update"
                 PROVE  live'[d] = writer[u].base \/ KeyOf(u) \in broken' \/ Archiving(d)'
    BY <1>2, <2>1 DEF UpdateFits
  <2>3. d \in Documents
    BY <1>1, <2>1, <2>2 DEF OperationTyped
  <2>4. Archiving(d) => Archiving(d)'
    <3>1. ASSUME NEW a \in Writers, writer[a].op = "archive"
          PROVE  writer'[a].op = "archive" /\ writer'[a].doc = writer[a].doc
      BY <1>1, <3>1, OneWriterMoves DEF StoreTyped, OperationTyped
    <3>2. QED
      BY <3>1 DEF Archiving
  <2>5. CASE live'[d] = live[d]
    BY <1>1, <2>1, <2>2, <2>4, <2>5 DEF UpdateFits
  <2>6. CASE WriteDocument(w) /\ writer[w].doc = d
    <3>1. KeyOf(w) = KeyOf(u) /\ writer[w].at \in Inside /\ writer[u].at \in Inside
      BY <2>1, <2>2, <2>6 DEF WriteDocument, At, KeyOf, LockKey, Inside
    <3>2. QED
      BY <1>1, <3>1, Exclusive
  <2>7. CASE RemoveSource(w) /\ writer[w].doc = d
    <3>1. writer[w].op = "archive"
      BY <1>1, <2>7 DEF RemoveSource, At, StoreTyped, OperationTyped
    <3>2. QED
      BY <2>4, <2>7, <3>1 DEF Archiving
  <2>8. QED
    BY <1>1, <2>3, <2>5, <2>6, <2>7, TextsMove DEF StoreTyped
<1>6. QED
  BY <1>4, <1>5

(* The writer that steps.                                                  *)
LEMMA StepperFits ==
  ASSUME LocksInv, DocumentsInv, NEW w \in Writers, WriterStep(w)
  PROVE  ArchiverFits(w)' /\ UpdateFits(w)'
<1>1. /\ StoreTyped /\ OperationTyped(writer[w]) /\ ArchiverFits(w) /\ UpdateFits(w) /\ Holds(w)
      /\ broken \subseteq broken' /\ writer = [u \in Writers |-> writer[u]]
  BY LockMoves DEF LocksInv, StoreTyped, DocumentsInv
<1>2. ASSUME writer'[w].at \notin {"write", "seal", "sealing", "remove"}
      PROVE  ArchiverFits(w)' /\ UpdateFits(w)'
  BY <1>2 DEF ArchiverFits, UpdateFits
<1>3. CASE CheckFiles(w)
  <2>1. PICK d \in Documents : writer[w].doc = d
    BY <1>1, <1>3 DEF CheckFiles, At, OperationTyped
  <2>2. /\ writer'[w].doc = d /\ writer'[w].op = writer[w].op
        /\ writer'[w].at \in {"write", "release"}
        /\ writer'[w].at = "write" => AdmitsLock(writer[w].op, d, writer[w].base)
        /\ writer[w].op # "archive" => writer'[w].base = writer[w].base
        /\ UNCHANGED <<live, archived>>
    <3>1. writer[w].at = "check" /\ UNCHANGED <<live, archived>>
      BY <1>3 DEF CheckFiles, At, diskFiles
    <3>2. /\ writer'[w].at = IF AdmitsLock(writer[w].op, d, writer[w].base)
                             THEN "write" ELSE "release"
          /\ writer[w].op # "archive" => writer'[w].base = writer[w].base
      BY <1>1, <1>3, <2>1 DEF CheckFiles, OperationTyped, OperationFields
    <3>3. QED
      BY <1>1, <2>1, <3>1, <3>2, OneWriterMoves
  <2>3. ArchiverFits(w)'
    BY <1>1, <2>2 DEF ArchiverFits, AdmitsLock
  <2>4. UpdateFits(w)'
    BY <1>1, <2>2 DEF UpdateFits, AdmitsLock
  <2>5. QED
    BY <2>3, <2>4
<1>4. CASE WriteArchive(w)
  <2>1. /\ writer[w].op = "archive" /\ Go(w, "seal")
        /\ archived' = [archived EXCEPT ![writer[w].doc] = <<writer[w].base, w>>]
        /\ writer[w].at = "write"
    BY <1>4 DEF WriteArchive, At
  <2>2. writer[w].doc \in Documents /\ writer[w].base \in DocumentTexts
    BY <1>1, <2>1 DEF OperationTyped
  <2>3. /\ archived'[writer[w].doc] = <<writer[w].base, w>>
        /\ <<writer[w].base, w>> # Nothing
    BY <1>1, <2>1, <2>2, KnowledgeAssumption DEF StoreTyped, DocumentTexts
  <2>4. /\ writer'[w].at = "seal" /\ writer'[w].doc = writer[w].doc
        /\ writer'[w].base = writer[w].base
    BY <1>1, <2>1, GoMoves
  <2>5. QED
    BY <2>3, <2>4 DEF ArchiverFits, UpdateFits
<1>5. CASE ReadManifest(w)
  <2>1. /\ writer'[w].at = "sealing" /\ writer'[w].seals = sealList /\ writer[w].at = "seal"
        /\ writer'[w].base = writer[w].base
        /\ UNCHANGED <<archived, sealList, broken>>
    BY <1>1, <1>5 DEF ReadManifest, At, diskFiles, locks, OperationTyped, OperationFields
  <2>2. writer'[w].op = writer[w].op /\ writer'[w].doc = writer[w].doc /\ KeyOf(w)' = KeyOf(w)
    BY <1>1, <2>1, OneWriterMoves
  <2>3. /\ writer'[w].seals = [d \in Documents |-> writer'[w].seals[d]]
        /\ \A d \in Documents : SealFits(writer[w].seals[d], d)'
    BY <2>1 DEF DocumentsInv, SealFits, LockKey
  <2>4. QED
    BY <1>1, <2>1, <2>2, <2>3 DEF ArchiverFits, UpdateFits
<1>6. CASE SealArchived(w)
  <2>1. Go(w, "remove") /\ writer[w].at = "sealing" /\ archived' = archived
    BY <1>6 DEF SealArchived, At
  <2>2. /\ writer'[w].at = "remove" /\ writer'[w].doc = writer[w].doc
        /\ writer'[w].op = writer[w].op
    BY <1>1, <2>1, GoMoves
  <2>3. QED
    BY <1>1, <2>1, <2>2 DEF ArchiverFits, UpdateFits
<1>7. ASSUME ~CheckFiles(w), ~WriteArchive(w), ~ReadManifest(w), ~SealArchived(w)
      PROVE  writer'[w].at \notin {"write", "seal", "sealing", "remove"}
  <2>1. ASSUME NEW place, Go(w, place), place \notin {"write", "seal", "sealing", "remove"}
        PROVE  writer'[w].at \notin {"write", "seal", "sealing", "remove"}
    BY <1>1, <2>1, GoMoves
  <2>2. ASSUME NEW op \in Operations, NEW d \in Documents, StartOperation(w, op, d)
        PROVE  writer'[w].at \notin {"write", "seal", "sealing", "remove"}
    BY <1>1, <2>2 DEF StartOperation
  <2>3. QED
    BY <1>7, <2>1, <2>2 DEF WriterStep, TakeLock, BreakLock, ReleaseLock, WriteDocument, WriteSidecar,
        InvalidateIndex, RemoveSource, MoveSidecar, KnowledgeWriterDies
<1>8. QED
  BY <1>2, <1>3, <1>4, <1>5, <1>6, <1>7

LEMMA SealsFit ==
  ASSUME LocksInv, DocumentsInv, NEW w \in Writers, WriterStep(w)
  PROVE  sealList' = [d \in Documents |-> sealList'[d]] /\ \A d \in Documents : SealFits(sealList[d], d)'
<1>1. StoreTyped /\ OperationTyped(writer[w]) /\ ArchiverFits(w)
  BY DEF LocksInv, StoreTyped, DocumentsInv
<1>2. \A d \in Documents : \A seal : SealFits(seal, d) => SealFits(seal, d)'
  BY ArchivedStays
<1>3. CASE sealList' = sealList
  BY <1>2, <1>3 DEF DocumentsInv, SealFits
<1>4. CASE SealArchived(w)
  <2>1. /\ writer[w].at = "sealing" /\ writer[w].op = "archive"
        /\ sealList' = [writer[w].seals EXCEPT ![writer[w].doc] = <<writer[w].base, w>>]
        /\ UNCHANGED <<archived, broken>>
    BY <1>1, <1>4 DEF SealArchived, At, OperationTyped, locks
  <2>2. /\ writer[w].seals = [d \in Documents |-> writer[w].seals[d]]
        /\ \A d \in Documents : SealFits(writer[w].seals[d], d)
        /\ archived[writer[w].doc] = <<writer[w].base, w>> \/ KeyOf(w) \in broken
    BY <1>1, <2>1 DEF ArchiverFits
  <2>3. writer[w].doc \in Documents /\ KeyOf(w) = LockKey("archive", writer[w].doc)
    BY <1>1, <2>1 DEF OperationTyped, KeyOf
  <2>4. PICK list : writer[w].seals = list
    OBVIOUS
  <2>5. /\ sealList' = [d \in Documents |-> sealList'[d]]
        /\ sealList'[writer[w].doc] = <<writer[w].base, w>>
        /\ \A d \in Documents \ {writer[w].doc} : sealList'[d] = list[d]
    BY <2>1, <2>2, <2>3, <2>4
  <2>6. QED
    BY <2>1, <2>2, <2>3, <2>4, <2>5 DEF SealFits
<1>5. QED
  BY <1>1, <1>3, <1>4, TextsMove

LEMMA NothingVanishes ==
  ASSUME LocksInv, DocumentsInv, NEW w \in Writers, WriterStep(w)
  PROVE  known' \subseteq Documents /\ \A d \in known' : live'[d] # Nothing \/ archived'[d] # Nothing
<1>1. StoreTyped /\ OperationTyped(writer[w]) /\ ArchiverFits(w) /\ Nothing # w
  BY KnowledgeAssumption DEF LocksInv, StoreTyped, DocumentsInv
<1>2. \A d \in Documents : archived[d] # Nothing => archived'[d] # Nothing
  BY ArchivedStays
<1>3. CASE WriteDocument(w)
  <2>1. /\ live' = [live EXCEPT ![writer[w].doc] = w] /\ known' = known \cup {writer[w].doc}
        /\ writer[w].doc \in Documents /\ archived' = archived
    BY <1>1, <1>3 DEF WriteDocument, At, OperationTyped
  <2>2. QED
    BY <1>1, <2>1 DEF DocumentsInv, StoreTyped
<1>4. CASE RemoveSource(w)
  <2>1. /\ live' = [live EXCEPT ![writer[w].doc] = Nothing] /\ UNCHANGED <<known, archived>>
        /\ writer[w].doc \in Documents /\ archived[writer[w].doc] # Nothing
    BY <1>1, <1>4 DEF RemoveSource, At, OperationTyped, ArchiverFits
  <2>2. QED
    BY <1>1, <2>1 DEF DocumentsInv, StoreTyped
<1>5. CASE live' = live /\ known' = known
  BY <1>2, <1>5 DEF DocumentsInv
<1>6. QED
  BY <1>1, <1>3, <1>4, <1>5, TextsMove DEF RemoveSource

LEMMA DocumentsKept == LocksInv /\ DocumentsInv /\ [KnowledgeNext]_knowledgeVars => DocumentsInv'
<1>1. SUFFICES ASSUME LocksInv, DocumentsInv, [KnowledgeNext]_knowledgeVars PROVE DocumentsInv'
  OBVIOUS
<1>2. ASSUME NEW w \in Writers, WriterStep(w) PROVE DocumentsInv'
  <2>1. \A u \in Writers : ArchiverFits(u)' /\ UpdateFits(u)'
    BY <1>1, <1>2, OthersFit, StepperFits
  <2>2. QED
    BY <1>1, <1>2, <2>1, SealsFit, NothingVanishes DEF DocumentsInv
<1>3. CASE (\E k \in Keys : LockAges(k)) \/ BuildIndex \/ WriteIndex \/ UNCHANGED knowledgeVars
  <2>1. UNCHANGED <<live, archived, sealList, broken, writer, known>>
    BY <1>3 DEF LockAges, BuildIndex, WriteIndex, knowledgeVars, diskFiles, locks
  <2>2. QED
    BY <1>1, <2>1 DEF DocumentsInv, ArchiverFits, UpdateFits, SealFits, KeyOf, LockKey, Archiving
<1>4. QED
  BY <1>1, <1>2, <1>3 DEF KnowledgeNext

(***************************************************************************)
(* The index.  While no lock is broken, what the index or its reader says  *)
(* of a document's sidecar is true unless a writer that holds a lock of    *)
(* the document has changed it and not yet dropped the index, or it comes  *)
(* from a reader that a writer overtook.                                   *)
(***************************************************************************)
Pending(d) ==
  \E w \in Writers : /\ writer[w].doc = d /\ writer[w].at \in {"drop", "over"}
                     /\ KeyOf(w) \in Keys /\ lockDir[KeyOf(w)] = w

SidecarsTold(told) ==
  /\ told = [d \in Documents |-> told[d]]
  /\ broken = {} => \A d \in Documents : told[d] = sidecar[d] \/ Pending(d)

IndexInv ==
  /\ sidecar = [d \in Documents |-> sidecar[d]]
  /\ DOMAIN reader = {"entries", "overtaken"} /\ reader.overtaken \in BOOLEAN
  /\ reader = [f \in {"entries", "overtaken"} |-> reader[f]]
  /\ reader.entries = Nothing \/ reader.overtaken = TRUE \/ SidecarsTold(reader.entries.sidecars)
  /\ \/ index = Nothing
     \/ index.late \in BOOLEAN /\ (index.late = TRUE \/ SidecarsTold(index.sidecars))

LEMMA IndexInitially == KnowledgeInit => IndexInv
<1>1. SUFFICES ASSUME KnowledgeInit PROVE IndexInv
  OBVIOUS
<1>2. reader = [entries |-> Nothing, overtaken |-> FALSE] /\ index = Nothing
      /\ sidecar = [d \in Documents |-> [live |-> Nothing, archived |-> Nothing]]
  BY <1>1 DEF KnowledgeInit, NoReader
<1>3. /\ DOMAIN reader = {"entries", "overtaken"} /\ reader.overtaken \in BOOLEAN
      /\ reader = [f \in {"entries", "overtaken"} |-> reader[f]] /\ reader.entries = Nothing
  BY <1>2
<1>4. sidecar = [d \in Documents |-> sidecar[d]]
  BY <1>2
<1>5. QED
  BY <1>2, <1>3, <1>4 DEF IndexInv

LEMMA PendingStays ==
  ASSUME LocksInv, NEW w \in Writers, WriterStep(w), broken' = {}, ~InvalidateIndex(w),
         NEW d, Pending(d)
  PROVE  Pending(d)'
<1>1. StoreTyped /\ Holds(w) /\ broken = {} /\ OperationTyped(writer[w])
  BY LockMoves DEF LocksInv, StoreTyped
<1>2. PICK u \in Writers : /\ writer[u].doc = d /\ writer[u].at \in {"drop", "over"}
                           /\ KeyOf(u) \in Keys /\ lockDir[KeyOf(u)] = u /\ u # Nothing
  BY KnowledgeAssumption DEF Pending
<1>3. lockDir'[KeyOf(u)] = u
  <2>1. CASE lockDir' = lockDir
    BY <1>2, <2>1
  <2>2. CASE writer[w].at = "lock" /\ lockDir[KeyOf(w)] = Nothing
             /\ lockDir' = [lockDir EXCEPT ![KeyOf(w)] = w]
    BY <1>1, <1>2, <2>2 DEF StoreTyped
  <2>3. CASE writer[w].at = "release" /\ lockDir' = [lockDir EXCEPT ![KeyOf(w)] = Nothing]
    BY <1>1, <1>2, <2>3 DEF StoreTyped, Holds, Inside
  <2>4. QED
    BY <1>1, <2>1, <2>2, <2>3, LockMoves
<1>4. writer'[u].doc = d /\ writer'[u].at \in {"drop", "over"} /\ KeyOf(u)' = KeyOf(u)
  <2>1. CASE u # w
    BY <1>1, <1>2, <2>1, OneWriterMoves DEF KeyOf
  <2>2. CASE u = w
    <3>1. KnowledgeWriterDies(w)
      BY <1>2, <2>2 DEF WriterStep, StartOperation, TakeLock, BreakLock, ReleaseLock, CheckFiles,
          WriteDocument, WriteSidecar, WriteArchive, ReadManifest, SealArchived, RemoveSource,
          MoveSidecar, At
    <3>2. QED
      BY <1>1, <1>2, <2>2, <3>1, GoMoves DEF KnowledgeWriterDies
  <2>3. QED
    BY <2>1, <2>2
<1>5. QED
  BY <1>2, <1>3, <1>4 DEF Pending

(* A sidecar that changes leaves its document pending.                     *)
LEMMA SidecarsMove ==
  ASSUME LocksInv, NEW w \in Writers, WriterStep(w),
         sidecar = [d \in Documents |-> sidecar[d]]
  PROVE  /\ sidecar' = [d \in Documents |-> sidecar'[d]]
         /\ broken' = {} => \A d \in Documents : sidecar'[d] = sidecar[d] \/ Pending(d)'
<1>1. StoreTyped /\ Holds(w) /\ OperationTyped(writer[w])
  BY DEF LocksInv, StoreTyped
<1>2. CASE sidecar' = sidecar
  BY <1>2
<1>3. CASE WriteSidecar(w) \/ MoveSidecar(w)
  <2>1. /\ writer[w].at = "sidecar" /\ Go(w, "drop") /\ UNCHANGED <<lockDir, broken>>
        /\ \E s : sidecar' = [sidecar EXCEPT ![writer[w].doc] = s]
    BY <1>3 DEF WriteSidecar, MoveSidecar, At, locks
  <2>2. /\ sidecar' = [d \in Documents |-> sidecar'[d]]
        /\ \A d \in Documents \ {writer[w].doc} : sidecar'[d] = sidecar[d]
    BY <2>1
  <2>3. /\ writer'[w].doc = writer[w].doc /\ writer'[w].at = "drop" /\ KeyOf(w)' = KeyOf(w)
        /\ KeyOf(w) \in Keys
    BY <1>1, <2>1, GoMoves, KeysAreKeys
  <2>4. broken' = {} => Pending(writer[w].doc)'
    <3>1. PICK d : d = writer[w].doc
      OBVIOUS
    <3>2. broken' = {} => Pending(d)'
      BY <1>1, <2>1, <2>3, <3>1 DEF Pending, Holds, Inside
    <3>3. QED
      BY <2>3, <3>1, <3>2 DEF Pending
  <2>5. ASSUME NEW d \in Documents, broken' = {} PROVE sidecar'[d] = sidecar[d] \/ Pending(d)'
    BY <2>2, <2>3, <2>4, <2>5 DEF Pending
  <2>6. QED
    BY <2>2, <2>5
<1>4. QED
  BY <1>2, <1>3 DEF WriterStep, diskFiles, StartOperation, TakeLock, BreakLock, ReleaseLock,
     CheckFiles, WriteDocument, InvalidateIndex, WriteArchive, ReadManifest, SealArchived,
     RemoveSource, KnowledgeWriterDies

LEMMA IndexKept == LocksInv /\ IndexInv /\ [KnowledgeNext]_knowledgeVars => IndexInv'
<1>1. SUFFICES ASSUME LocksInv, IndexInv, [KnowledgeNext]_knowledgeVars PROVE IndexInv'
  OBVIOUS
<1>2. ASSUME NEW w \in Writers, WriterStep(w) PROVE IndexInv'
  <2>1. sidecar' = [d \in Documents |-> sidecar'[d]]
    BY <1>1, <1>2, SidecarsMove DEF IndexInv
  <2>2. CASE InvalidateIndex(w)
    <3>1. index' = Nothing /\ reader' = [reader EXCEPT !.overtaken = reader.entries # Nothing]
      BY <2>2 DEF InvalidateIndex
    <3>2. /\ reader'.entries = reader.entries /\ DOMAIN reader' = {"entries", "overtaken"}
          /\ reader' = [f \in {"entries", "overtaken"} |-> reader'[f]]
      BY <1>1, <3>1 DEF IndexInv
    <3>3. CASE reader.entries = Nothing
      <4>1. reader' = [reader EXCEPT !.overtaken = FALSE]
        BY <3>1, <3>3
      <4>2. reader'.overtaken = FALSE
        BY <1>1, <4>1 DEF IndexInv
      <4>3. QED
        BY <2>1, <3>1, <3>2, <3>3, <4>2 DEF IndexInv
    <3>4. CASE reader.entries # Nothing
      <4>1. reader' = [reader EXCEPT !.overtaken = TRUE]
        BY <3>1, <3>4
      <4>2. reader'.overtaken = TRUE
        BY <1>1, <4>1 DEF IndexInv
      <4>3. QED
        BY <2>1, <3>1, <3>2, <4>2 DEF IndexInv
    <3>5. QED
      BY <3>3, <3>4
  <2>3. CASE ~InvalidateIndex(w)
    <3>1. index' = index /\ reader' = reader
      BY <1>2, <2>3 DEF WriterStep, diskFiles, StartOperation, TakeLock, BreakLock, ReleaseLock,
          CheckFiles, WriteDocument, WriteSidecar, WriteArchive, ReadManifest, SealArchived,
          RemoveSource, MoveSidecar, KnowledgeWriterDies
    <3>2. ASSUME NEW told, SidecarsTold(told) PROVE SidecarsTold(told)'
      <4>1. broken' = {} => broken = {}
        BY <1>1, <1>2, LockMoves DEF LocksInv
      <4>2. ASSUME broken' = {}, NEW d \in Documents PROVE told[d] = sidecar'[d] \/ Pending(d)'
        <5>1. sidecar'[d] = sidecar[d] \/ Pending(d)'
          BY <1>1, <1>2, <4>2, SidecarsMove DEF IndexInv
        <5>2. Pending(d) => Pending(d)'
          BY <1>1, <1>2, <2>3, <4>2, PendingStays
        <5>3. QED
          BY <3>2, <4>1, <4>2, <5>1, <5>2 DEF SidecarsTold
      <4>3. QED
        BY <3>2, <4>2 DEF SidecarsTold
    <3>3. SidecarsTold(reader.entries.sidecars) => SidecarsTold(reader.entries.sidecars)'
      <4>1. PICK told : told = reader.entries.sidecars
        OBVIOUS
      <4>2. QED
        BY <3>1, <3>2, <4>1 DEF SidecarsTold
    <3>4. SidecarsTold(index.sidecars) => SidecarsTold(index.sidecars)'
      <4>1. PICK told : told = index.sidecars
        OBVIOUS
      <4>2. QED
        BY <3>1, <3>2, <4>1 DEF SidecarsTold
    <3>5. QED
      BY <1>1, <2>1, <3>1, <3>3, <3>4 DEF IndexInv
  <2>4. QED
    BY <2>2, <2>3
<1>3. CASE \/ (\E k \in Keys : LockAges(k)) \/ UNCHANGED knowledgeVars
  BY <1>1, <1>3 DEF LockAges, knowledgeVars, diskFiles, locks, IndexInv, SidecarsTold, Pending, KeyOf
<1>4. CASE BuildIndex
  <2>1. /\ reader' = [NoReader EXCEPT !.entries = [texts |-> Texts, sidecars |-> sidecar]]
        /\ UNCHANGED <<sidecar, index, lockDir, broken, writer>>
    BY <1>4 DEF BuildIndex, diskFiles, locks
  <2>2. /\ reader'.entries.sidecars = sidecar' /\ DOMAIN reader' = {"entries", "overtaken"}
        /\ reader'.overtaken = FALSE
        /\ reader' = [f \in {"entries", "overtaken"} |-> reader'[f]]
    BY <2>1 DEF NoReader
  <2>3. SidecarsTold(reader.entries.sidecars)'
    BY <1>1, <2>1, <2>2 DEF SidecarsTold, IndexInv
  <2>4. SidecarsTold(index.sidecars) => SidecarsTold(index.sidecars)'
    BY <2>1 DEF SidecarsTold, Pending, KeyOf
  <2>5. QED
    BY <1>1, <2>1, <2>2, <2>3, <2>4 DEF IndexInv
<1>5. CASE WriteIndex
  <2>1. /\ reader.entries # Nothing /\ reader' = NoReader
        /\ index' = [texts |-> reader.entries.texts, sidecars |-> reader.entries.sidecars,
                     late |-> reader.overtaken]
        /\ UNCHANGED <<sidecar, lockDir, broken, writer>>
    BY <1>5 DEF WriteIndex, locks
  <2>2. index'.late = reader.overtaken /\ index'.sidecars = reader.entries.sidecars
    BY <2>1
  <2>3. SidecarsTold(reader.entries.sidecars) => SidecarsTold(index.sidecars)'
    BY <2>1, <2>2 DEF SidecarsTold, Pending, KeyOf
  <2>4. QED
    BY <1>1, <2>1, <2>2, <2>3 DEF IndexInv, NoReader
<1>6. QED
  BY <1>1, <1>2, <1>3, <1>4, <1>5 DEF KnowledgeNext

(* Once no lock is held nothing is pending, so an index that looks fresh   *)
(* and was not overtaken says what the sidecars are.                       *)
LEMMA Consistent == LocksInv /\ DocumentsInv /\ IndexInv => StoreIsConsistent
<1>1. SUFFICES ASSUME LocksInv, DocumentsInv, IndexInv PROVE StoreIsConsistent
  OBVIOUS
<1>2. NoDocumentVanishes /\ SealsMatch
  BY <1>1 DEF DocumentsInv, SealFits, NoDocumentVanishes, SealsMatch
<1>3. IndexedSidecars
  <2>1. SUFFICES ASSUME \A k \in Keys : lockDir[k] = Nothing, broken = {}, index # Nothing,
                        ~index.late
                 PROVE  index.sidecars = sidecar
    BY DEF IndexedSidecars, IndexFresh
  <2>2. \A d \in Documents : ~Pending(d)
    BY <2>1, KnowledgeAssumption DEF Pending
  <2>3. PICK told : told = index.sidecars
    OBVIOUS
  <2>4. told = [d \in Documents |-> told[d]] /\ \A d \in Documents : told[d] = sidecar[d]
    BY <1>1, <2>1, <2>2, <2>3 DEF IndexInv, SidecarsTold
  <2>5. QED
    BY <1>1, <2>3, <2>4 DEF IndexInv
<1>4. QED
  BY <1>2, <1>3 DEF StoreIsConsistent

(* In every behaviour no document vanishes, a seal names the archived text *)
(* and an index that looks fresh tells the truth about sidecars, whatever  *)
(* writers, readers and archivers interleave and wherever they die.        *)
THEOREM StoreStaysConsistent == KnowledgeSpec => []StoreIsConsistent
<1>1. KnowledgeInit => LocksInv /\ DocumentsInv /\ IndexInv
  BY LocksInitially, DocumentsInitially, IndexInitially
<1>2. LocksInv /\ DocumentsInv /\ IndexInv /\ [KnowledgeNext]_knowledgeVars
        => (LocksInv /\ DocumentsInv /\ IndexInv)'
  BY LocksKept, DocumentsKept, IndexKept
<1>3. LocksInv /\ DocumentsInv /\ IndexInv => StoreIsConsistent
  BY Consistent
<1>4. QED
  BY <1>1, <1>2, <1>3, PTL DEF KnowledgeSpec

(* An edit that names the hash it is based on replaces just that text,     *)
(* unless the document's lock was broken or the document is archived.      *)
THEOREM EditsReplaceTheirBase == KnowledgeSpec => EditsReplaceWhatTheyRead
<1>1. KnowledgeInit => LocksInv /\ DocumentsInv
  BY LocksInitially, DocumentsInitially
<1>2. LocksInv /\ DocumentsInv /\ [KnowledgeNext]_knowledgeVars => (LocksInv /\ DocumentsInv)'
  BY LocksKept, DocumentsKept
<1>3. LocksInv /\ DocumentsInv /\ [KnowledgeNext]_knowledgeVars =>
        [\A w \in Writers :
           LET d == writer[w].doc IN
           At(w, "write") /\ writer'[w].at \in {"sidecar", "drop"} /\ writer[w].op = "update" =>
             live[d] = writer[w].base \/ LockKey("update", d) \in broken \/ Archiving(d)]_knowledgeVars
  BY DEF DocumentsInv, UpdateFits, At, KeyOf, LockKey
<1>4. QED
  BY <1>1, <1>2, <1>3, PTL DEF KnowledgeSpec, EditsReplaceWhatTheyRead

(***************************************************************************)
(* Installed files.  What an installation has written so far was copied by *)
(* a command, for a host it was asked for or for no host in particular;    *)
(* and so is everything the manifest records.                              *)
(***************************************************************************)
Installation(c, stage, copied) ==
  \E sel, force, dirs, surfaces, left, written :
    /\ c = [at |-> stage, selection |-> sel, force |-> force, dirs |-> dirs,
            surfaces |-> surfaces, left |-> left, written |-> written]
    /\ \A s \in surfaces : s.host \in sel.hosts \cup {"portable"}
    /\ left \subseteq surfaces
    /\ written \subseteq {f \in copied : f.host \in sel.hosts \cup {"portable"}}

HostInv ==
  /\ disk \in [Files -> {"none", "user", "mawf"}]
  /\ budget \in [commands : Nat, hands : Nat]
  /\ copiedOnce \subseteq Files /\ ManifestIsOurs
  /\ \/ command = NoCommand \/ command = [at |-> "forget"]
     \/ Installation(command, "copy", copiedOnce) \/ Installation(command, "record", copiedOnce)

(* What people do changes no command and counts as done by hand.           *)
LEMMA HandsOnly ==
  ASSUME HostInv, ByHand
  PROVE  OnlyHands /\ budget' \in [commands : Nat, hands : Nat]
BY DEF HostInv, ByHand, OnlyHands

HandsStep ==
  \/ \E f \in Files : UserWrites(f) \/ UserDeletes(f)
  \/ \E h \in AppHosts : SelectHost(h)
  \/ SelectDemand \/ TreeChanges

LEMMA HandsSpare ==
  ASSUME HostInv, HandsStep
  PROVE  HostInv' /\ OnlyHands
<1>1. ByHand /\ UNCHANGED <<ownList, command, copiedOnce>>
  BY DEF HandsStep, UserWrites, UserDeletes, SelectHost, SelectDemand, TreeChanges
<1>2. disk' \in [Files -> {"none", "user", "mawf"}]
  BY DEF HostInv, HandsStep, UserWrites, UserDeletes, SelectHost, SelectDemand, TreeChanges
<1>3. OnlyHands /\ budget' \in [commands : Nat, hands : Nat]
  BY <1>1, HandsOnly
<1>4. HostInv'
  BY <1>1, <1>2, <1>3 DEF HostInv, ManifestIsOurs
<1>5. QED
  BY <1>3, <1>4

(* An installation that begins has written nothing.                        *)
LEMMA InstallationStarts ==
  ASSUME HostInv, NEW place, NEW force, StartInstall(place, force)
  PROVE  HostInv' /\ command = NoCommand /\ UNCHANGED <<disk, ownList>>
<1>1. command = NoCommand /\ UNCHANGED <<disk, ownList, copiedOnce>>
  BY DEF StartInstall
<1>2. budget' \in [commands : Nat, hands : Nat]
  <2>1. budget' = [budget EXCEPT !.commands = @ + 1]
    BY DEF StartInstall
  <2>2. QED
    BY <2>1 DEF HostInv
<1>3. Installation(command', "copy", copiedOnce)
  <2>1. PICK dirs :
          dirs = [h \in AppHosts |-> IF h \notin selection.hosts THEN ownList.dirs[h]
                                     ELSE IF place # "nowhere" THEN place
                                     ELSE IF ownList.dirs[h] # "nowhere" THEN ownList.dirs[h]
                                     ELSE DefaultPlace]
    OBVIOUS
  <2>2. PICK surfaces :
          surfaces = {[host |-> h, place |-> dirs[h]] : h \in selection.hosts} \cup
                     (IF selection.hosts = {} THEN {} ELSE {[host |-> "portable", place |-> DefaultPlace]})
    OBVIOUS
  <2>3. command' = [at |-> "copy", selection |-> selection, force |-> force, dirs |-> dirs,
                    surfaces |-> surfaces, left |-> surfaces, written |-> {}]
    BY <2>1, <2>2 DEF StartInstall
  <2>4. \A s \in surfaces : s.host \in selection.hosts \cup {"portable"}
    BY <2>2
  <2>5. PICK sel, none : sel = selection /\ none = {}
    OBVIOUS
  <2>6. /\ command' = [at |-> "copy", selection |-> sel, force |-> force, dirs |-> dirs,
                       surfaces |-> surfaces, left |-> surfaces, written |-> none]
        /\ \A s \in surfaces : s.host \in sel.hosts \cup {"portable"}
        /\ surfaces \subseteq surfaces
        /\ none \subseteq {f \in copiedOnce : f.host \in sel.hosts \cup {"portable"}}
    BY <2>3, <2>4, <2>5
  <2>7. QED
    BY <2>6, Zenon DEF Installation
<1>4. HostInv'
  BY <1>1, <1>2, <1>3 DEF HostInv, ManifestIsOurs
<1>5. QED
  BY <1>1, <1>4

(* A step of an installation touches what it may: free or recorded paths   *)
(* of the hosts it was asked for, or any of theirs when it is forced.      *)
Tolerant ==
  /\ \A f \in Files : disk[f] = "user" /\ disk'[f] # "user" =>
       f \in ownList.files \/ (Installing /\ command.force)
  /\ Installing => \A f \in ownList.files :
       f.host # "portable" /\ f.host \notin command.selection.hosts =>
         disk'[f] = disk[f] /\ f \in ownList'.files

LEMMA CopyingSpares == ASSUME HostInv, CopySurface PROVE HostInv' /\ Tolerant
<1>1. Installation(command, "copy", copiedOnce)
  <2>1. command.at = "copy"
    BY DEF CopySurface
  <2>2. QED
    BY <2>1 DEF HostInv, NoCommand, Installation
<1>2. PICK sel, force, dirs, surfaces, left, written :
        /\ command = [at |-> "copy", selection |-> sel, force |-> force, dirs |-> dirs,
                      surfaces |-> surfaces, left |-> left, written |-> written]
        /\ \A s \in surfaces : s.host \in sel.hosts \cup {"portable"}
        /\ left \subseteq surfaces
        /\ written \subseteq {f \in copiedOnce : f.host \in sel.hosts \cup {"portable"}}
  BY <1>1 DEF Installation
<1>3. PICK surface, targets :
        /\ surface \in left
        /\ targets = {f \in On(surface) : f.name \in Ships[package.version] /\ Wanted(f.name) /\ MayWrite(f)}
        /\ disk' = [f \in Files |-> IF f \in targets THEN "mawf" ELSE disk[f]]
        /\ copiedOnce' = copiedOnce \cup targets
        /\ command' = [command EXCEPT !.left = @ \ {surface}, !.written = @ \cup targets]
  <2>1. PICK surface \in command.left :
          LET targets == {f \in On(surface) : f.name \in Ships[package.version] /\ Wanted(f.name) /\ MayWrite(f)}
          IN  /\ disk' = [f \in Files |-> IF f \in targets THEN "mawf" ELSE disk[f]]
              /\ copiedOnce' = copiedOnce \cup targets
              /\ command' = [command EXCEPT !.left = @ \ {surface}, !.written = @ \cup targets]
    BY DEF CopySurface
  <2>2. surface \in left
    BY <1>2
  <2>3. PICK targets :
          targets = {f \in On(surface) : f.name \in Ships[package.version] /\ Wanted(f.name) /\ MayWrite(f)}
    OBVIOUS
  <2>4. QED
    BY <2>1, <2>2, <2>3, Zenon
<1>4. UNCHANGED <<ownList, budget>>
  BY DEF CopySurface
<1>5. targets \subseteq Files /\ \A f \in targets : f.host \in sel.hosts \cup {"portable"}
  BY <1>2, <1>3 DEF On
<1>6. \A f \in targets : disk[f] = "none" \/ f \in ownList.files \/ force
  BY <1>2, <1>3 DEF MayWrite
<1>7. Installation(command', "copy", copiedOnce')
  <2>1. PICK rest, more : rest = left \ {surface} /\ more = written \cup targets
    OBVIOUS
  <2>2. command' = [at |-> "copy", selection |-> sel, force |-> force, dirs |-> dirs,
                    surfaces |-> surfaces, left |-> rest, written |-> more]
    BY <1>2, <1>3, <2>1
  <2>3. rest \subseteq surfaces
    BY <1>2, <2>1
  <2>4. more \subseteq {f \in copiedOnce' : f.host \in sel.hosts \cup {"portable"}}
    BY <1>2, <1>3, <1>5, <2>1
  <2>5. QED
    BY <1>2, <2>2, <2>3, <2>4 DEF Installation
<1>8. HostInv'
  BY <1>3, <1>4, <1>5, <1>7 DEF HostInv, ManifestIsOurs
<1>9. Tolerant
  <2>1. command.force = force /\ command.selection = sel /\ Installing
    BY <1>2 DEF Installing
  <2>2. ownList.files \subseteq Files
    BY DEF HostInv, ManifestIsOurs
  <2>3. QED
    BY <1>3, <1>4, <1>5, <1>6, <2>1, <2>2 DEF Tolerant
<1>10. QED
  BY <1>8, <1>9

LEMMA RecordingSpares == ASSUME HostInv, RemoveStale \/ RecordInstall PROVE HostInv' /\ Tolerant
<1>1. PICK stage \in {"copy", "record"} : command.at = stage /\ Installation(command, stage, copiedOnce)
  <2>1. command.at \in {"copy", "record"}
    BY DEF RemoveStale, RecordInstall
  <2>2. QED
    BY <2>1 DEF HostInv, NoCommand, Installation
<1>2. PICK sel, force, dirs, surfaces, left, written :
        /\ command = [at |-> stage, selection |-> sel, force |-> force, dirs |-> dirs,
                      surfaces |-> surfaces, left |-> left, written |-> written]
        /\ \A s \in surfaces : s.host \in sel.hosts \cup {"portable"}
        /\ left \subseteq surfaces
        /\ written \subseteq {f \in copiedOnce : f.host \in sel.hosts \cup {"portable"}}
  BY <1>1 DEF Installation
<1>3. \A f \in Stale : f \in ownList.files /\ f.host \in sel.hosts \cup {"portable"}
  BY <1>2 DEF Stale, On
<1>4. ownList.files \subseteq Files
  BY DEF HostInv, ManifestIsOurs
<1>5. command.selection = sel /\ command.written = written /\ Installing
  BY <1>1, <1>2 DEF Installing
<1>6. CASE RemoveStale
  <2>1. /\ disk' = [f \in Files |-> IF f \in Stale THEN "none" ELSE disk[f]]
        /\ command' = [command EXCEPT !.at = "record"]
        /\ UNCHANGED <<ownList, budget, copiedOnce>>
    BY <1>6 DEF RemoveStale
  <2>2. Installation(command', "record", copiedOnce)
    <3>1. command' = [at |-> "record", selection |-> sel, force |-> force, dirs |-> dirs,
                      surfaces |-> surfaces, left |-> left, written |-> written]
      BY <1>2, <2>1
    <3>2. QED
      BY <1>2, <3>1 DEF Installation
  <2>3. HostInv'
    BY <2>1, <2>2 DEF HostInv, ManifestIsOurs
  <2>4. Tolerant
    BY <1>3, <1>4, <1>5, <2>1 DEF Tolerant
  <2>5. QED
    BY <2>3, <2>4
<1>7. CASE RecordInstall
  <2>1. /\ ownList'.files = (ownList.files \ Stale) \cup written
        /\ command' = NoCommand /\ UNCHANGED <<disk, budget, copiedOnce>>
    BY <1>5, <1>7 DEF RecordInstall, Recorded
  <2>2. ownList'.files \subseteq copiedOnce
    BY <1>2, <2>1 DEF HostInv, ManifestIsOurs
  <2>3. HostInv'
    BY <2>1, <2>2 DEF HostInv, ManifestIsOurs
  <2>4. Tolerant
    BY <1>3, <1>4, <1>5, <2>1 DEF Tolerant
  <2>5. QED
    BY <2>3, <2>4
<1>8. QED
  BY <1>6, <1>7

LEMMA UninstallingSpares ==
  ASSUME HostInv, UninstallBegins \/ ForgetInstall
  PROVE  HostInv' /\ Tolerant
<1>1. CASE UninstallBegins
  <2>1. /\ disk' = [f \in Files |-> IF f \in Owned THEN "none" ELSE disk[f]]
        /\ command' = [at |-> "forget"] /\ UNCHANGED <<ownList, copiedOnce>>
        /\ command = NoCommand
    BY <1>1 DEF UninstallBegins
  <2>2. budget' \in [commands : Nat, hands : Nat]
    BY <1>1 DEF HostInv, UninstallBegins
  <2>3. HostInv'
    BY <2>1, <2>2 DEF HostInv, ManifestIsOurs
  <2>4. Tolerant
    BY <2>1 DEF Tolerant, Installing, NoCommand, Owned
  <2>5. QED
    BY <2>3, <2>4
<1>2. CASE ForgetInstall
  <2>1. /\ command.at = "forget" /\ ownList' = NoManifest /\ command' = NoCommand
        /\ UNCHANGED <<disk, budget, copiedOnce>>
    BY <1>2 DEF ForgetInstall
  <2>2. HostInv'
    BY <2>1 DEF HostInv, ManifestIsOurs, NoManifest
  <2>3. Tolerant
    BY <2>1 DEF Tolerant, Installing
  <2>4. QED
    BY <2>2, <2>3
<1>3. QED
  BY <1>1, <1>2

LEMMA HostSteps ==
  ASSUME HostInv, [HostNext]_installVars
  PROVE  HostInv' /\ (OnlyHands \/ Tolerant)
<1>1. ASSUME UNCHANGED <<disk, ownList>> PROVE Tolerant
  BY <1>1 DEF Tolerant
<1>2. ASSUME NEW place, NEW force, InstallBegins(place, force) PROVE HostInv' /\ Tolerant
  BY <1>1, <1>2, InstallationStarts DEF InstallBegins
<1>3. CASE RefreshTemplates
  BY <1>1, <1>3, InstallationStarts DEF RefreshTemplates
<1>4. CASE CommandDies
  <2>1. HostInv'
    BY <1>4 DEF CommandDies, HostInv, ManifestIsOurs
  <2>2. QED
    BY <1>1, <1>4, <2>1 DEF CommandDies
<1>5. CASE UpgradePackage \/ RefreshFails \/ UNCHANGED installVars
  <2>1. UNCHANGED <<disk, ownList, command, budget, copiedOnce>>
    BY <1>5 DEF UpgradePackage, RefreshFails, installVars
  <2>2. HostInv'
    BY <2>1 DEF HostInv, ManifestIsOurs
  <2>3. QED
    BY <1>1, <2>1, <2>2
<1>6. CASE HandsStep
  BY <1>6, HandsSpare
<1>7. CASE CopySurface
  BY <1>7, CopyingSpares
<1>8. CASE RemoveStale \/ RecordInstall
  BY <1>8, RecordingSpares
<1>9. CASE UninstallBegins \/ ForgetInstall
  BY <1>9, UninstallingSpares
<1>10. QED
  BY <1>2, <1>3, <1>4, <1>5, <1>6, <1>7, <1>8, <1>9 DEF HostNext, HandsStep

(* Whatever is installed, updated, removed, upgraded, edited by hand and   *)
(* left half done: a user's file goes only when it was recorded or the     *)
(* installation forced, other hosts keep theirs, and the manifest records  *)
(* only what was copied (selected-install.js).                             *)
THEOREM InstallsSpareFiles ==
  HostSpec => UnrecordedFilesSurvive /\ OtherHostsKept /\ []ManifestIsOurs
<1>1. HostInit => HostInv
  BY DEF HostInit, HostInv, ManifestIsOurs, NoManifest
<1>2. HostInv /\ [HostNext]_installVars => HostInv'
  BY HostSteps
<1>3. HostSpec => []HostInv
  BY <1>1, <1>2, PTL DEF HostSpec
<1>4. HostInv /\ [HostNext]_installVars =>
        [\A f \in Files : (disk[f] = "user" /\ disk'[f] # "user" /\ ~OnlyHands) =>
            f \in ownList.files \/ (Installing /\ command.force)]_installVars
  BY HostSteps DEF Tolerant
<1>5. HostInv /\ [HostNext]_installVars =>
        [(Installing /\ ~OnlyHands) =>
            \A f \in ownList.files :
              (f.host # "portable" /\ f.host \notin command.selection.hosts) =>
                disk'[f] = disk[f] /\ f \in ownList'.files]_installVars
  BY HostSteps DEF Tolerant
<1>6. HostInv => ManifestIsOurs
  BY DEF HostInv
<1>7. QED
  BY <1>3, <1>4, <1>5, <1>6, PTL DEF HostSpec, UnrecordedFilesSurvive, OtherHostsKept

(***************************************************************************)
(* Managed blocks.  No file ever holds a marker twice: a block is put      *)
(* where the old one was, or where no marker is left.                      *)
(***************************************************************************)
Pieces == {"absent", "begin", "text", "end", "stub", "title", "span", "user"}
Markers == {"begin", "end"}
MarkedOnce(s) == \A i, j \in 1..Len(s) : s[i] = s[j] /\ s[i] \in Markers => i = j
Plain(s) == s \in Seq(Pieces) /\ \A i \in 1..Len(s) : s[i] \notin Markers

First(i, piece, s) ==
  \/ i = 0 /\ \A j \in 1..Len(s) : s[j] # piece
  \/ i \in 1..Len(s) /\ s[i] = piece /\ \A j \in 1..(i - 1) : s[j] # piece

LEMMA IndexIs == ASSUME NEW s \in Seq(Pieces), NEW piece PROVE First(IndexIn(piece, s), piece, s)
<1>1. PICK D : D = DOMAIN s /\ D = 1..Len(s)
  OBVIOUS
<1>2. CASE \E i \in D : s[i] = piece
  <2>1. PICK W : W = {i \in D : s[i] = piece}
    OBVIOUS
  <2>2. W \in SUBSET Nat /\ W # {}
    BY <1>1, <1>2, <2>1
  <2>3. PICK i \in W : \A j \in W : i <= j
    BY <2>2, LeastNat
  <2>4. i \in D /\ s[i] = piece
    BY <2>1
  <2>5. \A j \in 1..(i - 1) : s[j] # piece
    BY <1>1, <2>1, <2>2, <2>3
  <2>6. PICK k : k = CHOOSE j \in D : s[j] = piece /\ \A h \in 1..(j - 1) : s[h] # piece
    OBVIOUS
  <2>7. k \in D /\ s[k] = piece /\ \A h \in 1..(k - 1) : s[h] # piece
    BY <2>4, <2>5, <2>6
  <2>8. IndexIn(piece, s) = k
    BY <1>1, <1>2, <2>6 DEF IndexIn
  <2>9. QED
    BY <1>1, <2>7, <2>8 DEF First
<1>3. CASE ~\E i \in D : s[i] = piece
  BY <1>1, <1>3 DEF IndexIn, First
<1>4. QED
  BY <1>2, <1>3

(* A block between two pieces of text without markers is the span there    *)
(* is, and what is outside of it is the text.                              *)
BlockIn(u, x, y) ==
  /\ u \in Seq(Pieces) /\ MarkedOnce(u) /\ HasSpan(u)
  /\ SubSeq(u, 1, IndexIn("begin", u) - 1) = x
  /\ SubSeq(u, IndexIn("end", u) + 1, Len(u)) = y

LEMMA BlockPut ==
  ASSUME NEW x, Plain(x), NEW y, Plain(y), NEW u, u = x \o Block \o y
  PROVE  BlockIn(u, x, y)
<1>1. PICK block : block = Block
  OBVIOUS
<1>2. /\ block \in Seq(Pieces) /\ Len(block) = 3
      /\ block[1] = "begin" /\ block[2] = "text" /\ block[3] = "end"
  BY <1>1 DEF Block, Pieces
<1>3. PICK v : v = x \o block
  OBVIOUS
<1>4. x \in Seq(Pieces) /\ y \in Seq(Pieces)
  BY DEF Plain
<1>5. Joined(v, x, block, Pieces)
  BY <1>2, <1>3, <1>4, JoinIs
<1>6. v \in Seq(Pieces) /\ u = v \o y
  BY <1>1, <1>3, <1>5 DEF Joined
<1>7. Joined(u, v, y, Pieces)
  BY <1>4, <1>6, JoinIs
<1>8. PICK n, m : n = Len(x) /\ m = Len(y) /\ n \in Nat /\ m \in Nat
  <2>1. \A t \in Seq(Pieces) : Len(t) \in Nat
    OBVIOUS
  <2>2. QED
    BY <1>4, <2>1
<1>9. u \in Seq(Pieces) /\ Len(u) = n + 3 + m /\ Len(v) = n + 3
  BY <1>2, <1>5, <1>7, <1>8 DEF Joined
<1>10. \A k \in 1..n : u[k] = x[k]
  BY <1>5, <1>7, <1>8, <1>9 DEF Joined
<1>11. \A k \in 1..3 : u[n + k] = block[k]
  <2>1. \A k \in 1..3 : n + k \in 1..Len(v)
    BY <1>8, <1>9
  <2>2. \A k \in 1..3 : u[n + k] = v[n + k]
    BY <1>7, <2>1 DEF Joined
  <2>3. \A k \in 1..3 : v[n + k] = block[k]
    BY <1>2, <1>5, <1>8 DEF Joined
  <2>4. QED
    BY <2>2, <2>3
<1>12. \A k \in 1..m : u[n + 3 + k] = y[k]
  BY <1>7, <1>8, <1>9 DEF Joined
<1>13. u[n + 1] = "begin" /\ u[n + 2] = "text" /\ u[n + 3] = "end"
  <2>1. 1 \in 1..3 /\ 2 \in 1..3 /\ 3 \in 1..3
    OBVIOUS
  <2>2. u[n + 1] = block[1] /\ u[n + 2] = block[2] /\ u[n + 3] = block[3]
    BY <1>11, <2>1
  <2>3. QED
    BY <1>2, <2>2
<1>14. \A k \in 1..n : u[k] \notin Markers
  BY <1>8, <1>10 DEF Plain
<1>15. \A k \in (n + 4)..(n + 3 + m) : u[k] \notin Markers
  <2>1. SUFFICES ASSUME NEW k \in (n + 4)..(n + 3 + m) PROVE u[k] \notin Markers
    OBVIOUS
  <2>2. PICK j : j = k - (n + 3)
    OBVIOUS
  <2>3. j \in 1..m /\ n + 3 + j = k
    BY <1>8, <2>2
  <2>4. QED
    BY <1>8, <1>12, <2>3 DEF Plain
<1>16. ASSUME NEW k \in 1..Len(u), u[k] \in Markers PROVE k \in {n + 1, n + 3}
  <2>1. k \in 1..n \/ k \in {n + 1, n + 2, n + 3} \/ k \in (n + 4)..(n + 3 + m)
    BY <1>8, <1>9, <1>16, SMTT(30)
  <2>2. QED
    BY <1>13, <1>14, <1>15, <1>16, <2>1 DEF Markers
<1>17. MarkedOnce(u)
  BY <1>8, <1>13, <1>16 DEF MarkedOnce
<1>18. IndexIn("begin", u) = n + 1
  <2>1. PICK i : i = IndexIn("begin", u) /\ First(i, "begin", u)
    BY <1>9, IndexIs
  <2>2. n + 1 \in 1..Len(u)
    BY <1>8, <1>9
  <2>3. i \in 1..Len(u) /\ u[i] = "begin"
    BY <1>13, <2>1, <2>2 DEF First
  <2>4. QED
    BY <1>13, <1>16, <2>1, <2>3 DEF Markers
<1>19. IndexIn("end", u) = n + 3
  <2>1. PICK i : i = IndexIn("end", u) /\ First(i, "end", u)
    BY <1>9, IndexIs
  <2>2. n + 3 \in 1..Len(u)
    BY <1>8, <1>9
  <2>3. i \in 1..Len(u) /\ u[i] = "end"
    BY <1>13, <2>1, <2>2 DEF First
  <2>4. QED
    BY <1>13, <1>16, <2>1, <2>3 DEF Markers
<1>20. HasSpan(u)
  BY <1>8, <1>18, <1>19 DEF HasSpan
<1>21. SubSeq(u, 1, n) = x
  <2>1. n \in 0..Len(u)
    BY <1>8, <1>9
  <2>2. FrontOf(SubSeq(u, 1, n), u, n, Pieces)
    BY <1>9, <2>1, CutIs
  <2>3. QED
    BY <1>4, <1>8, <1>10, <2>2, SameElements DEF FrontOf
<1>22. SubSeq(u, n + 4, Len(u)) = y
  <2>1. PICK a : a = n + 3 /\ a \in 0..Len(u) /\ a + 1 = n + 4
    BY <1>8, <1>9
  <2>2. RestOf(SubSeq(u, a + 1, Len(u)), u, a, Pieces)
    BY <1>9, <2>1, CutIs
  <2>3. PICK w : w = SubSeq(u, a + 1, Len(u))
    OBVIOUS
  <2>4. w \in Seq(Pieces) /\ Len(w) = m /\ \A k \in 1..m : w[k] = y[k]
    <3>1. Len(u) - a = m
      BY <1>8, <1>9, <2>1
    <3>2. w \in Seq(Pieces) /\ Len(w) = m /\ \A k \in 1..m : w[k] = u[a + k]
      BY <2>2, <2>3, <3>1 DEF RestOf
    <3>3. \A k \in 1..m : u[a + k] = y[k]
      BY <1>12, <2>1
    <3>4. QED
      BY <3>2, <3>3
  <2>5. w = y
    BY <1>4, <1>8, <2>4, SameElements
  <2>6. QED
    BY <2>1, <2>3, <2>5
<1>23. SubSeq(u, 1, IndexIn("begin", u) - 1) = x
  <2>1. IndexIn("begin", u) - 1 = n
    BY <1>8, <1>18
  <2>2. QED
    BY <1>21, <2>1
<1>24. SubSeq(u, IndexIn("end", u) + 1, Len(u)) = y
  <2>1. IndexIn("end", u) + 1 = n + 4
    BY <1>8, <1>19
  <2>2. QED
    BY <1>22, <2>1
<1>25. QED
  BY <1>9, <1>17, <1>20, <1>23, <1>24 DEF BlockIn

LEMMA PlainsJoin == ASSUME NEW x, Plain(x), NEW y, Plain(y) PROVE Plain(x \o y)
<1>1. x \in Seq(Pieces) /\ y \in Seq(Pieces)
  BY DEF Plain
<1>2. PICK u : u = x \o y /\ Joined(u, x, y, Pieces)
  BY <1>1, JoinIs
<1>3. ASSUME NEW k \in 1..Len(u) PROVE u[k] \notin Markers
  <2>1. Len(x) \in Nat /\ Len(y) \in Nat /\ Len(u) = Len(x) + Len(y)
    BY <1>1, <1>2 DEF Joined
  <2>2. CASE k <= Len(x)
    <3>1. k \in 1..Len(x)
      BY <2>1, <2>2
    <3>2. QED
      BY <1>2, <3>1 DEF Joined, Plain
  <2>3. CASE k > Len(x)
    <3>1. PICK j : j = k - Len(x)
      OBVIOUS
    <3>2. j \in 1..Len(y) /\ Len(x) + j = k
      BY <2>1, <2>3, <3>1
    <3>3. QED
      BY <1>2, <3>2 DEF Joined, Plain
  <2>4. QED
    BY <2>1, <2>2, <2>3
<1>4. QED
  BY <1>2, <1>3 DEF Plain, Joined

LEMMA PlainHasNoSpan == ASSUME NEW x, Plain(x) PROVE MarkedOnce(x) /\ ~HasSpan(x)
<1>1. x \in Seq(Pieces)
  BY DEF Plain
<1>2. First(IndexIn("begin", x), "begin", x)
  BY <1>1, IndexIs
<1>3. IndexIn("begin", x) = 0
  BY <1>2 DEF First, Plain, Markers
<1>4. QED
  BY <1>3 DEF HasSpan, MarkedOnce, Plain

(* Outside of a span there is no marker.                                   *)
LEMMA SpanParts ==
  ASSUME NEW s \in Seq(Pieces), MarkedOnce(s), HasSpan(s)
  PROVE  /\ Plain(SubSeq(s, 1, IndexIn("begin", s) - 1))
         /\ Plain(SubSeq(s, IndexIn("end", s) + 1, Len(s)))
<1>1. PICK b, e : b = IndexIn("begin", s) /\ e = IndexIn("end", s)
  OBVIOUS
<1>2. First(b, "begin", s) /\ First(e, "end", s)
  BY <1>1, IndexIs
<1>3. b \in 1..Len(s) /\ e \in 1..Len(s) /\ b < e /\ s[b] = "begin" /\ s[e] = "end"
  <2>1. b # 0 /\ e > b
    BY <1>1 DEF HasSpan
  <2>2. Len(s) \in Nat /\ b \in 1..Len(s)
    BY <1>2, <2>1 DEF First
  <2>3. e # 0
    BY <2>1, <2>2
  <2>4. QED
    BY <1>2, <2>1, <2>2, <2>3 DEF First
<1>4. ASSUME NEW k \in 1..Len(s), s[k] \in Markers PROVE k = b \/ k = e
  BY <1>3, <1>4 DEF MarkedOnce, Markers
<1>5. PICK n : n = b - 1 /\ n \in 0..Len(s)
  BY <1>3
<1>6. FrontOf(SubSeq(s, 1, n), s, n, Pieces) /\ RestOf(SubSeq(s, e + 1, Len(s)), s, e, Pieces)
  <2>1. e \in 0..Len(s)
    BY <1>3
  <2>2. QED
    BY <1>5, <2>1, CutIs
<1>7. Plain(SubSeq(s, 1, n))
  <2>1. PICK u : u = SubSeq(s, 1, n)
    OBVIOUS
  <2>2. ASSUME NEW k \in 1..Len(u) PROVE u[k] \notin Markers
    <3>1. k \in 1..n /\ k \in 1..Len(s) /\ k # b /\ k # e
      BY <1>3, <1>5, <1>6, <2>1 DEF FrontOf
    <3>2. QED
      BY <1>4, <1>6, <2>1, <3>1 DEF FrontOf
  <2>3. QED
    BY <1>6, <2>1, <2>2 DEF Plain, FrontOf
<1>8. Plain(SubSeq(s, e + 1, Len(s)))
  <2>1. PICK u : u = SubSeq(s, e + 1, Len(s))
    OBVIOUS
  <2>2. ASSUME NEW k \in 1..Len(u) PROVE u[k] \notin Markers
    <3>1. k \in 1..(Len(s) - e)
      BY <1>6, <2>1 DEF RestOf
    <3>2. e + k \in 1..Len(s) /\ e + k # b /\ e + k # e
      BY <1>3, <3>1
    <3>3. QED
      BY <1>4, <1>6, <2>1, <3>1, <3>2 DEF RestOf
  <2>3. QED
    BY <1>6, <2>1, <2>2 DEF Plain, RestOf
<1>9. QED
  BY <1>1, <1>5, <1>7, <1>8

(* What is left when the marker lines go: no marker, and all of the user's *)
(* text (injectblock.js:133-135).                                          *)
Own == {"user", "title", "span"}
Sifted(u, s, n) ==
  Plain(u) /\ Cardinality(Written(u)) = Cardinality({i \in 1..n : s[i] \in Own})

LEMMA WrittenIsFinite ==
  ASSUME NEW s \in Seq(Pieces)
  PROVE  IsFiniteSet(Written(s)) /\ Cardinality(Written(s)) \in Nat
<1>1. PICK n : n = Len(s) /\ n \in Nat
  OBVIOUS
<1>2. PICK I : I = 1..n /\ IsFiniteSet(I)
  BY <1>1, FS_Interval
<1>3. Written(s) \subseteq I
  BY <1>1, <1>2 DEF Written
<1>4. QED
  BY <1>2, <1>3, FS_Subset, FS_CardinalityType

LEMMA OneMore ==
  ASSUME NEW s \in Seq(Pieces), NEW n \in 1..Len(s), NEW u, Sifted(u, s, n - 1)
  PROVE  Sifted(IF s[n] \in Markers THEN u ELSE Append(u, s[n]), s, n)
<1>1. PICK e : e = s[n] /\ e \in Pieces
  OBVIOUS
<1>2. PICK A, B : A = {i \in 1..(n - 1) : s[i] \in Own} /\ B = {i \in 1..n : s[i] \in Own}
  OBVIOUS
<1>3. IsFiniteSet(A) /\ n \notin A
  <2>1. PICK I : I = 1..(n - 1) /\ IsFiniteSet(I)
    BY FS_Interval
  <2>2. A \subseteq I
    BY <1>2, <2>1
  <2>3. QED
    BY <1>2, <2>1, <2>2, FS_Subset
<1>4. B = IF e \in Own THEN A \cup {n} ELSE A
  BY <1>1, <1>2
<1>5. u \in Seq(Pieces) /\ Plain(u) /\ Cardinality(Written(u)) = Cardinality(A)
  BY <1>2 DEF Sifted, Plain
<1>6. CASE e \in Markers
  <2>1. e \notin Own
    BY <1>6 DEF Markers, Own
  <2>2. QED
    BY <1>1, <1>2, <1>4, <1>5, <1>6, <2>1 DEF Sifted
<1>7. CASE e \notin Markers
  <2>1. PICK v, m : v = Append(u, e) /\ m = Len(u) + 1
    OBVIOUS
  <2>2. v \in Seq(Pieces) /\ Len(v) = m /\ v[m] = e /\ m \in Nat /\ \A k \in 1..(m - 1) : v[k] = u[k]
    <3>1. \A t \in Seq(Pieces) : \A p \in Pieces :
            /\ Append(t, p) \in Seq(Pieces) /\ Len(Append(t, p)) = Len(t) + 1 /\ Len(t) \in Nat
            /\ Append(t, p)[Len(t) + 1] = p /\ \A k \in 1..Len(t) : Append(t, p)[k] = t[k]
      OBVIOUS
    <3>2. QED
      BY <1>1, <1>5, <2>1, <3>1
  <2>3. Plain(v)
    <3>1. \A k \in 1..Len(v) : k = m \/ k \in 1..(m - 1)
      BY <2>2
    <3>2. \A k \in 1..(m - 1) : u[k] \notin Markers
      BY <1>5, <2>1 DEF Plain
    <3>3. QED
      BY <1>7, <2>2, <3>1, <3>2 DEF Plain
  <2>4. Written(v) = IF e \in Own THEN Written(u) \cup {m} ELSE Written(u)
    <3>1. Written(v) = {i \in 1..m : v[i] \in Own} /\ Written(u) = {i \in 1..(m - 1) : u[i] \in Own}
      <4>1. m - 1 = Len(u)
        BY <1>5, <2>1
      <4>2. QED
        BY <2>2, <4>1 DEF Written, Own
    <3>2. \A i : i \in 1..m <=> i \in 1..(m - 1) \/ i = m
      BY <1>5, <2>1, <2>2
    <3>3. m \notin 1..(m - 1)
      BY <2>2
    <3>4. \A i \in 1..(m - 1) : v[i] \in Own <=> u[i] \in Own
      BY <2>2
    <3>5. v[m] \in Own <=> e \in Own
      BY <2>2
    <3>6. QED
      BY <3>1, <3>2, <3>3, <3>4, <3>5, Zenon
  <2>5. m \notin Written(u) /\ IsFiniteSet(Written(u))
    BY <1>5, <2>1, WrittenIsFinite DEF Written
  <2>6. Cardinality(Written(v)) = Cardinality(B)
    <3>1. CASE e \in Own
      <4>1. Cardinality(A \cup {n}) = Cardinality(A) + 1
        BY <1>3, FS_AddElement
      <4>2. Cardinality(Written(u) \cup {m}) = Cardinality(Written(u)) + 1
        BY <2>5, FS_AddElement
      <4>3. QED
        BY <1>4, <1>5, <2>4, <3>1, <4>1, <4>2
    <3>2. CASE e \notin Own
      BY <1>4, <1>5, <2>4, <3>2
    <3>3. QED
      BY <3>1, <3>2
  <2>7. QED
    BY <1>1, <1>2, <1>7, <2>1, <2>3, <2>6 DEF Sifted
<1>8. QED
  BY <1>6, <1>7

LEMMA UnmarkedIs == ASSUME NEW s \in Seq(Pieces) PROVE Sifted(Unmarked(s), s, Len(s))
<1>1. PICK N : N = Len(s) /\ N \in Nat
  OBVIOUS
<1> DEFINE Next(n, u) == IF s[n] \in Markers THEN u ELSE Append(u, s[n])
           step == [x \in (1..N) \X Seq(Pieces) |-> Next(x[1], x[2])]
           D(h) == [n \in 0..N |-> IF n = 0 THEN <<>>
                                   ELSE IF s[n] \in {"begin", "end"} THEN h[n - 1]
                                   ELSE Append(h[n - 1], s[n])]
<1>2. PICK f : Iteration(f, N, Seq(Pieces), <<>>, step)
  <2>1. PICK next : next = step
    OBVIOUS
  <2>2. \A n \in 1..N : \A u \in Seq(Pieces) : Next(n, u) \in Seq(Pieces)
    BY <1>1
  <2>3. next \in [(1..N) \X Seq(Pieces) -> Seq(Pieces)]
    <3> HIDE DEF Next
    <3>1. QED
      BY <2>1, <2>2
  <2>4. <<>> \in Seq(Pieces)
    OBVIOUS
  <2>5. \E f : Iteration(f, N, Seq(Pieces), <<>>, next)
    BY <1>1, <2>3, <2>4, Iterates
  <2>6. QED
    BY <2>1, <2>5
<1>3. /\ f \in [0..N -> Seq(Pieces)] /\ f[0] = <<>>
      /\ \A k \in 1..N : f[k] = Next(k, f[k - 1])
  <2>1. /\ f \in [0..N -> Seq(Pieces)] /\ f[0] = <<>>
        /\ \A k \in 1..N : f[k] = step[<<k, f[k - 1]>>]
    <3> HIDE DEF step
    <3>1. QED
      BY <1>2 DEF Iteration
  <2>2. ASSUME NEW k \in 1..N PROVE f[k] = Next(k, f[k - 1])
    <3>1. PICK b : b = f[k - 1]
      OBVIOUS
    <3>2. b \in Seq(Pieces)
      BY <1>1, <2>1, <3>1
    <3>3. f[k] = step[<<k, b>>]
      <4> HIDE DEF step
      <4>1. QED
        BY <2>1, <3>1
    <3>4. step[<<k, b>>] = Next(k, b)
      <4> HIDE DEF Next
      <4>1. QED
        BY <3>2
    <3>5. QED
      BY <3>1, <3>3, <3>4
  <2>3. QED
    BY <2>1, <2>2
<1>4. f = D(f)
  <2>1. f = [n \in 0..N |-> f[n]] /\ D(f) = [n \in 0..N |-> D(f)[n]]
    BY <1>3
  <2>2. ASSUME NEW n \in 0..N PROVE f[n] = D(f)[n]
    <3>1. CASE n = 0
      BY <1>3, <3>1
    <3>2. CASE n # 0
      <4>1. n \in 1..N
        BY <1>1, <3>2
      <4>2. QED
        BY <1>3, <3>2, <4>1 DEF Markers
    <3>3. QED
      BY <3>1, <3>2
  <2> HIDE DEF D
  <2>3. QED
    BY <2>1, <2>2
<1>5. PICK h : h = CHOOSE t : t = D(t)
  OBVIOUS
<1>6. h = D(h)
  <2> HIDE DEF D
  <2>1. QED
    BY <1>4, <1>5
<1>7. Unmarked(s) = h[N]
  BY <1>1, <1>5 DEF Unmarked
<1>8. PICK o : o = h
  OBVIOUS
<1>9. h = D(o)
  BY <1>6, <1>8
<1>10. h[0] = <<>> /\ \A k \in 1..N : h[k] = Next(k, o[k - 1])
  <2>1. h[0] = <<>>
    BY <1>1, <1>9
  <2>2. ASSUME NEW k \in 1..N PROVE h[k] = Next(k, o[k - 1])
    <3>1. k \in 0..N /\ k # 0
      BY <1>1
    <3>2. QED
      BY <1>9, <3>1 DEF Markers
  <2>3. QED
    BY <2>1, <2>2
<1>11. Sifted(<<>>, s, 0)
  <2>1. PICK none : none = <<>>
    OBVIOUS
  <2>2. none \in Seq(Pieces) /\ Len(none) = 0
    BY <2>1
  <2>3. Plain(none) /\ Written(none) = {}
    BY <2>2 DEF Plain, Written
  <2>4. {i \in 1..0 : s[i] \in Own} = {}
    OBVIOUS
  <2>5. QED
    BY <2>1, <2>3, <2>4 DEF Sifted
<1>12. \A k \in 0..N : Sifted(h[k], s, k)
  <2>1. PICK W : W = {k \in 0..N : ~Sifted(h[k], s, k)}
    OBVIOUS
  <2>2. SUFFICES ASSUME W # {} PROVE FALSE
    BY <2>1
  <2>3. W \in SUBSET Nat
    BY <1>1, <2>1
  <2>4. PICK k \in W : \A j \in W : k <= j
    BY <2>2, <2>3, LeastNat
  <2>5. k \in 0..N /\ ~Sifted(h[k], s, k)
    BY <2>1
  <2>6. k # 0
    BY <1>10, <1>11, <2>5
  <2>7. k \in 1..Len(s) /\ k \in 1..N /\ k - 1 \in 0..N /\ k - 1 \notin W
    BY <1>1, <2>3, <2>4, <2>5, <2>6
  <2>8. Sifted(h[k - 1], s, k - 1)
    BY <2>1, <2>7
  <2>9. PICK u : u = h[k - 1]
    OBVIOUS
  <2>10. Sifted(u, s, k - 1) /\ h[k] = Next(k, u)
    BY <1>8, <1>10, <2>7, <2>8, <2>9
  <2>11. Sifted(Next(k, u), s, k)
    BY <2>7, <2>10, OneMore
  <2>12. QED
    BY <2>5, <2>10, <2>11
<1>13. QED
  BY <1>1, <1>7, <1>12

LEMMA NothingToAdd ==
  /\ <<>> \in Seq(Pieces) /\ Len(<<>>) = 0
  /\ \A s \in Seq(Pieces) : s \o <<>> = s
<1>1. <<>> \in Seq(Pieces) /\ Len(<<>>) = 0
  OBVIOUS
<1>2. ASSUME NEW s \in Seq(Pieces) PROVE s \o <<>> = s
  <2>1. PICK none : none = <<>>
    OBVIOUS
  <2>2. none \in Seq(Pieces) /\ Len(none) = 0
    BY <2>1
  <2>3. Joined(s \o none, s, none, Pieces)
    BY <2>2, JoinIs
  <2>4. PICK u : u = s \o none
    OBVIOUS
  <2>5. u \in Seq(Pieces) /\ Len(u) = Len(s) /\ \A k \in 1..Len(u) : u[k] = s[k]
    <3>1. Len(s) \in Nat
      OBVIOUS
    <3>2. QED
      BY <2>2, <2>3, <2>4, <3>1 DEF Joined
  <2>6. u = s
    BY <2>5, SameElements
  <2>7. QED
    BY <2>1, <2>4, <2>6
<1>3. QED
  BY <1>1, <1>2

LEMMA TextOutside ==
  ASSUME NEW s \in Seq(Pieces), MarkedOnce(s)
  PROVE  /\ HasSpan(s) => Plain(OutsideSpan(s)) /\ UserPieces(s) = Cardinality(Written(OutsideSpan(s)))
         /\ ~HasSpan(s) => UserPieces(s) = Cardinality(Written(s))
         /\ UserPieces(s) \in Nat
<1>1. ASSUME HasSpan(s) PROVE Plain(OutsideSpan(s))
  BY <1>1, SpanParts, PlainsJoin DEF OutsideSpan
<1>2. HasSpan(s) => UserPieces(s) = Cardinality(Written(OutsideSpan(s)))
  BY Zenon DEF UserPieces
<1>3. ~HasSpan(s) => UserPieces(s) = Cardinality(Written(s))
  BY Zenon DEF UserPieces
<1>4. UserPieces(s) \in Nat
  <2>1. CASE HasSpan(s)
    <3>1. OutsideSpan(s) \in Seq(Pieces)
      BY <1>1, <2>1 DEF Plain
    <3>2. QED
      BY <1>2, <2>1, <3>1, WrittenIsFinite
  <2>2. CASE ~HasSpan(s)
    BY <1>3, <2>2, WrittenIsFinite
  <2>3. QED
    BY <2>1, <2>2
<1>5. QED
  BY <1>1, <1>2, <1>3, <1>4

(* What a write leaves: all of the text, with a block in it.               *)
Keeps(u, s) == u \in Seq(Pieces) /\ MarkedOnce(u) /\ UserPieces(u) >= UserPieces(s)

LEMMA BlockKeeps ==
  ASSUME NEW x, Plain(x), NEW y, Plain(y), NEW s \in Seq(Pieces), MarkedOnce(s),
         NEW u, u = x \o Block \o y, Cardinality(Written(x \o y)) = UserPieces(s)
  PROVE  Keeps(u, s)
<1>1. BlockIn(u, x, y)
  BY BlockPut
<1>2. u \in Seq(Pieces) /\ MarkedOnce(u) /\ HasSpan(u) /\ OutsideSpan(u) = x \o y
  BY <1>1, Zenon DEF BlockIn, OutsideSpan
<1>3. UserPieces(u) = Cardinality(Written(x \o y))
  BY <1>2, TextOutside
<1>4. UserPieces(s) \in Nat
  BY TextOutside
<1>5. QED
  BY <1>2, <1>3, <1>4 DEF Keeps

LEMMA NothingIsPlain == Plain(<<>>) /\ Cardinality(Written(<<>>)) = 0
<1>1. PICK none : none = <<>>
  OBVIOUS
<1>2. none \in Seq(Pieces) /\ Len(none) = 0
  BY <1>1, NothingToAdd
<1>3. Plain(none) /\ Written(none) = {}
  BY <1>2 DEF Plain, Written
<1>4. QED
  BY <1>1, <1>3, FS_EmptySet

LEMMA AloneIsPlain ==
  ASSUME NEW e \in {"absent", "stub"}
  PROVE  /\ Plain(<<e>>) /\ <<e>> \in Seq(Pieces) /\ MarkedOnce(<<e>>)
         /\ ~HasSpan(<<e>>) /\ Cardinality(Written(<<e>>)) = 0 /\ UserPieces(<<e>>) = 0
<1>1. PICK s : s = <<e>>
  OBVIOUS
<1>2. s \in Seq(Pieces) /\ Len(s) = 1 /\ s[1] = e
  BY <1>1 DEF Pieces
<1>3. Plain(s)
  BY <1>2 DEF Plain, Markers
<1>4. Written(s) = {}
  BY <1>2 DEF Written
<1>5. Cardinality(Written(s)) = 0
  BY <1>4, FS_EmptySet
<1>6. MarkedOnce(s) /\ ~HasSpan(s)
  BY <1>3, PlainHasNoSpan
<1>7. UserPieces(s) = 0
  BY <1>2, <1>5, <1>6, TextOutside
<1>8. QED
  BY <1>1, <1>2, <1>3, <1>5, <1>6, <1>7

LEMMA WritesKeep ==
  ASSUME NEW s \in Seq(Pieces), MarkedOnce(s)
  PROVE  Keeps(WithBlock(s), s)
<1>1. PICK u : u = WithBlock(s)
  OBVIOUS
<1>2. CASE s = NoTarget
  <2>1. PICK x, y : x = <<"stub">> /\ y = <<>>
    OBVIOUS
  <2>2. Plain(x) /\ Plain(y) /\ x \in Seq(Pieces) /\ Cardinality(Written(x)) = 0 /\ x \o y = x
    BY <2>1, AloneIsPlain, NothingIsPlain, NothingToAdd
  <2>3. UserPieces(s) = 0
    BY <1>2, AloneIsPlain DEF NoTarget
  <2>4. x \o Block \in Seq(Pieces)
    BY <2>2 DEF Block, Pieces
  <2>5. u = x \o Block
    BY <1>1, <1>2, <2>1 DEF WithBlock
  <2>6. u = x \o Block \o y
    BY <2>1, <2>4, <2>5, NothingToAdd
  <2>7. Keeps(u, s)
    BY <2>2, <2>3, <2>6, BlockKeeps
  <2>8. QED
    BY <1>1, <2>7
<1>3. CASE s # NoTarget /\ HasSpan(s)
  <2>1. PICK x, y : /\ x = SubSeq(s, 1, IndexIn("begin", s) - 1)
                    /\ y = SubSeq(s, IndexIn("end", s) + 1, Len(s))
    OBVIOUS
  <2>2. Plain(x) /\ Plain(y)
    BY <1>3, <2>1, SpanParts
  <2>3. OutsideSpan(s) = x \o y
    BY <2>1, Zenon DEF OutsideSpan
  <2>4. UserPieces(s) = Cardinality(Written(x \o y))
    BY <1>3, <2>3, TextOutside
  <2>5. u = x \o Block \o y
    BY <1>1, <1>3, <2>1 DEF WithBlock
  <2>6. Keeps(u, s)
    BY <2>2, <2>4, <2>5, BlockKeeps
  <2>7. QED
    BY <1>1, <2>6
<1>4. CASE s # NoTarget /\ ~HasSpan(s) /\ (IndexIn("begin", s) # 0 \/ IndexIn("end", s) # 0)
  <2>1. PICK x, y : x = Unmarked(s) /\ y = <<>>
    OBVIOUS
  <2>2. Sifted(x, s, Len(s))
    BY <2>1, UnmarkedIs
  <2>3. Plain(x) /\ x \in Seq(Pieces) /\ Plain(y) /\ x \o y = x
    BY <2>1, <2>2, NothingIsPlain, NothingToAdd DEF Sifted, Plain
  <2>4. Cardinality(Written(x)) = Cardinality(Written(s))
    BY <2>2 DEF Sifted, Written, Own
  <2>5. Cardinality(Written(x \o y)) = UserPieces(s)
    BY <1>4, <2>3, <2>4, TextOutside
  <2>6. u = x \o Block
    BY <1>1, <1>4, <2>1 DEF WithBlock, Repaired
  <2>7. x \o Block \in Seq(Pieces)
    BY <2>3 DEF Block, Pieces
  <2>8. u = x \o Block \o y
    BY <2>1, <2>6, <2>7, NothingToAdd
  <2>9. Keeps(u, s)
    BY <2>3, <2>5, <2>8, BlockKeeps
  <2>10. QED
    BY <1>1, <2>9
<1>5. CASE s # NoTarget /\ ~HasSpan(s) /\ IndexIn("begin", s) = 0 /\ IndexIn("end", s) = 0
  <2>1. Plain(s)
    <3>1. First(0, "begin", s) /\ First(0, "end", s)
      BY <1>5, IndexIs
    <3>2. 0 \notin 1..Len(s)
      OBVIOUS
    <3>3. QED
      BY <3>1, <3>2 DEF First, Plain, Markers
  <2>2. PICK top : top = IF s # <<>> /\ s[1] \in {"title", "stub", "span"} THEN 1 ELSE 0
    OBVIOUS
  <2>3. top \in 0..Len(s)
    BY <2>2
  <2>4. PICK x, y : x = SubSeq(s, 1, top) /\ y = SubSeq(s, top + 1, Len(s))
    OBVIOUS
  <2>5. FrontOf(x, s, top, Pieces) /\ RestOf(y, s, top, Pieces)
    BY <2>3, <2>4, CutIs
  <2>6. Plain(x)
    BY <2>1, <2>3, <2>5 DEF Plain, FrontOf
  <2>7. Plain(y)
    <3>1. \A k \in 1..(Len(s) - top) : top + k \in 1..Len(s)
      BY <2>3
    <3>2. QED
      BY <2>1, <2>5, <3>1 DEF Plain, RestOf
  <2>8. x \o y = s
    <3>1. PICK v : v = x \o y /\ Joined(v, x, y, Pieces)
      BY <2>5, JoinIs DEF FrontOf, RestOf
    <3>2. v \in Seq(Pieces) /\ Len(v) = Len(s)
      BY <2>3, <2>5, <3>1 DEF Joined, FrontOf, RestOf
    <3>3. ASSUME NEW k \in 1..Len(v) PROVE v[k] = s[k]
      <4>1. CASE k <= top
        <5>1. k \in 1..top
          BY <2>3, <3>2, <4>1
        <5>2. QED
          BY <2>5, <3>1, <5>1 DEF Joined, FrontOf
      <4>2. CASE k > top
        <5>1. PICK j : j = k - top
          OBVIOUS
        <5>2. j \in 1..(Len(s) - top) /\ top + j = k
          BY <2>3, <3>2, <4>2, <5>1
        <5>3. QED
          BY <2>5, <3>1, <5>2 DEF Joined, FrontOf, RestOf
      <4>3. QED
        BY <2>3, <3>2, <4>1, <4>2
    <3>4. v = s
      BY <3>2, <3>3, SameElements
    <3>5. QED
      BY <3>1, <3>4
  <2>9. Cardinality(Written(x \o y)) = UserPieces(s)
    BY <1>5, <2>8, TextOutside
  <2>10. Inserted(s) = x \o Block \o y
    BY <2>2, <2>4, Zenon DEF Inserted
  <2>11. u = Inserted(s)
    <3>1. /\ s # NoTarget /\ ~(s # NoTarget /\ HasSpan(s))
          /\ ~(s # NoTarget /\ ~HasSpan(s) /\ (IndexIn("begin", s) # 0 \/ IndexIn("end", s) # 0))
      BY <1>5
    <3>2. QED
      BY <1>1, <3>1 DEF WithBlock
  <2>12. Keeps(u, s)
    BY <2>6, <2>7, <2>9, <2>10, <2>11, BlockKeeps
  <2>13. QED
    BY <1>1, <2>12
<1>6. QED
  BY <1>2, <1>3, <1>4, <1>5

(* A file mawf made, and what it becomes.                                  *)
Fresh == <<"stub">> \o Block

LEMMA FreshIs ==
  /\ Fresh \in Seq(Pieces) /\ MarkedOnce(Fresh) /\ Fresh # NoTarget /\ HasSpan(Fresh)
  /\ OutsideSpan(Fresh) = <<"stub">>
  /\ WithBlock(NoTarget) = Fresh /\ WithBlock(Fresh) = Fresh
<1>1. PICK x, y : x = <<"stub">> /\ y = <<>>
  OBVIOUS
<1>2. Plain(x) /\ Plain(y) /\ x \in Seq(Pieces) /\ x \o y = x
  BY <1>1, AloneIsPlain, NothingIsPlain, NothingToAdd
<1>3. PICK u : u = x \o Block \o y
  OBVIOUS
<1>4. x \o Block \in Seq(Pieces)
  BY <1>2 DEF Block, Pieces
<1>5. u = x \o Block
  BY <1>1, <1>3, <1>4, NothingToAdd
<1>6. u = Fresh
  BY <1>1, <1>5 DEF Fresh
<1>7. BlockIn(u, x, y)
  BY <1>2, <1>3, BlockPut
<1>8. u \in Seq(Pieces) /\ MarkedOnce(u) /\ HasSpan(u) /\ OutsideSpan(u) = x
  BY <1>2, <1>7, Zenon DEF BlockIn, OutsideSpan
<1>9. u # NoTarget
  <2>1. Len(u) = Len(x) + 3
    BY <1>2, <1>5 DEF Block, Pieces
  <2>2. Len(x) = 1 /\ Len(NoTarget) = 1
    BY <1>1 DEF NoTarget
  <2>3. QED
    BY <2>1, <2>2
<1>10. WithBlock(NoTarget) = u
  <2>1. NoTarget = NoTarget
    OBVIOUS
  <2>2. QED
    BY <1>1, <1>5, <2>1 DEF WithBlock
<1>11. WithBlock(u) = x \o Block \o y
  <2>1. /\ SubSeq(u, 1, IndexIn("begin", u) - 1) = x
        /\ SubSeq(u, IndexIn("end", u) + 1, Len(u)) = y
    BY <1>7 DEF BlockIn
  <2>2. u # NoTarget /\ HasSpan(u)
    BY <1>8, <1>9
  <2>3. QED
    BY <2>1, <2>2 DEF WithBlock
<1>12. QED
  BY <1>1, <1>3, <1>6, <1>8, <1>9, <1>10, <1>11

LEMMA RemovalsKeep ==
  ASSUME NEW t, doc[t] \in Seq(Pieces), MarkedOnce(doc[t])
  PROVE  Keeps(WithoutBlock(t), doc[t])
<1>1. PICK s, u : s = doc[t] /\ u = WithoutBlock(t)
  OBVIOUS
<1>2. s \in Seq(Pieces) /\ MarkedOnce(s) /\ UserPieces(s) \in Nat
  BY <1>1, TextOutside
<1>3. CASE s = NoTarget \/ ~HasSpan(s)
  <2>1. u = s
    BY <1>1, <1>3 DEF WithoutBlock
  <2>2. QED
    BY <1>1, <1>2, <2>1 DEF Keeps
<1>4. CASE s # NoTarget /\ HasSpan(s) /\ t \in recorded /\ OutsideSpan(s) \in {<<>>, <<"stub">>}
  <2>1. u = NoTarget
    BY <1>1, <1>4 DEF WithoutBlock
  <2>2. UserPieces(s) = 0
    <3>1. UserPieces(s) = Cardinality(Written(OutsideSpan(s)))
      BY <1>2, <1>4, TextOutside
    <3>2. OutsideSpan(s) = <<>> \/ OutsideSpan(s) = <<"stub">>
      BY <1>4
    <3>3. QED
      BY <3>1, <3>2, NothingIsPlain, AloneIsPlain
  <2>3. u \in Seq(Pieces) /\ MarkedOnce(u) /\ UserPieces(u) = 0
    BY <2>1, AloneIsPlain DEF NoTarget
  <2>4. QED
    BY <1>1, <2>2, <2>3 DEF Keeps
<1>5. CASE s # NoTarget /\ HasSpan(s) /\ ~(t \in recorded /\ OutsideSpan(s) \in {<<>>, <<"stub">>})
  <2>1. u = OutsideSpan(s)
    <3>1. /\ ~(s = NoTarget \/ ~HasSpan(s))
          /\ ~(s # NoTarget /\ HasSpan(s) /\ t \in recorded /\ OutsideSpan(s) \in {<<>>, <<"stub">>})
      BY <1>5
    <3>2. QED
      BY <1>1, <3>1 DEF WithoutBlock
  <2>2. Plain(u) /\ UserPieces(s) = Cardinality(Written(u))
    BY <1>2, <1>5, <2>1, TextOutside
  <2>3. u \in Seq(Pieces) /\ MarkedOnce(u) /\ ~HasSpan(u)
    BY <2>2, PlainHasNoSpan DEF Plain
  <2>4. UserPieces(u) = Cardinality(Written(u))
    BY <2>3, TextOutside
  <2>5. QED
    BY <1>1, <1>2, <2>2, <2>3, <2>4 DEF Keeps
<1>6. QED
  BY <1>3, <1>4, <1>5

LEMMA OursGo ==
  /\ \A t : doc[t] = NoTarget => WithoutBlock(t) = NoTarget
  /\ \A t \in recorded : doc[t] = Fresh => WithoutBlock(t) = NoTarget
<1>1. ASSUME NEW t, doc[t] = NoTarget PROVE WithoutBlock(t) = NoTarget
  BY <1>1 DEF WithoutBlock
<1>2. ASSUME NEW t \in recorded, doc[t] = Fresh PROVE WithoutBlock(t) = NoTarget
  <2>1. PICK s : s = doc[t]
    OBVIOUS
  <2>2. s # NoTarget /\ HasSpan(s) /\ OutsideSpan(s) \in {<<>>, <<"stub">>}
    BY <1>2, <2>1, FreshIs
  <2>3. QED
    BY <2>1, <2>2 DEF WithoutBlock
<1>3. QED
  BY <1>1, <1>2

LEMMA HandsKeepMarks ==
  ASSUME NEW s \in Seq(Pieces), MarkedOnce(s)
  PROVE  /\ \A i \in DOMAIN s : RemoveAt(s, i) \in Seq(Pieces) /\ MarkedOnce(RemoveAt(s, i))
         /\ \A i \in 1..(Len(s) + 1) :
              InsertAt(s, i, "user") \in Seq(Pieces) /\ MarkedOnce(InsertAt(s, i, "user"))
<1>1. PICK N : N = Len(s) /\ N \in Nat
  OBVIOUS
<1>2. ASSUME NEW i \in DOMAIN s PROVE RemoveAt(s, i) \in Seq(Pieces) /\ MarkedOnce(RemoveAt(s, i))
  <2>1. PICK n : n = i - 1 /\ n \in 0..Len(s) /\ i \in 0..Len(s)
    OBVIOUS
  <2>2. PICK x, y : x = SubSeq(s, 1, n) /\ y = SubSeq(s, i + 1, Len(s))
    OBVIOUS
  <2>3. FrontOf(x, s, n, Pieces) /\ RestOf(y, s, i, Pieces)
    BY <2>1, <2>2, CutIs
  <2>4. PICK u : u = x \o y /\ Joined(u, x, y, Pieces)
    BY <2>3, JoinIs DEF FrontOf, RestOf
  <2>5. u = RemoveAt(s, i)
    BY <2>1, <2>2, <2>4 DEF RemoveAt
  <2>6. u \in Seq(Pieces) /\ Len(u) = N - 1
    <3>1. Len(x) = n /\ Len(y) = N - i /\ u \in Seq(Pieces) /\ Len(u) = Len(x) + Len(y)
      BY <1>1, <2>3, <2>4 DEF Joined, FrontOf, RestOf
    <3>2. n + (N - i) = N - 1
      BY <1>1, <2>1
    <3>3. QED
      BY <3>1, <3>2
  <2>7. ASSUME NEW k \in 1..Len(u)
        PROVE  u[k] = s[IF k < i THEN k ELSE k + 1]
    <3>1. CASE k < i
      <4>1. k \in 1..n
        BY <1>1, <2>1, <2>6, <3>1
      <4>2. QED
        BY <2>3, <2>4, <3>1, <4>1 DEF Joined, FrontOf
    <3>2. CASE ~(k < i)
      <4>1. PICK j : j = k - n
        OBVIOUS
      <4>2. j \in 1..(Len(s) - i) /\ n + j = k /\ i + j = k + 1
        BY <1>1, <2>1, <2>6, <3>2, <4>1
      <4>3. QED
        BY <2>3, <2>4, <3>2, <4>2 DEF Joined, FrontOf, RestOf
    <3>3. QED
      BY <3>1, <3>2
  <2>8. ASSUME NEW k \in 1..Len(u), NEW j \in 1..Len(u), u[k] = u[j], u[k] \in Markers
        PROVE  k = j
    <3>1. PICK a, b : a = (IF k < i THEN k ELSE k + 1) /\ b = (IF j < i THEN j ELSE j + 1)
      OBVIOUS
    <3>2. a \in 1..Len(s) /\ b \in 1..Len(s)
      BY <1>1, <2>1, <2>6, <3>1
    <3>3. u[k] = s[a] /\ u[j] = s[b]
      BY <2>7, <3>1
    <3>4. a = b
      BY <2>8, <3>2, <3>3 DEF MarkedOnce
    <3>5. QED
      BY <1>1, <2>1, <2>6, <3>1, <3>4
  <2>9. QED
    BY <2>5, <2>6, <2>8 DEF MarkedOnce
<1>3. ASSUME NEW i \in 1..(Len(s) + 1)
      PROVE  InsertAt(s, i, "user") \in Seq(Pieces) /\ MarkedOnce(InsertAt(s, i, "user"))
  <2>1. PICK e : e = "user" /\ e \in Pieces /\ e \notin Markers
    BY DEF Pieces, Markers
  <2>2. PICK u : u = InsertAt(s, i, e) /\ PutIn(u, s, Pieces, i, e)
    BY <2>1, InsertionIs
  <2>3. u \in Seq(Pieces) /\ Len(u) = N + 1
    BY <1>1, <2>2 DEF PutIn
  <2>4. ASSUME NEW k \in 1..Len(u), k # i
        PROVE  u[k] = s[IF k < i THEN k ELSE k - 1]
    <3>1. CASE k < i
      BY <2>2, <2>4, <3>1 DEF PutIn
    <3>2. CASE k > i
      <4>1. PICK j : j = k - 1
        OBVIOUS
      <4>2. j \in i..Len(s) /\ j + 1 = k
        BY <1>1, <2>3, <3>2, <4>1
      <4>3. QED
        BY <2>2, <3>2, <4>1, <4>2 DEF PutIn
    <3>3. QED
      BY <2>4, <3>1, <3>2
  <2>5. ASSUME NEW k \in 1..Len(u), NEW j \in 1..Len(u), u[k] = u[j], u[k] \in Markers
        PROVE  k = j
    <3>1. k # i /\ j # i
      BY <2>1, <2>2, <2>5 DEF PutIn
    <3>2. PICK a, b : a = (IF k < i THEN k ELSE k - 1) /\ b = (IF j < i THEN j ELSE j - 1)
      OBVIOUS
    <3>3. a \in 1..Len(s) /\ b \in 1..Len(s)
      BY <1>1, <2>3, <3>1, <3>2
    <3>4. u[k] = s[a] /\ u[j] = s[b]
      BY <2>4, <3>1, <3>2
    <3>5. a = b
      BY <2>5, <3>3, <3>4 DEF MarkedOnce
    <3>6. QED
      BY <1>1, <2>3, <3>1, <3>2, <3>5
  <2>6. QED
    BY <2>1, <2>2, <2>3, <2>5 DEF MarkedOnce
<1>4. QED
  BY <1>2, <1>3

(* The inductive invariant: the markers stay single, what a write created  *)
(* is as it was made, what nobody changed since is that or gone, and a     *)
(* removal has taken what it passed.                                       *)
BlocksInv ==
  /\ doc \in [TargetNames -> Seq(Pieces)] /\ \A t \in TargetNames : MarkedOnce(doc[t])
  /\ recorded \subseteq TargetNames /\ untouched \subseteq TargetNames /\ userEdits \in Nat
  /\ blockJob \in [does : {"none", "write", "remove", "removed"}, next : 1..3,
                   created : SUBSET TargetNames]
  /\ blockJob.does # "removed" => untouched \subseteq recorded
  /\ blockJob.does = "write" => \A t \in blockJob.created : doc[t] = Fresh
  /\ \A t \in untouched : doc[t] \in {NoTarget, Fresh}
  /\ blockJob.does = "remove" =>
       \A j \in 1..(blockJob.next - 1) : Targets[j] \in untouched => doc[Targets[j]] = NoTarget
  /\ PurgeTakesOurs

PiecesKept == \A t \in TargetNames : UserPieces(doc'[t]) >= UserPieces(doc[t])

LEMMA BlocksInitially == ASSUME BlocksInit PROVE BlocksInv
<1>1. ASSUME NEW s \in {NoTarget, <<"user">>, <<"title", "user">>, <<"span", "user">>}
      PROVE  s \in Seq(Pieces) /\ MarkedOnce(s)
  <2>1. PICK a, b : a \in Pieces \ Markers /\ b \in Pieces \ Markers /\ (s = <<a>> \/ s = <<a, b>>)
    BY <1>1 DEF NoTarget, Pieces, Markers
  <2>2. s \in Seq(Pieces) /\ \A k \in 1..Len(s) : s[k] \in {a, b}
    <3>1. CASE s = <<a>>
      <4>1. Len(s) = 1 /\ s[1] = a /\ s \in Seq(Pieces)
        BY <2>1, <3>1
      <4>2. QED
        BY <4>1
    <3>2. CASE s = <<a, b>>
      <4>1. Len(s) = 2 /\ s[1] = a /\ s[2] = b /\ s \in Seq(Pieces)
        BY <2>1, <3>2
      <4>2. \A k \in 1..2 : k = 1 \/ k = 2
        OBVIOUS
      <4>3. QED
        BY <4>1, <4>2
    <3>3. QED
      BY <2>1, <3>1, <3>2
  <2>3. Plain(s)
    BY <2>1, <2>2 DEF Plain
  <2>4. QED
    BY <2>3, PlainHasNoSpan DEF Plain
<1>2. doc \in [TargetNames -> Seq(Pieces)] /\ \A t \in TargetNames : MarkedOnce(doc[t])
  <2>1. PICK D : D = {NoTarget, <<"user">>, <<"title", "user">>, <<"span", "user">>}
    OBVIOUS
  <2>2. doc \in [TargetNames -> D] /\ \A s \in D : s \in Seq(Pieces) /\ MarkedOnce(s)
    BY <1>1, <2>1 DEF BlocksInit
  <2>3. QED
    BY <2>2
<1>3. QED
  BY <1>2 DEF BlocksInit, BlocksInv, IdleJob, PurgeTakesOurs

LEMMA BothTargets ==
  /\ \A j \in 1..2 : Targets[j] \in TargetNames
  /\ \A t \in TargetNames : \E j \in 1..2 : Targets[j] = t
  BY DEF TargetNames

LEMMA SameText == ASSUME BlocksInv, doc' = doc PROVE PiecesKept
<1>1. \A t \in TargetNames : UserPieces(doc[t]) \in Nat
  BY TextOutside DEF BlocksInv
<1>2. QED
  BY <1>1 DEF PiecesKept

LEMMA WritingKeeps == ASSUME BlocksInv, WriteTarget PROVE BlocksInv' /\ PiecesKept
<1>1. PICK n, t : n = blockJob.next /\ t = Targets[blockJob.next]
  OBVIOUS
<1>2. n \in 1..2 /\ t \in TargetNames /\ blockJob.does = "write"
  BY <1>1, BothTargets DEF BlocksInv, WriteTarget
<1>3. PICK s, u : s = doc[t] /\ u = WithBlock(s)
  OBVIOUS
<1>4. PICK made : made = IF s = NoTarget THEN blockJob.created \cup {t} ELSE blockJob.created
  OBVIOUS
<1>5. /\ doc' = [doc EXCEPT ![t] = u]
      /\ blockJob' = [blockJob EXCEPT !.next = n + 1, !.created = made]
      /\ UNCHANGED <<recorded, userEdits, untouched>>
  BY <1>1, <1>3, <1>4 DEF WriteTarget
<1>6. s \in Seq(Pieces) /\ MarkedOnce(s)
  BY <1>2, <1>3 DEF BlocksInv
<1>7. u \in Seq(Pieces) /\ MarkedOnce(u) /\ UserPieces(u) >= UserPieces(s)
  BY <1>3, <1>6, WritesKeep DEF Keeps
<1>8. doc' \in [TargetNames -> Seq(Pieces)] /\ doc'[t] = u /\ \A d \in TargetNames \ {t} : doc'[d] = doc[d]
  BY <1>2, <1>5, <1>7 DEF BlocksInv
<1>9. PiecesKept
  <2>1. \A d \in TargetNames : UserPieces(doc[d]) \in Nat
    BY TextOutside DEF BlocksInv
  <2>2. QED
    BY <1>3, <1>7, <1>8, <2>1 DEF PiecesKept
<1>10. /\ blockJob' \in [does : {"none", "write", "remove", "removed"}, next : 1..3,
                         created : SUBSET TargetNames]
       /\ blockJob'.does = "write" /\ blockJob'.created = made
  <2>1. made \in SUBSET TargetNames /\ n + 1 \in 1..3
    BY <1>2, <1>4 DEF BlocksInv
  <2>2. blockJob' = [does |-> "write", next |-> n + 1, created |-> made]
    BY <1>2, <1>5 DEF BlocksInv
  <2>3. QED
    BY <2>1, <2>2
<1>11. s \in {NoTarget, Fresh} => u = Fresh
  BY <1>3, FreshIs
<1>12. \A d \in made : doc'[d] = Fresh
  <2>1. ASSUME NEW d \in made PROVE doc'[d] = Fresh
    <3>1. d \in TargetNames
      BY <1>2, <1>4 DEF BlocksInv
    <3>2. d \in blockJob.created => doc[d] = Fresh
      BY <1>2 DEF BlocksInv
    <3>3. CASE d = t
      BY <1>3, <1>4, <1>8, <1>11, <2>1, <3>2, <3>3
    <3>4. CASE d # t
      BY <1>4, <1>8, <2>1, <3>1, <3>2, <3>4
    <3>5. QED
      BY <3>3, <3>4
  <2>2. QED
    BY <2>1
<1>13. \A d \in untouched : doc'[d] \in {NoTarget, Fresh}
  BY <1>3, <1>8, <1>11 DEF BlocksInv
<1>14. \A d \in TargetNames : MarkedOnce(doc'[d])
  BY <1>7, <1>8 DEF BlocksInv
<1>15. BlocksInv'
  BY <1>2, <1>5, <1>8, <1>10, <1>12, <1>13, <1>14 DEF BlocksInv, PurgeTakesOurs
<1>16. QED
  BY <1>9, <1>15

LEMMA RemovingKeeps == ASSUME BlocksInv, RemoveTarget PROVE BlocksInv' /\ PiecesKept
<1>1. PICK n, t : n = blockJob.next /\ t = Targets[blockJob.next]
  OBVIOUS
<1>2. n \in 1..2 /\ t \in TargetNames /\ t = Targets[n] /\ blockJob.does = "remove"
  BY <1>1, BothTargets DEF BlocksInv, RemoveTarget
<1>3. PICK s, u : s = doc[t] /\ u = WithoutBlock(t)
  OBVIOUS
<1>4. /\ doc' = [doc EXCEPT ![t] = u]
      /\ blockJob' = [blockJob EXCEPT !.next = n + 1]
      /\ UNCHANGED <<recorded, userEdits, untouched>>
  BY <1>1, <1>3 DEF RemoveTarget
<1>5. s \in Seq(Pieces) /\ MarkedOnce(s)
  BY <1>2, <1>3 DEF BlocksInv
<1>6. u \in Seq(Pieces) /\ MarkedOnce(u) /\ UserPieces(u) >= UserPieces(s)
  BY <1>3, <1>5, RemovalsKeep DEF Keeps
<1>7. doc' \in [TargetNames -> Seq(Pieces)] /\ doc'[t] = u /\ \A d \in TargetNames \ {t} : doc'[d] = doc[d]
  BY <1>2, <1>4, <1>6 DEF BlocksInv
<1>8. PiecesKept
  <2>1. \A d \in TargetNames : UserPieces(doc[d]) \in Nat
    BY TextOutside DEF BlocksInv
  <2>2. QED
    BY <1>3, <1>6, <1>7, <2>1 DEF PiecesKept
<1>9. /\ blockJob' \in [does : {"none", "write", "remove", "removed"}, next : 1..3,
                        created : SUBSET TargetNames]
      /\ blockJob'.does = "remove" /\ blockJob'.next = n + 1
  <2>1. n + 1 \in 1..3 /\ blockJob.created \in SUBSET TargetNames
    BY <1>2 DEF BlocksInv
  <2>2. blockJob' = [does |-> "remove", next |-> n + 1, created |-> blockJob.created]
    BY <1>2, <1>4 DEF BlocksInv
  <2>3. QED
    BY <2>1, <2>2
<1>10. t \in untouched => u = NoTarget
  <2>1. ASSUME t \in untouched PROVE u = NoTarget
    <3>1. t \in recorded /\ doc[t] \in {NoTarget, Fresh}
      BY <1>2, <2>1 DEF BlocksInv
    <3>2. QED
      BY <1>3, <3>1, OursGo
  <2>2. QED
    BY <2>1
<1>11. \A d \in untouched : doc'[d] \in {NoTarget, Fresh}
  BY <1>7, <1>10 DEF BlocksInv
<1>12. ASSUME NEW j \in 1..n, Targets[j] \in untouched PROVE doc'[Targets[j]] = NoTarget
  <2>1. CASE Targets[j] = t
    BY <1>7, <1>10, <1>12, <2>1
  <2>2. CASE Targets[j] # t
    <3>1. j \in 1..(blockJob.next - 1)
      BY <1>1, <1>2, <2>2
    <3>2. doc[Targets[j]] = NoTarget /\ Targets[j] \in TargetNames
      BY <1>2, <1>12, <3>1 DEF BlocksInv
    <3>3. QED
      BY <1>7, <2>2, <3>2
  <2>3. QED
    BY <2>1, <2>2
<1>13. \A d \in TargetNames : MarkedOnce(doc'[d])
  BY <1>6, <1>7 DEF BlocksInv
<1>14. \A j \in 1..(blockJob'.next - 1) : j \in 1..n
  BY <1>2, <1>9
<1>15. BlocksInv'
  BY <1>2, <1>4, <1>7, <1>9, <1>11, <1>12, <1>13, <1>14 DEF BlocksInv, PurgeTakesOurs
<1>16. QED
  BY <1>8, <1>15

LEMMA HandsEditBlocks ==
  ASSUME BlocksInv, UserEditsTarget
  PROVE  BlocksInv' /\ userEdits' # userEdits
<1>1. PICK t \in TargetNames :
        /\ doc' \in {[doc EXCEPT ![t] = NoTarget]} \cup
                    (IF doc[t] = NoTarget THEN {[doc EXCEPT ![t] = <<"user">>]}
                     ELSE {[doc EXCEPT ![t] = RemoveAt(@, i)] : i \in DOMAIN doc[t]} \cup
                          (IF Len(doc[t]) < MaxPieces
                           THEN {[doc EXCEPT ![t] = InsertAt(@, i, "user")] : i \in 1 .. Len(doc[t]) + 1}
                           ELSE {}))
        /\ untouched' = untouched \ {t}
  BY DEF UserEditsTarget
<1>2. /\ blockJob.does = "none" /\ userEdits' = userEdits + 1 /\ recorded' = recorded
      /\ blockJob' = blockJob
  BY DEF UserEditsTarget
<1>3. PICK s : s = doc[t] /\ s \in Seq(Pieces) /\ MarkedOnce(s)
  BY DEF BlocksInv
<1>4. \E u : u \in Seq(Pieces) /\ MarkedOnce(u) /\ doc' = [doc EXCEPT ![t] = u]
  <2>1. CASE doc' = [doc EXCEPT ![t] = NoTarget]
    BY <2>1, AloneIsPlain DEF NoTarget
  <2>2. CASE doc' = [doc EXCEPT ![t] = <<"user">>]
    <3>1. PICK u : u = <<"user">>
      OBVIOUS
    <3>2. Plain(u)
      BY <3>1 DEF Plain, Pieces, Markers
    <3>3. u \in Seq(Pieces) /\ MarkedOnce(u)
      BY <3>2, PlainHasNoSpan DEF Plain
    <3>4. QED
      BY <2>2, <3>1, <3>3
  <2>3. ASSUME NEW i \in DOMAIN s, doc' = [doc EXCEPT ![t] = RemoveAt(@, i)]
        PROVE  \E u : u \in Seq(Pieces) /\ MarkedOnce(u) /\ doc' = [doc EXCEPT ![t] = u]
    <3>1. RemoveAt(s, i) \in Seq(Pieces) /\ MarkedOnce(RemoveAt(s, i))
      BY <1>3, HandsKeepMarks
    <3>2. doc' = [doc EXCEPT ![t] = RemoveAt(s, i)]
      BY <1>3, <2>3
    <3>3. QED
      BY <3>1, <3>2
  <2>4. ASSUME NEW i \in 1..(Len(s) + 1), doc' = [doc EXCEPT ![t] = InsertAt(@, i, "user")]
        PROVE  \E u : u \in Seq(Pieces) /\ MarkedOnce(u) /\ doc' = [doc EXCEPT ![t] = u]
    <3>1. InsertAt(s, i, "user") \in Seq(Pieces) /\ MarkedOnce(InsertAt(s, i, "user"))
      BY <1>3, HandsKeepMarks
    <3>2. doc' = [doc EXCEPT ![t] = InsertAt(s, i, "user")]
      BY <1>3, <2>4
    <3>3. QED
      BY <3>1, <3>2
  <2>5. QED
    BY <1>1, <1>3, <2>1, <2>2, <2>3, <2>4
<1>5. PICK u : u \in Seq(Pieces) /\ MarkedOnce(u) /\ doc' = [doc EXCEPT ![t] = u]
  BY <1>4
<1>6. doc' \in [TargetNames -> Seq(Pieces)] /\ doc'[t] = u /\ \A d \in TargetNames \ {t} : doc'[d] = doc[d]
  BY <1>5 DEF BlocksInv
<1>7. \A d \in TargetNames : MarkedOnce(doc'[d])
  BY <1>5, <1>6 DEF BlocksInv
<1>8. \A d \in untouched' : d \in untouched /\ d \in TargetNames /\ doc'[d] = doc[d]
  BY <1>1, <1>6 DEF BlocksInv
<1>9. BlocksInv'
  BY <1>2, <1>6, <1>7, <1>8 DEF BlocksInv, PurgeTakesOurs
<1>10. QED
  BY <1>2, <1>9 DEF BlocksInv

LEMMA BlocksKept ==
  ASSUME BlocksInv, [BlocksNext]_blockVars
  PROVE  BlocksInv' /\ (userEdits' = userEdits => PiecesKept)
<1>1. CASE WriteTarget
  BY <1>1, WritingKeeps
<1>2. CASE RemoveTarget
  BY <1>2, RemovingKeeps
<1>3. CASE UserEditsTarget
  BY <1>3, HandsEditBlocks
<1>4. CASE StartBlocks
  <2>1. BlocksInv'
    BY <1>4 DEF StartBlocks, BlocksInv, IdleJob, PurgeTakesOurs
  <2>2. QED
    BY <1>4, <2>1, SameText DEF StartBlocks
<1>5. CASE RecordCreated
  <2>1. BlocksInv'
    BY <1>5 DEF RecordCreated, BlocksInv, IdleJob, PurgeTakesOurs
  <2>2. QED
    BY <1>5, <2>1, SameText DEF RecordCreated
<1>6. CASE DropRecord
  <2>1. \A t \in untouched : doc[t] = NoTarget
    <3>1. ASSUME NEW t \in untouched PROVE doc[t] = NoTarget
      <4>1. PICK j \in 1..2 : Targets[j] = t
        BY BothTargets DEF BlocksInv
      <4>2. blockJob.does = "remove" /\ j \in 1..(blockJob.next - 1)
        BY <1>6 DEF DropRecord
      <4>3. QED
        BY <4>1, <4>2 DEF BlocksInv
    <3>2. QED
      BY <3>1
  <2>2. BlocksInv'
    BY <1>6, <2>1 DEF DropRecord, BlocksInv, IdleJob, PurgeTakesOurs
  <2>3. QED
    BY <1>6, <2>2, SameText DEF DropRecord
<1>7. CASE EndBlocks
  <2>1. BlocksInv'
    BY <1>7 DEF EndBlocks, BlocksInv, IdleJob, PurgeTakesOurs
  <2>2. QED
    BY <1>7, <2>1, SameText DEF EndBlocks
<1>8. CASE BlocksDie
  <2>1. BlocksInv'
    BY <1>8 DEF BlocksDie, BlocksInv, IdleJob, PurgeTakesOurs
  <2>2. QED
    BY <1>8, <2>1, SameText DEF BlocksDie
<1>9. CASE UNCHANGED blockVars
  <2>1. UNCHANGED <<doc, recorded, blockJob, userEdits, untouched>>
    BY <1>9 DEF blockVars
  <2>2. BlocksInv'
    BY <2>1 DEF BlocksInv, PurgeTakesOurs
  <2>3. QED
    BY <2>1, <2>2, SameText
<1>10. QED
  BY <1>1, <1>2, <1>3, <1>4, <1>5, <1>6, <1>7, <1>8, <1>9 DEF BlocksNext

(* Whatever state the markers are in, no command loses text the user wrote *)
(* outside of a whole block, and a removal that ends takes every file mawf *)
(* made and nobody changed since (injectblock.js:122, :133-139, :192).     *)
THEOREM BlocksKeepText == BlocksSpec => UserTextSurvives /\ []PurgeTakesOurs
<1>1. BlocksInit => BlocksInv
  BY BlocksInitially
<1>2. BlocksInv /\ [BlocksNext]_blockVars => BlocksInv'
  BY BlocksKept
<1>3. BlocksSpec => []BlocksInv
  BY <1>1, <1>2, PTL DEF BlocksSpec
<1>4. BlocksInv /\ [BlocksNext]_blockVars =>
        [userEdits' = userEdits =>
           \A t \in TargetNames : UserPieces(doc'[t]) >= UserPieces(doc[t])]_blockVars
  BY BlocksKept DEF PiecesKept
<1>5. BlocksInv => PurgeTakesOurs
  BY DEF BlocksInv
<1>6. QED
  BY <1>3, <1>4, <1>5, PTL DEF BlocksSpec, UserTextSurvives

(***************************************************************************)
(* The stores: each step is a step of one component that leaves the others *)
(* alone.                                                                  *)
(***************************************************************************)
LEMMA EachStoreSteps ==
  ASSUME [UnionNext]_unionVars
  PROVE  /\ [SettingsNext]_settingsVars /\ [RegistryNext]_registryVars
         /\ [GenerationNext]_generationVars /\ [SessionNext]_sessionVars
         /\ [KnowledgeNext]_knowledgeVars /\ [MigrationNext]_migrationVars
         /\ [HostNext]_installVars /\ [BlocksNext]_blockVars
  BY DEF UnionNext, unionVars

(* In every behaviour of the stores the settings in force satisfy the      *)
(* demands of their mode, and a legacy configuration is imported once.     *)
THEOREM StoresKeepSettingsStrict == UnionSpec => []SettingsAreStrict
<1>1. SettingsInv => SettingsAreStrict
  BY SoundCurrent DEF SettingsInv, Sound, ValidSettings, SettingsAreStrict,
      FixedModeIsStrict, ImportedOnce
<1>2. UnionInit => SettingsInv
  BY SettingsInitially DEF UnionInit
<1>3. SettingsInv /\ [UnionNext]_unionVars => SettingsInv'
  BY SettingsKept, EachStoreSteps
<1>4. QED
  BY <1>1, <1>2, <1>3, PTL DEF UnionSpec

(* In every behaviour of the stores what is active was validated, and it   *)
(* is called tested only when its own doctor passed.                       *)
THEOREM StoresProveUpdates == UnionSpec => []UpdatesAreProven
<1>1. RegistryInv => UpdatesAreProven
  BY DEF RegistryInv, Proven, UpdatesAreProven, ActiveWasValidated, TestedMeansTested
<1>2. UnionInit => RegistryInv
  BY RegistryInitially DEF UnionInit
<1>3. RegistryInv /\ [UnionNext]_unionVars => RegistryInv'
  BY RegistryKept, EachStoreSteps
<1>4. QED
  BY <1>1, <1>2, <1>3, PTL DEF UnionSpec

(* In every behaviour of the stores nobody overwrites what he has not      *)
(* seen: a knowledge text or a settings file is replaced by an edit only   *)
(* as its author read it, a roll-back keeps later edits, and a session     *)
(* that has ended is revived by a start alone.                             *)
THEOREM StoresLoseNoUpdate == UnionSpec => NoUpdateIsLost
<1>1. UnionInit => KnowledgeInit /\ SettingsInit /\ SessionInit
  BY DEF UnionInit
<1>2. [UnionNext]_unionVars =>
        [KnowledgeNext]_knowledgeVars /\ [SettingsNext]_settingsVars /\ [SessionNext]_sessionVars
  BY EachStoreSteps
<1>3. UnionSpec => KnowledgeSpec /\ SettingsSpec /\ SessionSpec
  BY <1>1, <1>2, PTL DEF UnionSpec, KnowledgeSpec, SettingsSpec, SessionSpec
<1>4. QED
  BY <1>3, EditsReplaceTheirBase, SettingsEditsAreSeen, StartsAloneRevive DEF NoUpdateIsLost

(* In every behaviour of the stores no knowledge text is lost to writing,  *)
(* archiving, migrating or rolling back, and the files of the store agree. *)
THEOREM StoresKeepKnowledge == UnionSpec => KnowledgeIsKept
<1>1. UnionInit => KnowledgeInit /\ MigrationInit
  BY DEF UnionInit
<1>2. [UnionNext]_unionVars => [KnowledgeNext]_knowledgeVars /\ [MigrationNext]_migrationVars
  BY EachStoreSteps
<1>3. UnionSpec => KnowledgeSpec /\ MigrationSpec
  BY <1>1, <1>2, PTL DEF UnionSpec, KnowledgeSpec, MigrationSpec
<1>4. UnionSpec => []StoreIsConsistent /\ NoTextIsLost /\ OwnFilesStay /\ []NotesRollbackRestores
  BY <1>3, StoreStaysConsistent, MigrationsKeepTexts
<1>5. QED
  BY <1>4, PTL DEF KnowledgeIsKept

(* In every behaviour of the stores the plans of a generation become       *)
(* visible together, and views a user edited stay.                         *)
THEOREM StoresPublishWhole == UnionSpec => PlansArePublishedWhole
<1>1. UnionInit => GenerationInit
  BY DEF UnionInit
<1>2. [UnionNext]_unionVars => [GenerationNext]_generationVars
  BY EachStoreSteps
<1>3. UnionSpec => GenerationSpec
  BY <1>1, <1>2, PTL DEF UnionSpec, GenerationSpec
<1>4. QED
  BY <1>3, PlansPublishedWhole

(* In every behaviour of the stores what users wrote into the files that   *)
(* installations share with them stays, and what is recorded as the        *)
(* program's own is.                                                       *)
THEOREM StoresSpareUsersFiles == UnionSpec => UsersFilesSurvive
<1>1. UnionInit => HostInit /\ BlocksInit
  BY DEF UnionInit
<1>2. [UnionNext]_unionVars => [HostNext]_installVars /\ [BlocksNext]_blockVars
  BY EachStoreSteps
<1>3. UnionSpec => HostSpec /\ BlocksSpec
  BY <1>1, <1>2, PTL DEF UnionSpec, HostSpec, BlocksSpec
<1>4. UnionSpec => /\ UnrecordedFilesSurvive /\ OtherHostsKept /\ []ManifestIsOurs
                   /\ UserTextSurvives /\ []PurgeTakesOurs
  BY <1>3, InstallsSpareFiles, BlocksKeepText
<1>5. QED
  BY <1>4, PTL DEF UsersFilesSurvive
=============================================================================
