----------------------------- MODULE HostInstall -----------------------------
(***************************************************************************)
(* `mawf install`, `update`, `uninstall` and `upgrade`                     *)
(* (src/selected-install.js, src/upgrade.js, the lifecycles of             *)
(* src/core-cli.js): the package's assets are copied into the directories  *)
(* of the selected hosts and into the installation root, and the manifest  *)
(* records exactly the files copied.  One lock serialises the commands;    *)
(* any of them may die between two steps, and users keep files of their    *)
(* own in the same directories.  An upgrade moves the package and then     *)
(* spawns `update` from it.                                                *)
(***************************************************************************)
EXTENDS Naturals, FiniteSets

CONSTANTS
  AppHosts,       \* the hosts an integration may be enabled for
  Places,         \* directories a host may be installed in
  Ships,          \* package version -> the names of its assets
  SkillsOnDemand, \* names installed only while their integration is enabled
  UserNames,      \* names users give their own files
  MaxCommands, MaxHands

VARIABLES
  package,     \* layout of the package, state of its tree, version, upgrade
  selection,   \* hosts enabled, integrations on demand enabled
  disk,        \* path -> "none", "user" or "mawf"
  ownList,    \* installed.json
  command,     \* the command holding the installer lock
  budget,      \* commands begun, things done by hand
  copiedOnce   \* paths a command has written (history)

installVars == <<package, selection, disk, ownList, command, budget, copiedOnce>>

ShippedVersions == DOMAIN Ships
Files == [host : AppHosts \cup {"portable"}, place : Places, name : UNION {Ships[v] : v \in ShippedVersions}]
DefaultPlace == CHOOSE p \in Places : TRUE
NoDirs == [h \in AppHosts |-> "nowhere"]
NoManifest == [exists |-> FALSE, files |-> {}, dirs |-> NoDirs]
NoCommand == [at |-> "none"]

HostInit ==
  /\ package \in [layout : {"checkout", "npm", "squatted"}, tree : {"clean"}, version : {1}, upgrade : {"rest"}]
  /\ selection = [hosts |-> {}, demand |-> FALSE]
  /\ disk = [f \in Files |-> "none"]
  /\ ownList = NoManifest /\ command = NoCommand
  /\ budget = [commands |-> 0, hands |-> 0] /\ copiedOnce = {}

(***************************************************************************)
(* What people do.                                                         *)
(***************************************************************************)
ByHand == budget.hands < MaxHands /\ budget' = [budget EXCEPT !.hands = @ + 1]

UserWrites(f) ==
  /\ ByHand /\ f.name \in UserNames /\ disk[f] = "none"
  /\ disk' = [disk EXCEPT ![f] = "user"]
  /\ UNCHANGED <<package, selection, ownList, command, copiedOnce>>

UserDeletes(f) ==
  /\ ByHand /\ f.name \in UserNames /\ disk[f] # "none"
  /\ disk' = [disk EXCEPT ![f] = "none"]
  /\ UNCHANGED <<package, selection, ownList, command, copiedOnce>>

SelectHost(h) ==
  /\ ByHand
  /\ selection' = [selection EXCEPT !.hosts = IF h \in @ THEN @ \ {h} ELSE @ \cup {h}]
  /\ UNCHANGED <<package, disk, ownList, command, copiedOnce>>

SelectDemand ==
  /\ ByHand /\ selection' = [selection EXCEPT !.demand = ~@]
  /\ UNCHANGED <<package, disk, ownList, command, copiedOnce>>

TreeChanges ==
  /\ ByHand /\ package' \in {[package EXCEPT !.tree = t] : t \in {"clean", "dirty", "diverged", "detached"}}
  /\ UNCHANGED <<selection, disk, ownList, command, copiedOnce>>

(***************************************************************************)
(* installSelected: a path given on the command line wins, then the        *)
(* manifest's, then the default.                                           *)
(***************************************************************************)
Wanted(name) == name \in SkillsOnDemand => command.selection.demand

StartInstall(place, force) ==
  /\ command = NoCommand /\ budget.commands < MaxCommands
  /\ budget' = [budget EXCEPT !.commands = @ + 1]
  /\ LET dirs == [h \in AppHosts |-> IF h \notin selection.hosts THEN ownList.dirs[h]
                                     ELSE IF place # "nowhere" THEN place
                                     ELSE IF ownList.dirs[h] # "nowhere" THEN ownList.dirs[h] ELSE DefaultPlace]
         portable == IF selection.hosts = {} THEN {} ELSE {[host |-> "portable", place |-> DefaultPlace]}
         surfaces == {[host |-> h, place |-> dirs[h]] : h \in selection.hosts} \cup portable
     IN  command' = [at |-> "copy", selection |-> selection, force |-> force, dirs |-> dirs,
                     surfaces |-> surfaces, left |-> surfaces, written |-> {}]
  /\ UNCHANGED <<selection, disk, ownList, copiedOnce>>

InstallBegins(place, force) == StartInstall(place, force) /\ UNCHANGED package

On(surface) == {f \in Files : f.host = surface.host /\ f.place = surface.place}

(* Mutant: whatever is in the way is overwritten.                          *)
Anything(f) == TRUE
MayWrite(f) == disk[f] = "none" \/ f \in ownList.files \/ command.force

CopySurface ==
  /\ command.at = "copy" /\ command.left # {}
  /\ \E surface \in command.left :
       LET targets == {f \in On(surface) : f.name \in Ships[package.version] /\ Wanted(f.name) /\ MayWrite(f)}
       IN  /\ disk' = [f \in Files |-> IF f \in targets THEN "mawf" ELSE disk[f]]
           /\ copiedOnce' = copiedOnce \cup targets
           /\ command' = [command EXCEPT !.left = @ \ {surface}, !.written = @ \cup targets]
  /\ UNCHANGED <<package, selection, ownList, budget>>

(* Mutant: what is not shipped to the selected hosts is stale.             *)
StaleAnywhere == ownList.files \ command.written
Stale == {f \in ownList.files \ command.written :
            \E surface \in command.surfaces : f \in On(surface) /\ Wanted(f.name)}

RemoveStale ==
  /\ command.at = "copy" /\ command.left = {}
  /\ disk' = [f \in Files |-> IF f \in Stale THEN "none" ELSE disk[f]]
  /\ command' = [command EXCEPT !.at = "record"]
  /\ UNCHANGED <<package, selection, ownList, budget, copiedOnce>>

(* Mutant: what the package ships there is recorded, skipped or not.       *)
RecordShipped == (ownList.files \ Stale) \cup
  {f \in UNION {On(s) : s \in command.surfaces} : f.name \in Ships[package.version] /\ Wanted(f.name)}
Recorded == (ownList.files \ Stale) \cup command.written

RecordInstall ==
  /\ command.at = "record"
  /\ ownList' = [exists |-> TRUE, files |-> Recorded, dirs |-> command.dirs]
  /\ command' = NoCommand
  /\ UNCHANGED <<package, selection, disk, budget, copiedOnce>>

(***************************************************************************)
(* uninstallSelected: recorded files under the recorded directories.       *)
(***************************************************************************)
Owned == {f \in ownList.files : f.host = "portable" \/ ownList.dirs[f.host] = f.place}

UninstallBegins ==
  /\ command = NoCommand /\ budget.commands < MaxCommands /\ ownList.exists
  /\ budget' = [budget EXCEPT !.commands = @ + 1]
  /\ disk' = [f \in Files |-> IF f \in Owned THEN "none" ELSE disk[f]]
  /\ command' = [at |-> "forget"]
  /\ UNCHANGED <<package, selection, ownList, copiedOnce>>

ForgetInstall ==
  /\ command.at = "forget"
  /\ ownList' = NoManifest /\ command' = NoCommand
  /\ UNCHANGED <<package, selection, disk, budget, copiedOnce>>

CommandDies ==
  /\ command # NoCommand /\ command' = NoCommand
  /\ UNCHANGED <<package, selection, disk, ownList, budget, copiedOnce>>

(***************************************************************************)
(* upgrade: a squatted name is only reported; a checkout is fetched and    *)
(* fast-forwarded, which a dirty, diverged or detached tree refuses.  The  *)
(* refresh is an `update` of the new package, and may fail on its own.     *)
(***************************************************************************)
UpgradePackage ==
  /\ package.upgrade = "rest" /\ package.version + 1 \in ShippedVersions
  /\ package.layout = "npm" \/ (package.layout = "checkout" /\ package.tree = "clean")
  /\ package' = [package EXCEPT !.version = @ + 1, !.upgrade = "refresh"]
  /\ UNCHANGED <<selection, disk, ownList, command, budget, copiedOnce>>

RefreshTemplates ==
  /\ package.upgrade = "refresh" /\ StartInstall("nowhere", FALSE)
  /\ package' = [package EXCEPT !.upgrade = "rest"]

RefreshFails ==
  /\ package.upgrade = "refresh" /\ package' = [package EXCEPT !.upgrade = "rest"]
  /\ UNCHANGED <<selection, disk, ownList, command, budget, copiedOnce>>

HostNext ==
  \/ \E f \in Files : UserWrites(f) \/ UserDeletes(f)
  \/ \E h \in AppHosts : SelectHost(h)
  \/ \E place \in Places \cup {"nowhere"}, force \in BOOLEAN : InstallBegins(place, force)
  \/ SelectDemand \/ TreeChanges \/ CopySurface \/ RemoveStale \/ RecordInstall
  \/ UninstallBegins \/ ForgetInstall \/ CommandDies
  \/ UpgradePackage \/ RefreshTemplates \/ RefreshFails

HostSpec == HostInit /\ [][HostNext]_installVars

-----------------------------------------------------------------------------
OnlyHands == budget'.hands # budget.hands
Installing == command.at \in {"copy", "record"}

(***************************************************************************)
(* A user's file that no manifest records survives every installation,     *)
(* update and removal, whatever died before; only a forced installation    *)
(* may take its place.                                                     *)
(***************************************************************************)
UnrecordedFilesSurvive ==
  [][\A f \in Files : (disk[f] = "user" /\ disk'[f] # "user" /\ ~OnlyHands) =>
       f \in ownList.files \/ (Installing /\ command.force)]_installVars

(***************************************************************************)
(* The manifest records only files a command has written: a file skipped   *)
(* because it was the user's is never claimed, so no removal deletes it.   *)
(***************************************************************************)
ManifestIsOurs == ownList.files \subseteq copiedOnce

(***************************************************************************)
(* Installing for some hosts neither removes nor disowns the assets of a   *)
(* host that is not selected, as when projects with different selections   *)
(* share one installation.                                                 *)
(***************************************************************************)
OtherHostsKept ==
  [][(Installing /\ ~OnlyHands) =>
       \A f \in ownList.files :
         (f.host # "portable" /\ f.host \notin command.selection.hosts) =>
           disk'[f] = disk[f] /\ f \in ownList'.files]_installVars
=============================================================================
