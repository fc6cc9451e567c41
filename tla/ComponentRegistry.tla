-------------------------- MODULE ComponentRegistry --------------------------
(***************************************************************************)
(* src/components/registry.js: the locked components under                 *)
(* ~/.mawf/components.  An installation fills a directory named for the    *)
(* version and the digest, validates it, and only then moves current.json; *)
(* a failed one removes its directory.  A verification runs the doctor of  *)
(* what current.json named when it began.  Nothing takes a lock, and any   *)
(* command may die between two writes.  One component; the directory of    *)
(* each version is a record of what it holds.                              *)
(***************************************************************************)
EXTENDS Naturals

CONSTANTS Versions, Installers, MaxInstalls

VARIABLES
  bundled,     \* the component ships with MAWF: nothing is extracted
  store,       \* version -> what its directory holds
  active,      \* current.json
  installer,   \* installer -> the installation it runs
  verifier,    \* the verification in progress: what it read
  installs,    \* installations begun so far
  validated,   \* versions some installation has validated (history)
  passed       \* versions whose doctor passed (history)

registryVars == <<bundled, store, active, installer, verifier, installs, validated, passed>>

NoVersion == "no version"
Gone == [payload |-> "none", record |-> FALSE]
NotInstalled == [version |-> NoVersion, entry |-> FALSE, tested |-> FALSE, previous |-> NoVersion]
RegistryRests == [at |-> "rest", version |-> NoVersion]

RegistryInit ==
  /\ bundled \in BOOLEAN
  /\ store = [v \in Versions |-> Gone] /\ active = NotInstalled
  /\ installer = [i \in Installers |-> RegistryRests] /\ verifier = NotInstalled
  /\ installs = 0 /\ validated = {} /\ passed = {}

(***************************************************************************)
(* installComponent, one step per thing it leaves on the disk.             *)
(***************************************************************************)
InstallStarts(i, v) ==
  /\ installer[i] = RegistryRests /\ installs < MaxInstalls
  /\ installs' = installs + 1
  /\ installer' = [installer EXCEPT ![i] = [at |-> IF bundled THEN "record" ELSE "extract", version |-> v]]
  /\ validated' = IF bundled THEN validated \cup {v} ELSE validated
  /\ UNCHANGED <<bundled, store, active, verifier, passed>>

Extract(i) ==
  /\ installer[i].at = "extract"
  /\ installer' = [installer EXCEPT ![i].at = "validate"]
  /\ store' = [store EXCEPT ![installer[i].version].payload = "whole"]
  /\ UNCHANGED <<bundled, active, verifier, installs, validated, passed>>

(* The tree has no escaping link, the closure is there, and so is the entry. *)
Validate(i) ==
  /\ installer[i].at = "validate" /\ store[installer[i].version].payload = "whole"
  /\ installer' = [installer EXCEPT ![i].at = "record"]
  /\ validated' = validated \cup {installer[i].version}
  /\ UNCHANGED <<bundled, store, active, verifier, installs, passed>>

(* tar fails, or a check does: the version's directory goes, whoever else  *)
(* put it there.                                                           *)
InstallFails(i) ==
  /\ installer[i].at \in {"extract", "validate"}
  /\ installer' = [installer EXCEPT ![i] = RegistryRests]
  /\ store' = [store EXCEPT ![installer[i].version] = Gone]
  /\ UNCHANGED <<bundled, active, verifier, installs, validated, passed>>

WriteComponentRecord(i) ==
  /\ installer[i].at = "record"
  /\ installer' = [installer EXCEPT ![i].at = "activate"]
  /\ store' = [store EXCEPT ![installer[i].version].record = TRUE]
  /\ UNCHANGED <<bundled, active, verifier, installs, validated, passed>>

(* Mutant: the pointer moves as soon as the archive has been extracted.    *)
ActivateEarly(i) == installer[i].at \in {"validate", "activate"}
Activatable(i) == installer[i].at = "activate"

Activate(i) ==
  /\ Activatable(i)
  /\ installer' = [installer EXCEPT ![i] = RegistryRests]
  /\ active' = [version |-> installer[i].version, entry |-> ~bundled, tested |-> FALSE,
                previous |-> active.version]
  /\ UNCHANGED <<bundled, store, verifier, installs, validated, passed>>

InstallDies(i) ==
  /\ installer[i] # RegistryRests /\ installer' = [installer EXCEPT ![i] = RegistryRests]
  /\ store' \in {store, [store EXCEPT ![installer[i].version].payload =
                           IF installer[i].at = "extract" /\ @ = "none" THEN "part" ELSE @]}
  /\ UNCHANGED <<bundled, active, verifier, installs, validated, passed>>

(***************************************************************************)
(* verifyComponent writes back what it read, with the doctor's verdict.    *)
(***************************************************************************)
VerifyStarts ==
  /\ verifier = NotInstalled /\ active.entry
  /\ verifier' = active
  /\ UNCHANGED <<bundled, store, active, installer, installs, validated, passed>>

(* Mutant: the verdict goes to whatever is active by now.                  *)
JudgeWhatIsThere == [active EXCEPT !.tested = TRUE]
Judged == [verifier EXCEPT !.tested = TRUE]

VerifyPasses ==
  /\ verifier # NotInstalled /\ store[verifier.version].payload = "whole"
  /\ active' = Judged /\ verifier' = NotInstalled
  /\ passed' = passed \cup {verifier.version}
  /\ UNCHANGED <<bundled, store, installer, installs, validated>>

VerifyFails ==
  /\ verifier # NotInstalled /\ verifier' = NotInstalled
  /\ UNCHANGED <<bundled, store, active, installer, installs, validated, passed>>

(* The previous version's own record, without a previous of its own; it    *)
(* was written before any verification.                                    *)
Rollback ==
  /\ active.previous # NoVersion /\ store[active.previous].record
  /\ active' = [version |-> active.previous, entry |-> ~bundled, tested |-> FALSE, previous |-> NoVersion]
  /\ UNCHANGED <<bundled, store, installer, verifier, installs, validated, passed>>

RegistryNext ==
  \/ \E i \in Installers : \/ \E v \in Versions : InstallStarts(i, v)
                           \/ Extract(i) \/ Validate(i) \/ InstallFails(i)
                           \/ WriteComponentRecord(i) \/ Activate(i) \/ InstallDies(i)
  \/ VerifyStarts \/ VerifyPasses \/ VerifyFails \/ Rollback

RegistrySpec == RegistryInit /\ [][RegistryNext]_registryVars

-----------------------------------------------------------------------------
(***************************************************************************)
(* Whatever two installers, failures, crashes, verifications and           *)
(* roll-backs do, the active component is one that an installation has     *)
(* validated, and so is the one a roll-back would return to.               *)
(***************************************************************************)
ActiveWasValidated == {active.version, active.previous} \subseteq validated \cup {NoVersion}

(***************************************************************************)
(* "supported-and-tested" is never carried over from one version to        *)
(* another: the doctor of the active version itself has passed.            *)
(***************************************************************************)
TestedMeansTested == active.tested => active.version \in passed

(* What is active has been validated, and is called tested only if it was  *)
(* (registry.js).                                                          *)
UpdatesAreProven ==
  ActiveWasValidated /\ TestedMeansTested
=============================================================================
