--------------------------- MODULE KnowledgeStore ---------------------------
(***************************************************************************)
(* The durable knowledge store of src/knowledge/store.js.  Every writer is *)
(* a process of its own that performs one operation file by file, under an *)
(* advisory lock: a directory that mkdir creates, that anybody may remove  *)
(* once it is a minute old, and that its release removes whoever holds it. *)
(*                                                                         *)
(* All documents are decisions below implemented/; a text is named by who  *)
(* wrote it.  A writer that dies leaves its lock and its files behind.     *)
(***************************************************************************)
EXTENDS Naturals, FiniteSets

CONSTANTS
  Writers,   \* processes, each of which performs one operation
  Documents,
  Original,  \* the text a document may have in the beginning
  Nothing    \* no text, no file, no holder

ASSUME KnowledgeAssumption ==
  /\ Original \notin Writers /\ Nothing \notin Writers /\ Original # Nothing
  /\ \A text \in Writers \cup {Original, Nothing}, w \in Writers : <<text, w>> # Nothing

VARIABLES
  live,      \* text at implemented/<document>
  archived,  \* text at archived/<document>: the text archived and by whom
  sealList,  \* seals in archived/manifest.json
  sidecar,   \* sidecar files of live and archived documents
  index,     \* runtime/index.json: what it says of every document
  lockDir,   \* who made the lock directory of a key
  aged,      \* keys whose lock directory is older than the limit
  writer,    \* the operation of each writer and how far it is
  reader,    \* a command that builds the index: what it has read
  broken,    \* history: keys whose lock was broken
  known      \* history: documents that were ever written

diskFiles == <<live, archived, sealList, sidecar, index>>
locks == <<lockDir, aged, broken>>
knowledgeVars == <<live, archived, sealList, sidecar, index, locks, writer, reader, known>>

Operations == {"create", "update", "overwrite", "archive"}

(* Mutant: the lock is named by the operation as well.                     *)
KeyByOperation(op, d) == <<op, d>>

(* create and update lock the document, archiveDecision the archiving.     *)
LockKey(op, d) == IF op = "archive" THEN <<"archive", d>> ELSE <<"doc", d>>
Keys == {"create", "update", "overwrite", "archive", "doc"} \X Documents

NotStarted == [op |-> "none", doc |-> Nothing, at |-> "idle", base |-> Nothing, seals |-> Nothing]

(* overtaken: a writer invalidated the index since the corpus was read.   *)
NoReader == [entries |-> Nothing, overtaken |-> FALSE]

KnowledgeInit ==
  /\ live \in [Documents -> {Original, Nothing}]
  /\ archived = [d \in Documents |-> Nothing]
  /\ sealList = [d \in Documents |-> Nothing]
  /\ sidecar = [d \in Documents |-> [live |-> Nothing, archived |-> Nothing]]
  /\ index = Nothing
  /\ lockDir = [k \in Keys |-> Nothing]
  /\ aged = {}
  /\ broken = {}
  /\ writer = [w \in Writers |-> NotStarted]
  /\ reader = NoReader
  /\ known = {d \in Documents : live[d] # Nothing}

KeyOf(w) == LockKey(writer[w].op, writer[w].doc)
At(w, place) == writer[w].at = place
Go(w, place) == writer' = [writer EXCEPT ![w].at = place]
-----------------------------------------------------------------------------
(* A writer takes up a document; an edit that names the hash it is based   *)
(* on has read the text before.                                            *)
StartOperation(w, op, d) ==
  /\ At(w, "idle")
  /\ op = "update" => live[d] # Nothing
  /\ writer' = [writer EXCEPT ![w] =
       [op |-> op, doc |-> d, at |-> "lock", base |-> live[d], seals |-> Nothing]]
  /\ UNCHANGED <<diskFiles, locks, reader, known>>

(* KNOWLEDGE_LOCK_BUSY ends the operation.                                 *)
TakeLock(w) ==
  /\ At(w, "lock")
  /\ CASE lockDir[KeyOf(w)] = Nothing ->
            lockDir' = [lockDir EXCEPT ![KeyOf(w)] = w] /\ Go(w, "check")
       [] lockDir[KeyOf(w)] # Nothing /\ KeyOf(w) \in aged -> Go(w, "break") /\ UNCHANGED lockDir
       [] OTHER -> Go(w, "over") /\ UNCHANGED lockDir
  /\ UNCHANGED <<diskFiles, aged, broken, reader, known>>

(* A minute passes over a lock directory.                                  *)
AgesNow(k) == lockDir[k] # Nothing /\ k \notin aged

LockAges(k) ==
  /\ AgesNow(k)
  /\ aged' = aged \cup {k}
  /\ UNCHANGED <<diskFiles, lockDir, broken, writer, reader, known>>

(* The stale lock is removed: by now it may be somebody else's.            *)
BreakLock(w) ==
  /\ At(w, "break")
  /\ lockDir' = [lockDir EXCEPT ![KeyOf(w)] = Nothing]
  /\ aged' = aged \ {KeyOf(w)}
  /\ broken' = broken \cup {KeyOf(w)}
  /\ Go(w, "lock")
  /\ UNCHANGED <<diskFiles, reader, known>>

ReleaseLock(w) ==
  /\ At(w, "release")
  /\ lockDir' = [lockDir EXCEPT ![KeyOf(w)] = Nothing]
  /\ aged' = aged \ {KeyOf(w)}
  /\ Go(w, "over")
  /\ UNCHANGED <<diskFiles, broken, reader, known>>

(* What an operation requires of the files, read under the lock: create a  *)
(* free path, update the hash its edit is based on, archiveDecision a free *)
(* destination.                                                            *)
AdmitsLock(op, d, base) ==
  CASE op = "create" -> live[d] = Nothing
    [] op = "update" -> live[d] = base /\ base # Nothing
    [] op = "overwrite" -> live[d] # Nothing
    [] OTHER -> live[d] # Nothing /\ archived[d] = Nothing

CheckFiles(w) ==
  /\ At(w, "check")
  /\ LET d == writer[w].doc IN
       writer' = [writer EXCEPT
         ![w].at = IF AdmitsLock(writer[w].op, d, writer[w].base) THEN "write" ELSE "release",
         ![w].base = IF writer[w].op = "archive" THEN live[d] ELSE @]
  /\ UNCHANGED <<diskFiles, locks, reader, known>>

(* The text, then its sidecar, then the end of the index it outdates.  An  *)
(* update writes a sidecar only with a verification record.                *)
WriteDocument(w) ==
  /\ At(w, "write") /\ writer[w].op # "archive"
  /\ live' = [live EXCEPT ![writer[w].doc] = w]
  /\ known' = known \cup {writer[w].doc}
  /\ \/ Go(w, "sidecar")
     \/ writer[w].op # "create" /\ Go(w, "drop")
  /\ UNCHANGED <<archived, sealList, sidecar, index, locks, reader>>

WriteSidecar(w) ==
  /\ At(w, "sidecar") /\ writer[w].op # "archive"
  /\ sidecar' = [sidecar EXCEPT ![writer[w].doc].live = w]
  /\ Go(w, "drop")
  /\ UNCHANGED <<live, archived, sealList, index, locks, reader, known>>

(* Mutant: a writer leaves the cache to indexFresh.                        *)
KeepsIndex(w) ==
  /\ At(w, "drop")
  /\ Go(w, "release")
  /\ UNCHANGED <<diskFiles, locks, reader, known>>

InvalidateIndex(w) ==
  /\ At(w, "drop")
  /\ index' = Nothing
  /\ reader' = [reader EXCEPT !.overtaken = reader.entries # Nothing]
  /\ Go(w, "release")
  /\ UNCHANGED <<live, archived, sealList, sidecar, locks, known>>

(* Mutant: the source is removed first.                                    *)
RemoveBeforeWriting(w) ==
  /\ At(w, "write") /\ writer[w].op = "archive"
  /\ live' = [live EXCEPT ![writer[w].doc] = Nothing]
  /\ Go(w, "seal")
  /\ UNCHANGED <<archived, sealList, sidecar, index, locks, reader, known>>

(* archiveDecision: the destination is written, then sealed, then the      *)
(* source goes and its sidecar follows.                                    *)
WriteArchive(w) ==
  /\ At(w, "write") /\ writer[w].op = "archive"
  /\ archived' = [archived EXCEPT ![writer[w].doc] = <<writer[w].base, w>>]
  /\ Go(w, "seal")
  /\ UNCHANGED <<live, sealList, sidecar, index, locks, reader, known>>

(* Mutant: what is sealed is the text of the source as it is now.          *)
SealSource(w) ==
  /\ At(w, "sealing")
  /\ sealList' = [writer[w].seals EXCEPT ![writer[w].doc] = <<live[writer[w].doc], w>>]
  /\ Go(w, "remove")
  /\ UNCHANGED <<live, archived, sidecar, index, locks, reader, known>>

ReadManifest(w) ==
  /\ At(w, "seal")
  /\ writer' = [writer EXCEPT ![w].at = "sealing", ![w].seals = sealList]
  /\ UNCHANGED <<diskFiles, locks, reader, known>>

SealArchived(w) ==
  /\ At(w, "sealing")
  /\ sealList' = [writer[w].seals EXCEPT ![writer[w].doc] = <<writer[w].base, w>>]
  /\ Go(w, "remove")
  /\ UNCHANGED <<live, archived, sidecar, index, locks, reader, known>>

RemoveSource(w) ==
  /\ At(w, "remove")
  /\ live' = [live EXCEPT ![writer[w].doc] = Nothing]
  /\ Go(w, "sidecar")
  /\ UNCHANGED <<archived, sealList, sidecar, index, locks, reader, known>>

MoveSidecar(w) ==
  /\ At(w, "sidecar") /\ writer[w].op = "archive"
  /\ sidecar' = [sidecar EXCEPT ![writer[w].doc] =
       IF @.live = Nothing THEN @ ELSE [live |-> Nothing, archived |-> @.live]]
  /\ Go(w, "drop")
  /\ UNCHANGED <<live, archived, sealList, index, locks, reader, known>>

KnowledgeWriterDies(w) ==
  /\ writer[w].at \notin {"idle", "over"}
  /\ Go(w, "over")
  /\ UNCHANGED <<diskFiles, locks, reader, known>>
-----------------------------------------------------------------------------
(* The corpus as the index describes it: hashes of texts, and sidecars.    *)
Texts == [d \in Documents |-> [live |-> live[d], archived |-> archived[d]]]

(* indexFresh compares the hash of every text, and no sidecar.             *)
IndexFresh(entries) == entries # Nothing /\ entries.texts = Texts

(* index: a fresh cache is the answer, any other is rebuilt from what is   *)
(* read now and written later, without a lock.                             *)
BuildIndex ==
  /\ reader = NoReader /\ ~IndexFresh(index)
  /\ reader' = [NoReader EXCEPT !.entries = [texts |-> Texts, sidecars |-> sidecar]]
  /\ UNCHANGED <<diskFiles, locks, writer, known>>

WriteIndex ==
  /\ reader.entries # Nothing
  /\ index' = [texts |-> reader.entries.texts, sidecars |-> reader.entries.sidecars,
               late |-> reader.overtaken]
  /\ reader' = NoReader
  /\ UNCHANGED <<live, archived, sealList, sidecar, locks, writer, known>>

WriterStep(w) ==
  \/ \E op \in Operations, d \in Documents : StartOperation(w, op, d)
  \/ TakeLock(w) \/ BreakLock(w) \/ ReleaseLock(w) \/ CheckFiles(w)
  \/ WriteDocument(w) \/ WriteSidecar(w) \/ InvalidateIndex(w)
  \/ WriteArchive(w) \/ ReadManifest(w) \/ SealArchived(w) \/ RemoveSource(w) \/ MoveSidecar(w)
  \/ KnowledgeWriterDies(w)

KnowledgeNext ==
  \/ \E w \in Writers : WriterStep(w)
  \/ \E k \in Keys : LockAges(k)
  \/ BuildIndex \/ WriteIndex

KnowledgeSpec == KnowledgeInit /\ [][KnowledgeNext]_knowledgeVars
-----------------------------------------------------------------------------
Archiving(d) == \E w \in Writers : writer[w].op = "archive" /\ writer[w].doc = d

(* An edit that names the hash it is based on replaces just that text: two *)
(* writers never overwrite each other silently, whatever crashes, as long  *)
(* as nobody broke the document's lock or archives the document.           *)
EditsReplaceWhatTheyRead ==
  [][\A w \in Writers :
       LET d == writer[w].doc IN
       At(w, "write") /\ writer'[w].at \in {"sidecar", "drop"} /\ writer[w].op = "update" =>
         live[d] = writer[w].base \/ LockKey("update", d) \in broken \/ Archiving(d)]_knowledgeVars

(* No crash and no overlap makes a document vanish: it is live or archived *)
(* from its first text on.                                                 *)
NoDocumentVanishes ==
  \A d \in known : live[d] # Nothing \/ archived[d] # Nothing

(* A seal is the hash of the archived text, which nothing changes; only    *)
(* two archivers under one broken lock could disagree.                     *)
SealsMatch ==
  \A d \in Documents :
    sealList[d] = Nothing \/ sealList[d] = archived[d] \/ LockKey("archive", d) \in broken

(* Once every writer has finished, an index that passes for fresh by its   *)
(* texts has the current sidecars as well, which indexFresh never looks    *)
(* at, unless its reader was overtaken by a writer's invalidation.         *)
IndexedSidecars ==
  (\A k \in Keys : lockDir[k] = Nothing) /\ broken = {} /\ IndexFresh(index) /\ ~index.late
    => index.sidecars = sidecar

(* What the files of the store say of each other, after any interleaving   *)
(* and crash of its writers (store.js).                                    *)
StoreIsConsistent ==
  NoDocumentVanishes /\ SealsMatch /\ IndexedSidecars
=============================================================================
