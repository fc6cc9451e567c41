---------------------------- MODULE ManagedBlocks ----------------------------
(***************************************************************************)
(* src/injectblock.js: the block mawf keeps in a project's AGENTS.md and   *)
(* CLAUDE.md.  A file is a sequence of pieces: the two markers, the text   *)
(* of the block, the stub mawf writes around a block in a file it creates, *)
(* a title or a foreign span at the top, and the user's own text.  The     *)
(* user edits the files between commands; a command may die between two    *)
(* writes.                                                                 *)
(***************************************************************************)
EXTENDS Naturals, Sequences, FiniteSets, SequencesExt

CONSTANTS MaxUserEdits, MaxPieces

Targets == <<"AGENTS.md", "CLAUDE.md">>
TargetNames == {Targets[i] : i \in 1 .. 2}
NoTarget == <<"absent">>        \* the file does not exist
Block == <<"begin", "text", "end">>

VARIABLES
  doc,        \* target -> its pieces
  recorded,   \* managed-blocks.json: the targets mawf created
  blockJob,   \* the command that runs, the target it comes to, what it created
  userEdits,  \* how often the user edited a file
  untouched   \* recorded targets nobody but mawf changed since (history)

blockVars == <<doc, recorded, blockJob, userEdits, untouched>>

IdleJob == [does |-> "none", next |-> 1, created |-> {}]

BlocksInit ==
  /\ doc \in [TargetNames -> {NoTarget, <<"user">>, <<"title", "user">>, <<"span", "user">>}]
  /\ recorded = {} /\ blockJob = IdleJob /\ userEdits = 0 /\ untouched = {}

IndexIn(piece, s) == IF \E i \in DOMAIN s : s[i] = piece
                     THEN CHOOSE i \in DOMAIN s : s[i] = piece /\ \A j \in 1 .. i - 1 : s[j] # piece
                     ELSE 0

HasSpan(s) == IndexIn("begin", s) # 0 /\ IndexIn("end", s) > IndexIn("begin", s)

OutsideSpan(s) == SubSeq(s, 1, IndexIn("begin", s) - 1) \o SubSeq(s, IndexIn("end", s) + 1, Len(s))

(* A marker without its partner, or the two in the wrong order: the marker *)
(* lines go and a fresh block is appended.                                 *)
Unmarked(s) ==
  LET Upto[n \in 0 .. Len(s)] == IF n = 0 THEN <<>>
                                 ELSE IF s[n] \in {"begin", "end"} THEN Upto[n - 1]
                                 ELSE Append(Upto[n - 1], s[n])
  IN  Upto[Len(s)]
Repaired(s) == Unmarked(s) \o Block

(* insertIndex: after a title or a foreign span that opens the file.       *)
Inserted(s) == LET top == IF s # <<>> /\ s[1] \in {"title", "stub", "span"} THEN 1 ELSE 0
               IN SubSeq(s, 1, top) \o Block \o SubSeq(s, top + 1, Len(s))

(* Mutant: everything from the first marker on is rewritten.               *)
RewrittenTail(s) ==
  CASE s = NoTarget -> <<"stub">> \o Block
    [] s # NoTarget /\ IndexIn("begin", s) # 0 -> SubSeq(s, 1, IndexIn("begin", s) - 1) \o Block
    [] OTHER -> Inserted(s)

WithBlock(s) ==
  CASE s = NoTarget -> <<"stub">> \o Block
    [] s # NoTarget /\ HasSpan(s) -> SubSeq(s, 1, IndexIn("begin", s) - 1) \o Block
                                     \o SubSeq(s, IndexIn("end", s) + 1, Len(s))
    [] s # NoTarget /\ ~HasSpan(s) /\ (IndexIn("begin", s) # 0 \/ IndexIn("end", s) # 0) -> Repaired(s)
    [] OTHER -> Inserted(s)

WithoutBlock(t) ==
  LET s == doc[t] IN
  CASE s = NoTarget \/ ~HasSpan(s) -> s
    [] s # NoTarget /\ HasSpan(s) /\ t \in recorded /\ OutsideSpan(s) \in {<<>>, <<"stub">>} -> NoTarget
    [] OTHER -> OutsideSpan(s)

StartBlocks ==
  /\ blockJob.does = "none"
  /\ \E what \in {"write", "remove"} : blockJob' = [IdleJob EXCEPT !.does = what]
  /\ UNCHANGED <<doc, recorded, userEdits, untouched>>

WriteTarget ==
  /\ blockJob.does = "write" /\ blockJob.next <= 2
  /\ LET t == Targets[blockJob.next] IN
     /\ doc' = [doc EXCEPT ![t] = WithBlock(@)]
     /\ blockJob' = [blockJob EXCEPT !.next = @ + 1,
                                     !.created = IF doc[t] = NoTarget THEN @ \cup {t} ELSE @]
  /\ UNCHANGED <<recorded, userEdits, untouched>>

(* Mutant: the record is written over, not merged.                         *)
RecordAfresh ==
  /\ blockJob.does = "write" /\ blockJob.next = 3
  /\ recorded' = IF blockJob.created = {} THEN recorded ELSE blockJob.created
  /\ untouched' = untouched \cup blockJob.created /\ blockJob' = IdleJob
  /\ UNCHANGED <<doc, userEdits>>

RecordCreated ==
  /\ blockJob.does = "write" /\ blockJob.next = 3
  /\ recorded' = recorded \cup blockJob.created
  /\ untouched' = untouched \cup blockJob.created /\ blockJob' = IdleJob
  /\ UNCHANGED <<doc, userEdits>>

RemoveTarget ==
  /\ blockJob.does = "remove" /\ blockJob.next <= 2
  /\ LET t == Targets[blockJob.next] IN doc' = [doc EXCEPT ![t] = WithoutBlock(t)]
  /\ blockJob' = [blockJob EXCEPT !.next = @ + 1]
  /\ UNCHANGED <<recorded, userEdits, untouched>>

DropRecord ==
  /\ blockJob.does = "remove" /\ blockJob.next = 3
  /\ recorded' = {} /\ blockJob' = [IdleJob EXCEPT !.does = "removed"]
  /\ UNCHANGED <<doc, userEdits, untouched>>

EndBlocks ==
  /\ blockJob.does = "removed" /\ blockJob' = IdleJob /\ untouched' = {}
  /\ UNCHANGED <<doc, recorded, userEdits>>

(* The command dies between two writes.                                    *)
BlocksDie ==
  /\ blockJob.does \in {"write", "remove"} /\ blockJob' = IdleJob
  /\ UNCHANGED <<doc, recorded, userEdits, untouched>>

UserEditsTarget ==
  /\ blockJob.does = "none" /\ userEdits < MaxUserEdits
  /\ \E t \in TargetNames :
       /\ doc' \in {[doc EXCEPT ![t] = NoTarget]} \cup
                   (IF doc[t] = NoTarget THEN {[doc EXCEPT ![t] = <<"user">>]}
                    ELSE {[doc EXCEPT ![t] = RemoveAt(@, i)] : i \in DOMAIN doc[t]} \cup
                         (IF Len(doc[t]) < MaxPieces
                          THEN {[doc EXCEPT ![t] = InsertAt(@, i, "user")] : i \in 1 .. Len(doc[t]) + 1}
                          ELSE {}))
       /\ untouched' = untouched \ {t}
  /\ userEdits' = userEdits + 1
  /\ UNCHANGED <<recorded, blockJob>>

BlocksNext ==
  \/ StartBlocks \/ WriteTarget \/ RecordCreated \/ RemoveTarget \/ DropRecord
  \/ EndBlocks \/ BlocksDie \/ UserEditsTarget

BlocksSpec == BlocksInit /\ [][BlocksNext]_blockVars

(***************************************************************************)
(* Properties                                                              *)
(***************************************************************************)
Written(s) == {i \in 1 .. Len(s) : s[i] \in {"user", "title", "span"}}
UserPieces(s) == Cardinality(Written(IF HasSpan(s) THEN OutsideSpan(s) ELSE s))

(* Whatever state the markers are in, no command loses text the user wrote *)
(* outside of a whole block, nor a file that holds such text               *)
(* (injectblock.js:122, :133-139, :192).                                   *)
UserTextSurvives ==
  [][userEdits' = userEdits => \A t \in TargetNames : UserPieces(doc'[t]) >= UserPieces(doc[t])]_blockVars

(* A removal that reaches its end leaves no file behind that mawf created, *)
(* recorded, and nobody changed since, through any number of writes and    *)
(* deaths before it (injectblock.js:10-11, :202).                                           *)
PurgeTakesOurs ==
  blockJob.does = "removed" => \A t \in untouched : doc[t] = NoTarget
=============================================================================
