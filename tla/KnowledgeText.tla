---------------------------- MODULE KnowledgeText ----------------------------
(***************************************************************************)
(* The format of knowledge documents, src/knowledge/schema.js, and what    *)
(* archiveDecision of src/knowledge/store.js does to a text.  A text is    *)
(* the kinds of its lines up to the body, the canonical sections of the    *)
(* body, and whether a heading banned for decisions in force is there.     *)
(***************************************************************************)
EXTENDS Naturals, Sequences, FiniteSets, SequencesExt

CONSTANTS MaxHeader  \* lines between the title and the body; twice as many of the plainest kinds

ASSUME TextAssumption == MaxHeader \in Nat

LIFECYCLES == {"proposed", "implemented", "rejected", "archived"}
SOLUTION_STATUSES == {"candidate", "verified", "superseded"}

REQUIRED_SECTIONS ==
  [proposed    |-> {"problem", "proposal", "acceptance", "risks", "alternatives"},
   implemented |-> {"problem", "decision", "consequences", "alternatives"},
   rejected    |-> {"problem", "proposal", "alternatives"},
   archived    |-> {"problem", "decision", "consequences", "alternatives"},
   candidate   |-> {"problem", "symptom", "fix", "alternatives"},
   verified    |-> {"problem", "symptom", "rootCause", "failedAttempts", "fix", "whyItWorks",
                    "prevention", "scope", "evidence"},
   superseded  |-> {"problem", "symptom", "rootCause", "fix", "scope", "evidence"},
   none        |-> {}]

(* A line is a status line of that status, one of another spelling (with a *)
(* capital or a remark) that says implemented, an unreasoned rejection, an *)
(* Archived line, a fence, one end of an HTML comment, a quotation of a    *)
(* status line, or anything else.                                          *)
StatusLines == (LIFECYCLES \ {"archived"}) \cup SOLUTION_STATUSES \cup {"Implemented", "unreasoned"}
Lines == StatusLines \cup {"Archived", "fence", "open", "close", "other"}

VARIABLES
  note,    \* a document: kind, folder (decisions), header lines, sections, banned heading
  archive  \* the document archiveDecision made of it, or the text it was refused

noteVars == <<note, archive>>

(* What is open after each line: a fence, in which nothing else is looked  *)
(* at, or a comment.                                                       *)
Open(lines) ==
  LET After[n \in 0..Len(lines)] ==
        IF n = 0 THEN [fence |-> FALSE, comment |-> FALSE]
        ELSE LET before == After[n - 1]
                 fence == IF lines[n] = "fence" THEN ~before.fence ELSE before.fence
             IN  [fence |-> fence,
                  comment |-> IF fence THEN before.comment
                              ELSE IF before.comment THEN lines[n] # "close" ELSE lines[n] = "open"]
  IN  After

(* findStatusLine: the number of the only status line outside fences and   *)
(* comments, 0 when there is none or more than one.                        *)
Found(lines) ==
  LET open == Open(lines)
  IN  {i \in 1..Len(lines) : lines[i] \in StatusLines /\ ~open[i - 1].fence /\ ~open[i - 1].comment}
StatusLine(lines) ==
  LET found == Found(lines)
  IN  IF \E i \in found : found = {i} THEN CHOOSE i \in found : TRUE ELSE 0

(* parseStatusLine: a rejection needs a reason.                            *)
StatusOf(n) ==
  LET i == StatusLine(n.lines) IN
  IF i = 0 THEN "missing"
  ELSE CASE n.lines[i] = "unreasoned" -> "malformed"
         [] n.lines[i] = "Implemented" -> "implemented"
         [] OTHER -> n.lines[i]

(* The lifecycle a document is checked under: that of its folder, which    *)
(* solutions do not have.                                                  *)
LifecycleOf(n) == IF n.kind = "decision" THEN n.folder ELSE "none"

(* An archived decision keeps its status and says so on the next line.     *)
ProperlyArchived(n) ==
  n.folder = "archived" =>
    /\ StatusOf(n) = "implemented"
    /\ StatusLine(n.lines) < Len(n.lines) /\ n.lines[StatusLine(n.lines) + 1] = "Archived"

(* parseKnowledgeDoc answers ok.                                           *)
WellFormed(n) ==
  /\ StatusOf(n) \notin {"missing", "malformed"}
  /\ n.kind = "decision" => n.folder = "archived" \/ StatusOf(n) = n.folder
  /\ n.kind = "decision" => ProperlyArchived(n)
  /\ REQUIRED_SECTIONS[LifecycleOf(n)] \subseteq n.sections
  /\ LifecycleOf(n) = "implemented" => ~n.banned

(* archiveDecision looks for the status line in the first six lines, here  *)
(* the title and five more, in its plain spelling and without regard to    *)
(* fences and comments.                                                    *)
Near(lines) == {i \in 1..(IF Len(lines) < 5 THEN Len(lines) ELSE 5) : lines[i] = "implemented"}

(* Mutant: the index counts from zero.                                     *)
HeaderStatusFromZero(lines) ==
  IF Near(lines) = {} THEN 0 ELSE (CHOOSE i \in Near(lines) : \A j \in Near(lines) : i <= j) - 1
HeaderStatus(lines) ==
  IF Near(lines) = {} THEN 0 ELSE CHOOSE i \in Near(lines) : \A j \in Near(lines) : i <= j

(* Short headers of any lines, and longer ones with the status far down.   *)
Headers == BoundedSeq(Lines, MaxHeader)
           \cup BoundedSeq({"implemented", "fence", "other"}, 2 * MaxHeader)

(* The sections of a complete document, and of one that lacks some.        *)
DecisionSections ==
  UNION {{REQUIRED_SECTIONS[s], REQUIRED_SECTIONS[s] \ {"alternatives"}} : s \in LIFECYCLES}
SolutionSections ==
  UNION {{REQUIRED_SECTIONS[s], REQUIRED_SECTIONS[s] \ {"evidence", "fix"}} : s \in SOLUTION_STATUSES}

NoteInit ==
  /\ note \in
       [kind : {"decision"}, folder : LIFECYCLES, sections : DecisionSections,
        lines : {h \in Headers : ToSet(h) \cap SOLUTION_STATUSES = {}}, banned : BOOLEAN]
       \cup
       [kind : {"solution"}, folder : {"none"}, sections : SolutionSections,
        lines : {<<s>> : s \in StatusLines}, banned : {FALSE}]
  /\ archive = [result |-> "none"]

(* archiveDecision as far as the text is concerned.                        *)
ArchiveText ==
  /\ archive.result = "none"
  /\ note.kind = "decision"
  /\ archive' = IF WellFormed(note) /\ note.folder = "implemented" /\ HeaderStatus(note.lines) # 0
                THEN [result |-> "archived",
                      note |-> [note EXCEPT !.folder = "archived",
                                  !.lines = InsertAt(@, HeaderStatus(@) + 1, "Archived")]]
                ELSE [result |-> "refused"]
  /\ UNCHANGED note

NoteNext == ArchiveText

NoteSpec == NoteInit /\ [][NoteNext]_noteVars
-----------------------------------------------------------------------------
(* A decision in force that is archived becomes a document the store still *)
(* reads as valid, unless its header quotes a status line beside the real  *)
(* one, in a fence or a comment.                                           *)
SaysImplemented(lines) == {i \in 1..Len(lines) : lines[i] \in {"implemented", "Implemented"}}
ArchivingKeepsValidity ==
  archive.result = "archived" /\ Cardinality(SaysImplemented(note.lines)) = 1 => WellFormed(archive.note)

(* A valid decision in force whose status stands near the top, plainly     *)
(* spelled, can always be archived.                                        *)
DecisionsInForceCanBeArchived ==
  archive.result = "refused" /\ WellFormed(note) /\ note.kind = "decision" /\ note.folder = "implemented"
    => StatusLine(note.lines) > 5 \/ note.lines[StatusLine(note.lines)] = "Implemented"
=============================================================================
