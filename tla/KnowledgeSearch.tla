--------------------------- MODULE KnowledgeSearch ---------------------------
(***************************************************************************)
(* searchKnowledge of src/knowledge/search.js: which indexed documents     *)
(* answer a query, in which order, and how many fit the two budgets.  A    *)
(* token of the query matches a field exactly, or is long and occurs in it,*)
(* or both.                                                                *)
(***************************************************************************)
EXTENDS Integers, Sequences, FiniteSets

CONSTANTS
  Corpora,       \* sets of index entries to search
  DocBudgets,    \* values of --max-docs, none included
  ByteBudgets    \* values of --max-bytes, none included

(* The fields an entry has (fieldsOf); the weights of others never count.  *)
FIELD_WEIGHTS == [title |-> 6, slug |-> 5, cls |-> 3, category |-> 3, problem |-> 3,
                  rootCause |-> 3, decision |-> 2, symptom |-> 2, body |-> 1]
Fields == {"title", "slug", "cls", "category", "problem", "rootCause", "decision", "symptom", "body"}

(* An entry of the index: its place by id (equal ids in the order of the   *)
(* index), how many tokens match or occur in each field, and its size.     *)
Entries == [id : Nat, kind : STRING, lifecycle : STRING, status : STRING,
            exact : [Fields -> Nat], within : [Fields -> Nat], size : Nat]

(* A budget that was not given; given ones are natural numbers here.       *)
NotGiven == -1

ASSUME SearchAssumption ==
  /\ \A corpus \in Corpora : /\ corpus \subseteq Entries /\ IsFiniteSet(corpus)
                             /\ \A a, b \in corpus : a.id = b.id => a = b
  /\ DocBudgets \subseteq Nat \cup {NotGiven} /\ ByteBudgets \subseteq Nat \cup {NotGiven}

VARIABLES question, answer
searchVars == <<question, answer>>

(* clampInt.                                                               *)
Clamp(v, low, high, default) ==
  IF v = NotGiven THEN default ELSE IF v < low THEN low ELSE IF v > high THEN high ELSE v

MaxDocs(q) == Clamp(q.maxDocs, 1, 50, 8)
MaxBytes(q) == Clamp(q.maxBytes, 200, 5000000, 24000)

(* Archived decisions and superseded solutions are not current knowledge.  *)
Eligible(e, q) ==
  /\ q.includeArchived \/ (e.lifecycle # "archived" /\ e.status # "superseded")
  /\ e.kind \in q.kinds

(* An exact match earns the weight of its field; a long token that occurs  *)
(* in the text earns two less, one at least.                               *)
Credit(e, f) ==
  FIELD_WEIGHTS[f] * e.exact[f]
    + (IF FIELD_WEIGHTS[f] > 3 THEN FIELD_WEIGHTS[f] - 2 ELSE 1) * e.within[f]
MatchScore(e) ==
  Credit(e, "title") + Credit(e, "slug") + Credit(e, "cls") + Credit(e, "category")
    + Credit(e, "problem") + Credit(e, "rootCause") + Credit(e, "decision")
    + Credit(e, "symptom") + Credit(e, "body")

Matches(q) == {e \in q.corpus : Eligible(e, q) /\ MatchScore(e) > 0}

RanksBefore(a, b) == MatchScore(a) > MatchScore(b) \/ (MatchScore(a) = MatchScore(b) /\ a.id < b.id)

(* Mutant: the size is looked at after the candidate was admitted.         *)
AdmitThenCheck(got, e, q) ==
  IF Len(got.taken) >= MaxDocs(q) THEN got
  ELSE IF got.bytes > MaxBytes(q) THEN [got EXCEPT !.skipped = TRUE]
  ELSE [got EXCEPT !.taken = Append(@, e), !.bytes = @ + e.size]

(* Mutant: the first candidate that does not fit ends the search.          *)
StopAtFirst(got, e, q) ==
  IF Len(got.taken) >= MaxDocs(q) \/ got.skipped THEN got
  ELSE IF got.bytes + e.size > MaxBytes(q) THEN [got EXCEPT !.skipped = TRUE]
  ELSE [got EXCEPT !.taken = Append(@, e), !.bytes = @ + e.size]

(* One match after the other: too many ends it, too large skips the match. *)
Admit(got, e, q) ==
  IF Len(got.taken) >= MaxDocs(q) THEN got
  ELSE IF got.bytes + e.size > MaxBytes(q) THEN [got EXCEPT !.skipped = TRUE]
  ELSE [got EXCEPT !.taken = Append(@, e), !.bytes = @ + e.size]

(* The matches in the order of their ranks, from the best.                 *)
NextBest(S) == CHOOSE e \in S : \A f \in S : e = f \/ RanksBefore(e, f)
Admitted(q) ==
  LET After[n \in 0..Cardinality(Matches(q))] ==
        IF n = 0 THEN [rest |-> Matches(q), got |-> [taken |-> <<>>, bytes |-> 0, skipped |-> FALSE]]
        ELSE LET before == After[n - 1]
             IN  [rest |-> before.rest \ {NextBest(before.rest)},
                  got |-> Admit(before.got, NextBest(before.rest), q)]
  IN  After[Cardinality(Matches(q))].got

SearchInit ==
  /\ question \in [corpus : Corpora, kinds : {{"decision"}, {"decision", "solution"}},
                  includeArchived : BOOLEAN, maxDocs : DocBudgets, maxBytes : ByteBudgets]
  /\ answer = [taken |-> <<>>, bytes |-> -1, skipped |-> FALSE]

SearchNext ==
  /\ answer.bytes = -1
  /\ answer' = Admitted(question)
  /\ UNCHANGED question

SearchSpec == SearchInit /\ [][SearchNext]_searchVars
-----------------------------------------------------------------------------
Bytes(taken) ==
  LET Sum[n \in 0..Len(taken)] == IF n = 0 THEN 0 ELSE Sum[n - 1] + taken[n].size
  IN  Sum[Len(taken)]

(* The budgets are hard bounds: never more documents, never more bytes,    *)
(* and nothing that is no longer current unless it was asked for.          *)
WithinBudgets ==
  answer.bytes >= 0 =>
    /\ Len(answer.taken) <= MaxDocs(question) /\ Bytes(answer.taken) <= MaxBytes(question)
    /\ \A i \in 1..Len(answer.taken) : Eligible(answer.taken[i], question)

(* No match is passed over for a worse one unless it did not fit what its  *)
(* betters, the first so many that were taken, had left; and none is left  *)
(* out while both budgets have room.                                       *)
PassedOver(e) == \A i \in 1..Len(answer.taken) : answer.taken[i] # e
BestThatFit ==
  answer.bytes >= 0 =>
    \A e \in Matches(question) : PassedOver(e) =>
      \E n \in 0..Len(answer.taken) :
        /\ \A i \in 1..Len(answer.taken) : RanksBefore(answer.taken[i], e) <=> i <= n
        /\ Bytes(SubSeq(answer.taken, 1, n)) + e.size > MaxBytes(question) \/ n = MaxDocs(question)
=============================================================================
