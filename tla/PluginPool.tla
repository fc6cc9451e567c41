----------------------------- MODULE PluginPool ------------------------------
(***************************************************************************)
(* src/pool.js and the `advise --pool` command of src/optional-cli.js:     *)
(* judgments, stage by stage, of the components a project could add, keep  *)
(* or remove.  A session reads the recorded judgments and what is          *)
(* installed, judges, and records; another may record in between.  People  *)
(* install and remove components whenever they like.                       *)
(*                                                                         *)
(* A component is a number (the order of the ids), a stage too; the value  *)
(* the signals of a task give each component is any of Values.             *)
(***************************************************************************)
EXTENDS Naturals, Sequences, FiniteSets

CONSTANTS Components, Grouped,  \* the members of the one exclusion group
          Values, Stages, JudgeSessions, MaxJudgments

(* Ids are compared; what signals are worth is counted from nought.        *)
ASSUME PoolAssumption == Grouped \subseteq Components /\ Components \subseteq Nat /\ Values \subseteq Nat

VARIABLES
  installed,  \* components found on a host
  judgments,  \* every recorded judgment, in the order it was recorded
  judging     \* session -> what it has read, or NotJudging

poolVars == <<installed, judgments, judging>>

threshold == 3
stayBonus == 2
removeLookback == 2
NotJudging == [read |-> <<>>]

(***************************************************************************)
(* The state file keeps a list for each stage; both helpers walk the       *)
(* stages by their names, where "stage-10" comes before "stage-2".         *)
(***************************************************************************)
Digits(stage) == IF stage < 10 THEN 10 * stage ELSE stage
NamedBefore(a, b) == Digits(a) < Digits(b) \/ (Digits(a) = Digits(b) /\ a < b)
OfStage(log, stage) == SelectSeq(log, LAMBDA j : j.stage = stage)
ByName(log) ==
  LET Rest[S \in SUBSET Stages] ==
        IF S = {} THEN <<>>
        ELSE LET first == CHOOSE s \in S : \A t \in S \ {s} : NamedBefore(s, t)
             IN  OfStage(log, first) \o Rest[S \ {first}]
  IN  Rest[Stages]

lastVerdictFor(log, c) ==
  IF log = <<>> THEN "none" ELSE ByName(log)[Len(log)].verdicts[c].verdict

Low(v) == v.verdict = "remove" \/ (v.verdict = "keep" /\ v.low)
lowRunLength(log, c) ==
  LET walked == ByName(log)
  IN  Len(walked) - CHOOSE k \in 0..Len(walked) :
        /\ \A i \in (k + 1)..Len(walked) : Low(walked[i].verdicts[c])
        /\ k = 0 \/ ~Low(walked[k].verdicts[c])

(***************************************************************************)
(* judgePool.                                                              *)
(***************************************************************************)
(* Mutant: any earlier verdict earns the bonus.                            *)
AnyPrior(log, c) == lastVerdictFor(log, c) # "none"
Incumbent(log, c) == lastVerdictFor(log, c) \in {"add", "keep"}

Value(s, c) == s.base[c] + IF Incumbent(s.read, c) /\ s.base[c] > 0 THEN stayBonus ELSE 0

(* The members of the group that stand for it: found, or worth adding.     *)
(* Mutant: only what is found competes.                                    *)
OnlyFoundCompete(s) == Grouped \cap s.found
Competing(s) == {c \in Grouped : c \in s.found \/ Value(s, c) >= threshold}
Outranks(s, a, b) ==
  \/ a \in s.found /\ b \notin s.found
  \/ (a \in s.found <=> b \in s.found)
       /\ (Value(s, a) > Value(s, b) \/ (Value(s, a) = Value(s, b) /\ a < b))
Losers(s) == {c \in Competing(s) : \E w \in Competing(s) : Outranks(s, w, c)}

LowForLong(s, c) == lowRunLength(s.read, c) >= removeLookback - 1

Verdict(s, c) ==
  LET low == Value(s, c) < threshold
  IN  CASE c \in Losers(s) /\ c \in s.found -> [verdict |-> "remove", low |-> FALSE]
        [] c \in Losers(s) /\ c \notin s.found -> [verdict |-> "noop", low |-> FALSE]
        [] c \notin Losers(s) /\ c \in s.found ->
             [verdict |-> IF low /\ LowForLong(s, c) THEN "remove" ELSE "keep", low |-> low]
        [] OTHER -> [verdict |-> IF low THEN "noop" ELSE "add", low |-> FALSE]

(* The first stage with fewer than two judgments, or else the last.        *)
CurrentStage(log) ==
  LET open == {s \in Stages : Len(OfStage(log, s)) < 2}
  IN  IF open = {} THEN CHOOSE s \in Stages : \A t \in Stages : t <= s
      ELSE CHOOSE s \in open : \A t \in open : s <= t

(***************************************************************************)
(* Sessions and people.                                                    *)
(***************************************************************************)
PoolInit ==
  /\ installed \in SUBSET Components
  /\ judgments = <<>> /\ judging = [p \in JudgeSessions |-> NotJudging]

StartJudging(p, base) ==
  /\ judging[p] = NotJudging /\ Len(judgments) < MaxJudgments
  /\ judging' = [judging EXCEPT ![p] =
       [read |-> judgments, found |-> installed, base |-> base, stage |-> CurrentStage(judgments)]]
  /\ UNCHANGED <<installed, judgments>>

RecordJudgment(p) ==
  /\ judging[p] # NotJudging
  /\ LET s == judging[p]
     IN  judgments' = Append(judgments,
           [stage |-> s.stage, after |-> Len(s.read), found |-> s.found, base |-> s.base,
            verdicts |-> [c \in Components |-> Verdict(s, c)]])
  /\ judging' = [judging EXCEPT ![p] = NotJudging]
  /\ UNCHANGED installed

PeopleChange(c) ==
  /\ installed' = IF c \in installed THEN installed \ {c} ELSE installed \cup {c}
  /\ UNCHANGED <<judgments, judging>>

PoolNext ==
  \/ \E p \in JudgeSessions, base \in [Components -> Values] : StartJudging(p, base)
  \/ \E p \in JudgeSessions : RecordJudgment(p)
  \/ \E c \in Components : PeopleChange(c)
PoolSpec == PoolInit /\ [][PoolNext]_poolVars

(***************************************************************************)
(* Properties.                                                             *)
(***************************************************************************)
Recommended(j) == {c \in Components : j.verdicts[c].verdict \in {"add", "keep"}}

(* "at most one member per project ... never keep both": no judgment       *)
(* recommends two members of an exclusion group, present or absent.        *)
OneOfAGroup ==
  \A i \in DOMAIN judgments : Cardinality(Recommended(judgments[i]) \cap Grouped) <= 1

(* A task on which the alternate merely ties does not flip the choice of a *)
(* group: the member recommended before (by the last judgment of the last  *)
(* stage the judge had read of) keeps its place, in either order of their  *)
(* names, while both are found or both are not.                            *)
TiesKeepTheIncumbent ==
  \A i \in DOMAIN judgments : \A a, b \in Grouped :
    LET j == judgments[i]
        last == ByName(SubSeq(judgments, 1, j.after))[j.after]
    IN  /\ j.after > 0 /\ a # b
        /\ a \in Recommended(last) /\ b \notin Recommended(last)
        /\ (a \in j.found <=> b \in j.found) /\ j.base[a] >= j.base[b] /\ j.base[a] > 0
        => b \notin Recommended(j)

(* The members of an exclusion group do not take turns (pool.js).          *)
PoolIsSteady ==
  OneOfAGroup /\ TiesKeepTheIncumbent
=============================================================================
