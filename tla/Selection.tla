----------------------------- MODULE Selection -----------------------------
(***************************************************************************)
(* From a backend's answer to the cases that are executed: normalizeScores *)
(* and orderItems (scoring.mjs), selectItems and the rules for a policy    *)
(* (selection.mjs, common.mjs).  A case is a number, in the order of the   *)
(* ids; Batch is the order in which they were prepared.  Probabilities are *)
(* multiples of 1/Scale; the tolerances of the code are below that.        *)
(***************************************************************************)
EXTENDS Integers, SequencesExt

CONSTANTS Cases,     \* the case ids
          Batch,     \* prepared.items: a sequence of all of them
          Baseline,  \* those marked baseline
          Scale

ASSUME SelectionAssumption ==
  /\ Cases \subseteq Int /\ Baseline \subseteq Cases
  /\ Scale \in Nat \ {0}
  /\ Batch \in Seq(Cases)
  /\ \A c \in Cases : \E i \in DOMAIN Batch : Batch[i] = c
  /\ \A i, j \in DOMAIN Batch : Batch[i] = Batch[j] => i = j

Labels == {"supported", "violated", "unknown"}

\* A score of null: no number between 0 and Scale.
Null == -2

Statuses == {"scored", "needs_context", "invalid", "unscored"}
NoScores == [c \in Cases |-> [status |-> "unscored", score |-> Null]]

Scored(scores, c) == scores[c].status = "scored"

-----------------------------------------------------------------------------
\* No row is about an unknown case, and no two are about the same one.
WellFormed(raw) ==
  /\ \A i \in DOMAIN raw : raw[i].id \in Cases
  /\ \A i, j \in DOMAIN raw : raw[i].id = raw[j].id => i = j

Trusted_Unsummed(row) == \A label \in Labels : row.p[row.choice] >= row.p[label]  \* Mutant

\* The probabilities sum up to one, and the choice is the likeliest.
Trusted(row) ==
  /\ row.p["supported"] + row.p["violated"] + row.p["unknown"] = Scale
  /\ \A label \in Labels : row.p[row.choice] >= row.p[label]

Record(row) ==
  CASE ~Trusted(row)           -> [status |-> "invalid", score |-> Null]
    [] row.choice = "unknown"  -> [status |-> "needs_context", score |-> Null]
    [] OTHER                   -> [status |-> "scored", score |-> row.p["supported"]]

NormalizeScores(raw) ==
  [c \in Cases |->
     IF \E i \in DOMAIN raw : raw[i].id = c
     THEN Record(raw[CHOOSE i \in DOMAIN raw : raw[i].id = c])
     ELSE NoScores[c]]

-----------------------------------------------------------------------------
\* score ?? -1
Rank(scores, c) == IF scores[c].score = Null THEN -1 ELSE scores[c].score

Place(c) == CHOOSE i \in DOMAIN Batch : Batch[i] = c

\* Array.sort, where no two cases in S are equal for the comparator.
Sorted(S, before(_, _)) ==
  CHOOSE s \in SetToSeqs(S) : \A i, j \in DOMAIN s : i < j => before(s[i], s[j])

\* Baseline cases first, then by score; the sort is stable.
Earlier(scores, a, b) ==
  IF (a \in Baseline) # (b \in Baseline) THEN a \in Baseline
  ELSE \/ Rank(scores, a) < Rank(scores, b)
       \/ Rank(scores, a) = Rank(scores, b) /\ Place(a) < Place(b)

OrderItems(scores) == Sorted(Cases, LAMBDA a, b : Earlier(scores, a, b))

\* By score, and then by the ids.
RanksBefore(scores, mode, a, b) ==
  \/ IF mode = "highest" THEN scores[a].score > scores[b].score
     ELSE scores[a].score < scores[b].score
  \/ scores[a].score = scores[b].score /\ a < b

\* The cases in S with a score, in that order.
Ranked(scores, mode, S) ==
  Sorted({c \in S : Scored(scores, c)}, LAMBDA a, b : RanksBefore(scores, mode, a, b))

Modes == {"all", "lowest", "highest", "range"}
Policies == [mode : Modes, count : Nat, min : 0..Scale, max : 0..Scale]

\* validateSelection
ValidSelection(policy) ==
  /\ policy \in Policies
  /\ policy.mode \in {"lowest", "highest"} => policy.count \in 1..12
  /\ policy.mode = "range" => policy.min <= policy.max

Within_Open(score, policy) == policy.min <= score /\ score < policy.max  \* Mutant

Within(score, policy) == policy.min <= score /\ score <= policy.max

\* A filter keeps the order, so that the range may be cut out before the sort.
SelectItems(scores, policy) ==
  LET ranked == Ranked(scores, policy.mode, Cases)
  IN CASE policy.mode = "all"   -> OrderItems(scores)
       [] policy.mode = "range" -> Ranked(scores, policy.mode,
                                          {c \in Cases : Within(scores[c].score, policy)})
       [] OTHER -> IF policy.count < Len(ranked) THEN SubSeq(ranked, 1, policy.count) ELSE ranked

-----------------------------------------------------------------------------
(***************************************************************************)
(* What is selected, said without sorting anything: who, by counting those *)
(* ahead of a case, and in which order, by pairs.                          *)
(***************************************************************************)
AheadOf(scores, mode, a, b) ==
  /\ Scored(scores, a)
  /\ \/ mode = "lowest"  /\ scores[a].score < scores[b].score
     \/ mode = "highest" /\ scores[a].score > scores[b].score
     \/ scores[a].score = scores[b].score /\ a < b

IsSelected(scores, policy, c) ==
  \/ policy.mode = "all"
  \/ /\ Scored(scores, c)
     /\ policy.mode = "range" => scores[c].score \in policy.min..policy.max
     /\ policy.mode \in {"lowest", "highest"} =>
          Cardinality({d \in Cases : AheadOf(scores, policy.mode, d, c)}) < policy.count

\* In full selection the baseline comes first, "then unscored exploration
\* and lower supported scores" (tests/scoring.test.mjs).
InOrder(scores, policy, a, b) ==
  IF policy.mode = "all"
  THEN /\ b \in Baseline => a \in Baseline
       /\ (a \in Baseline <=> b \in Baseline) =>
            \/ ~Scored(scores, a)
            \/ Scored(scores, b) /\ scores[a].score <= scores[b].score
  ELSE /\ policy.mode = "highest" => scores[a].score >= scores[b].score
       /\ policy.mode # "highest" => scores[a].score <= scores[b].score
       /\ scores[a].score = scores[b].score => a < b

IsExact(selection, scores, policy) ==
  /\ \A c \in Cases : Cardinality({i \in DOMAIN selection : selection[i] = c}) =
                        IF IsSelected(scores, policy, c) THEN 1 ELSE 0
  /\ \A i, j \in DOMAIN selection : i < j => InOrder(scores, policy, selection[i], selection[j])
=============================================================================
