------------------------------ MODULE Scoring ------------------------------
(***************************************************************************)
(* How a run gets its scores: postDecision with its retry, scoreWithPolicy *)
(* with its fallback (scoring.mjs), and the selection that follows from    *)
(* them.  An action is the code between two awaits; the backend may answer *)
(* anything, refuse, be busy, or not answer at all, and the run may be     *)
(* cancelled at any await.                                                 *)
(***************************************************************************)
EXTENDS Selection

CONSTANTS Retries,    \* 1 in the code
          Responses,  \* what the backend may answer: sequences of rows
          Requests    \* task.selection: the policies somebody may ask for

Row == [id : Int, p : [Labels -> Nat], choice : Labels]

ASSUME ScoringAssumption == Retries \in Nat /\ Responses \subseteq Seq(Row)

VARIABLES
  task,       \* task.selection and task.scoring_failure
  request,    \* "sending", then how scoreWithPolicy ended
  attempt,
  cancelled,  \* signal.aborted
  raw,        \* the answer that was accepted
  scores,     \* scores.items
  selection   \* selection.selected_ids

scoringVars == <<task, request, attempt, cancelled, raw, scores, selection>>

\* validateTask: an explicit subset cannot be expanded to all cases.
Tasks == {t \in [policy : Requests, failure : {"strict", "all"}] :
            /\ ValidSelection(t.policy)
            /\ t.failure = "all" => t.policy.mode = "all"}

ScoringInit ==
  /\ task \in Tasks
  /\ request = "sending" /\ attempt = 0 /\ cancelled = FALSE
  /\ raw = <<>> /\ scores = NoScores /\ selection = <<>>

\* The scores are there, or their fallback, and the cases are selected.
Select(how, answer, items) ==
  /\ request' = how
  /\ raw' = answer /\ scores' = items
  /\ selection' = SelectItems(items, task.policy)
  /\ UNCHANGED <<task, attempt, cancelled>>

\* scoreWithPolicy's catch: the error, unless all cases shall run without.
Fail ==
  IF task.failure = "all" /\ ~cancelled THEN Select("fallback", <<>>, NoScores)
  ELSE /\ request' = IF cancelled THEN "cancelled" ELSE "failed"
       /\ UNCHANGED <<task, attempt, cancelled, raw, scores, selection>>

Retry ==
  /\ attempt' = attempt + 1
  /\ UNCHANGED <<task, request, cancelled, raw, scores, selection>>

\* A complete answer, even one that crosses a cancellation.
Answer ==
  /\ request = "sending"
  /\ \E response \in Responses :
       IF WellFormed(response)
       THEN Select("scored", response, NormalizeScores(response))
       ELSE Fail

\* Status 429 or 5xx; no signal is looked at before the next attempt.
Busy ==
  /\ request = "sending"
  /\ IF attempt < Retries THEN Retry ELSE Fail

\* A TimeoutError or a TypeError; with the signal aborted, it is the end.
TransportFails ==
  /\ request = "sending"
  /\ IF attempt < Retries /\ ~cancelled THEN Retry ELSE Fail

\* The context is too large, any other status, an answer too large or no
\* JSON, or the AbortError of a cancellation.
Refused ==
  /\ request = "sending"
  /\ Fail

CancelScoring ==
  /\ request = "sending" /\ ~cancelled
  /\ cancelled' = TRUE
  /\ UNCHANGED <<task, request, attempt, raw, scores, selection>>

Exchange == Answer \/ Busy \/ TransportFails \/ Refused

-----------------------------------------------------------------------------
\* "no score is ever fabricated to fill the gap" (scoring.mjs): a case has a
\* score only if the answer that was accepted has one row for it, whose numbers
\* are a distribution with the choice as its mode, and it is that row's; and a
\* run goes on without an answer only if all cases shall run, none has a score,
\* and it was not cancelled meanwhile.
OnlyRealScores ==
  /\ \A c \in Cases : Scored(scores, c) =>
       \E i \in DOMAIN raw :
         /\ raw[i].id = c /\ raw[i].p["supported"] = scores[c].score
         /\ raw[i].choice \in {"supported", "violated"}
         /\ \A j \in DOMAIN raw : raw[j].id = c => j = i
         /\ scores[c].score + raw[i].p["violated"] + raw[i].p["unknown"] = Scale
         /\ \A label \in Labels : raw[i].p[label] <= raw[i].p[raw[i].choice]
  /\ request = "fallback" =>
       /\ ~cancelled /\ task.failure = "all"
       /\ \A c \in Cases : ~Scored(scores, c)
=============================================================================
