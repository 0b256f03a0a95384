---------------------------- MODULE ReplayProofs ----------------------------
(***************************************************************************)
(* Proofs about Replay and the scores it uses: for any cases, answers and  *)
(* policies, and whenever a signal, a deadline or an edit comes.           *)
(***************************************************************************)
EXTENDS Replay, SelectionProofs, TLAPS

Stops == {"none", "timeout", "output_limit", "cancelled"}
Classes == {"passed", "failed", "environment_error"}
Outcomes == {"none", "running", "killed", "passed", "failed"}
Baselines == {"not_configured", "passed", "baseline_failed", "cancelled"}

TypeInv ==
  /\ op \in {"none", "replay", "regress"}
  /\ at \in {"none", "snapshot", "copying", "baseline", "loop", "spawning", "testing",
             "verifying", "saving", "done", "refused"}
  /\ child \in [outcome : Outcomes, stop : Stops]
  /\ executions \in [Executed -> [class : Classes, stop : Stops]]
  /\ signal \in BOOLEAN /\ deadline \in BOOLEAN
  /\ op = "none" <=> at = "none"
  /\ at = "copying" => op = "replay"
  /\ at = "baseline" => op = "regress"

\* What ended a child, and what is recorded of it.
ChildInv ==
  /\ at # "testing" => child = NoChild
  /\ at = "testing" => child.outcome # "none"
  /\ child.outcome = "killed" => child.stop # "none"
  /\ child.stop = "cancelled" => RunAborted
  /\ \A c \in Executed : /\ executions[c].class = "passed" => executions[c].stop = "none"
                         /\ executions[c].stop = "cancelled" => RunAborted

\* The verdict is that of the moment at which it was reached.
ResultInv ==
  /\ at \in {"verifying", "saving", "done"} \/ result # None => RunAborted \/ queue = <<>>
  /\ op = "regress" /\ \/ at \in {"loop", "spawning", "testing", "verifying", "saving", "done"}
                       \/ result # None
     => baseline \in Baselines /\ (baseline = "cancelled" => RunAborted)
  /\ at \in {"saving", "done"} \/ result # None =>
       result = [status |-> Status, assessment |-> Assessment]
  /\ result # None => at \in {"saving", "done", "refused"}
  /\ feedback # None => result # None /\ op = "regress"

Inv == /\ TypeInv /\ ChildInv /\ ResultInv
       /\ NoTestOutlivesTheStop /\ FeedbackIsDeserved

-----------------------------------------------------------------------------
LEMMA ScoringKeeps ==
  ASSUME Inv, UNCHANGED replayVars
  PROVE  Inv'
  BY DEF Inv, TypeInv, ChildInv, ResultInv, NoTestOutlivesTheStop, FeedbackIsDeserved, replayVars,
     RunAborted, Executed, Status, Assessment, AllPassed

\* Up to the first test nothing is executed, and there is no verdict.
LEMMA BeginKeeps ==
  ASSUME Inv, Begin
  PROVE  Inv'
<1>1. op = "none" /\ at = "none" /\ result = None /\ feedback = None /\ child = NoChild
  BY DEF Begin, BeginReplay, BeginRegress, Inv, TypeInv, ResultInv, ChildInv
<1>2. op' \in {"replay", "regress"} /\ at' \in {"snapshot", "refused"}
  BY DEF Begin, BeginReplay, BeginRegress, Go, Refuse
<1>3. UNCHANGED <<executions, child, signal, deadline, result, feedback>>
  BY DEF Begin, BeginReplay, BeginRegress
<1>4. QED
  BY <1>1, <1>2, <1>3 DEF Inv, TypeInv, ChildInv, ResultInv, NoTestOutlivesTheStop,
     FeedbackIsDeserved, RunAborted, Executed

LEMMA PrepareKeeps ==
  ASSUME Inv, Snapshot \/ CopyTests \/ Baselined \/ NextTest
  PROVE  Inv'
<1>1. /\ at \in {"snapshot", "copying", "baseline", "loop"}
      /\ at' \in {"copying", "baseline", "loop", "spawning", "verifying", "refused"}
      /\ at' = "verifying" => at = "loop" /\ (RunAborted \/ queue = <<>>) /\ queue' = queue
  BY DEF Snapshot, CopyTests, Baselined, NextTest, Go, Refuse
<1>2. UNCHANGED <<op, executions, child, signal, deadline, result, feedback>>
  BY DEF Snapshot, CopyTests, Baselined, NextTest
<1>3. op' = "regress" /\ at' \in {"loop", "spawning", "verifying"} =>
        baseline' \in Baselines /\ (baseline' = "cancelled" => RunAborted')
  <2>1. CASE Snapshot
    BY <2>1 DEF Snapshot, Go, Refuse
  <2>2. CASE CopyTests
    BY <2>2 DEF CopyTests, Go, Refuse, Inv, TypeInv
  <2>3. CASE Baselined
    BY <2>3 DEF Baselined, Baselines, RunAborted
  <2>4. CASE NextTest
    BY <2>4 DEF NextTest, Inv, ResultInv, RunAborted
  <2>5. QED BY <2>1, <2>2, <2>3, <2>4
<1>7. (at' = "copying" => op' = "replay") /\ (at' = "baseline" => op' = "regress")
  BY <1>2 DEF Snapshot, CopyTests, Baselined, NextTest, Go, Refuse, Inv, TypeInv
<1>4. TypeInv' /\ ChildInv' /\ NoTestOutlivesTheStop' /\ FeedbackIsDeserved'
  BY <1>1, <1>2, <1>7 DEF Inv, TypeInv, ChildInv, ResultInv, NoTestOutlivesTheStop,
     FeedbackIsDeserved, RunAborted, Executed
<1>5. ResultInv'
  BY <1>1, <1>2, <1>3 DEF Inv, ResultInv, RunAborted
<1>6. QED BY <1>4, <1>5 DEF Inv

\* A child is killed for the first reason there is.
LEMMA KillTypes ==
  ASSUME TypeInv, ChildInv, NEW reason \in Stops \ {"none"}
  PROVE  /\ Killed(reason) \in [outcome : Outcomes, stop : Stops]
         /\ Killed(reason).stop # "none"
         /\ Killed(reason).stop \in {child.stop, reason}
         /\ child.outcome # "none" => Killed(reason).outcome # "none"
  BY DEF TypeInv, Killed, Outcomes, Stops

\* While a test runs, and when it is closed.
LEMMA TestKeeps ==
  ASSUME Inv, Spawn \/ ChildExits \/ TestTimeout \/ OutputLimit
  PROVE  Inv'
<1>1. /\ at' = "testing" /\ op' = op /\ op # "none"
      /\ UNCHANGED <<executions, signal, deadline, baseline, result, feedback>>
  BY DEF Spawn, ChildExits, TestTimeout, OutputLimit, Inv, TypeInv, ChildInv, NoChild, Go
<1>2. /\ child' \in [outcome : Outcomes, stop : Stops]
      /\ child'.outcome = "killed" => child'.stop # "none"
      /\ child'.stop = "cancelled" => RunAborted
      /\ RunAborted => child'.stop # "none"
      /\ child'.outcome # "none"
  <2>1. CASE Spawn
    BY <2>1 DEF Spawn, Outcomes, Stops
  <2>2. CASE ChildExits
    BY <2>2 DEF ChildExits, Outcomes, Inv, TypeInv, ChildInv, NoTestOutlivesTheStop, NoChild
  <2>3. CASE TestTimeout
    BY <2>3, KillTypes DEF TestTimeout, TimerKills, Stops, Inv, ChildInv
  <2>4. CASE OutputLimit
    BY <2>4, KillTypes DEF OutputLimit, Stops, Inv, ChildInv
  <2>5. QED BY <2>1, <2>2, <2>3, <2>4
<1>3. op' = "regress" => baseline' \in Baselines /\ (baseline' = "cancelled" => RunAborted')
  BY <1>1 DEF Spawn, ChildExits, TestTimeout, OutputLimit, Inv, ResultInv, ChildInv, NoChild, RunAborted
<1>4. result = None /\ feedback = None
  BY DEF Spawn, ChildExits, TestTimeout, OutputLimit, Inv, ResultInv, ChildInv, NoChild
<1>5. QED
  BY <1>1, <1>2, <1>3, <1>4 DEF Inv, TypeInv, ChildInv, ResultInv, NoTestOutlivesTheStop,
     FeedbackIsDeserved, RunAborted, Executed

LEMMA CloseKeeps ==
  ASSUME Inv, Close
  PROVE  Inv'
<1>1. /\ at = "testing" /\ at' = "loop" /\ child' = NoChild
      /\ UNCHANGED <<op, signal, deadline, baseline, result, feedback>>
  BY DEF Close, Go
<1>2. /\ executions' \in [Executed' -> [class : Classes, stop : Stops]]
      /\ \A c \in Executed' : \/ c \in Executed /\ executions'[c] = executions[c]
                              \/ executions'[c] = [class |-> Classified(child), stop |-> child.stop]
  <2>1. Classified(child) \in Classes
    BY DEF Classified, Classes, Close, Inv, TypeInv, ChildInv, Outcomes
  <2>2. QED
    BY <2>1 DEF Close, Executed, Inv, TypeInv
<1>3. \A c \in Executed' : /\ executions'[c].class = "passed" => executions'[c].stop = "none"
                           /\ executions'[c].stop = "cancelled" => RunAborted
  BY <1>2 DEF Inv, ChildInv, Classified
<1>4. result = None /\ feedback = None
  BY <1>1 DEF Inv, ResultInv
<1>5. QED
  BY <1>1, <1>2, <1>3, <1>4 DEF Inv, TypeInv, ChildInv, ResultInv, NoTestOutlivesTheStop,
     FeedbackIsDeserved, RunAborted, NoChild, Outcomes, Stops

-----------------------------------------------------------------------------
LEMMA ConcludeKeeps ==
  ASSUME Inv, Conclude
  PROVE  Inv'
<1>1. /\ at = "verifying" /\ at' \in {"saving", "refused"}
      /\ UNCHANGED <<op, saved, queue, executions, child, signal, deadline, baseline, feedback>>
      /\ at' = "saving" => result' = [status |-> Status, assessment |-> Assessment]
      /\ at' # "saving" => result' = result
  BY DEF Conclude, Go, Refuse
<1>2. result = None /\ feedback = None
  BY <1>1 DEF Inv, ResultInv
<1>3. Status' = Status /\ Assessment' = Assessment
  BY <1>1 DEF Status, Assessment, AllPassed, Executed
<1>4. QED
  BY <1>1, <1>2, <1>3 DEF Inv, TypeInv, ChildInv, ResultInv, NoTestOutlivesTheStop,
     FeedbackIsDeserved, RunAborted, Executed

\* "regression_passed" is more than the assessment: a whole, uncut regression.
LEMMA FeedbackKeeps ==
  ASSUME Inv, RecordFeedback
  PROVE  Inv'
<1>1. /\ result # None /\ op = "regress"
      /\ UNCHANGED <<op, at, saved, queue, executions, child, signal, deadline, baseline, result>>
  BY DEF RecordFeedback
<1>2. \A c \in Executed : executions[c].class = "passed" =>
                            executions[c] = [class |-> "passed", stop |-> "none"]
  BY DEF Inv, TypeInv, ChildInv
<1>3. FeedbackIsDeserved'
  <2>1. PICK defects \in SUBSET saved : feedback' =
          [overall |-> IF /\ result.status = "completed"
                          /\ result.assessment = "no_confirmed_findings"
                          /\ baseline # "baseline_failed"
                          /\ AllPassed /\ Executed = saved
                       THEN "regression_passed" ELSE "requires_attention",
           fixed |-> {c \in defects : Passed(c)}]
    BY DEF RecordFeedback
  <2>2. \A c \in feedback'.fixed : c \in Executed /\ executions[c] = [class |-> "passed", stop |-> "none"]
    BY <2>1, <1>2 DEF Passed
  <2>3. ASSUME feedback'.overall = "regression_passed"
        PROVE  /\ ~RunAborted /\ baseline \in {"not_configured", "passed"}
               /\ \A c \in saved : c \in Executed /\ executions[c] = [class |-> "passed", stop |-> "none"]
    <3>1. /\ result.status = "completed" /\ baseline # "baseline_failed"
          /\ AllPassed /\ Executed = saved
      BY <2>1, <2>3
    <3>2. ~RunAborted
      BY <3>1, <1>1 DEF Inv, ResultInv, Status, RunAborted
    <3>3. baseline \in {"not_configured", "passed"}
      BY <3>1, <3>2, <1>1 DEF Inv, ResultInv, Baselines
    <3>4. QED BY <3>1, <3>2, <3>3, <1>2 DEF AllPassed
  <2>4. QED BY <1>1, <2>2, <2>3 DEF FeedbackIsDeserved, RunAborted, Executed
<1>4. Status' = Status /\ Assessment' = Assessment
  BY <1>1 DEF Status, Assessment, AllPassed, Executed
<1>5. QED
  BY <1>1, <1>3, <1>4 DEF Inv, TypeInv, ChildInv, ResultInv, NoTestOutlivesTheStop, RunAborted, Executed

\* The signal and the deadline come while something is under way, and are
\* heard by the test that is.
LEMMA AbortKeeps ==
  ASSUME Inv, Cancel \/ DeadlinePasses
  PROVE  Inv'
<1>1. /\ at \notin {"none", "saving", "done", "refused"} /\ RunAborted'
      /\ UNCHANGED <<op, at, executions, baseline, result, feedback>>
      /\ signal' \in BOOLEAN /\ deadline' \in BOOLEAN /\ child' = Heard
  BY DEF Cancel, DeadlinePasses, Active, Undecided, Timed, RunAborted, Inv, TypeInv
<1>2. result = None /\ feedback = None
  BY <1>1 DEF Inv, ResultInv
<1>3. /\ child' \in [outcome : Outcomes, stop : Stops]
      /\ at # "testing" => child' = NoChild
      /\ at = "testing" => child'.stop # "none" /\ child'.outcome # "none"
      /\ child'.outcome = "killed" => child'.stop # "none"
  BY <1>1, KillTypes DEF Heard, Inv, TypeInv, ChildInv, Stops
<1>4. QED
  BY <1>1, <1>2, <1>3 DEF Inv, TypeInv, ChildInv, ResultInv, NoTestOutlivesTheStop,
     FeedbackIsDeserved, Executed

LEMMA EditKeeps ==
  ASSUME Inv, SourceChanges \/ (\E c \in Cases : TestChanges(c)) \/ Breaks \/ Save
  PROVE  Inv'
<1>1. /\ UNCHANGED <<op, saved, queue, executions, child, signal, deadline, baseline, result, feedback>>
      /\ \/ at' = at
         \/ at' = "refused" /\ at \notin {"none", "done", "testing"}
         \/ at' = "done" /\ at = "saving"
  BY DEF SourceChanges, TestChanges, Breaks, Save, Active, Refuse, Go
<1>2. Status' = Status /\ Assessment' = Assessment
  BY <1>1 DEF Status, Assessment, AllPassed, Executed
<1>3. QED
  BY <1>1, <1>2 DEF Inv, TypeInv, ChildInv, ResultInv, NoTestOutlivesTheStop, FeedbackIsDeserved,
     RunAborted, Executed

\* The inductive invariant.
THEOREM InvariantHolds == Spec => []Inv
<1>1. ASSUME Init
      PROVE  Inv
  <2>1. executions \in [{} -> [class : Classes, stop : Stops]] /\ Executed = {}
    BY <1>1 DEF Init, Executed
  <2>2. child = NoChild /\ child \in [outcome : Outcomes, stop : Stops]
    BY <1>1 DEF Init, NoChild, Outcomes, Stops
  <2>3. /\ op = "none" /\ at = "none" /\ signal = FALSE /\ deadline = FALSE
        /\ result = None /\ feedback = None
    BY <1>1 DEF Init
  <2>4. TypeInv
    BY <2>1, <2>2, <2>3 DEF TypeInv
  <2>5. QED
    BY <2>1, <2>2, <2>3, <2>4 DEF Inv, ChildInv, ResultInv, NoTestOutlivesTheStop, FeedbackIsDeserved,
       NoChild
<1>2. Inv /\ [Next]_vars => Inv'
  <2> SUFFICES ASSUME Inv, [Next]_vars
               PROVE  Inv'
    OBVIOUS
  <2>1. CASE ScoringNext \/ UNCHANGED vars
    BY <2>1, ScoringKeeps DEF ScoringNext, vars
  <2>2. CASE Begin
    BY <2>2, BeginKeeps
  <2>3. CASE Code
    BY <2>3, PrepareKeeps, TestKeeps, CloseKeeps, ConcludeKeeps, EditKeeps DEF Code
  <2>4. CASE TestTimeout \/ RecordFeedback \/ Breaks
    BY <2>4, TestKeeps, FeedbackKeeps, EditKeeps
  <2>5. CASE World
    BY <2>5, TestKeeps, AbortKeeps, EditKeeps DEF World
  <2>6. QED BY <2>1, <2>2, <2>3, <2>4, <2>5 DEF Next
<1>3. QED BY <1>1, <1>2, PTL DEF Spec

\* No test runs on in a replay or regression that was cancelled or is out of
\* time, whenever the signal came.
THEOREM NoTestSurvives == Spec => []NoTestOutlivesTheStop
BY InvariantHolds, PTL DEF Inv

\* A coding agent hears of a success only if there was one.
THEOREM OnlyDeservedFeedback == Spec => []FeedbackIsDeserved
BY InvariantHolds, PTL DEF Inv

-----------------------------------------------------------------------------
(***************************************************************************)
(* The scores                                                              *)
(***************************************************************************)

\* The scores are those of the answer that was accepted, or none at all.
ScoresInv ==
  /\ op = "none" => task \in Tasks
  /\ op # "none" => request # "sending"
  /\ \/ scores = NoScores
     \/ raw \in Responses /\ WellFormed(raw) /\ scores = NormalizeScores(raw)
  /\ request = "fallback" => ~cancelled /\ task.failure = "all" /\ scores = NoScores

\* What a score that comes of an answer says of that answer.
LEMMA ScoreOfARow ==
  ASSUME NEW answer \in Responses, WellFormed(answer), NEW c \in Cases,
         Scored(NormalizeScores(answer), c)
  PROVE  \E i \in DOMAIN answer :
           /\ answer[i].id = c /\ answer[i].p["supported"] = NormalizeScores(answer)[c].score
           /\ answer[i].choice \in {"supported", "violated"}
           /\ \A j \in DOMAIN answer : answer[j].id = c => j = i
           /\ NormalizeScores(answer)[c].score + answer[i].p["violated"]
                + answer[i].p["unknown"] = Scale
           /\ \A label \in Labels : answer[i].p[label] <= answer[i].p[answer[i].choice]
<1>1. \E i \in DOMAIN answer : answer[i].id = c
  BY DEF Scored, NormalizeScores, NoScores
<1>2. DEFINE i == CHOOSE i \in DOMAIN answer : answer[i].id = c
<1>3. i \in DOMAIN answer /\ answer[i].id = c
  BY <1>1
<1>4. NormalizeScores(answer)[c] = Record(answer[i])
  BY <1>1 DEF NormalizeScores
<1>5. answer[i] \in Row
  BY <1>3, ScoringAssumption
<1>. HIDE DEF i
<1>6. Trusted(answer[i]) /\ answer[i].choice # "unknown"
      /\ Record(answer[i]).score = answer[i].p["supported"]
  BY <1>4 DEF Scored, Record
<1>7. /\ answer[i].choice \in {"supported", "violated"}
      /\ answer[i].p["supported"] + answer[i].p["violated"] + answer[i].p["unknown"] = Scale
      /\ \A label \in Labels : answer[i].p[label] <= answer[i].p[answer[i].choice]
  BY <1>5, <1>6 DEF Row, Trusted, Labels
<1>8. \A j \in DOMAIN answer : answer[j].id = c => j = i
  BY <1>3 DEF WellFormed
<1>9. QED BY <1>3, <1>4, <1>6, <1>7, <1>8

LEMMA ScoresStep ==
  ASSUME ScoresInv, [Next]_vars
  PROVE  ScoresInv'
<1>1. CASE ScoringNext
  <2>1. op' = op /\ task' = task /\ request = "sending" /\ op = "none"
    BY <1>1 DEF ScoringNext, replayVars, Exchange, Answer, Busy, TransportFails, Refused, CancelScoring,
       Select, Fail, Retry, ScoresInv
  <2>2. \/ scores' = NoScores
        \/ raw' \in Responses /\ WellFormed(raw)' /\ scores' = NormalizeScores(raw)'
    <3>1. CASE \E answer \in Responses : WellFormed(answer) /\ Select("scored", answer, NormalizeScores(answer))
      BY <3>1 DEF Select, WellFormed, NormalizeScores
    <3>2. CASE Fail \/ Retry \/ CancelScoring
      BY <3>2 DEF Fail, Select, Retry, CancelScoring, ScoresInv, WellFormed, NormalizeScores
    <3>3. QED
      BY <1>1, <3>1, <3>2 DEF ScoringNext, Exchange, Answer, Busy, TransportFails, Refused
  <2>3. request' = "fallback" => ~cancelled' /\ task'.failure = "all" /\ scores' = NoScores
    BY <1>1, <2>1 DEF ScoringNext, Exchange, Answer, Busy, TransportFails, Refused, CancelScoring,
       Select, Fail, Retry
  <2>4. QED BY <2>1, <2>2, <2>3 DEF ScoresInv
<1>2. CASE \E policy \in Requests : BeginReplay(policy)
  <2>1. /\ op = "none" /\ op' = "replay" /\ cancelled' = FALSE
        /\ UNCHANGED <<request, raw, scores>> /\ request # "sending"
    BY <1>2 DEF BeginReplay
  <2>2. task \in Tasks /\ task'.failure = task.failure
    BY <1>2, <2>1 DEF BeginReplay, ScoresInv, Tasks
  <2>3. QED BY <2>1, <2>2 DEF ScoresInv, WellFormed, NormalizeScores
<1>3. CASE \E tests \in SUBSET Cases : BeginRegress(tests)
  <2>1. op' = "regress" /\ request' = "none" /\ scores' = NoScores
    BY <1>3 DEF BeginRegress
  <2>2. QED BY <2>1 DEF ScoresInv
<1>4. CASE Code \/ TestTimeout \/ RecordFeedback \/ World \/ Breaks \/ UNCHANGED vars
  <2>1. UNCHANGED <<op, task, request, raw, scores, cancelled>>
    BY <1>4 DEF Code, Snapshot, CopyTests, Baselined, NextTest, Spawn, Close, Conclude, Save, TestTimeout,
       RecordFeedback, World, ChildExits, OutputLimit, Cancel, DeadlinePasses, SourceChanges, TestChanges,
       Breaks, vars, scoringVars, replayVars
  <2>2. QED BY <2>1 DEF ScoresInv, WellFormed, NormalizeScores
<1>5. QED BY <1>1, <1>2, <1>3, <1>4 DEF Next, Begin

\* No score is made up, by any answer of any backend, and no failure or
\* cancellation is taken for a permission to go on.
THEOREM ScoresAreReal == Spec => []OnlyRealScores
<1>1. Init => ScoresInv
  BY DEF Init, ScoringInit, ScoresInv
<1>2. ScoresInv /\ [Next]_vars => ScoresInv'
  BY ScoresStep
<1>3. ScoresInv => OnlyRealScores
  <2> SUFFICES ASSUME ScoresInv PROVE OnlyRealScores
    OBVIOUS
  <2>1. CASE scores = NoScores
    BY <2>1 DEF ScoresInv, OnlyRealScores, Scored, NoScores
  <2>2. CASE raw \in Responses /\ WellFormed(raw) /\ scores = NormalizeScores(raw)
    <3>1. \A c \in Cases : ~Scored(NoScores, c)
      BY DEF Scored, NoScores
    <3> QED
      BY <2>2, <3>1, ScoreOfARow DEF ScoresInv, OnlyRealScores
  <2>3. QED BY <2>1, <2>2 DEF ScoresInv
<1>4. QED BY <1>1, <1>2, <1>3, PTL DEF Spec

-----------------------------------------------------------------------------
(***************************************************************************)
(* The selection, and what is executed of it                               *)
(***************************************************************************)

\* Where the loop is going on, or over.
Looping == at \in {"loop", "spawning", "testing", "verifying", "saving", "done"}

\* What the selection is, wherever somebody goes by it.
SelectionInv ==
  /\ op # "regress" => task \in Tasks
  /\ \/ op = "none" /\ request \in {"scored", "fallback"}
     \/ op = "replay" /\ Looping
     => selection = SelectItems(scores, task.policy)

\* What the loop is to execute.
Planned == IF op = "replay" THEN {selection[i] : i \in DOMAIN selection} ELSE saved

\* What has been executed and what is queued is what was planned.
QueueInv ==
  /\ saved \subseteq Cases
  /\ ~Looping /\ at # "refused" => Executed = {}
  /\ Looping \/ result # None =>
       /\ queue \in Seq(Cases)
       /\ Planned = Executed \cup {queue[i] : i \in DOMAIN queue}
  /\ at \in {"spawning", "testing"} => queue # <<>>

LEMMA ScoresAreNormal ==
  ASSUME ScoresInv
  PROVE  Normal(scores)
<1>1. ASSUME raw \in Responses, scores = NormalizeScores(raw)
      PROVE  Normal(scores)
  <2>1. \A i \in DOMAIN raw : raw[i] \in Row
    BY <1>1, ScoringAssumption
  <2>2. \A i \in DOMAIN raw : raw[i].p["supported"] \in Nat
    BY <2>1 DEF Row, Labels
  <2> QED
    BY <1>1, <2>2, AnswersAreNormal
<1> QED
  BY <1>1, NoScoresAreNormal DEF ScoresInv

\* A policy that came through validateTask.
LEMMA PoliciesAreValid ==
  ASSUME task \in Tasks
  PROVE  task.policy \in Policies
  BY DEF Tasks, ValidSelection

\* The exchange with the backend, and the selection that follows from it.
LEMMA ScoringSelects ==
  ASSUME SelectionInv, ScoringNext
  PROVE  SelectionInv'
<1>1. op' = op /\ at' = at /\ task' = task /\ request = "sending"
  BY DEF ScoringNext, replayVars, Exchange, Answer, Busy, TransportFails, Refused, CancelScoring,
     Select, Fail, Retry
<1>2. CASE \E answer, items, how : Select(how, answer, items)
  <2>1. selection' = SelectItems(scores', task'.policy)
    BY <1>1, <1>2 DEF Select
  <2> QED
    BY <1>1, <2>1 DEF SelectionInv
<1>3. CASE ~ \E answer, items, how : Select(how, answer, items)
  <2>1. Fail \/ Retry \/ CancelScoring
    BY <1>3 DEF ScoringNext, Exchange, Answer, Busy, TransportFails, Refused
  <2>2. UNCHANGED <<scores, selection>> /\ request' \notin {"scored", "fallback"}
    BY <1>1, <1>3, <2>1 DEF Fail, Retry, CancelScoring
  <2> QED
    BY <1>1, <2>2 DEF SelectionInv, Looping
<1> QED
  BY <1>2, <1>3

\* Every other step leaves a selection alone, or makes a new one.
LEMMA ReplaySelects ==
  ASSUME SelectionInv, TypeInv,
         Begin \/ Code \/ TestTimeout \/ RecordFeedback \/ World \/ Breaks \/ UNCHANGED vars
  PROVE  SelectionInv'
<1>1. CASE Begin
  <2>1. op' # "none" /\ at' \in {"snapshot", "refused"} /\ (op' = "regress" \/ task' \in Tasks)
    BY <1>1 DEF Begin, BeginReplay, BeginRegress, Go, Refuse
  <2> QED
    BY <2>1 DEF SelectionInv, Looping
<1>2. CASE CopyTests
  <2>1. /\ UNCHANGED <<op, task, scores>> /\ op = "replay"
        /\ at' = "refused" \/ selection' = SelectItems(scores, task.policy)
    BY <1>2 DEF CopyTests, TypeInv, Go, Refuse
  <2> QED
    BY <2>1 DEF SelectionInv, Looping
<1>3. CASE ~Begin /\ ~CopyTests
  <2>1. UNCHANGED <<op, task, request, scores, selection>>
    BY <1>3 DEF Code, Snapshot, Baselined, NextTest, Spawn, Close, Conclude, Save, TestTimeout,
       RecordFeedback, World, ChildExits, OutputLimit, Cancel, DeadlinePasses, SourceChanges,
       TestChanges, Breaks, vars, scoringVars, replayVars
  <2>2. op = "replay" /\ Looping' => Looping
    BY <1>3 DEF Looping, Code, Snapshot, Baselined, NextTest, Spawn, Close, Conclude, Save, TestTimeout,
       RecordFeedback, World, ChildExits, OutputLimit, Cancel, DeadlinePasses, SourceChanges,
       TestChanges, Breaks, vars, replayVars, Go, Refuse, TypeInv
  <2> QED
    BY <2>1, <2>2 DEF SelectionInv
<1> QED
  BY <1>1, <1>2, <1>3

\* The head of a queue moves from the queue to what has been executed.
LEMMA HeadAndRest ==
  ASSUME NEW q \in Seq(Cases), q # <<>>
  PROVE  /\ Head(q) \in Cases /\ Tail(q) \in Seq(Cases)
         /\ {q[i] : i \in DOMAIN q} = {Head(q)} \cup {Tail(q)[i] : i \in DOMAIN Tail(q)}
<1>1. /\ Len(q) \in Nat \ {0} /\ DOMAIN q = 1..Len(q)
      /\ Head(q) = q[1] /\ Head(q) \in Cases
      /\ Tail(q) \in Seq(Cases) /\ DOMAIN Tail(q) = 1..(Len(q) - 1)
      /\ \A i \in 1..(Len(q) - 1) : Tail(q)[i] = q[i + 1]
  BY HeadTailProperties, EmptySeq, LenProperties
<1>2. \A i \in 1..Len(q) : i = 1 \/ (i - 1 \in 1..(Len(q) - 1) /\ q[i] = Tail(q)[i - 1])
  BY <1>1
<1>3. \A i \in 1..(Len(q) - 1) : i + 1 \in 1..Len(q) /\ Tail(q)[i] = q[i + 1]
  BY <1>1
<1>4. ASSUME NEW c
      PROVE  (\E i \in DOMAIN q : q[i] = c) <=> c = Head(q) \/ \E i \in DOMAIN Tail(q) : Tail(q)[i] = c
  <2>1. ASSUME NEW i \in DOMAIN q, q[i] = c
        PROVE  c = Head(q) \/ \E j \in DOMAIN Tail(q) : Tail(q)[j] = c
    BY <1>1, <1>2, <2>1
  <2>2. ASSUME NEW i \in DOMAIN Tail(q), Tail(q)[i] = c
        PROVE  \E j \in DOMAIN q : q[j] = c
    BY <1>1, <1>3, <2>2
  <2>3. c = Head(q) => \E j \in DOMAIN q : q[j] = c
    BY <1>1
  <2> QED
    BY <2>1, <2>2, <2>3
<1> QED
  BY <1>1, <1>4

\* The planned cases come into the queue: those selected, or all that are saved.
LEMMA PlanStep ==
  ASSUME QueueInv, TypeInv, ResultInv, SelectionInv, Normal(scores), CopyTests \/ Baselined
  PROVE  QueueInv'
<1>1. /\ UNCHANGED <<op, saved, executions>> /\ at \in {"copying", "baseline"}
      /\ Executed = {} /\ result' = None
  BY DEF CopyTests, Baselined, QueueInv, ResultInv, Looping
<1>2. CASE CopyTests
  <2>1. op = "replay"
    BY <1>2 DEF CopyTests, TypeInv
  <2>2. CASE at' = "refused"
    BY <1>1, <2>2 DEF QueueInv, Looping
  <2>3. CASE at' = "loop"
    <3>1. selection' = SelectItems(scores, task.policy) /\ queue' = selection'
      BY <1>2, <2>3 DEF CopyTests, Refuse, Go
    <3>2. selection' \in Seq(Cases)
      BY <2>1, <3>1, PoliciesAreValid, SelectionsAreLists DEF SelectionInv
    <3> QED
      BY <1>1, <2>1, <2>3, <3>1, <3>2 DEF QueueInv, Looping, Planned, Executed
  <2> QED
    BY <1>2, <2>2, <2>3 DEF CopyTests, Refuse, Go
<1>3. CASE Baselined
  <2>1. op = "regress" /\ at' = "loop" /\ queue' \in SetToSeqs(saved)
    BY <1>3 DEF Baselined, TypeInv, Go
  <2>2. IsFiniteSet(saved) /\ saved \subseteq Cases
    BY FiniteCases, FS_Subset DEF QueueInv
  <2>3. /\ queue' \in Seq(saved)
        /\ \A c \in saved : \E i \in DOMAIN queue' : queue'[i] = c
    BY <2>1, <2>2, ListOfASet
  <2>4. queue' \in Seq(Cases) /\ {queue'[i] : i \in DOMAIN queue'} = saved
    BY <2>2, <2>3, ElementOfSeq, SeqMonotonic
  <2> QED
    BY <1>1, <2>1, <2>4 DEF QueueInv, Looping, Planned, Executed
<1> QED
  BY <1>2, <1>3

\* What is executed is taken from the queue.
LEMMA CloseStep ==
  ASSUME QueueInv, Close
  PROVE  QueueInv'
<1>1. /\ UNCHANGED <<op, saved, selection>> /\ at = "testing" /\ at' = "loop"
      /\ Executed' = Executed \cup {Head(queue)} /\ queue' = Tail(queue)
  BY DEF Close, Go, scoringVars, Executed
<1>2. /\ queue \in Seq(Cases) /\ queue # <<>>
      /\ Planned = Executed \cup {queue[i] : i \in DOMAIN queue}
  BY <1>1 DEF QueueInv, Looping
<1>3. /\ queue' \in Seq(Cases)
      /\ {queue[i] : i \in DOMAIN queue} = {Head(queue)} \cup {queue'[i] : i \in DOMAIN queue'}
  BY <1>1, <1>2, HeadAndRest
<1>4. Planned' = Executed' \cup {queue'[i] : i \in DOMAIN queue'}
  BY <1>1, <1>2, <1>3 DEF Planned
<1> QED
  BY <1>1, <1>3, <1>4 DEF QueueInv, Looping

LEMMA QueueStep ==
  ASSUME QueueInv, TypeInv, ResultInv, SelectionInv, ScoresInv, [Next]_vars
  PROVE  QueueInv'
<1>1. CASE Begin
  <2>1. /\ saved' \subseteq Cases /\ at' \in {"snapshot", "refused"} /\ executions' = executions
        /\ at = "none" /\ result' = None
    BY <1>1 DEF Begin, BeginReplay, BeginRegress, Go, Refuse, TypeInv, ResultInv
  <2> QED
    BY <2>1 DEF QueueInv, Looping, Executed
<1>2. CASE CopyTests \/ Baselined
  BY <1>2, PlanStep, ScoresAreNormal
<1>3. CASE Close
  BY <1>3, CloseStep
<1>4. CASE ScoringNext
  <2>1. UNCHANGED replayVars /\ request = "sending"
    BY <1>4 DEF ScoringNext, Exchange, Answer, Busy, TransportFails, Refused, CancelScoring
  <2>2. ~Looping /\ result = None
    BY <2>1 DEF ScoresInv, TypeInv, ResultInv, Looping
  <2> QED
    BY <2>1, <2>2 DEF QueueInv, Looping, Executed, replayVars
<1>5. CASE ~Begin /\ ~CopyTests /\ ~Baselined /\ ~Close /\ ~ScoringNext
  <2>1. /\ UNCHANGED <<op, saved, selection, queue, executions>>
        /\ at' = at \/ at' = "refused" \/ (Looping /\ Looping') \/ (~Looping /\ ~Looping')
        /\ at = "refused" => at' = "refused"
        /\ at' \in {"spawning", "testing"} => queue # <<>> /\ Looping
        /\ result' # None => result # None \/ Looping
    BY <1>5 DEF Next, Code, Snapshot, NextTest, Spawn, Conclude, Save, TestTimeout,
       RecordFeedback, World, ChildExits, OutputLimit, Cancel, DeadlinePasses, SourceChanges,
       TestChanges, Breaks, vars, scoringVars, replayVars, Go, Refuse, TypeInv, QueueInv, Looping
  <2> QED
    BY <2>1 DEF QueueInv, Looping, Executed, Planned
<1> QED
  BY <1>1, <1>2, <1>3, <1>4, <1>5

-----------------------------------------------------------------------------
\* All of it together.
WholeInv == Inv /\ ScoresInv /\ SelectionInv /\ QueueInv

THEOREM WholeInvHolds == Spec => []WholeInv
<1>1. Init => ScoresInv /\ SelectionInv /\ QueueInv
  BY DEF Init, ScoringInit, ScoresInv, SelectionInv, QueueInv, Looping, Executed
<1>2. ASSUME WholeInv, [Next]_vars
      PROVE  ScoresInv' /\ SelectionInv' /\ QueueInv'
  <2>1. ScoresInv'
    BY <1>2, ScoresStep DEF WholeInv
  <2>2. SelectionInv'
    BY <1>2, ScoringSelects, ReplaySelects DEF WholeInv, Inv, Next
  <2>3. QueueInv'
    BY <1>2, QueueStep DEF WholeInv, Inv
  <2> QED
    BY <2>1, <2>2, <2>3
<1>3. Inv /\ ScoresInv /\ SelectionInv /\ QueueInv => WholeInv
  BY DEF WholeInv
<1> QED
  BY <1>1, <1>2, <1>3, InvariantHolds, PTL DEF Spec

\* Whenever somebody goes by a selection, it is exact: no edit, no answer and
\* no second policy comes between.
THEOREM SelectionStaysExact == Spec => []SelectionIsExact
<1>1. ASSUME WholeInv
      PROVE  SelectionIsExact
  <2> SUFFICES ASSUME \/ op = "none" /\ request \in {"scored", "fallback"}
                      \/ op = "replay" /\ Looping
               PROVE  IsExact(selection, scores, task.policy)
    BY DEF SelectionIsExact, Looping
  <2>1. op # "regress" /\ selection = SelectItems(scores, task.policy)
    BY <1>1 DEF WholeInv, SelectionInv
  <2> QED
    BY <1>1, <2>1, PoliciesAreValid, ScoresAreNormal, SelectionsAreExact DEF WholeInv, SelectionInv
<1> QED
  BY <1>1, WholeInvHolds, PTL

\* "completed" means that all that was planned was executed, and that nobody cut
\* a test short.
THEOREM CompletedMeansWhole == Spec => []CompletedReplayIsWhole
<1>1. ASSUME WholeInv
      PROVE  CompletedReplayIsWhole
  <2> SUFFICES ASSUME result # None, result.status = "completed"
               PROVE  /\ Executed = Planned
                      /\ \A c \in Executed : executions[c].stop # "cancelled"
    BY DEF CompletedReplayIsWhole, Planned
  <2>1. ~RunAborted /\ queue = <<>>
    BY <1>1 DEF WholeInv, Inv, ResultInv, Status, RunAborted
  <2>2. Executed = Planned
    <3>1. {queue[i] : i \in DOMAIN queue} = {}
      BY <2>1
    <3> QED
      BY <1>1, <2>1, <3>1 DEF WholeInv, QueueInv, Looping
  <2>3. \A c \in Executed : executions[c].stop # "cancelled"
    BY <1>1, <2>1 DEF WholeInv, Inv, ChildInv
  <2> QED
    BY <2>2, <2>3
<1> QED
  BY <1>1, WholeInvHolds, PTL

-----------------------------------------------------------------------------
(***************************************************************************)
(* There are only so many steps                                            *)
(***************************************************************************)

One(b) == IF b THEN 1 ELSE 0

\* Of the exchange with the backend, which nobody begins again.
RequestSteps ==
  IF request = "sending" THEN 1 + (Retries - attempt) + One(~cancelled) ELSE 0

\* Of a test under way: it exits, and it is killed.
ChildSteps == One(child.outcome = "running") + One(child.stop = "none")

\* Of the operation, from where it is: five for each test.
OwnSteps ==
  CASE at = "none"                    -> 5 * Cardinality(Cases) + 7
    [] at = "snapshot"                -> 5 * Cardinality(Cases) + 6
    [] at \in {"copying", "baseline"} -> 5 * Cardinality(Cases) + 5
    [] at = "loop"                    -> 5 * Len(queue) + 4
    [] at = "spawning"                -> 5 * Len(queue) + 3
    [] at = "testing"                 -> 5 * Len(queue) + ChildSteps
    [] at = "verifying"               -> 3
    [] at = "saving"                  -> 1 + One(feedback = None)
    [] at = "done"                    -> One(feedback = None)
    [] at = "refused"                 -> One(result # None /\ feedback = None)

\* What can still come from outside.
Disturbances == One(~signal) + One(~deadline) + One(source = 0) + One(modified = {})

StepsLeft == RequestSteps + OwnSteps + Disturbances

\* Every step of a request for scores, of a replay or of a regression, or of
\* what disturbs them, uses one up: there are only so many, whatever the
\* backend answers and however the tests end.
StepsRunOut ==
  [][/\ StepsLeft \in Nat
     /\ StepsLeft' \in Nat
     /\ StepsLeft' < StepsLeft]_vars

\* Nobody tries more often than he may.
AttemptInv == attempt \in Nat /\ attempt <= Retries

LEMMA AttemptKept == AttemptInv /\ [Next]_vars => AttemptInv'
<1> SUFFICES ASSUME AttemptInv, [Next]_vars PROVE AttemptInv'
  OBVIOUS
<1>1. \/ attempt' = attempt
      \/ attempt' = 0
      \/ attempt < Retries /\ attempt' = attempt + 1
  BY DEF Next, ScoringNext, Exchange, Answer, Busy, TransportFails, Refused, CancelScoring,
     Select, Fail, Retry, Begin, BeginReplay, BeginRegress, Code, Snapshot, CopyTests, Baselined,
     NextTest, Spawn, Close, Conclude, Save, TestTimeout, RecordFeedback, World, ChildExits, OutputLimit,
     Cancel, DeadlinePasses, SourceChanges, TestChanges, Breaks, vars, scoringVars
<1>2. QED
  BY <1>1, ScoringAssumption DEF AttemptInv

\* A selection is no longer than the batch.
LEMMA SelectionsAreShort ==
  ASSUME NEW scrs, Normal(scrs), NEW policy \in Policies
  PROVE  Len(SelectItems(scrs, policy)) \in 0..Cardinality(Cases)
<1>1. Cardinality(Cases) \in Nat
  BY FiniteCases, FS_CardinalityType
<1>2. Len(OrderItems(scrs)) = Cardinality(Cases)
  BY OrderItemsLists, FiniteCases, ListOfASet DEF Lists
<1>3. ASSUME NEW S \in SUBSET Cases
      PROVE  /\ Ranked(scrs, policy.mode, S) \in Seq(Cases)
             /\ Len(Ranked(scrs, policy.mode, S)) \in 0..Cardinality(Cases)
  <2> DEFINE T == {c \in S : Scored(scrs, c)}
  <2>1. IsFiniteSet(T) /\ T \subseteq Cases /\ Cardinality(T) <= Cardinality(Cases)
    BY FiniteCases, FS_Subset
  <2>2. Ranked(scrs, policy.mode, S) \in SetToSeqs(T)
    BY RankedLists DEF Lists
  <2> HIDE DEF T
  <2>3. /\ Ranked(scrs, policy.mode, S) \in Seq(T)
        /\ Len(Ranked(scrs, policy.mode, S)) = Cardinality(T)
    BY <2>1, <2>2, ListOfASet
  <2>4. Cardinality(T) \in Nat
    BY <2>1, FS_CardinalityType
  <2> QED
    BY <1>1, <2>1, <2>3, <2>4, SeqMonotonic
<1>4. {c \in Cases : Within(scrs[c].score, policy)} \in SUBSET Cases /\ Cases \in SUBSET Cases
  OBVIOUS
<1> DEFINE r == Ranked(scrs, policy.mode, Cases)
<1>5. r \in Seq(Cases) /\ Len(r) \in 0..Cardinality(Cases)
  BY <1>3, <1>4
<1>6. policy.count < Len(r) => Len(SubSeq(r, 1, policy.count)) = policy.count
  <2>1. policy.count \in Nat
    BY DEF Policies
  <2> HIDE DEF r
  <2> SUFFICES ASSUME policy.count < Len(r) PROVE Len(SubSeq(r, 1, policy.count)) = policy.count
    OBVIOUS
  <2>2. \A i \in 1..policy.count : r[i] \in Cases
    BY <1>5, <2>1, ElementOfSeq
  <2> QED
    BY <2>1, <2>2, SubSeqProperties
<1>7. policy.count \in Nat
  BY DEF Policies
<1>8. CASE policy.mode = "all"
  BY <1>1, <1>2, <1>8 DEF SelectItems
<1>9. CASE policy.mode = "range"
  BY <1>3, <1>4, <1>9 DEF SelectItems
<1>10. CASE policy.mode \notin {"all", "range"}
  <2>1. SelectItems(scrs, policy) = IF policy.count < Len(r) THEN SubSeq(r, 1, policy.count) ELSE r
    BY <1>10 DEF SelectItems
  <2> HIDE DEF r
  <2> QED
    BY <1>1, <1>5, <1>6, <1>7, <2>1
<1> QED
  BY <1>8, <1>9, <1>10

\* What comes into the queue is no longer than the batch.
LEMMA QueueIsShort ==
  ASSUME WholeInv, CopyTests \/ Baselined, at' = "loop"
  PROVE  Len(queue') \in 0..Cardinality(Cases)
<1>1. CASE CopyTests
  <2>1. op = "replay" /\ queue' = SelectItems(scores, task.policy)
    BY <1>1 DEF CopyTests, Refuse, Go, WholeInv, Inv, TypeInv
  <2> QED
    BY <2>1, SelectionsAreShort, PoliciesAreValid, ScoresAreNormal DEF WholeInv, SelectionInv
<1>2. CASE Baselined
  <2>1. queue' \in SetToSeqs(saved) /\ saved \subseteq Cases
    BY <1>2 DEF Baselined, WholeInv, QueueInv
  <2>2. IsFiniteSet(saved) /\ Cardinality(saved) <= Cardinality(Cases)
    BY <2>1, FiniteCases, FS_Subset
  <2>3. Cardinality(saved) \in Nat /\ Cardinality(Cases) \in Nat
    BY <2>2, FiniteCases, FS_CardinalityType
  <2>4. Len(queue') = Cardinality(saved)
    BY <2>1, <2>2, ListOfASet
  <2> QED
    BY <2>2, <2>3, <2>4
<1> QED
  BY <1>1, <1>2

LEMMA OwnStepsAreCounted ==
  ASSUME TypeInv, QueueInv
  PROVE  /\ OwnSteps \in Nat
         /\ Cardinality(Cases) \in Nat
         /\ at \in {"loop", "spawning", "testing"} => Len(queue) \in Nat
         /\ at \in {"spawning", "testing"} =>
              Len(queue) >= 1 /\ Len(Tail(queue)) = Len(queue) - 1
<1>1. Cardinality(Cases) \in Nat
  BY FiniteCases, FS_CardinalityType
<1>2. at \in {"loop", "spawning", "testing"} => queue \in Seq(Cases) /\ Len(queue) \in Nat
  BY LenProperties DEF QueueInv, Looping
<1>3. at \in {"spawning", "testing"} => Len(queue) >= 1 /\ Len(Tail(queue)) = Len(queue) - 1
  BY <1>2, EmptySeq, HeadTailProperties DEF QueueInv
<1>4. ChildSteps \in Nat
  BY DEF ChildSteps, One
<1>5. One(feedback = None) \in Nat /\ One(result # None /\ feedback = None) \in Nat
  BY DEF One
<1>6. OwnSteps \in Nat
  BY <1>1, <1>2, <1>3, <1>4, <1>5 DEF OwnSteps, TypeInv
<1> QED
  BY <1>1, <1>2, <1>3, <1>6

LEMMA RequestsAreCounted == AttemptInv => RequestSteps \in Nat
  BY ScoringAssumption DEF AttemptInv, RequestSteps, One

LEMMA DisturbancesAreCounted == Disturbances \in Nat
  BY DEF Disturbances, One

LEMMA StepsAreCounted == WholeInv /\ AttemptInv => StepsLeft \in Nat
  BY OwnStepsAreCounted, RequestsAreCounted, DisturbancesAreCounted DEF StepsLeft, WholeInv, Inv

\* The exchange with the backend: a retry, its end or its cancellation.
LEMMA ScoringPays ==
  ASSUME AttemptInv, ScoringNext
  PROVE  /\ RequestSteps' < RequestSteps
         /\ OwnSteps' = OwnSteps /\ Disturbances' = Disturbances
<1>1. OwnSteps' = OwnSteps /\ Disturbances' = Disturbances
  BY DEF ScoringNext, replayVars, OwnSteps, ChildSteps, Disturbances, One
<1>2. /\ request = "sending"
      /\ \/ request' # "sending"
         \/ /\ request' = "sending"
            /\ \/ attempt < Retries /\ attempt' = attempt + 1 /\ cancelled' = cancelled
               \/ attempt' = attempt /\ ~cancelled /\ cancelled'
  BY DEF ScoringNext, Exchange, Answer, Busy, TransportFails, Refused, CancelScoring, Select, Fail,
     Retry
<1>3. RequestSteps' < RequestSteps
  BY <1>2, ScoringAssumption DEF AttemptInv, RequestSteps, One
<1> QED
  BY <1>1, <1>3

\* The code between two awaits, an operation that begins or breaks, and the
\* feedback.
LEMMA CodePays ==
  ASSUME WholeInv, Begin \/ Code \/ Breaks \/ RecordFeedback, ~UNCHANGED vars
  PROVE  /\ OwnSteps' \in Nat /\ OwnSteps' < OwnSteps
         /\ Disturbances' = Disturbances
<1>1. TypeInv /\ ChildInv /\ ResultInv /\ QueueInv
  BY DEF WholeInv, Inv
<1>2. /\ Cardinality(Cases) \in Nat
      /\ at \in {"loop", "spawning", "testing"} => Len(queue) \in Nat
      /\ at \in {"spawning", "testing"} => Len(queue) >= 1 /\ Len(Tail(queue)) = Len(queue) - 1
  BY <1>1, OwnStepsAreCounted
<1>0. at \notin {"saving", "done", "refused"} => One(result # None /\ feedback = None) = 0
  BY <1>1 DEF ResultInv, One
<1>3. Disturbances' = Disturbances
  BY DEF Begin, BeginReplay, BeginRegress, Code, Snapshot, CopyTests, Baselined, NextTest, Spawn,
     Close, Conclude, Save, Breaks, RecordFeedback, Disturbances
<1>4. CASE Begin
  <2>1. at = "none" /\ at' \in {"snapshot", "refused"} /\ UNCHANGED <<result, feedback>>
    BY <1>1, <1>4 DEF Begin, BeginReplay, BeginRegress, Go, Refuse, TypeInv
  <2> QED
    BY <1>0, <1>2, <1>3, <2>1 DEF OwnSteps, One
<1>5. CASE Snapshot
  <2>1. /\ at = "snapshot" /\ at' \in {"copying", "baseline", "refused"}
        /\ UNCHANGED <<result, feedback>>
    BY <1>5 DEF Snapshot, Go, Refuse
  <2> QED
    BY <1>0, <1>2, <1>3, <2>1 DEF OwnSteps, One
<1>6. CASE CopyTests \/ Baselined
  <2>1. /\ at \in {"copying", "baseline"} /\ at' \in {"loop", "refused"}
        /\ UNCHANGED <<result, feedback>>
    BY <1>6 DEF CopyTests, Baselined, Go, Refuse
  <2>2. at' = "loop" => Len(queue') \in 0..Cardinality(Cases)
    BY <1>6, QueueIsShort
  <2> QED
    BY <1>0, <1>2, <1>3, <2>1, <2>2 DEF OwnSteps, One
<1>7. CASE NextTest
  <2>1. /\ at = "loop" /\ at' \in {"verifying", "spawning", "refused"}
        /\ UNCHANGED <<queue, result, feedback>>
    BY <1>7 DEF NextTest, Go, Refuse
  <2> QED
    BY <1>0, <1>2, <1>3, <2>1 DEF OwnSteps, One
<1>8. CASE Spawn
  <2>1. ChildSteps' \in 0..2
    BY DEF ChildSteps, One
  <2>2. /\ OwnSteps' = 5 * Len(queue) + ChildSteps'
        /\ OwnSteps = 5 * Len(queue) + 3 /\ Len(queue) \in Nat /\ Len(queue) >= 1
    BY <1>2, <1>8 DEF Spawn, Go, OwnSteps
  <2> QED
    BY <1>3, <2>1, <2>2
<1>9. CASE Close
  <2>1. ChildSteps \in 0..2
    BY DEF ChildSteps, One
  <2>2. /\ OwnSteps' = 5 * (Len(queue) - 1) + 4
        /\ OwnSteps = 5 * Len(queue) + ChildSteps
        /\ Len(queue) \in Nat /\ Len(queue) >= 1
    BY <1>2, <1>9 DEF Close, Go, OwnSteps
  <2> QED
    BY <1>3, <2>1, <2>2
<1>10. CASE Conclude
  <2>1. at = "verifying" /\ at' \in {"saving", "refused"}
    BY <1>10 DEF Conclude, Go, Refuse
  <2>2. OwnSteps' \in 0..2 /\ OwnSteps = 3
    BY <2>1 DEF OwnSteps, One
  <2> QED
    BY <1>3, <2>2
<1>11. CASE Breaks
  <2>1. /\ at \in {"snapshot", "copying", "baseline", "loop", "spawning", "verifying", "saving"}
        /\ at' = "refused" /\ UNCHANGED <<result, feedback>>
    BY <1>1, <1>11 DEF Breaks, Active, Refuse, Go, TypeInv
  <2>2. CASE at = "saving"
    BY <1>3, <2>1, <2>2 DEF OwnSteps, One
  <2>3. CASE at # "saving"
    <3>1. OwnSteps' = 0
      BY <1>1, <2>1, <2>3 DEF ResultInv, OwnSteps, One
    <3>2. 0 < OwnSteps
      BY <1>2, <2>1, <2>3 DEF OwnSteps
    <3> QED
      BY <1>3, <3>1, <3>2
  <2> QED
    BY <2>2, <2>3
<1>12. CASE RecordFeedback
  <2>1. /\ at \in {"saving", "done", "refused"} /\ at' = at /\ result # None /\ result' = result
        /\ feedback = None /\ feedback' # None
    BY <1>1, <1>12 DEF RecordFeedback, ResultInv, vars, replayVars
  <2>2. /\ One(feedback = None) = 1 /\ One(result # None /\ feedback = None) = 1
        /\ One(feedback = None)' = 0 /\ One(result # None /\ feedback = None)' = 0
    BY <2>1 DEF One
  <2>3. CASE at = "saving"
    BY <1>3, <2>1, <2>2, <2>3 DEF OwnSteps
  <2>4. CASE at = "done"
    BY <1>3, <2>1, <2>2, <2>4 DEF OwnSteps
  <2>5. CASE at = "refused"
    BY <1>3, <2>1, <2>2, <2>5 DEF OwnSteps
  <2> QED
    BY <2>1, <2>3, <2>4, <2>5
<1>13. CASE Save
  BY <1>3, <1>13 DEF Save, Go, OwnSteps, One
<1> QED
  BY <1>4, <1>5, <1>6, <1>7, <1>8, <1>9, <1>10, <1>11, <1>12, <1>13 DEF Code

\* A request that is over stays so.
LEMMA RequestStays ==
  ASSUME AttemptInv, ScoresInv, TypeInv,
         Begin \/ Code \/ Breaks \/ RecordFeedback \/ TestTimeout \/ World
  PROVE  RequestSteps' = RequestSteps
<1>1. UNCHANGED <<request, attempt, cancelled>> \/ (request # "sending" /\ request' # "sending")
  BY DEF Begin, BeginReplay, BeginRegress, Code, Snapshot, CopyTests, Baselined, NextTest, Spawn,
     Close, Conclude, Save, Breaks, RecordFeedback, TestTimeout, World, ChildExits, OutputLimit, Cancel,
     DeadlinePasses, SourceChanges, TestChanges, scoringVars
<1> QED
  BY <1>1 DEF RequestSteps

\* A child that is killed is nearer to its end, unless it was killed before.
LEMMA KillPays ==
  ASSUME TypeInv, child' = child \/ \E reason \in Stops \ {"none"} : child' = Killed(reason)
  PROVE  /\ ChildSteps' \in Nat /\ ChildSteps \in Nat /\ ChildSteps' <= ChildSteps
         /\ child' # child => ChildSteps' < ChildSteps
<1>1. child \in [outcome : Outcomes, stop : Stops]
  BY DEF TypeInv
<1>2. CASE child' = child
  BY <1>2 DEF ChildSteps, One
<1>3. ASSUME NEW reason \in Stops \ {"none"}, child' = Killed(reason)
      PROVE  /\ ChildSteps' \in Nat /\ ChildSteps \in Nat /\ ChildSteps' <= ChildSteps
             /\ child' # child => ChildSteps' < ChildSteps
  <2>1. /\ child'.outcome = (IF child.outcome = "running" THEN "killed" ELSE child.outcome)
        /\ child'.stop = (IF child.stop = "none" THEN reason ELSE child.stop)
    BY <1>3 DEF Killed
  <2>2. child.outcome # "running" /\ child.stop # "none" => child' = child
    BY <1>1, <1>3 DEF Killed
  <2> QED
    BY <2>1, <2>2 DEF ChildSteps, One
<1> QED
  BY <1>2, <1>3

\* A test under way, and what disturbs it.
LEMMA TestPays ==
  ASSUME WholeInv, TestTimeout \/ World, ~UNCHANGED vars
  PROVE  /\ OwnSteps' \in Nat
         /\ \/ OwnSteps' < OwnSteps /\ Disturbances' = Disturbances
            \/ OwnSteps' <= OwnSteps /\ Disturbances' < Disturbances
<1>1. TypeInv /\ ChildInv /\ QueueInv
  BY DEF WholeInv, Inv
<1>2. OwnSteps \in Nat /\ (at = "testing" => Len(queue) \in Nat /\ Len(queue) >= 1)
  BY <1>1, OwnStepsAreCounted
<1>3. UNCHANGED <<at, queue, result, feedback>>
  BY DEF TestTimeout, World, ChildExits, OutputLimit, Cancel, DeadlinePasses, SourceChanges,
     TestChanges
<1>4. ASSUME at # "testing" PROVE OwnSteps' = OwnSteps
  BY <1>3, <1>4 DEF OwnSteps, One
<1>5. ASSUME at = "testing"
      PROVE  /\ OwnSteps = 5 * Len(queue) + ChildSteps
             /\ OwnSteps' = 5 * Len(queue) + ChildSteps'
  BY <1>3, <1>5 DEF OwnSteps
<1>6. CASE ChildExits
  <2>1. at = "testing"
    BY <1>1, <1>6 DEF ChildExits, ChildInv, NoChild
  <2>2. child'.outcome # "running" /\ child'.stop = child.stop /\ child.outcome = "running"
    BY <1>1, <1>6 DEF ChildExits, TypeInv
  <2>3. ChildSteps = 1 + ChildSteps' /\ ChildSteps' \in Nat
    BY <2>2 DEF ChildSteps, One
  <2>4. Disturbances' = Disturbances
    BY <1>6 DEF ChildExits, Disturbances
  <2> QED
    BY <1>2, <1>5, <2>1, <2>3, <2>4
<1>7. CASE TestTimeout \/ OutputLimit
  <2>1. at = "testing" /\ \E reason \in Stops \ {"none"} : child' = Killed(reason)
    BY <1>7 DEF TestTimeout, OutputLimit, TimerKills, Stops
  <2>2. child' # child
    BY <1>7 DEF TestTimeout, OutputLimit, vars, replayVars
  <2>3. ChildSteps' < ChildSteps /\ ChildSteps' \in Nat /\ ChildSteps \in Nat
    BY <1>1, <2>1, <2>2, KillPays
  <2>4. Disturbances' = Disturbances
    BY <1>7 DEF TestTimeout, OutputLimit, Disturbances
  <2> QED
    BY <1>2, <1>5, <2>1, <2>3, <2>4
<1>8. CASE Cancel \/ DeadlinePasses \/ SourceChanges \/ \E c \in Cases : TestChanges(c)
  <2>1. Disturbances' < Disturbances
    BY <1>1, <1>8 DEF Cancel, DeadlinePasses, SourceChanges, TestChanges, Disturbances, One, TypeInv
  <2>2. child' = child \/ (at = "testing" /\ child' = Killed("cancelled"))
    BY <1>8 DEF Cancel, DeadlinePasses, SourceChanges, TestChanges, Heard
  <2>3. ChildSteps' <= ChildSteps /\ ChildSteps' \in Nat /\ ChildSteps \in Nat
    BY <1>1, <2>2, KillPays DEF Stops
  <2>4. OwnSteps' <= OwnSteps /\ OwnSteps' \in Nat
    BY <1>2, <1>4, <1>5, <2>3
  <2> QED
    BY <2>1, <2>4
<1> QED
  BY <1>6, <1>7, <1>8 DEF World

LEMMA OneFalls ==
  ASSUME NEW a \in Nat, NEW b \in Nat, NEW c \in Nat, NEW x \in Nat, NEW y \in Nat, NEW z \in Nat,
         x <= a, y <= b, z <= c, x < a \/ y < b \/ z < c
  PROVE  x + y + z < a + b + c
  OBVIOUS

\* Whatever the backend answers, whichever tests hang, and whatever is stopped,
\* broken or edited meanwhile: a request takes at most Retries + 2 steps, and an
\* operation 5 for each case and eleven more.
THEOREM ReplayStepsRunOut == Spec => StepsRunOut
<1>1. WholeInv /\ AttemptInv =>
        StepsLeft \in Nat /\ RequestSteps \in Nat /\ OwnSteps \in Nat
  BY StepsAreCounted, RequestsAreCounted, OwnStepsAreCounted DEF WholeInv, Inv
<1>2. (WholeInv /\ AttemptInv)' =>
        (StepsLeft \in Nat /\ RequestSteps \in Nat /\ OwnSteps \in Nat)'
  BY <1>1, PTL
<1>3. Disturbances \in Nat /\ Disturbances' \in Nat
  BY DEF Disturbances, One
<1>4. ASSUME WholeInv, AttemptInv, (WholeInv /\ AttemptInv)', [Next]_vars, ~UNCHANGED vars
      PROVE  StepsLeft' < StepsLeft
  <2>1. /\ RequestSteps \in Nat /\ OwnSteps \in Nat
        /\ RequestSteps' \in Nat /\ OwnSteps' \in Nat
    BY <1>1, <1>2, <1>4
  <2>2. /\ RequestSteps' <= RequestSteps /\ OwnSteps' <= OwnSteps /\ Disturbances' <= Disturbances
        /\ \/ RequestSteps' < RequestSteps
           \/ OwnSteps' < OwnSteps
           \/ Disturbances' < Disturbances
    <3>1. CASE ScoringNext
      BY <1>3, <1>4, <2>1, <3>1, ScoringPays
    <3>2. CASE Begin \/ Code \/ Breaks \/ RecordFeedback
      BY <1>3, <1>4, <2>1, <3>2, CodePays, RequestStays DEF WholeInv, Inv
    <3>3. CASE TestTimeout \/ World
      BY <1>3, <1>4, <2>1, <3>3, TestPays, RequestStays DEF WholeInv, Inv
    <3> QED
      BY <1>4, <3>1, <3>2, <3>3 DEF Next
  <2> QED
    BY <1>3, <2>1, <2>2, OneFalls DEF StepsLeft
<1>5. WholeInv /\ AttemptInv /\ (WholeInv /\ AttemptInv)' /\ [Next]_vars =>
        [/\ StepsLeft \in Nat
         /\ StepsLeft' \in Nat
         /\ StepsLeft' < StepsLeft]_vars
  BY <1>1, <1>2, <1>4
<1>6. Init => AttemptInv
  BY ScoringAssumption DEF Init, ScoringInit, AttemptInv
<1>7. Spec => []AttemptInv
  BY <1>6, AttemptKept, PTL DEF Spec
<1> QED
  BY <1>5, <1>7, WholeInvHolds, PTL DEF Spec, StepsRunOut
=============================================================================
