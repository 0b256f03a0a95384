------------------------------- MODULE Replay -------------------------------
(***************************************************************************)
(* What is done with the saved tests of a run: replay (replay.mjs), which  *)
(* compares a selection policy on the saved source with the saved scores,  *)
(* regress (runner.mjs), which reruns all tests on a fixed checkout, and   *)
(* recordFeedback (handoff.mjs), which tells the coding agent what became  *)
(* of its defects.  Both execute tests one by one (execution.mjs) under a  *)
(* signal and a deadline.  The scores come from Scoring.  An action is the *)
(* code between two awaits.                                                *)
(***************************************************************************)
EXTENDS Scoring

CONSTANT None

VARIABLES
  op,          \* "none", "replay" or "regress"
  at,          \* its await
  saved,       \* tests.json of the original run
  modified,    \* saved tests whose bytes somebody has changed
  source,      \* the version of the project's files; 0 is the saved one
  snap,        \* the version that was copied
  queue,       \* the cases still to execute
  executions,  \* executions, by case: its classification and stop_reason
  child,       \* how the child process ended, and its stop_reason
  signal, deadline,   \* whether either is aborted
  baseline, result, feedback

replayVars == <<op, at, saved, modified, source, snap, queue, executions,
                child, signal, deadline, baseline, result, feedback>>
vars == <<scoringVars, replayVars>>

NoChild == [outcome |-> "none", stop |-> "none"]

Init ==
  /\ ScoringInit
  /\ op = "none" /\ at = "none"
  /\ saved = {} /\ modified = {}
  /\ source = 0 /\ snap = None
  /\ queue = <<>> /\ executions = [c \in {} |-> None] /\ child = NoChild
  /\ signal = FALSE /\ deadline = FALSE
  /\ baseline = None /\ result = None /\ feedback = None

RunAborted == signal \/ deadline
Active == at \notin {"none", "done", "refused"}

\* While the verdict is open; nobody looks at the signals when it is saved.
Undecided == Active /\ at # "saving"

\* The awaits at which the deadline's timer runs: replay starts it late.
Timed == Undecided /\ (op = "replay" => at \notin {"snapshot", "copying"})

Executed == DOMAIN executions
AllPassed == \A c \in Executed : executions[c].class = "passed"

Go(where) == at' = where
Refuse == Go("refused")

-----------------------------------------------------------------------------
(***************************************************************************)
(* Up to the first test                                                    *)
(***************************************************************************)

\* replay reads the artifacts of the run: the policy must suit its task, and
\* all tests must have been written.
BeginReplay(policy) ==
  /\ op = "none" /\ request \in {"scored", "fallback"}
  /\ op' = "replay" /\ task' = [task EXCEPT !.policy = policy] /\ task' \in Tasks
  /\ selection' = <<>> /\ attempt' = 0 /\ cancelled' = FALSE
  /\ \E tests \in SUBSET Cases :
       saved' = tests /\ IF tests = Cases THEN Go("snapshot") ELSE Refuse
  /\ UNCHANGED <<request, raw, scores, modified, source, snap, queue,
                 executions, child, signal, deadline, baseline, result, feedback>>

\* regress reads tests.json; policy and scores are not reused.
BeginRegress(tests) ==
  /\ op = "none" /\ request \in {"scored", "fallback"}
  /\ op' = "regress"
  /\ saved' = tests
  /\ IF tests = {} THEN Refuse ELSE Go("snapshot")
  /\ task' = None /\ request' = "none" /\ raw' = <<>> /\ scores' = NoScores
  /\ selection' = <<>> /\ attempt' = 0 /\ cancelled' = FALSE
  /\ UNCHANGED <<modified, source, snap, queue, executions,
                 child, signal, deadline, baseline, result, feedback>>

\* The copy of the source, and in a replay the second gate.
Snapshot ==
  /\ at = "snapshot"
  /\ snap' = source
  /\ IF op = "replay" /\ source # 0 THEN Refuse
     ELSE Go(IF op = "replay" THEN "copying" ELSE "baseline")
  /\ UNCHANGED <<scoringVars, op, saved, modified, source, queue, executions,
                 child, signal, deadline, baseline, result, feedback>>

\* The third gate, the selection, and the deadline's timer.  The tests are read
\* one after the other, and in one step here: an edit of one that was copied
\* already reaches nothing, as one after the last.
CopyTests ==
  /\ at = "copying"
  /\ IF modified # {} THEN Refuse /\ UNCHANGED <<selection, queue>>
     ELSE /\ Go("loop")
          /\ selection' = SelectItems(scores, task.policy) /\ queue' = selection'
  /\ UNCHANGED <<task, request, attempt, cancelled, raw, scores, op, saved, modified,
                 source, snap, executions, child, signal, deadline, baseline, result, feedback>>

\* runBaseline has returned; all saved tests are to be executed, in the order in
\* which they were written.
Baselined ==
  /\ at = "baseline"
  /\ \E status \in IF RunAborted THEN {"not_configured", "cancelled"}
                   ELSE {"not_configured", "passed", "baseline_failed"} : baseline' = status
  /\ Go("loop")
  /\ queue' \in SetToSeqs(saved)
  /\ UNCHANGED <<scoringVars, op, saved, modified, source, snap, executions,
                 child, signal, deadline, result, feedback>>

-----------------------------------------------------------------------------
(***************************************************************************)
(* The loop, and the child process                                         *)
(***************************************************************************)

\* The head of the loop; regress checks the bytes of the test here.
NextTest ==
  /\ at = "loop"
  /\ IF RunAborted \/ queue = <<>> THEN Go("verifying")
     ELSE IF op = "regress" /\ Head(queue) \in modified THEN Refuse
     ELSE Go("spawning")
  /\ UNCHANGED <<scoringVars, op, saved, modified, source, snap, queue, executions,
                 child, signal, deadline, baseline, result, feedback>>

\* kill: the first reason stays; the signal takes effect unless it has exited.
Killed(reason) ==
  [outcome |-> IF child.outcome = "running" THEN "killed" ELSE child.outcome,
   stop    |-> IF child.stop = "none" THEN reason ELSE child.stop]

Spawn_Deaf ==  \* Mutant: an abort that came before is not looked at
  /\ at = "spawning"
  /\ Go("testing")
  /\ child' = [outcome |-> "running", stop |-> "none"]
  /\ UNCHANGED <<scoringVars, op, saved, modified, source, snap, queue, executions,
                 signal, deadline, baseline, result, feedback>>

\* executeTest from spawn to its listeners.
Spawn ==
  /\ at = "spawning"
  /\ Go("testing")
  /\ child' = IF RunAborted THEN [outcome |-> "killed", stop |-> "cancelled"]
              ELSE [outcome |-> "running", stop |-> "none"]
  /\ UNCHANGED <<scoringVars, op, saved, modified, source, snap, queue, executions,
                 signal, deadline, baseline, result, feedback>>

\* "failed" covers assertion failures, broken tests and what the sandbox denied.
ChildExits ==
  /\ child.outcome = "running"
  /\ \E outcome \in {"passed", "failed"} :
       child' = [child EXCEPT !.outcome = outcome]
  /\ UNCHANGED <<scoringVars, op, at, saved, modified, source, snap, queue,
                 executions, signal, deadline, baseline, result, feedback>>

TimerKills_Never(reason) == child  \* Mutant: the timer is not armed

TimerKills(reason) == Killed(reason)

\* Its own timer, or too much output; perhaps between the exit and its event.
TestTimeout ==
  /\ at = "testing"
  /\ child' = TimerKills("timeout")
  /\ UNCHANGED <<scoringVars, op, at, saved, modified, source, snap, queue,
                 executions, signal, deadline, baseline, result, feedback>>

OutputLimit ==
  /\ at = "testing"
  /\ child' = Killed("output_limit")
  /\ UNCHANGED <<scoringVars, op, at, saved, modified, source, snap, queue,
                 executions, signal, deadline, baseline, result, feedback>>

Classified(c) ==
  IF c.stop # "none" THEN "environment_error" ELSE c.outcome

\* The close event: the execution is recorded and saved.
Close ==
  /\ at = "testing" /\ child.outcome # "running"
  /\ executions' = [c \in Executed \cup {Head(queue)} |->
                      IF c = Head(queue) THEN [class |-> Classified(child), stop |-> child.stop]
                      ELSE executions[c]]
  /\ queue' = Tail(queue)
  /\ child' = NoChild
  /\ Go("loop")
  /\ UNCHANGED <<scoringVars, op, saved, modified, source, snap,
                 signal, deadline, baseline, result, feedback>>

-----------------------------------------------------------------------------
(***************************************************************************)
(* The result, and the feedback                                            *)
(***************************************************************************)

Status_UserOnly == IF signal THEN "cancelled" ELSE "completed"  \* Mutant

Status == CASE signal   -> "cancelled"
            [] deadline -> "partial"
            [] OTHER    -> "completed"

\* A regression is clean if everything was executed; a replay, if anything.
Assessment ==
  IF /\ AllPassed
     /\ IF op = "replay" THEN Executed # {}
        ELSE Executed = saved /\ baseline # "baseline_failed"
  THEN "no_confirmed_findings" ELSE "inconclusive"

\* verifySnapshot, at both roots, and the result, which is the first file saved.
Conclude ==
  /\ at = "verifying"
  /\ IF source # snap THEN Refuse /\ UNCHANGED result
     ELSE Go("saving") /\ result' = [status |-> Status, assessment |-> Assessment]
  /\ UNCHANGED <<scoringVars, op, saved, modified, source, snap, queue, executions,
                 child, signal, deadline, baseline, feedback>>

\* The other files, up to the report.
Save ==
  /\ at = "saving"
  /\ Go("done")
  /\ UNCHANGED <<scoringVars, op, saved, modified, source, snap, queue, executions,
                 child, signal, deadline, baseline, result, feedback>>

Passed_OrLeftOut(c) == c \in Executed => executions[c].class = "passed"  \* Mutant

\* regressions.find(...).status === 'passed'
Passed(c) == c \in Executed /\ executions[c].class = "passed"

\* Whatever the confirmed defects of the original run are, which had tests.
\* result.json and tests.json are all that it reads: they may be there before
\* the last file is, and when that could not be saved.
\* The record of a replay has no original_snapshot_id, and is refused.
RecordFeedback ==
  /\ result # None /\ op = "regress" /\ feedback = None
  /\ \E defects \in SUBSET saved : feedback' =
       [overall |-> IF /\ result.status = "completed"
                       /\ result.assessment = "no_confirmed_findings"
                       /\ baseline # "baseline_failed"
                       /\ AllPassed /\ Executed = saved
                    THEN "regression_passed" ELSE "requires_attention",
        fixed |-> {c \in defects : Passed(c)}]
  /\ UNCHANGED <<scoringVars, op, at, saved, modified, source, snap, queue,
                 executions, child, signal, deadline, baseline, result>>

-----------------------------------------------------------------------------
(***************************************************************************)
(* The world                                                               *)
(***************************************************************************)

\* The listener of a test under way kills its child.
Heard == IF at = "testing" THEN Killed("cancelled") ELSE child

Cancel ==
  /\ Undecided /\ ~signal
  /\ signal' = TRUE /\ child' = Heard
  /\ UNCHANGED <<scoringVars, op, at, saved, modified, source, snap, queue,
                 executions, deadline, baseline, result, feedback>>

DeadlinePasses ==
  /\ Timed /\ ~deadline
  /\ deadline' = TRUE /\ child' = Heard
  /\ UNCHANGED <<scoringVars, op, at, saved, modified, source, snap, queue,
                 executions, signal, baseline, result, feedback>>

\* Somebody edits the project, or a saved test, before it is read again.
SourceChanges ==
  /\ at \in {"snapshot", "verifying"} /\ source = 0
  /\ source' = 1
  /\ UNCHANGED <<scoringVars, op, at, saved, modified, snap, queue, executions,
                 child, signal, deadline, baseline, result, feedback>>

TestChanges(c) ==
  /\ \/ at \in {"copying", "baseline"}
     \/ op = "regress" /\ at = "loop" /\ \E i \in DOMAIN queue : queue[i] = c
  /\ c \in saved /\ modified = {}
  /\ modified' = {c}
  /\ UNCHANGED <<scoringVars, op, at, saved, source, snap, queue, executions,
                 child, signal, deadline, baseline, result, feedback>>

\* A read, a copy or a save throws; what is saved already stays.
Breaks ==
  /\ Active /\ at # "testing"
  /\ Refuse
  /\ UNCHANGED <<scoringVars, op, saved, modified, source, snap, queue, executions,
                 child, signal, deadline, baseline, result, feedback>>

Begin == \/ \E policy \in Requests : BeginReplay(policy)
         \/ \E tests \in SUBSET Cases : BeginRegress(tests)

Code == \/ Snapshot \/ CopyTests \/ Baselined \/ NextTest \/ Spawn \/ Close \/ Conclude \/ Save

World == \/ ChildExits \/ OutputLimit \/ Cancel \/ DeadlinePasses \/ SourceChanges
         \/ \E c \in Cases : TestChanges(c)

ScoringNext == (Exchange \/ CancelScoring) /\ UNCHANGED replayVars

Next == ScoringNext \/ Begin \/ Code \/ TestTimeout \/ RecordFeedback \/ World \/ Breaks

Spec == Init /\ [][Next]_vars

\* The code runs, an exchange ends by its timeout, and so does a test.
FairSpec == /\ Spec
            /\ WF_vars(Exchange /\ UNCHANGED replayVars)
            /\ WF_vars(Code) /\ WF_vars(TestTimeout)

-----------------------------------------------------------------------------
\* A selection, by whichever policy and whatever the scores, ties and gaps
\* included, has exactly the cases it should have, in the order it should.
SelectionIsExact ==
  \/ op = "none" /\ request \in {"scored", "fallback"}
  \/ op = "replay" /\ at \in {"loop", "spawning", "testing", "verifying", "saving", "done"}
  => IsExact(selection, scores, task.policy)

\* A replay or regression that calls itself completed has executed all it
\* was to execute, and no test was cut short by the signal or the deadline,
\* although the end of a test races both.
CompletedReplayIsWhole ==
  result # None /\ result.status = "completed" =>
    /\ Executed = IF op = "replay" THEN {selection[i] : i \in DOMAIN selection} ELSE saved
    /\ \A c \in Executed : executions[c].stop # "cancelled"

\* While a run is aborted, none of its tests runs on: an abort between the
\* head of the loop and the spawn is heard as well.
NoTestOutlivesTheStop == at = "testing" /\ RunAborted => child.stop # "none"

\* "regression_passed" means that every test of the original run passed in a
\* regression nobody cut short, on a baseline that did not fail; a defect is
\* reported as not reproduced only if its own test was executed and passed.
FeedbackIsDeserved ==
  feedback # None =>
    /\ feedback.overall = "regression_passed" =>
         /\ ~RunAborted /\ baseline \in {"not_configured", "passed"}
         /\ \A c \in saved : c \in Executed /\ executions[c] = [class |-> "passed", stop |-> "none"]
    /\ \A c \in feedback.fixed : c \in Executed /\ executions[c] = [class |-> "passed", stop |-> "none"]

\* A request for scores ends, and so does a replay or regression, even if
\* its tests never do.
ReplayEnds == /\ request = "sending" ~> request # "sending"
              /\ Active ~> ~Active
=============================================================================
