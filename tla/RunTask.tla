------------------------------ MODULE RunTask ------------------------------
(* One test run (src/src/runner.mjs, runTask): the model is asked for        *)
(* messages, the tool calls in a message are run, and a report is accepted   *)
(* or not.  Meanwhile the caller may cancel and the wall-clock timer may     *)
(* fire.  Node is one event loop, so an action is the stretch of code        *)
(* between two awaits that suspend.                                          *)
(*                                                                           *)
(* The SDK that runs the tool calls is external.  runner.mjs does not say    *)
(* whether the calls of one message run one after the other or at once, and  *)
(* has no lock of its own, so both are allowed here; `overlapped` tells a    *)
(* run in which a call was started before another had ended.                 *)
EXTENDS Naturals, Sequences, FiniteSets

CONSTANTS
  Cases,        \* test cases the model may think of
  Bytes,        \* contents a test file may have
  MaxCalls,     \* bound: tool calls one message may have
  MaxTurns,     \* budget.max_model_turns
  MaxAttempts   \* budget.max_test_attempts

ASSUME RunAssumption ==
  /\ MaxCalls \in Nat \ {0}
  /\ MaxTurns \in Nat \ {0}
  /\ MaxAttempts \in Nat \ {0}
  /\ IsFiniteSet(Cases)
  /\ "unwritten" \notin Bytes
  /\ "none" \notin Cases

Calls == 1..MaxCalls

VARIABLES
  stage,        \* where runTask is
  reason,       \* why the AbortController was aborted, or "none"
  intact,       \* the snapshot still has the hashes it was taken with
  baseline,     \* verdict of the project's own tests
  turns,        \* turnCount
  read,         \* readProject was called
  plan,         \* which of prepared, scores and selection are set
  prepared,     \* prepared.items
  selection,    \* selection.selected_ids
  tests,        \* the bytes of each written test
  executions,   \* per case, what its executions were
  analysed,     \* cases with an analysis in the report
  confirmed,    \* those whose category is confirmed_product_defect
  finished,     \* the report was accepted
  errors,       \* errors is not empty
  pc,           \* per call of the message, the await it is at
  rest,         \* per call, the cases its loop has still to do
  item,         \* per call, the case that is executing
  code,         \* per call, the bytes of the test that is executing
  status,       \* run_status
  assessment,
  submissions,  \* history: requests to the scoring backend
  overlapped    \* history: two tool calls were under way at once

tools == <<pc, rest, item, code>>
work  == <<read, plan, prepared, selection, tests, executions>>
report == <<analysed, confirmed, finished>>
result == <<status, assessment>>
vars == <<stage, reason, intact, baseline, turns, work, report, errors, tools,
          result, submissions, overlapped>>

Classes == {"passed", "assertion_failure", "test_error", "environment_error"}
Execution == [class : Classes, code : Bytes \cup {"unwritten"}]
Reasons == {"none", "cancelled", "budget_exhausted", "scoring_failed",
            "model_turn_budget", "workflow_complete"}
Stages == {"setup", "gate", "request", "model", "tools", "ended", "verify",
           "closing", "done"}
Points == {"idle", "asked", "preparing", "scoring", "ranking", "writing",
           "executing", "recording"}

Latest(c) == executions[c][Len(executions[c])]
Executed(c) == executions[c] # <<>>
Failed(c) == Executed(c) /\ Latest(c).class # "passed"
Written == {c \in Cases : tests[c] # "unwritten"}

\* controller.signal.aborted, and what ensureActive() checks.
Aborted == reason # "none"

\* Mutant: ensureActive() forgets that the report is in.
Active_Unfinished == ~Aborted

Active == ~Aborted /\ ~finished

\* controller.abort(r): the first reason stays.
Abort(r) == reason' = IF Aborted THEN reason ELSE r

Init ==
  /\ stage = "setup"
  /\ reason \in {"none", "cancelled"}
  /\ intact = TRUE
  /\ baseline = "pending"
  /\ turns = 0
  /\ read = FALSE
  /\ plan = "none"
  /\ prepared = {}
  /\ selection = {}
  /\ tests = [c \in Cases |-> "unwritten"]
  /\ executions = [c \in Cases |-> <<>>]
  /\ analysed = {}
  /\ confirmed = {}
  /\ finished = FALSE
  /\ errors = FALSE
  /\ pc = [k \in Calls |-> "idle"]
  /\ rest = [k \in Calls |-> {}]
  /\ item = [k \in Calls |-> "none"]
  /\ code = [k \in Calls |-> "unwritten"]
  /\ status = "running"
  /\ assessment = "inconclusive"
  /\ submissions = 0
  /\ overlapped = FALSE

----------------------------------------------------------------------------
(* The run, from the snapshot to the result.                                 *)

\* runBaseline: no baseline is configured, or it has run and passed, failed
\* or been cut short.
Baseline ==
  /\ stage = "setup"
  /\ baseline' \in {"ok", IF Aborted THEN "cancelled" ELSE "failed"}
  /\ stage' = "gate"
  /\ UNCHANGED <<reason, intact, turns, work, report, errors, tools,
                 result, submissions, overlapped>>

\* The checks after the baseline.
Gate ==
  /\ stage = "gate"
  /\ intact
  /\ ~Aborted
  /\ baseline # "failed"
  /\ stage' = "request"
  /\ UNCHANGED <<reason, intact, baseline, turns, work, report, errors, tools,
                 result, submissions, overlapped>>

\* One of these checks throws, or another step of the preparation, or the
\* prompt does.
Throws ==
  /\ stage \in {"setup", "gate", "request", "model"}
  /\ stage' = "closing"
  /\ errors' = TRUE
  /\ UNCHANGED <<reason, intact, baseline, turns, work, report, tools, result,
                 submissions, overlapped>>

\* beforeModelRequest.  A hook that throws ends the prompt.
Request ==
  /\ stage = "request"
  /\ IF turns >= MaxTurns
       THEN Abort(IF finished THEN "workflow_complete" ELSE "model_turn_budget")
       ELSE UNCHANGED reason
  /\ IF reason' # "none"
       THEN stage' = "ended" /\ UNCHANGED turns
       ELSE stage' = "model" /\ turns' = turns + 1
  /\ UNCHANGED <<intact, baseline, work, report, errors, tools, result,
                 submissions, overlapped>>

\* The model asks for tool calls, ...
Answer ==
  /\ stage = "model"
  /\ \E n \in Calls :
       pc' = [k \in Calls |-> IF k <= n THEN "asked" ELSE "idle"]
  /\ stage' = "tools"
  /\ UNCHANGED <<reason, intact, baseline, turns, work, report, errors, rest,
                 item, code, result, submissions, overlapped>>

\* ... or for none, or the provider answers with an error.
Stop ==
  /\ stage = "model"
  /\ errors' \in {errors, errors \/ ~Aborted}
  /\ stage' = "ended"
  /\ UNCHANGED <<reason, intact, baseline, turns, work, report, tools, result,
                 submissions, overlapped>>

\* Mutant: only the caller's signal reaches the model session.
RequestAborted_OnlyCancel ==
  /\ stage = "model"
  /\ reason = "cancelled"
  /\ stage' = "ended"
  /\ UNCHANGED <<reason, intact, baseline, turns, work, report, errors, tools,
                 result, submissions, overlapped>>

\* abortSession: an abort of the controller ends the request under way.
RequestAborted ==
  /\ stage = "model"
  /\ Aborted
  /\ stage' = "ended"
  /\ UNCHANGED <<reason, intact, baseline, turns, work, report, errors, tools,
                 result, submissions, overlapped>>

\* All calls of the message have answered.
Answered ==
  /\ stage = "tools"
  /\ \A k \in Calls : pc[k] = "idle"
  /\ stage' = "request"
  /\ UNCHANGED <<reason, intact, baseline, turns, work, report, errors, tools,
                 result, submissions, overlapped>>

\* The prompt has returned.
Ended ==
  /\ stage = "ended"
  /\ errors' = (errors \/ (~finished /\ ~Aborted))
  /\ stage' = "verify"
  /\ UNCHANGED <<reason, intact, baseline, turns, work, report, tools, result,
                 submissions, overlapped>>

\* Mutant: the source is not verified when the prompt has returned.
Verify_Trusted ==
  /\ stage = "verify"
  /\ stage' = "closing"
  /\ UNCHANGED <<reason, intact, baseline, turns, work, report, errors, tools,
                 result, submissions, overlapped>>

\* The last verifySnapshot; then the timer and the listener are removed.  It
\* reads the files one after the other, and is one step here: a change to a
\* file that it has read already is one it does not see, like a change after
\* it.
Verify ==
  /\ stage = "verify"
  /\ errors' = (errors \/ ~intact)
  /\ stage' = "closing"
  /\ UNCHANGED <<reason, intact, baseline, turns, work, report, tools, result,
                 submissions, overlapped>>

\* The reason of the abort comes first, then the errors.
RunStatus ==
  IF reason = "cancelled" THEN "cancelled"
  ELSE IF reason \in {"budget_exhausted", "model_turn_budget"} THEN "partial"
  ELSE IF finished /\ ~errors THEN "completed"
  ELSE IF \E c \in Cases : Executed(c) THEN "partial"
  ELSE "failed"

\* Mutant: what was executed has passed, so all is well.
Assessment_OfPartial(s) ==
  LET latest == {Latest(c) : c \in {c \in selection : Executed(c)}} IN
  IF confirmed = {} /\ latest # {} /\ \A e \in latest : e.class = "passed"
    THEN "no_confirmed_findings"
    ELSE "inconclusive"

Assessment(s) ==
  LET latest == {Latest(c) : c \in {c \in selection : Executed(c)}} IN
  IF confirmed # {} THEN "confirmed_findings"
  ELSE IF s = "completed" /\ latest # {} /\ \A e \in latest : e.class = "passed"
    THEN "no_confirmed_findings"
  ELSE "inconclusive"

\* The result, and the five files it goes to.
Conclude ==
  /\ stage = "closing"
  /\ stage' = "done"
  /\ status' = RunStatus
  /\ assessment' = Assessment(RunStatus)
  /\ errors' = (errors \/ reason \in {"budget_exhausted", "model_turn_budget"})
  /\ UNCHANGED <<reason, intact, baseline, turns, work, report, tools,
                 submissions, overlapped>>

----------------------------------------------------------------------------
(* The five tools.                                                           *)

\* The calls of a message are started in their order, ...
Due(k) ==
  /\ stage = "tools"
  /\ pc[k] = "asked"
  /\ \A j \in 1..k - 1 : pc[j] # "asked"

\* ... and each one looks at ensureActive() before anything else.
Begin(k) ==
  /\ Due(k)
  /\ Active
  /\ overlapped' = (overlapped \/ \E j \in Calls : pc[j] \notin {"idle", "asked"})

Goto(k, point) == pc' = [pc EXCEPT ![k] = point]

\* ensureActive() or a check throws, or the parameters are not valid: the
\* model gets an error, and nothing has changed.
Refuse(k) ==
  /\ Due(k)
  /\ Goto(k, "idle")
  /\ UNCHANGED <<stage, reason, intact, baseline, turns, work, report, errors,
                 rest, item, code, result, submissions, overlapped>>

ReadProject(k) ==
  /\ Begin(k)
  /\ read' = TRUE
  /\ Goto(k, "idle")
  /\ UNCHANGED <<stage, reason, intact, baseline, turns, plan, prepared,
                 selection, tests, executions, report, errors, rest, item,
                 code, result, submissions>>

\* Mutant: prepared is set when the scores are there.
AskJEV_Late(k) ==
  /\ Begin(k)
  /\ read
  /\ plan = "none"
  /\ prepared' \in SUBSET Cases \ {{}}
  /\ Goto(k, "preparing")
  /\ UNCHANGED <<stage, reason, intact, baseline, turns, read, plan, selection,
                 tests, executions, report, errors, rest, item, code, result,
                 submissions>>

\* askJEV up to its first await, the write of prepared.json.
AskJEV(k) ==
  /\ Begin(k)
  /\ read
  /\ plan = "none"
  /\ plan' = "prepared"
  /\ prepared' \in SUBSET Cases \ {{}}
  /\ Goto(k, "preparing")
  /\ UNCHANGED <<stage, reason, intact, baseline, turns, read, selection,
                 tests, executions, report, errors, rest, item, code, result,
                 submissions>>

Submit(k) ==
  /\ pc[k] = "preparing"
  /\ Goto(k, "scoring")
  /\ submissions' = submissions + 1
  /\ UNCHANGED <<stage, reason, intact, baseline, turns, work, report, errors,
                 rest, item, code, result, overlapped>>

\* scoreWithPolicy has answered, with scores or with its fallback, ...
Scored(k) ==
  /\ pc[k] = "scoring"
  /\ plan' = "scored"
  /\ Goto(k, "ranking")
  /\ UNCHANGED <<stage, reason, intact, baseline, turns, read, prepared,
                 selection, tests, executions, report, errors, rest, item,
                 code, result, submissions, overlapped>>

\* ... or thrown: the run is aborted.
ScoringFails(k) ==
  /\ pc[k] = "scoring"
  /\ errors' = TRUE
  /\ Abort("scoring_failed")
  /\ Goto(k, "idle")
  /\ UNCHANGED <<stage, intact, baseline, turns, work, report, rest, item,
                 code, result, submissions, overlapped>>

\* selectItems, after the scores are saved.  A policy may select nothing.
Select(k) ==
  /\ pc[k] = "ranking"
  /\ plan' = "selected"
  /\ selection' \in SUBSET prepared
  /\ Goto(k, "idle")
  /\ UNCHANGED <<stage, reason, intact, baseline, turns, read, prepared, tests,
                 executions, report, errors, rest, item, code, result,
                 submissions, overlapped>>

\* A test that is written may be rewritten only if its last execution was a
\* test_error and attempts are left.
Spare(c) == Len(executions[c]) < MaxAttempts

\* Mutant: any failed case may be rewritten.
Repairable_AnyFailure(c) == Failed(c) /\ Spare(c)

Repairable(c) ==
  /\ Executed(c)
  /\ Latest(c).class = "test_error"
  /\ Spare(c)

\* writeTests checks every test before it writes the first.
WriteTests(k) ==
  /\ Begin(k)
  /\ plan \in {"scored", "selected"}
  /\ \E asked \in SUBSET prepared \ {{}} :
       /\ \A c \in asked \cap Written : Repairable(c)
       /\ rest' = [rest EXCEPT ![k] = asked]
  /\ Goto(k, "writing")
  /\ UNCHANGED <<stage, reason, intact, baseline, turns, work, report, errors,
                 item, code, result, submissions>>

\* Write, rename and record the next test.
WriteNext(k) ==
  /\ pc[k] = "writing"
  /\ \E c \in rest[k], b \in Bytes :
       /\ tests' = [tests EXCEPT ![c] = b]
       /\ rest' = [rest EXCEPT ![k] = @ \ {c}]
       /\ Goto(k, IF rest[k] = {c} THEN "idle" ELSE "writing")
  /\ UNCHANGED <<stage, reason, intact, baseline, turns, read, plan, prepared,
                 selection, executions, report, errors, item, code, result,
                 submissions, overlapped>>

\* Mutant: whatever has not passed is tried again.
Settled_Passed(c) == Executed(c) /\ ~Failed(c)

\* A case that was executed waits for nothing, unless its test was repaired.
Settled(c) ==
  /\ Executed(c)
  /\ \/ Latest(c).class # "test_error"
     \/ Latest(c).code = tests[c]

\* The loop of runTests up to its next await, with the cases of `left` to do:
\* it starts an execution, or it ends because there is none to do, because
\* the run is no longer active, or because the attempts are used up.
NextCase(k, left) ==
  \/ /\ \/ ~Active
        \/ \A c \in left : Settled(c)
        \/ \E c \in left : ~Settled(c) /\ ~Spare(c)
     /\ Goto(k, "idle")
     /\ rest' = [rest EXCEPT ![k] = {}]
     /\ UNCHANGED <<item, code>>
  \/ /\ Active
     /\ \E c \in left :
          /\ ~Settled(c)
          /\ Spare(c)
          /\ rest' = [rest EXCEPT ![k] = left \ {c}]
          /\ item' = [item EXCEPT ![k] = c]
          /\ code' = [code EXCEPT ![k] = tests[c]]
     /\ Goto(k, "executing")

RunTests(k) ==
  /\ Begin(k)
  /\ plan # "none"
  /\ prepared \subseteq Written
  /\ NextCase(k, selection)
  /\ UNCHANGED <<stage, reason, intact, baseline, turns, work, report, errors,
                 result, submissions>>

\* The test has been run, or killed by a timeout or by the abort.  An abort
\* that comes when the test is over, while its output is still to be read or
\* its browser to be closed, does not change the class.
ExecutionEnds(k) ==
  /\ pc[k] = "executing"
  /\ \E class \in Classes :
       executions' = [executions EXCEPT ![item[k]] =
                        Append(@, [class |-> class, code |-> code[k]])]
  /\ Goto(k, "recording")
  /\ item' = [item EXCEPT ![k] = "none"]
  /\ code' = [code EXCEPT ![k] = "unwritten"]
  /\ UNCHANGED <<stage, reason, intact, baseline, turns, read, plan, prepared,
                 selection, tests, report, errors, rest, result, submissions,
                 overlapped>>

\* Its evidence is saved and the snapshot is verified.
Recorded(k) ==
  /\ pc[k] = "recording"
  /\ intact
  /\ NextCase(k, rest[k])
  /\ UNCHANGED <<stage, reason, intact, baseline, turns, work, report, errors,
                 result, submissions, overlapped>>

\* A save fails, the executor throws, or the snapshot is not what it was: the
\* tool ends with an error for the model, and what it has done so far stays.
\* Of a test that could not be executed there is no record.
Breaks(k) ==
  /\ pc[k] \in {"preparing", "ranking", "writing", "executing", "recording"}
  /\ Goto(k, "idle")
  /\ rest' = [rest EXCEPT ![k] = {}]
  /\ item' = [item EXCEPT ![k] = "none"]
  /\ code' = [code EXCEPT ![k] = "unwritten"]
  /\ UNCHANGED <<stage, reason, intact, baseline, turns, work, report, errors,
                 result, submissions, overlapped>>

\* finishReport: every selected case has been executed, and every one that
\* failed is analysed.
FinishReport(k) ==
  /\ Begin(k)
  /\ plan = "selected"
  /\ \A c \in selection : Executed(c)
  /\ analysed' = {c \in Cases : Failed(c)}
  /\ confirmed' \in SUBSET {c \in Cases : /\ Failed(c)
                                         /\ Latest(c).class = "assertion_failure"}
  /\ finished' = TRUE
  /\ Goto(k, "idle")
  /\ UNCHANGED <<stage, reason, intact, baseline, turns, work, errors, rest,
                 item, code, result, submissions>>

Call(k) ==
  \/ Refuse(k) \/ ReadProject(k) \/ AskJEV(k) \/ Submit(k) \/ Scored(k)
  \/ ScoringFails(k) \/ Select(k) \/ WriteTests(k) \/ WriteNext(k)
  \/ RunTests(k) \/ ExecutionEnds(k) \/ Recorded(k) \/ Breaks(k)
  \/ FinishReport(k)

----------------------------------------------------------------------------
(* The world around the run.                                                 *)

\* Until runTask takes its listener and its timer down.
Listening == stage \notin {"closing", "done"}

Cancel ==
  /\ Listening
  /\ Abort("cancelled")
  /\ UNCHANGED <<stage, intact, baseline, turns, work, report, errors, tools,
                 result, submissions, overlapped>>

TimerFires ==
  /\ Listening
  /\ Abort("budget_exhausted")
  /\ UNCHANGED <<stage, intact, baseline, turns, work, report, errors, tools,
                 result, submissions, overlapped>>

\* Somebody changes an approved file.
SourceChanges ==
  /\ Listening
  /\ intact' = FALSE
  /\ UNCHANGED <<stage, reason, baseline, turns, work, report, errors, tools,
                 result, submissions, overlapped>>

Run ==
  \/ Baseline \/ Gate \/ Request \/ RequestAborted \/ Answered \/ Ended
  \/ Verify \/ Conclude

Next ==
  \/ Run \/ Throws \/ Answer \/ Stop
  \/ \E k \in Calls : Call(k)
  \/ Cancel \/ TimerFires \/ SourceChanges

Spec == Init /\ [][Next]_vars

\* The code between two awaits is run, a tool call that was asked for is
\* started, what it waits for ends by a timeout of its own or by the abort,
\* and the timer fires.  Nothing says that the model answers.
Fairness ==
  /\ WF_vars(Run)
  /\ WF_vars(Throws /\ stage = "gate")
  /\ \A k \in Calls : WF_vars(Call(k))
  /\ WF_vars(TimerFires)

FairSpec == Spec /\ Fairness

----------------------------------------------------------------------------
(* Properties.  Those that say ~overlapped are of runs in which no tool call *)
(* was started before another had ended: what runTests and writeTests read   *)
(* before an await may be stale after it, and only the SDK can keep two      *)
(* calls apart.                                                              *)

\* Every variable keeps to its type; no more model requests than the budget.
TypeOK ==
  /\ stage \in Stages
  /\ reason \in Reasons
  /\ intact \in BOOLEAN
  /\ baseline \in {"pending", "ok", "failed", "cancelled"}
  /\ turns \in 0..MaxTurns
  /\ read \in BOOLEAN
  /\ plan \in {"none", "prepared", "scored", "selected"}
  /\ prepared \subseteq Cases
  /\ selection \subseteq Cases
  /\ tests \in [Cases -> Bytes \cup {"unwritten"}]
  /\ executions \in [Cases -> Seq(Execution)]
  /\ analysed \subseteq Cases
  /\ confirmed \subseteq Cases
  /\ finished \in BOOLEAN
  /\ errors \in BOOLEAN
  /\ pc \in [Calls -> Points]
  /\ rest \in [Calls -> SUBSET Cases]
  /\ item \in [Calls -> Cases \cup {"none"}]
  /\ code \in [Calls -> Bytes \cup {"unwritten"}]
  /\ status \in {"running", "completed", "partial", "failed", "cancelled"}
  /\ assessment \in {"confirmed_findings", "no_confirmed_findings",
                     "inconclusive"}
  /\ submissions \in Nat
  /\ overlapped \in BOOLEAN

\* A run is reported as completed only if the project's own tests had not
\* failed, every selected case was executed, every one whose last execution
\* failed is analysed, and the source is still the one that was tested -
\* whichever tools the model called, in which order, and whatever was
\* cancelled, cut short or broken on the way.
CompletedIsEarned ==
  ~overlapped /\ status = "completed" =>
    /\ baseline = "ok"
    /\ intact
    /\ \A c \in selection : Executed(c)
    /\ \A c \in Cases : Failed(c) => c \in analysed

\* A defect is confirmed only by evidence: the last execution of its case is
\* an assertion failure, and of the very test that is handed over.
ConfirmedByEvidence ==
  ~overlapped => \A c \in confirmed :
    /\ Executed(c)
    /\ Latest(c).class = "assertion_failure"
    /\ Latest(c).code = tests[c]

\* No result of a test is tried away: a case is executed again only after a
\* test_error, and then with another test.
OnlyBrokenTestsAreRepeated ==
  ~overlapped => \A c \in Cases : \A i \in 1..Len(executions[c]) - 1 :
    /\ executions[c][i].class = "test_error"
    /\ executions[c][i].code # executions[c][i + 1].code

\* No case is executed more often than the budget of attempts allows.
AttemptsAreBounded ==
  ~overlapped => \A c \in Cases : Len(executions[c]) <= MaxAttempts

\* "No confirmed findings" is said only of tests that passed, all of them,
\* and that are the tests saved with the run.
CleanBill ==
  ~overlapped /\ assessment = "no_confirmed_findings" =>
    /\ selection # {}
    /\ \A c \in selection : /\ Executed(c)
                            /\ Latest(c).class = "passed"
                            /\ Latest(c).code = tests[c]

\* The backend is asked for scores once, even by calls that overlap.
ScoredOnce == submissions <= 1

\* A run that did not complete says why.
FailureIsExplained == status \in {"partial", "failed"} => errors

\* After the report is accepted nothing it is about changes.
ReportIsFinal ==
  [][finished /\ ~overlapped =>
       UNCHANGED <<tests, executions, selection, analysed, confirmed>>]_vars

\* Every run ends, even if the model never answers: the timer aborts it, and
\* the abort ends the request under way.
RunEnds == <>(stage = "done")
============================================================================
