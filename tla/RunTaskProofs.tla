--------------------------- MODULE RunTaskProofs ---------------------------
(* Theorems about RunTask, for any number of cases, contents of a test,      *)
(* tool calls, turns and attempts.                                           *)
EXTENDS RunTask, FiniteSetTheorems, TLAPS

USE RunAssumption

\* The steps outside the tools.
Flow ==
  \/ Baseline \/ Gate \/ Throws \/ Request \/ Answer \/ Stop \/ RequestAborted
  \/ Answered \/ Ended \/ Verify \/ Conclude
  \/ Cancel \/ TimerFires \/ SourceChanges \/ UNCHANGED vars

LEMMA AllSteps == [Next]_vars => Flow \/ \E k \in Calls : Call(k)
  BY DEF Next, Run, Flow

\* They touch nothing the tools work on, and call tools only from the model.
LEMMA FlowSteps ==
  Flow => /\ UNCHANGED <<work, report, rest, item, code, submissions, overlapped>>
          /\ \/ pc' = pc
             \/ /\ stage = "model" /\ stage' = "tools"
                /\ \E n \in Calls :
                     pc' = [k \in Calls |-> IF k <= n THEN "asked" ELSE "idle"]
  BY DEF Flow, Baseline, Gate, Throws, Request, Answer, Stop, RequestAborted,
     Answered, Ended, Verify, Conclude, Cancel, TimerFires, SourceChanges, vars,
     work, report, tools

-----------------------------------------------------------------------------
(* Type correctness.                                                         *)

LEMMA InitialTypes == Init => TypeOK
<1> SUFFICES ASSUME Init PROVE TypeOK OBVIOUS
<1>1. turns \in 0..MaxTurns /\ submissions \in Nat
  BY DEF Init
<1>2. executions \in [Cases -> Seq(Execution)]
  BY DEF Init
<1>3. QED
  BY <1>1, <1>2 DEF Init, TypeOK, Stages, Reasons, Points

LEMMA FlowTypes == ASSUME TypeOK, Flow PROVE TypeOK'
<1> USE DEF TypeOK, Stages, Reasons, Points, Abort, Aborted
<1> USE DEF vars, work, report, tools, result
<1>1. CASE Baseline BY <1>1 DEF Baseline
<1>2. CASE Gate BY <1>2 DEF Gate
<1>3. CASE Throws BY <1>3 DEF Throws
<1>4. CASE Request BY <1>4 DEF Request
<1>5. CASE Answer BY <1>5 DEF Answer
<1>6. CASE Stop
  <2>1. errors' \in BOOLEAN
    BY <1>6 DEF Stop
  <2>2. QED
    BY <1>6, <2>1 DEF Stop
<1>7. CASE RequestAborted BY <1>7 DEF RequestAborted
<1>8. CASE Answered BY <1>8 DEF Answered
<1>9. CASE Ended BY <1>9 DEF Ended
<1>10. CASE Verify BY <1>10 DEF Verify
<1>11. CASE Conclude BY <1>11 DEF Conclude, RunStatus, Assessment
<1>12. CASE Cancel BY <1>12 DEF Cancel
<1>13. CASE TimerFires BY <1>13 DEF TimerFires
<1>14. CASE SourceChanges
  <2>1. intact' \in BOOLEAN
    BY <1>14 DEF SourceChanges
  <2>2. QED
    BY <1>14, <2>1 DEF SourceChanges
<1>15. CASE UNCHANGED vars BY <1>15
<1>16. QED
  BY <1>1, <1>2, <1>3, <1>4, <1>5, <1>6, <1>7, <1>8, <1>9, <1>10, <1>11, <1>12,
     <1>13, <1>14, <1>15 DEF Flow

LEMMA NextCaseTypes ==
  ASSUME TypeOK, NEW k \in Calls, NEW left \in SUBSET Cases, NextCase(k, left)
  PROVE  /\ pc' \in [Calls -> Points]
         /\ rest' \in [Calls -> SUBSET Cases]
         /\ item' \in [Calls -> Cases \cup {"none"}]
         /\ code' \in [Calls -> Bytes \cup {"unwritten"}]
<1> USE DEF TypeOK, Points, Goto
<1>1. CASE Goto(k, "idle") /\ rest' = [rest EXCEPT ![k] = {}] /\ UNCHANGED <<item, code>>
  BY <1>1
<1>2. CASE \E c \in left :
              /\ rest' = [rest EXCEPT ![k] = left \ {c}]
              /\ item' = [item EXCEPT ![k] = c]
              /\ code' = [code EXCEPT ![k] = tests[c]]
              /\ Goto(k, "executing")
  BY <1>2
<1>3. QED
  BY <1>1, <1>2 DEF NextCase

LEMMA CallTypes == ASSUME TypeOK, NEW k \in Calls, Call(k) PROVE TypeOK'
<1> USE DEF TypeOK, Reasons, Points, Abort, Aborted, Goto, Begin, Due
<1> USE DEF work, report, tools, result
<1>1. CASE Refuse(k) BY <1>1 DEF Refuse
<1>2. CASE ReadProject(k) BY <1>2 DEF ReadProject
<1>3. CASE AskJEV(k) BY <1>3 DEF AskJEV
<1>4. CASE Submit(k) BY <1>4 DEF Submit
<1>5. CASE Scored(k) BY <1>5 DEF Scored
<1>6. CASE ScoringFails(k) BY <1>6 DEF ScoringFails
<1>7. CASE Select(k) BY <1>7 DEF Select
<1>8. CASE WriteTests(k) BY <1>8 DEF WriteTests
<1>9. CASE WriteNext(k) BY <1>9 DEF WriteNext
<1>10. CASE RunTests(k)
  <2>1. NextCase(k, selection)
    BY <1>10 DEF RunTests
  <2>2. QED
    BY <1>10, <2>1, NextCaseTypes DEF RunTests
<1>11. CASE ExecutionEnds(k)
  <2>1. PICK class \in Classes :
          executions' = [executions EXCEPT ![item[k]] =
                           Append(@, [class |-> class, code |-> code[k]])]
    BY <1>11 DEF ExecutionEnds, Classes
  <2>2. [class |-> class, code |-> code[k]] \in Execution
    BY DEF Execution
  <2>3. executions' \in [Cases -> Seq(Execution)]
    <3>1. CASE item[k] \in Cases
      <4>1. Append(executions[item[k]], [class |-> class, code |-> code[k]]) \in Seq(Execution)
        BY <2>2, <3>1
      <4>2. QED
        BY <2>1, <4>1
    <3>2. CASE item[k] \notin Cases
      BY <2>1, <3>2
    <3>3. QED
      BY <3>1, <3>2
  <2>4. QED
    BY <1>11, <2>3 DEF ExecutionEnds
<1>12. CASE Recorded(k)
  <2>1. NextCase(k, rest[k])
    BY <1>12 DEF Recorded
  <2>2. QED
    BY <1>12, <2>1, NextCaseTypes DEF Recorded
<1>13. CASE Breaks(k) BY <1>13 DEF Breaks
<1>14. CASE FinishReport(k)
  BY <1>14 DEF FinishReport
<1>15. QED
  BY <1>1, <1>2, <1>3, <1>4, <1>5, <1>6, <1>7, <1>8, <1>9, <1>10, <1>11, <1>12,
     <1>13, <1>14 DEF Call

LEMMA TypesKept == TypeOK /\ [Next]_vars => TypeOK'
  BY AllSteps, FlowTypes, CallTypes

\* Every variable keeps to its type; no more model requests than the budget.
THEOREM TypeCorrect == Spec => []TypeOK
  BY InitialTypes, TypesKept, PTL DEF Spec

-----------------------------------------------------------------------------
(* Who is at work.                                                           *)

Busy(k) == pc[k] \notin {"idle", "asked"}

\* Tools are called only where the model is answered, and one at a time unless
\* `overlapped` says otherwise.
CallsInv ==
  /\ stage # "tools" => \A k \in Calls : pc[k] = "idle"
  /\ ~overlapped => \A j, k \in Calls : Busy(j) /\ Busy(k) => j = k

\* A tool call moves no other one.
LEMMA CallSteps ==
  ASSUME TypeOK, NEW k \in Calls, Call(k)
  PROVE  /\ pc[k] # "idle" /\ stage' = stage
         /\ \A j \in Calls \ {k} : pc'[j] = pc[j]
         /\ overlapped => overlapped'
         /\ pc[k] = "asked" /\ pc'[k] # "idle" /\ ~overlapped' =>
              \A j \in Calls : ~Busy(j)
  BY DEF Call, Refuse, ReadProject, AskJEV, Submit, Scored, ScoringFails, Select,
     WriteTests, WriteNext, RunTests, ExecutionEnds, Recorded, Breaks, FinishReport,
     NextCase, Goto, Begin, Due, Busy, TypeOK

LEMMA CallsKept == TypeOK /\ CallsInv /\ [Next]_vars => CallsInv'
<1> SUFFICES ASSUME TypeOK, CallsInv, [Next]_vars PROVE CallsInv'
  OBVIOUS
<1> USE DEF CallsInv, Busy
<1>1. CASE Flow
  <2>1. /\ overlapped' = overlapped
        /\ \/ pc' = pc
           \/ /\ stage = "model" /\ stage' = "tools"
              /\ \E n \in Calls :
                   pc' = [k \in Calls |-> IF k <= n THEN "asked" ELSE "idle"]
    BY <1>1, FlowSteps
  <2>2. ASSUME stage' # "tools" PROVE \A k \in Calls : pc[k] = "idle"
    BY <1>1, <2>2 DEF Flow, Baseline, Gate, Throws, Request, Answer, Stop,
       RequestAborted, Answered, Ended, Verify, Conclude, Cancel, TimerFires,
       SourceChanges, vars
  <2>3. QED
    BY <2>1, <2>2
<1>2. CASE \E k \in Calls : Call(k)
  <2>1. PICK k \in Calls : Call(k)
    BY <1>2
  <2>2. QED
    BY <2>1, CallSteps
<1>3. QED
  BY <1>1, <1>2, AllSteps

-----------------------------------------------------------------------------
(* The scores are asked for once.                                            *)

Scoring == {"preparing", "scoring", "ranking"}

\* One call at most is in askJEV past its check, and `plan` says how far it is.
ScoringInv ==
  /\ plan = "none" => submissions = 0 /\ \A k \in Calls : pc[k] \notin Scoring
  /\ \A j, k \in Calls : pc[j] \in Scoring /\ pc[k] \in Scoring => j = k
  /\ \A k \in Calls :
       /\ pc[k] = "preparing" => submissions = 0
       /\ pc[k] \in {"preparing", "scoring"} => plan = "prepared"
       /\ pc[k] = "ranking" => plan = "scored"
  /\ plan # "selected" => selection = {}
  /\ selection \subseteq prepared
  /\ ScoredOnce

LEMMA ScoringKept == TypeOK /\ ScoringInv /\ [Next]_vars => ScoringInv'
<1> SUFFICES ASSUME TypeOK, ScoringInv, [Next]_vars PROVE ScoringInv'
  OBVIOUS
<1> USE DEF ScoringInv, Scoring, ScoredOnce
<1>1. CASE Flow
  <2>1. UNCHANGED <<plan, selection, prepared, submissions>>
    BY <1>1, FlowSteps DEF work
  <2>2. \A k \in Calls : pc'[k] \in Scoring => pc'[k] = pc[k]
    BY <1>1, FlowSteps
  <2>3. QED
    BY <2>1, <2>2
<1>2. ASSUME NEW k \in Calls, Call(k) PROVE ScoringInv'
  <2> USE DEF Goto, Begin, Due, TypeOK, work, report, tools
  <2>1. CASE Refuse(k) BY <2>1 DEF Refuse
  <2>2. CASE ReadProject(k) BY <2>2 DEF ReadProject
  <2>3. CASE AskJEV(k) BY <2>3 DEF AskJEV
  <2>4. CASE Submit(k) BY <2>4 DEF Submit
  <2>5. CASE Scored(k) BY <2>5 DEF Scored
  <2>6. CASE ScoringFails(k) BY <2>6 DEF ScoringFails
  <2>7. CASE Select(k) BY <2>7 DEF Select
  <2>8. CASE WriteTests(k) BY <2>8 DEF WriteTests
  <2>9. CASE WriteNext(k) BY <2>9 DEF WriteNext
  <2>10. CASE RunTests(k) BY <2>10 DEF RunTests, NextCase
  <2>11. CASE ExecutionEnds(k) BY <2>11 DEF ExecutionEnds
  <2>12. CASE Recorded(k) BY <2>12 DEF Recorded, NextCase
  <2>13. CASE Breaks(k) BY <2>13 DEF Breaks
  <2>14. CASE FinishReport(k) BY <2>14 DEF FinishReport
  <2>15. QED
    BY <1>2, <2>1, <2>2, <2>3, <2>4, <2>5, <2>6, <2>7, <2>8, <2>9, <2>10, <2>11,
       <2>12, <2>13, <2>14 DEF Call
<1>3. QED
  BY <1>1, <1>2, AllSteps

LEMMA InitialScoring == Init => ScoringInv
  BY DEF Init, ScoringInv, Scoring, ScoredOnce

\* The backend is asked for scores once, even by calls that overlap.
THEOREM OneBatchIsScored == Spec => []ScoredOnce
<1>1. ScoringInv => ScoredOnce
  BY DEF ScoringInv
<1>2. Spec => [](TypeOK /\ ScoringInv)
  BY InitialTypes, InitialScoring, TypesKept, ScoringKept, PTL DEF Spec
<1>3. QED
  BY <1>1, <1>2, PTL

-----------------------------------------------------------------------------
(* What the status says.                                                     *)

\* What has to be so at each stage for the status to be right in the end.
StatusInv ==
  /\ stage \in {"request", "model", "tools", "ended", "verify"} => baseline = "ok"
  /\ baseline = "cancelled" => Aborted
  /\ baseline = "pending" => stage \in {"setup", "closing", "done"}
  /\ finished => baseline = "ok"
  /\ stage \in {"setup", "gate"} => ~finished
  /\ stage \in {"closing", "done"} /\ ~errors => intact
  /\ stage \in {"verify", "closing", "done"} => finished \/ Aborted \/ errors
  /\ reason = "scoring_failed" => errors
  /\ reason = "workflow_complete" => finished
  /\ stage # "done" => status = "running" /\ assessment = "inconclusive"
  /\ status = "completed" => finished /\ ~errors
  /\ FailureIsExplained

LEMMA StatusKept == TypeOK /\ CallsInv /\ StatusInv /\ [Next]_vars => StatusInv'
<1> SUFFICES ASSUME TypeOK, CallsInv, StatusInv, [Next]_vars PROVE StatusInv'
  OBVIOUS
<1> USE DEF StatusInv, FailureIsExplained, Abort, Aborted
<1>1. CASE Flow
  <2> USE DEF TypeOK, Stages, Reasons, vars, work, report, tools, result
  <2>1. CASE Baseline BY <2>1 DEF Baseline
  <2>2. CASE Gate BY <2>2 DEF Gate
  <2>3. CASE Throws BY <2>3 DEF Throws
  <2>4. CASE Request BY <2>4 DEF Request
  <2>5. CASE Answer BY <2>5 DEF Answer
  <2>6. CASE Stop BY <2>6 DEF Stop
  <2>7. CASE RequestAborted BY <2>7 DEF RequestAborted
  <2>8. CASE Answered BY <2>8 DEF Answered
  <2>9. CASE Ended BY <2>9 DEF Ended
  <2>10. CASE Verify BY <2>10 DEF Verify
  <2>11. CASE Conclude
    <3>1. /\ stage = "closing" /\ stage' = "done" /\ status' = RunStatus
          /\ errors' = (errors \/ reason \in {"budget_exhausted", "model_turn_budget"})
          /\ UNCHANGED <<reason, intact, baseline, finished>>
      BY <2>11 DEF Conclude
    <3>2. status' = "completed" =>
            finished /\ ~errors /\ reason \notin {"budget_exhausted", "model_turn_budget"}
      BY <3>1 DEF RunStatus
    <3>3. errors => errors'
      BY <3>1, Zenon
    <3>4. reason \in {"budget_exhausted", "model_turn_budget"} => errors'
      BY <3>1, Zenon
    <3>5. status' = "completed" => ~errors'
      BY <3>1, <3>2, Zenon
    <3>6. ~errors => finished \/ reason \in {"cancelled", "budget_exhausted", "model_turn_budget"}
      BY <3>1
    <3>7. status' \in {"partial", "failed"} => errors'
      BY <3>1, <3>3, <3>4, <3>6 DEF RunStatus
    <3>8. QED
      BY <3>1, <3>2, <3>3, <3>5, <3>7
  <2>12. CASE Cancel BY <2>12 DEF Cancel, Listening
  <2>13. CASE TimerFires BY <2>13 DEF TimerFires, Listening
  <2>14. CASE SourceChanges BY <2>14 DEF SourceChanges, Listening
  <2>15. CASE UNCHANGED vars BY <2>15
  <2>16. QED
    BY <1>1, <2>1, <2>2, <2>3, <2>4, <2>5, <2>6, <2>7, <2>8, <2>9, <2>10, <2>11,
       <2>12, <2>13, <2>14, <2>15 DEF Flow
<1>2. ASSUME NEW k \in Calls, Call(k) PROVE StatusInv'
  <2>1. stage = "tools" /\ stage' = stage
    BY <1>2, CallSteps DEF CallsInv
  <2>2. /\ UNCHANGED <<intact, baseline, status, assessment>>
        /\ finished => finished'
        /\ errors => errors'
        /\ \/ UNCHANGED <<reason, errors>>
           \/ errors' /\ reason' = IF Aborted THEN reason ELSE "scoring_failed"
    BY <1>2 DEF Call, Refuse, ReadProject, AskJEV, Submit, Scored, ScoringFails,
       Select, WriteTests, WriteNext, RunTests, ExecutionEnds, Recorded, Breaks,
       FinishReport, report, result
  <2>3. QED
    BY <2>1, <2>2
<1>3. QED
  BY <1>1, <1>2, AllSteps

LEMMA InitialStatus == Init => CallsInv /\ StatusInv
  BY DEF Init, CallsInv, Busy, StatusInv, FailureIsExplained

\* A run that did not complete says why.
THEOREM FailuresAreExplained == Spec => []FailureIsExplained
<1>1. StatusInv => FailureIsExplained
  BY DEF StatusInv
<1>2. Spec => [](TypeOK /\ CallsInv /\ StatusInv)
  BY InitialTypes, InitialStatus, TypesKept, CallsKept, StatusKept, PTL DEF Spec
<1>3. QED
  BY <1>1, <1>2, PTL

-----------------------------------------------------------------------------
(* What is executed is written.                                              *)

WrittenInv ==
  /\ \A c \in Cases : Executed(c) => c \in Written
  /\ \A k \in Calls : pc[k] \in {"executing", "recording"} => rest[k] \subseteq Written
  /\ \A k \in Calls : pc[k] = "executing" => item[k] \in Written

\* The tools by what they do to the evidence.  The first ones do nothing.
Harmless(k) ==
  \/ Refuse(k) \/ ReadProject(k) \/ AskJEV(k) \/ Submit(k) \/ Scored(k)
  \/ ScoringFails(k) \/ Breaks(k)

LEMMA HarmlessSteps ==
  ASSUME TypeOK, NEW k \in Calls, Harmless(k)
  PROVE  /\ UNCHANGED <<selection, tests, executions, report>>
         /\ pc'[k] \notin {"writing", "executing", "recording"}
         /\ \A j \in Calls \ {k} : /\ pc'[j] = pc[j] /\ rest'[j] = rest[j]
                                  /\ item'[j] = item[j] /\ code'[j] = code[j]
         /\ item'[k] = "none" \/ (item'[k] = item[k] /\ pc[k] # "executing")
         /\ pc[k] = "asked" /\ pc'[k] # "idle" => ~finished
         /\ pc[k] = "asked" => plan' \in {plan, "prepared"} /\ (plan' # plan => ~finished)
  BY DEF Harmless, Refuse, ReadProject, AskJEV, Submit, Scored, ScoringFails, Breaks,
     Goto, Begin, Due, Active, TypeOK, work, report, tools

\* A tool that selects, writes or executes nothing else than it says.
LEMMA WorkSteps ==
  ASSUME TypeOK, NEW k \in Calls, Call(k), ~Harmless(k)
  PROVE  \/ Select(k) \/ WriteTests(k) \/ WriteNext(k) \/ RunTests(k)
         \/ ExecutionEnds(k) \/ Recorded(k) \/ FinishReport(k)
  BY DEF Call, Harmless

\* The loop of runTests starts an execution of a case with attempts left,
\* which was not executed before or whose test was repaired - or it ends.
LEMMA LoopSteps ==
  ASSUME TypeOK, NEW k \in Calls, NEW left \in SUBSET Cases, NextCase(k, left)
  PROVE  /\ \A j \in Calls \ {k} : /\ pc'[j] = pc[j] /\ rest'[j] = rest[j]
                                  /\ item'[j] = item[j] /\ code'[j] = code[j]
         /\ \/ pc'[k] = "idle"
            \/ /\ pc'[k] = "executing" /\ ~finished
               /\ \E c \in left :
                    /\ ~Settled(c) /\ Spare(c)
                    /\ rest'[k] = left \ {c} /\ item'[k] = c /\ code'[k] = tests[c]
<1> USE DEF TypeOK, Goto
<1>1. CASE Goto(k, "idle") /\ rest' = [rest EXCEPT ![k] = {}] /\ UNCHANGED <<item, code>>
  BY <1>1
<1>2. CASE /\ Active
           /\ \E c \in left :
                /\ ~Settled(c)
                /\ Spare(c)
                /\ rest' = [rest EXCEPT ![k] = left \ {c}]
                /\ item' = [item EXCEPT ![k] = c]
                /\ code' = [code EXCEPT ![k] = tests[c]]
           /\ Goto(k, "executing")
  BY <1>2 DEF Active
<1>3. QED
  BY <1>1, <1>2 DEF NextCase

\* An execution adds one to its case.
LEMMA ExecutionAdded ==
  ASSUME TypeOK, NEW k \in Calls, ExecutionEnds(k), item[k] \in Cases
  PROVE  \E e \in Execution :
           /\ e.code = code[k]
           /\ \A c \in Cases \ {item[k]} : executions'[c] = executions[c]
           /\ Len(executions'[item[k]]) = Len(executions[item[k]]) + 1
           /\ \A i \in 1..Len(executions[item[k]]) :
                executions'[item[k]][i] = executions[item[k]][i]
           /\ executions'[item[k]][Len(executions[item[k]]) + 1] = e
<1>1. PICK class \in Classes :
        executions' = [executions EXCEPT ![item[k]] =
                         Append(@, [class |-> class, code |-> code[k]])]
  BY DEF ExecutionEnds, Classes
<1> DEFINE e == [class |-> class, code |-> code[k]]
           old == executions[item[k]]
<1>2. e \in Execution /\ e.code = code[k]
  BY DEF TypeOK, Execution
<1>3. old \in Seq(Execution)
  BY DEF TypeOK
<1>4. /\ executions'[item[k]] = Append(old, e)
      /\ \A c \in Cases \ {item[k]} : executions'[c] = executions[c]
  BY <1>1 DEF TypeOK
<1> HIDE DEF e, old
<1>5. /\ Len(Append(old, e)) = Len(old) + 1
      /\ \A i \in 1..Len(old) : Append(old, e)[i] = old[i]
      /\ Append(old, e)[Len(old) + 1] = e
  BY <1>2, <1>3
<1>6. QED
  BY <1>2, <1>4, <1>5 DEF old

LEMMA WrittenKept ==
  TypeOK /\ ScoringInv /\ WrittenInv /\ [Next]_vars => WrittenInv'
<1> SUFFICES ASSUME TypeOK, ScoringInv, WrittenInv, [Next]_vars PROVE WrittenInv'
  OBVIOUS
<1> USE DEF WrittenInv, Executed, Written
<1>1. CASE Flow
  <2>1. UNCHANGED <<tests, executions, rest, item>>
    BY <1>1, FlowSteps DEF work
  <2>2. \A k \in Calls : pc'[k] \in {"executing", "recording"} => pc'[k] = pc[k]
    BY <1>1, FlowSteps
  <2>3. QED
    BY <2>1, <2>2
<1>2. ASSUME NEW k \in Calls, Call(k) PROVE WrittenInv'
  <2>1. CASE Harmless(k)
    BY <2>1, HarmlessSteps
  <2>2. CASE Select(k)
    BY <2>2, CallSteps DEF Select, Goto, Call, TypeOK, tools
  <2>3. CASE WriteTests(k)
    <3>1. /\ UNCHANGED <<tests, executions, item>> /\ pc'[k] = "writing"
          /\ \A j \in Calls \ {k} : pc'[j] = pc[j] /\ rest'[j] = rest[j]
      BY <2>3 DEF WriteTests, Goto, TypeOK, work
    <3>2. QED
      BY <3>1
  <2>4. CASE WriteNext(k)
    <3>1. Written \subseteq Written'
      BY <2>4 DEF WriteNext, TypeOK
    <3>2. /\ UNCHANGED <<executions, item>> /\ pc'[k] \in {"idle", "writing"}
          /\ \A j \in Calls \ {k} : pc'[j] = pc[j] /\ rest'[j] = rest[j]
      BY <2>4 DEF WriteNext, Goto, TypeOK
    <3> HIDE DEF Written
    <3>3. QED
      BY <3>1, <3>2
  <2>5. CASE RunTests(k)
    <3>1. selection \subseteq Written /\ selection \in SUBSET Cases
      BY <2>5 DEF RunTests, ScoringInv, TypeOK
    <3>2. UNCHANGED <<tests, executions>> /\ NextCase(k, selection)
      BY <2>5 DEF RunTests, work
    <3>3. QED
      BY <3>1, <3>2, LoopSteps
  <2>6. CASE ExecutionEnds(k)
    <3>1. /\ UNCHANGED <<tests, rest>> /\ pc[k] = "executing" /\ pc'[k] = "recording"
          /\ \A j \in Calls \ {k} : pc'[j] = pc[j] /\ item'[j] = item[j]
      BY <2>6 DEF ExecutionEnds, Goto, TypeOK
    <3>2. item[k] \in Written /\ item[k] \in Cases
      BY <3>1
    <3>3. \A c \in Cases \ {item[k]} : executions'[c] = executions[c]
      BY <2>6, <3>2, ExecutionAdded
    <3>4. QED
      BY <3>1, <3>2, <3>3
  <2>7. CASE Recorded(k)
    <3>1. rest[k] \subseteq Written /\ rest[k] \in SUBSET Cases
      BY <2>7 DEF Recorded, TypeOK
    <3>2. UNCHANGED <<tests, executions>> /\ NextCase(k, rest[k])
      BY <2>7 DEF Recorded, work
    <3>3. QED
      BY <3>1, <3>2, LoopSteps
  <2>8. CASE FinishReport(k)
    BY <2>8 DEF FinishReport, Goto, TypeOK, work
  <2>9. QED
    BY <1>2, <2>1, <2>2, <2>3, <2>4, <2>5, <2>6, <2>7, <2>8, WorkSteps
<1>3. QED
  BY <1>1, <1>2, AllSteps

LEMMA InitialWritten == Init => WrittenInv
  BY DEF Init, WrittenInv, Executed

-----------------------------------------------------------------------------
(* Executions and the tests they are of, unless calls overlapped.            *)

\* A case that still may be written or executed.
Open(c) == Executed(c) => Latest(c).class = "test_error"

EvidenceInv ==
  ~overlapped =>
    /\ \A c \in Cases :
         Executed(c) /\ Latest(c).class # "test_error" => Latest(c).code = tests[c]
    /\ \A k \in Calls : pc[k] = "writing" => \A c \in rest[k] : Open(c)
    /\ \A k \in Calls : pc[k] = "executing" =>
         /\ item[k] \in Cases
         /\ code[k] = tests[item[k]]
         /\ Spare(item[k])
         /\ Open(item[k])
         /\ Executed(item[k]) => Latest(item[k]).code # code[k]
    /\ \A c \in Cases : \A i \in 1..Len(executions[c]) - 1 :
         /\ executions[c][i].class = "test_error"
         /\ executions[c][i].code # executions[c][i + 1].code
    /\ \A c \in Cases : Len(executions[c]) <= MaxAttempts

\* A case to execute is open, and its test is another one than it was.
LEMMA ToDo == ASSUME NEW c \in Cases, ~Settled(c)
              PROVE  Open(c) /\ (Executed(c) => Latest(c).code # tests[c])
  BY DEF Settled, Open

\* The loop of runTests leaves the evidence as it is.
LEMMA EvidenceInLoop ==
  ASSUME TypeOK, CallsInv, EvidenceInv, NEW k \in Calls, Call(k),
         NEW left \in SUBSET Cases, NextCase(k, left), UNCHANGED <<tests, executions>>
  PROVE  EvidenceInv'
<1> USE DEF EvidenceInv, Spare, Open, Executed, Latest
<1>1. overlapped => overlapped'
  BY CallSteps
<1>2. \A j \in Calls \ {k} : /\ pc'[j] = pc[j] /\ rest'[j] = rest[j]
                            /\ item'[j] = item[j] /\ code'[j] = code[j]
  BY LoopSteps
<1>3. CASE pc'[k] = "idle"
  BY <1>1, <1>2, <1>3
<1>4. CASE pc'[k] = "executing"
  <2>1. PICK c \in left : /\ ~Settled(c) /\ Spare(c)
                          /\ item'[k] = c /\ code'[k] = tests[c]
    BY <1>4, LoopSteps
  <2>2. Open(c) /\ (Executed(c) => Latest(c).code # tests[c])
    BY <2>1, ToDo
  <2>3. ASSUME NEW j \in Calls, pc'[j] = "executing", ~overlapped
        PROVE  /\ item'[j] \in Cases
               /\ code'[j] = tests[item'[j]]
               /\ Spare(item'[j])
               /\ Open(item'[j])
               /\ Executed(item'[j]) => Latest(item'[j]).code # code'[j]
    <3> HIDE DEF Spare, Open, Executed, Latest
    <3>1. CASE j = k
      BY <2>1, <2>2, <3>1
    <3>2. CASE j # k
      <4>1. pc[j] = "executing" /\ item'[j] = item[j] /\ code'[j] = code[j]
        BY <1>2, <2>3, <3>2
      <4>2. QED
        BY <2>3, <4>1
    <3>3. QED
      BY <3>1, <3>2
  <2>4. ASSUME NEW j \in Calls, pc'[j] = "writing"
        PROVE  pc[j] = "writing" /\ rest'[j] = rest[j]
    BY <1>2, <1>4, <2>4
  <2>5. QED
    BY <1>1, <2>3, <2>4
<1>5. QED
  BY <1>3, <1>4, LoopSteps

LEMMA EvidenceOfExecution ==
  ASSUME TypeOK, CallsInv, EvidenceInv, NEW k \in Calls, ExecutionEnds(k)
  PROVE  EvidenceInv'
<1> USE DEF EvidenceInv
<1> SUFFICES ASSUME ~overlapped' PROVE EvidenceInv'
  OBVIOUS
<1>1. /\ ~overlapped /\ pc[k] = "executing" /\ UNCHANGED <<tests, rest>>
      /\ \A j \in Calls : pc'[j] \notin {"executing", "writing"}
  BY DEF ExecutionEnds, Goto, CallsInv, Busy, TypeOK
<1> DEFINE d == item[k]
<1>2. /\ d \in Cases /\ code[k] = tests[d] /\ Spare(d) /\ Open(d)
      /\ Executed(d) => Latest(d).code # code[k]
  BY <1>1
<1>3. PICK e \in Execution :
        /\ e.code = code[k]
        /\ \A c \in Cases \ {d} : executions'[c] = executions[c]
        /\ Len(executions'[d]) = Len(executions[d]) + 1
        /\ \A i \in 1..Len(executions[d]) : executions'[d][i] = executions[d][i]
        /\ executions'[d][Len(executions[d]) + 1] = e
  BY <1>2, ExecutionAdded
<1>4. Len(executions[d]) \in Nat
  BY <1>2 DEF TypeOK
<1>5. ASSUME NEW c \in Cases, Executed(c)', Latest(c)'.class # "test_error"
      PROVE  Latest(c)'.code = tests'[c]
  BY <1>1, <1>2, <1>3, <1>4, <1>5 DEF Executed, Latest
<1>6. ASSUME NEW c \in Cases, NEW i \in 1..Len(executions'[c]) - 1
      PROVE  /\ executions'[c][i].class = "test_error"
             /\ executions'[c][i].code # executions'[c][i + 1].code
  <2>1. CASE c # d
    BY <1>1, <1>3, <1>6, <2>1
  <2>2. CASE c = d /\ i < Len(executions[d])
    <3>1. /\ i \in 1..Len(executions[d]) - 1
          /\ i \in 1..Len(executions[d]) /\ i + 1 \in 1..Len(executions[d])
      BY <1>3, <1>4, <1>6, <2>2
    <3>2. /\ executions[d][i].class = "test_error"
          /\ executions[d][i].code # executions[d][i + 1].code
      BY <1>1, <1>2, <3>1
    <3>3. QED
      BY <1>3, <2>2, <3>1, <3>2
  <2>3. CASE c = d /\ i = Len(executions[d])
    <3>1. i \in 1..Len(executions[d]) /\ Executed(d)
      BY <1>4, <1>6, <2>3 DEF Executed
    <3>2. executions'[d][i] = Latest(d) /\ executions'[d][i + 1] = e
      BY <1>3, <2>3, <3>1 DEF Latest
    <3>3. Latest(d).class = "test_error" /\ Latest(d).code # e.code
      BY <1>2, <1>3, <3>1 DEF Open
    <3>4. QED
      BY <2>3, <3>2, <3>3
  <2>4. QED
    BY <1>3, <1>4, <1>6, <2>1, <2>2, <2>3
<1>7. ASSUME NEW c \in Cases PROVE Len(executions'[c]) <= MaxAttempts
  BY <1>1, <1>2, <1>3, <1>4 DEF Spare
<1>8. QED
  BY <1>1, <1>5, <1>6, <1>7

LEMMA EvidenceKept ==
  TypeOK /\ CallsInv /\ WrittenInv /\ EvidenceInv /\ [Next]_vars => EvidenceInv'
<1> SUFFICES ASSUME TypeOK, CallsInv, WrittenInv, EvidenceInv, [Next]_vars
             PROVE  EvidenceInv'
  OBVIOUS
<1> USE DEF EvidenceInv
<1>1. CASE Flow
  <2>1. UNCHANGED <<tests, executions, rest, item, code, overlapped>>
    BY <1>1, FlowSteps DEF work
  <2>2. \A k \in Calls : pc'[k] \in {"executing", "writing"} => pc'[k] = pc[k]
    BY <1>1, FlowSteps
  <2>3. QED
    BY <2>1, <2>2 DEF Open, Executed, Latest, Spare
<1>2. ASSUME NEW k \in Calls, Call(k) PROVE EvidenceInv'
  <2>0. overlapped => overlapped'
    BY <1>2, CallSteps
  <2>1. CASE Harmless(k)
    <3>1. /\ UNCHANGED <<tests, executions>>
          /\ pc'[k] \notin {"writing", "executing"}
          /\ \A j \in Calls \ {k} : /\ pc'[j] = pc[j] /\ rest'[j] = rest[j]
                                   /\ item'[j] = item[j] /\ code'[j] = code[j]
      BY <2>1, HarmlessSteps
    <3>2. QED
      BY <2>0, <3>1 DEF Open, Executed, Latest, Spare
  <2>2. CASE Select(k) \/ FinishReport(k)
    <3>1. /\ UNCHANGED <<tests, executions, item, code, rest>> /\ pc'[k] = "idle"
          /\ \A j \in Calls \ {k} : pc'[j] = pc[j]
      BY <2>2 DEF Select, FinishReport, Goto, TypeOK, work
    <3>2. QED
      BY <2>0, <3>1 DEF Open, Executed, Latest, Spare
  <2>3. CASE WriteTests(k)
    <3>1. /\ UNCHANGED <<tests, executions, item, code>> /\ pc'[k] = "writing"
          /\ \A j \in Calls \ {k} : pc'[j] = pc[j] /\ rest'[j] = rest[j]
          /\ \A c \in rest'[k] \cap Written : Repairable(c)
          /\ rest'[k] \subseteq Cases
      BY <2>3 DEF WriteTests, Goto, TypeOK, work
    <3>2. \A c \in rest'[k] : Open(c)
      BY <3>1 DEF WrittenInv, Open, Repairable
    <3>3. QED
      BY <2>0, <3>1, <3>2 DEF Open, Executed, Latest, Spare
  <2>4. CASE WriteNext(k)
    <3>1. PICK c \in rest[k], b \in Bytes :
            /\ tests' = [tests EXCEPT ![c] = b]
            /\ rest' = [rest EXCEPT ![k] = @ \ {c}]
      BY <2>4 DEF WriteNext
    <3>2. /\ UNCHANGED <<executions, item, code>> /\ pc[k] = "writing"
          /\ pc'[k] \in {"idle", "writing"}
          /\ \A j \in Calls \ {k} : pc'[j] = pc[j]
      BY <2>4 DEF WriteNext, Goto, TypeOK
    <3>3. ~overlapped => Open(c) /\ \A j \in Calls : pc[j] # "executing"
      BY <3>1, <3>2 DEF CallsInv, Busy
    <3>4. \A d \in Cases \ {c} : tests'[d] = tests[d]
      BY <3>1 DEF TypeOK
    <3>5. \A j \in Calls : rest'[j] \subseteq rest[j]
      BY <3>1 DEF TypeOK
    <3>6. QED
      BY <2>0, <3>2, <3>3, <3>4, <3>5 DEF Open, Executed, Latest, Spare
  <2>5. CASE RunTests(k)
    <3>1. NextCase(k, selection) /\ UNCHANGED <<tests, executions>> /\ selection \in SUBSET Cases
      BY <2>5 DEF RunTests, work, TypeOK
    <3>2. QED
      BY <1>2, <3>1, EvidenceInLoop
  <2>6. CASE ExecutionEnds(k)
    BY <2>6, EvidenceOfExecution
  <2>7. CASE Recorded(k)
    <3>1. NextCase(k, rest[k]) /\ UNCHANGED <<tests, executions>> /\ rest[k] \in SUBSET Cases
      BY <2>7 DEF Recorded, work, TypeOK
    <3>2. QED
      BY <1>2, <3>1, EvidenceInLoop
  <2>8. QED
    BY <1>2, <2>1, <2>2, <2>3, <2>4, <2>5, <2>6, <2>7, WorkSteps
<1>3. QED
  BY <1>1, <1>2, AllSteps

LEMMA InitialEvidence == Init => EvidenceInv
  BY DEF Init, EvidenceInv, Executed

-----------------------------------------------------------------------------
(* The report, and the verdict.                                              *)

ReportInv ==
  /\ ~finished => confirmed = {}
  /\ finished /\ ~overlapped =>
       /\ \A k \in Calls : ~Busy(k)
       /\ \A c \in selection : Executed(c)
       /\ \A c \in Cases : Failed(c) => c \in analysed
       /\ \A c \in confirmed : Executed(c) /\ Latest(c).class = "assertion_failure"
  /\ assessment = "no_confirmed_findings" =>
       /\ stage = "done" /\ status = "completed"
       /\ \E c \in selection : Executed(c)
       /\ \A c \in selection : Executed(c) => Latest(c).class = "passed"

\* Once the report is in, all that a tool can do is to refuse.
LEMMA AfterTheReport ==
  ASSUME TypeOK, ReportInv, [Next]_vars, finished, ~overlapped
  PROVE  /\ UNCHANGED <<tests, executions, selection, report, overlapped>>
         /\ \A k \in Calls : ~Busy(k)'
<1>1. CASE Flow
  BY <1>1, FlowSteps DEF ReportInv, Busy, work
<1>2. ASSUME NEW k \in Calls, Call(k)
      PROVE  /\ UNCHANGED <<tests, executions, selection, report, overlapped>>
             /\ \A j \in Calls : ~Busy(j)'
  <2>1. pc[k] \in {"idle", "asked"}
    BY DEF ReportInv, Busy
  <2>2. Refuse(k)
    BY <1>2, <2>1 DEF Call, ReadProject, AskJEV, Submit, Scored, ScoringFails, Select,
       WriteTests, WriteNext, RunTests, ExecutionEnds, Recorded, Breaks, FinishReport,
       Begin, Active
  <2>3. UNCHANGED <<tests, executions, selection, report, overlapped>>
    BY <2>2 DEF Refuse, work
  <2>4. \A j \in Calls : pc'[j] \in {pc[j], "idle"}
    BY <2>2 DEF Refuse, Goto, TypeOK
  <2>5. QED
    BY <2>3, <2>4 DEF ReportInv, Busy
<1>3. QED
  BY <1>1, <1>2, AllSteps

LEMMA ReportAccepted ==
  ASSUME TypeOK, CallsInv, NEW k \in Calls, FinishReport(k), ~overlapped'
  PROVE  /\ finished'
         /\ \A j \in Calls : ~Busy(j)'
         /\ \A c \in selection' : Executed(c)'
         /\ \A c \in Cases : Failed(c)' => c \in analysed'
         /\ \A c \in confirmed' : Executed(c)' /\ Latest(c)'.class = "assertion_failure"
<1>1. UNCHANGED <<selection, executions>>
  BY DEF FinishReport, work
<1>2. \A j \in Calls : ~Busy(j)'
  BY DEF FinishReport, Begin, Due, Goto, Busy, TypeOK
<1>3. /\ finished' = TRUE
      /\ \A c \in selection : Executed(c)
      /\ analysed' = {c \in Cases : Failed(c)}
      /\ confirmed' \in SUBSET {c \in Cases : /\ Failed(c)
                                             /\ Latest(c).class = "assertion_failure"}
  BY DEF FinishReport
<1>4. QED
  BY <1>1, <1>2, <1>3 DEF Failed, Executed, Latest

LEMMA ReportKept ==
  TypeOK /\ CallsInv /\ StatusInv /\ ReportInv /\ [Next]_vars => ReportInv'
<1> SUFFICES ASSUME TypeOK, CallsInv, StatusInv, ReportInv, [Next]_vars
             PROVE  ReportInv'
  OBVIOUS
<1>1. ~finished' => confirmed' = {}
  <2>1. \/ UNCHANGED <<finished, confirmed>>
        \/ \E k \in Calls : FinishReport(k)
    <3>1. CASE Flow
      BY <3>1, FlowSteps DEF report
    <3>2. CASE \E k \in Calls : Call(k)
      BY <3>2 DEF Call, Refuse, ReadProject, AskJEV, Submit, Scored, ScoringFails,
         Select, WriteTests, WriteNext, RunTests, ExecutionEnds, Recorded, Breaks, report
    <3>3. QED
      BY <3>1, <3>2, AllSteps
  <2>2. QED
    BY <2>1 DEF FinishReport, ReportInv
<1>2. finished' /\ ~overlapped' =>
        /\ \A k \in Calls : ~Busy(k)'
        /\ \A c \in selection' : Executed(c)'
        /\ \A c \in Cases : Failed(c)' => c \in analysed'
        /\ \A c \in confirmed' : Executed(c)' /\ Latest(c)'.class = "assertion_failure"
  <2> SUFFICES ASSUME finished', ~overlapped'
               PROVE  /\ \A k \in Calls : ~Busy(k)'
                      /\ \A c \in selection' : Executed(c)'
                      /\ \A c \in Cases : Failed(c)' => c \in analysed'
                      /\ \A c \in confirmed' :
                           Executed(c)' /\ Latest(c)'.class = "assertion_failure"
    OBVIOUS
  <2>1. ~overlapped
    BY AllSteps, FlowSteps, CallSteps
  <2>2. CASE finished
    BY <2>1, <2>2, AfterTheReport DEF ReportInv, report, Executed, Failed, Latest
  <2>3. CASE ~finished
    <3>1. PICK k \in Calls : FinishReport(k)
      BY <2>3, AllSteps, FlowSteps DEF Call, Refuse, ReadProject, AskJEV, Submit,
         Scored, ScoringFails, Select, WriteTests, WriteNext, RunTests, ExecutionEnds,
         Recorded, Breaks, report
    <3>2. QED
      BY <3>1, ReportAccepted
  <2>4. QED
    BY <2>2, <2>3
<1>3. assessment' = "no_confirmed_findings" =>
        /\ stage' = "done" /\ status' = "completed"
        /\ \E c \in selection' : Executed(c)'
        /\ \A c \in selection' : Executed(c)' => Latest(c)'.class = "passed"
  <2>1. CASE Conclude
    <3>1. /\ stage' = "done" /\ status' = RunStatus
          /\ assessment' = Assessment(RunStatus)
          /\ UNCHANGED <<selection, executions>>
      BY <2>1 DEF Conclude, work
    <3>2. assessment' = "no_confirmed_findings" =>
            /\ RunStatus = "completed"
            /\ \E c \in selection : Executed(c)
            /\ \A c \in selection : Executed(c) => Latest(c).class = "passed"
      BY <3>1 DEF Assessment
    <3>3. QED
      BY <3>1, <3>2 DEF Executed, Latest
  <2>2. CASE ~Conclude
    <3>1. UNCHANGED <<status, assessment>>
      BY <2>2 DEF Next, Run, Baseline, Gate, Throws, Request, Answer, Stop,
         RequestAborted, Answered, Ended, Verify, Cancel, TimerFires, SourceChanges,
         vars, result, Call, Refuse, ReadProject, AskJEV, Submit, Scored, ScoringFails,
         Select, WriteTests, WriteNext, RunTests, ExecutionEnds, Recorded, Breaks,
         FinishReport
    <3>2. SUFFICES ASSUME assessment = "no_confirmed_findings"
                   PROVE  /\ stage' = "done"
                          /\ UNCHANGED <<selection, executions>>
      BY <3>1 DEF ReportInv, Executed, Latest
    <3>3. stage = "done" /\ \A k \in Calls : pc[k] = "idle"
      BY <3>2 DEF ReportInv, CallsInv
    <3>4. Flow
      BY <3>3, AllSteps, CallSteps
    <3>5. QED
      BY <3>3, <3>4, FlowSteps DEF Flow, Baseline, Gate, Throws, Request, Answer, Stop,
         RequestAborted, Answered, Ended, Verify, Conclude, Cancel, TimerFires,
         SourceChanges, vars, work
  <2>3. QED
    BY <2>1, <2>2
<1>4. QED
  BY <1>1, <1>2, <1>3 DEF ReportInv

LEMMA InitialReport == Init => ReportInv
  BY DEF Init, ReportInv

\* All of it together.
RunInv ==
  /\ TypeOK /\ CallsInv /\ ScoringInv /\ StatusInv /\ WrittenInv /\ EvidenceInv
  /\ ReportInv

LEMMA InvariantHolds == Spec => []RunInv
<1>1. Init => RunInv
  BY InitialTypes, InitialScoring, InitialStatus, InitialWritten, InitialEvidence,
     InitialReport DEF RunInv
<1>2. RunInv /\ [Next]_vars => RunInv'
  BY TypesKept, CallsKept, ScoringKept, StatusKept, WrittenKept, EvidenceKept,
     ReportKept DEF RunInv
<1>3. QED
  BY <1>1, <1>2, PTL DEF Spec

\* Unless calls overlapped, no result is tried away: a case is executed again
\* only after a test_error, and then with another test.
THEOREM NoRetryUntilItPasses == Spec => []OnlyBrokenTestsAreRepeated
<1>1. RunInv => OnlyBrokenTestsAreRepeated
  BY DEF RunInv, EvidenceInv, OnlyBrokenTestsAreRepeated
<1>2. QED
  BY <1>1, InvariantHolds, PTL

\* Unless calls overlapped, no case is executed more often than the budget
\* allows; OverrunsAreBounded below says what is left if they did.
THEOREM AttemptsBounded == Spec => []AttemptsAreBounded
<1>1. RunInv => AttemptsAreBounded
  BY DEF RunInv, EvidenceInv, AttemptsAreBounded
<1>2. QED
  BY <1>1, InvariantHolds, PTL

\* Unless calls overlapped, a defect is confirmed only by an assertion failure
\* of the very test that is handed over.
THEOREM DefectsHaveEvidence == Spec => []ConfirmedByEvidence
<1>1. RunInv => ConfirmedByEvidence
  <2> SUFFICES ASSUME RunInv, ~overlapped, NEW c \in confirmed
               PROVE  /\ Executed(c)
                      /\ Latest(c).class = "assertion_failure"
                      /\ Latest(c).code = tests[c]
    BY DEF ConfirmedByEvidence
  <2>1. finished /\ c \in Cases
    BY DEF RunInv, ReportInv, TypeOK
  <2>2. Executed(c) /\ Latest(c).class = "assertion_failure"
    BY <2>1 DEF RunInv, ReportInv
  <2>3. QED
    BY <2>1, <2>2 DEF RunInv, EvidenceInv
<1>2. QED
  BY <1>1, InvariantHolds, PTL

\* Unless calls overlapped, a run is completed only if its baseline held,
\* everything selected was executed, what failed is analysed, and the source is
\* still the same.
THEOREM CompletionIsEarned == Spec => []CompletedIsEarned
<1>1. RunInv => CompletedIsEarned
  <2> SUFFICES ASSUME RunInv, ~overlapped, status = "completed"
               PROVE  /\ baseline = "ok" /\ intact
                      /\ \A c \in selection : Executed(c)
                      /\ \A c \in Cases : Failed(c) => c \in analysed
    BY DEF CompletedIsEarned
  <2>1. finished /\ ~errors /\ stage = "done" /\ baseline = "ok"
    BY DEF RunInv, StatusInv
  <2>2. intact
    BY <2>1 DEF RunInv, StatusInv
  <2>3. QED
    BY <2>1, <2>2 DEF RunInv, ReportInv
<1>2. QED
  BY <1>1, InvariantHolds, PTL

\* Unless calls overlapped, "no confirmed findings" is said only of tests that
\* passed, all of them.
THEOREM CleanBillIsDue == Spec => []CleanBill
<1>1. RunInv => CleanBill
  <2> SUFFICES ASSUME RunInv, ~overlapped, assessment = "no_confirmed_findings"
               PROVE  /\ selection # {}
                      /\ \A c \in selection : /\ Executed(c)
                                              /\ Latest(c).class = "passed"
                                              /\ Latest(c).code = tests[c]
    BY DEF CleanBill
  <2>1. /\ status = "completed" /\ selection # {}
        /\ \A c \in selection : Executed(c) => Latest(c).class = "passed"
    BY DEF RunInv, ReportInv
  <2>2. finished /\ selection \subseteq Cases
    BY <2>1 DEF RunInv, StatusInv, TypeOK
  <2>3. \A c \in selection : Executed(c)
    BY <2>2 DEF RunInv, ReportInv
  <2>4. QED
    BY <2>1, <2>2, <2>3 DEF RunInv, EvidenceInv
<1>2. QED
  BY <1>1, InvariantHolds, PTL

\* Unless calls overlapped, nothing that an accepted report is about changes
\* after it.
THEOREM ReportsAreFinal == Spec => ReportIsFinal
<1>1. RunInv /\ [Next]_vars =>
        (finished /\ ~overlapped =>
           UNCHANGED <<tests, executions, selection, analysed, confirmed>>)
  BY AfterTheReport DEF RunInv, report
<1>2. QED
  BY <1>1, InvariantHolds, PTL DEF Spec, ReportIsFinal

-----------------------------------------------------------------------------
(* What a run hands over, as Campaign takes it.                              *)

\* Whatever the loop of runTests has still to do is selected.
SelectedInv ==
  /\ \A c \in Cases : Executed(c) => c \in selection
  /\ \A k \in Calls : pc[k] \in {"executing", "recording"} => rest[k] \subseteq selection
  /\ \A k \in Calls : pc[k] = "executing" => item[k] \in selection

LEMMA SelectedKept ==
  TypeOK /\ ScoringInv /\ SelectedInv /\ [Next]_vars => SelectedInv'
<1> SUFFICES ASSUME TypeOK, ScoringInv, SelectedInv, [Next]_vars PROVE SelectedInv'
  OBVIOUS
<1> USE DEF SelectedInv, Executed
<1>1. CASE Flow
  <2>1. UNCHANGED <<selection, executions, rest, item>>
    BY <1>1, FlowSteps DEF work
  <2>2. \A k \in Calls : pc'[k] \in {"executing", "recording"} => pc'[k] = pc[k]
    BY <1>1, FlowSteps
  <2>3. QED
    BY <2>1, <2>2
<1>2. ASSUME NEW k \in Calls, Call(k) PROVE SelectedInv'
  <2>1. CASE Harmless(k)
    BY <2>1, HarmlessSteps
  <2>2. CASE Select(k)
    <3>1. selection = {}
      BY <2>2 DEF Select, ScoringInv
    <3>2. /\ UNCHANGED <<executions, rest, item>> /\ pc'[k] = "idle"
          /\ \A j \in Calls \ {k} : pc'[j] = pc[j]
      BY <2>2 DEF Select, Goto, TypeOK
    <3>3. QED
      BY <3>1, <3>2
  <2>3. CASE WriteTests(k)
    <3>1. /\ UNCHANGED <<selection, executions, item>> /\ pc'[k] = "writing"
          /\ \A j \in Calls \ {k} : pc'[j] = pc[j] /\ rest'[j] = rest[j]
      BY <2>3 DEF WriteTests, Goto, TypeOK, work
    <3>2. QED
      BY <3>1
  <2>4. CASE WriteNext(k)
    <3>1. /\ UNCHANGED <<selection, executions, item>> /\ pc'[k] \in {"idle", "writing"}
          /\ \A j \in Calls \ {k} : pc'[j] = pc[j] /\ rest'[j] = rest[j]
      BY <2>4 DEF WriteNext, Goto, TypeOK
    <3>2. QED
      BY <3>1
  <2>5. CASE RunTests(k)
    <3>1. selection \in SUBSET Cases
      BY DEF TypeOK
    <3>2. UNCHANGED <<selection, executions>> /\ NextCase(k, selection)
      BY <2>5 DEF RunTests, work
    <3>3. QED
      BY <3>1, <3>2, LoopSteps
  <2>6. CASE ExecutionEnds(k)
    <3>1. /\ UNCHANGED <<selection, rest>> /\ pc[k] = "executing" /\ pc'[k] = "recording"
          /\ \A j \in Calls \ {k} : pc'[j] = pc[j] /\ item'[j] = item[j]
      BY <2>6 DEF ExecutionEnds, Goto, TypeOK
    <3>2. item[k] \in selection /\ item[k] \in Cases
      BY <3>1 DEF TypeOK
    <3>3. \A c \in Cases \ {item[k]} : executions'[c] = executions[c]
      BY <2>6, <3>2, ExecutionAdded
    <3>4. QED
      BY <3>1, <3>2, <3>3
  <2>7. CASE Recorded(k)
    <3>1. rest[k] \subseteq selection /\ rest[k] \in SUBSET Cases
      BY <2>7 DEF Recorded, TypeOK
    <3>2. UNCHANGED <<selection, executions>> /\ NextCase(k, rest[k])
      BY <2>7 DEF Recorded, work
    <3>3. QED
      BY <3>1, <3>2, LoopSteps
  <2>8. CASE FinishReport(k)
    BY <2>8 DEF FinishReport, Goto, TypeOK, work
  <2>9. QED
    BY <1>2, <2>1, <2>2, <2>3, <2>4, <2>5, <2>6, <2>7, <2>8, WorkSteps
<1>3. QED
  BY <1>1, <1>2, AllSteps

\* "Only selected cases execute", as every result says (runner.mjs:293), even
\* if the calls of a message overlap.
OnlySelectedExecute == {c \in Cases : Executed(c)} \subseteq selection

THEOREM OnlySelectedCasesExecute == Spec => []OnlySelectedExecute
<1>1. Init => SelectedInv
  BY DEF Init, SelectedInv, Executed
<1>2. RunInv => TypeOK /\ ScoringInv
  BY DEF RunInv
<1>3. SelectedInv => OnlySelectedExecute
  BY DEF SelectedInv, OnlySelectedExecute
<1>4. QED
  BY <1>1, <1>2, <1>3, SelectedKept, InvariantHolds, PTL DEF Spec

\* What is analysed are the failures the report was accepted with; and after
\* the run its verdict is that of the state it ended in.
VerdictInv ==
  /\ ~finished => analysed = {}
  /\ finished /\ ~overlapped => analysed = {c \in Cases : Failed(c)}
  /\ stage = "done" =>
       /\ status # "running"
       /\ status = "cancelled" => reason = "cancelled"
       /\ assessment = Assessment(status)

\* A run that is done changes no more.
LEMMA DoneIsDone ==
  ASSUME TypeOK, CallsInv, [Next]_vars, stage = "done" PROVE UNCHANGED vars
<1>1. CASE Flow
  BY <1>1 DEF Flow, Baseline, Gate, Throws, Request, Answer, Stop, RequestAborted,
     Answered, Ended, Verify, Conclude, Cancel, TimerFires, SourceChanges, Listening
<1>2. ASSUME NEW k \in Calls, Call(k) PROVE FALSE
  BY <1>2, CallSteps DEF CallsInv
<1>3. QED
  BY <1>1, <1>2, AllSteps

LEMMA VerdictKept ==
  TypeOK /\ CallsInv /\ ReportInv /\ VerdictInv /\ [Next]_vars => VerdictInv'
<1> SUFFICES ASSUME TypeOK, CallsInv, ReportInv, VerdictInv, [Next]_vars
             PROVE  VerdictInv'
  OBVIOUS
<1>1. /\ ~finished' => analysed' = {}
      /\ finished' /\ ~overlapped' => analysed' = {c \in Cases : Failed(c)'}
  <2>1. CASE finished
    <3>1. finished' /\ (overlapped => overlapped')
      <4>1. CASE Flow
        BY <2>1, <4>1, FlowSteps DEF report
      <4>2. ASSUME NEW k \in Calls, Call(k) PROVE finished' /\ (overlapped => overlapped')
        BY <2>1, <4>2, CallSteps DEF Call, Refuse, ReadProject, AskJEV, Submit, Scored,
           ScoringFails, Select, WriteTests, WriteNext, RunTests, ExecutionEnds, Recorded,
           Breaks, FinishReport, report
      <4>3. QED
        BY <4>1, <4>2, AllSteps
    <3>2. ~overlapped' => UNCHANGED <<executions, analysed>>
      BY <2>1, <3>1, AfterTheReport DEF report
    <3>3. QED
      BY <2>1, <3>1, <3>2 DEF VerdictInv, Failed, Executed, Latest
  <2>2. CASE ~finished /\ UNCHANGED report
    BY <2>2 DEF VerdictInv, report
  <2>3. CASE \E k \in Calls : FinishReport(k)
    BY <2>3 DEF FinishReport, Failed, Executed, Latest, work
  <2>4. UNCHANGED report \/ \E k \in Calls : FinishReport(k)
    <3>1. CASE Flow
      BY <3>1, FlowSteps DEF report
    <3>2. ASSUME NEW k \in Calls, Call(k) PROVE UNCHANGED report \/ FinishReport(k)
      BY <3>2, HarmlessSteps, WorkSteps
         DEF Select, WriteTests, WriteNext, RunTests, ExecutionEnds, Recorded, report
    <3>3. QED
      BY <3>1, <3>2, AllSteps
  <2>5. QED
    BY <2>1, <2>2, <2>3, <2>4
<1>2. ASSUME stage' = "done"
      PROVE  /\ status' # "running"
             /\ status' = "cancelled" => reason' = "cancelled"
             /\ assessment' = Assessment(status)'
  <2>1. CASE stage = "done"
    <3>1. UNCHANGED vars
      BY <2>1, DoneIsDone
    <3>2. UNCHANGED <<stage, status, reason, assessment, selection, executions, confirmed>>
      BY <3>1 DEF vars, work, report, result
    <3>3. Assessment(status)' = Assessment(status)
      BY <3>2 DEF Assessment, Executed, Latest
    <3>4. QED
      BY <2>1, <3>2, <3>3 DEF VerdictInv
  <2>2. CASE stage # "done"
    <3>1. Conclude
      <4>1. CASE Flow
        BY <1>2, <2>2, <4>1 DEF Flow, Baseline, Gate, Throws, Request, Answer, Stop,
           RequestAborted, Answered, Ended, Verify, Cancel, TimerFires, SourceChanges, vars
      <4>2. ASSUME NEW k \in Calls, Call(k) PROVE FALSE
        BY <1>2, <2>2, <4>2, CallSteps
      <4>3. QED
        BY <4>1, <4>2, AllSteps
    <3>2. /\ status' = RunStatus /\ assessment' = Assessment(RunStatus)
          /\ UNCHANGED <<reason, selection, executions, confirmed>>
      BY <3>1 DEF Conclude, work, report
    <3>3. Assessment(status)' = Assessment(RunStatus)
      BY <3>2 DEF Assessment, Executed, Latest
    <3>4. RunStatus # "running" /\ (RunStatus = "cancelled" => reason = "cancelled")
      BY DEF RunStatus
    <3>5. QED
      BY <3>2, <3>3, <3>4
  <2>3. QED
    BY <2>1, <2>2
<1>3. QED
  BY <1>1, <1>2 DEF VerdictInv

\* What a campaign takes from a run, and the step RunReturns of Campaign counts
\* on.  If no calls overlapped: the turns were within the budget, only a cancelled run is "cancelled", the
\* findings are of executed cases, the confirmed ones are findings, a completed
\* run has a finding for each failure, and a run without confirmed findings is
\* exactly one that completed, executed something and failed nothing.
RunContract ==
  stage = "done" /\ ~overlapped =>
    /\ status \in {"completed", "partial", "failed", "cancelled"}
    /\ status = "cancelled" => reason = "cancelled"
    /\ turns <= MaxTurns
    /\ confirmed \subseteq analysed
    /\ \A c \in analysed : Executed(c)
    /\ status = "completed" => analysed = {c \in Cases : Failed(c)}
    /\ assessment = "no_confirmed_findings" <=>
         /\ status = "completed"
         /\ analysed = {}
         /\ \E c \in Cases : Executed(c)

THEOREM RunsKeepTheirContract == Spec => []RunContract
<1>1. RunInv /\ SelectedInv /\ VerdictInv => RunContract
  <2> SUFFICES ASSUME RunInv, SelectedInv, VerdictInv, stage = "done", ~overlapped
               PROVE  RunContract
    BY DEF RunContract
  <2> USE DEF RunInv
  <2>1. /\ status \in {"completed", "partial", "failed", "cancelled"}
        /\ status = "cancelled" => reason = "cancelled"
        /\ turns <= MaxTurns
        /\ assessment = Assessment(status)
    BY DEF VerdictInv, TypeOK
  <2>2. /\ confirmed \subseteq analysed
        /\ \A c \in analysed : Executed(c)
    <3>1. CASE finished
      <4>1. analysed = {c \in Cases : Failed(c)}
        BY <3>1 DEF VerdictInv
      <4>2. \A c \in confirmed : c \in Cases /\ Failed(c)
        BY <3>1 DEF ReportInv, TypeOK, Failed
      <4>3. QED
        BY <4>1, <4>2 DEF Failed
    <3>2. CASE ~finished
      BY <3>2 DEF VerdictInv, ReportInv
    <3>3. QED
      BY <3>1, <3>2
  <2>3. ASSUME status = "completed"
        PROVE  /\ analysed = {c \in Cases : Failed(c)}
               /\ \A c \in selection : c \in Cases /\ Executed(c)
    BY <2>3 DEF StatusInv, VerdictInv, ReportInv, TypeOK
  <2>4. ASSUME assessment = "no_confirmed_findings"
        PROVE  status = "completed" /\ analysed = {} /\ \E c \in Cases : Executed(c)
    <3>1. /\ status = "completed"
          /\ \E c \in selection : Executed(c)
          /\ \A c \in selection : Executed(c) => Latest(c).class = "passed"
      BY <2>4 DEF ReportInv
    <3>2. \A c \in Cases : ~Failed(c)
      BY <3>1 DEF SelectedInv, Failed
    <3>3. QED
      BY <2>3, <3>1, <3>2
  <2>5. ASSUME status = "completed", analysed = {}, NEW c \in Cases, Executed(c)
        PROVE  assessment = "no_confirmed_findings"
    <3> DEFINE latest == {Latest(d) : d \in {d \in selection : Executed(d)}}
    <3>1. confirmed = {}
      BY <2>2, <2>5
    <3>2. c \in selection
      BY <2>5 DEF SelectedInv
    <3>3. Latest(c) \in latest
      BY <2>5, <3>2
    <3>4. \A d \in selection : Executed(d) => Latest(d).class = "passed"
      BY <2>3, <2>5 DEF Failed
    <3>5. \A e \in latest : e.class = "passed"
      BY <3>4
    <3>6. latest # {}
      BY <3>3
    <3>7. Assessment("completed") = "no_confirmed_findings"
      BY <3>1, <3>5, <3>6 DEF Assessment
    <3>8. QED
      BY <2>1, <2>5, <3>7
  <2>6. QED
    BY <2>1, <2>2, <2>3, <2>4, <2>5 DEF RunContract
<1>2. Init => SelectedInv /\ VerdictInv
  BY DEF Init, SelectedInv, VerdictInv, Executed
<1>3. RunInv => TypeOK /\ CallsInv /\ ScoringInv /\ ReportInv
  BY DEF RunInv
<1>4. QED
  BY <1>1, <1>2, <1>3, SelectedKept, VerdictKept, InvariantHolds, PTL DEF Spec

-----------------------------------------------------------------------------
(* The budget of attempts when calls do overlap.                             *)

\* The calls that are executing a case.
Executing(c) == {k \in Calls : item[k] = c}

\* An execution under way will be one more of its case; only a call with
\* attempts left starts one.
OverrunInv ==
  /\ \A k \in Calls : item[k] # "none" => pc[k] = "executing"
  /\ \A c \in Cases :
       Len(executions[c]) + Cardinality(Executing(c)) <= MaxAttempts + MaxCalls - 1

\* Calls that overlap may each read that an attempt is left before any of them
\* has used it; a case is then executed once more for every other call of the
\* message, and never more often than that.
OverrunIsBounded ==
  \A c \in Cases : Len(executions[c]) <= MaxAttempts + MaxCalls - 1

LEMMA ExecutingIsFinite ==
  ASSUME NEW c
  PROVE  /\ IsFiniteSet(Executing(c))
         /\ Cardinality(Executing(c)) \in 0..MaxCalls
<1>1. IsFiniteSet(Calls) /\ Cardinality(Calls) = MaxCalls
  BY FS_Interval DEF Calls
<1>2. QED
  BY <1>1, FS_Subset, FS_CardinalityType DEF Executing

\* A call that takes no case and ends none changes nothing here.
LEMMA NoneTaken ==
  ASSUME TypeOK, OverrunInv, UNCHANGED <<item, executions>>,
         \A k \in Calls : item[k] # "none" => pc'[k] = "executing"
  PROVE  OverrunInv'
  BY DEF OverrunInv, Executing

\* The loop of runTests takes a case only with an attempt left, and the call is
\* not executing one: fewer than all calls are.
LEMMA OverrunInLoop ==
  ASSUME TypeOK, OverrunInv, NEW k \in Calls, pc[k] # "executing",
         NEW left \in SUBSET Cases, NextCase(k, left), UNCHANGED executions
  PROVE  OverrunInv'
<1>1. item[k] = "none"
  BY DEF OverrunInv
<1>2. CASE UNCHANGED item
  <2>1. \A j \in Calls \ {k} : pc'[j] = pc[j]
    BY LoopSteps
  <2>2. \A j \in Calls : item[j] # "none" => pc'[j] = "executing"
    BY <1>1, <2>1 DEF OverrunInv
  <2>3. QED
    BY <1>2, <2>2, NoneTaken
<1>3. CASE ~UNCHANGED item
  <2>1. PICK c \in left :
          /\ Spare(c) /\ item' = [item EXCEPT ![k] = c]
          /\ Goto(k, "executing")
    BY <1>3 DEF NextCase
  <2>2. /\ item'[k] = c /\ pc'[k] = "executing"
        /\ \A j \in Calls \ {k} : item'[j] = item[j] /\ pc'[j] = pc[j]
    BY <2>1 DEF Goto, TypeOK
  <2>3. \A j \in Calls : item'[j] # "none" => pc'[j] = "executing"
    BY <2>2 DEF OverrunInv
  <2>4. \A d \in Cases \ {c} : Executing(d)' = Executing(d)
    BY <1>1, <2>2 DEF Executing
  <2>5. /\ Len(executions[c]) < MaxAttempts /\ Len(executions[c]) \in Nat
    BY <2>1 DEF Spare, TypeOK
  <2>6. Cardinality(Executing(c)') \in 0..MaxCalls
    <3>1. Executing(c)' \subseteq Calls
      BY DEF Executing
    <3>2. IsFiniteSet(Calls) /\ Cardinality(Calls) = MaxCalls
      BY FS_Interval DEF Calls
    <3>3. QED
      BY <3>1, <3>2, FS_Subset, FS_CardinalityType
  <2>7. QED
    BY <2>3, <2>4, <2>5, <2>6 DEF OverrunInv
<1>4. QED
  BY <1>2, <1>3

\* An execution that ends is one more of its case and one less under way.
LEMMA OverrunOfExecution ==
  ASSUME TypeOK, OverrunInv, NEW k \in Calls, ExecutionEnds(k), item[k] \in Cases
  PROVE  OverrunInv'
<1> PICK c \in Cases : c = item[k]
  OBVIOUS
<1>1. /\ item'[k] = "none"
      /\ \A j \in Calls \ {k} : item'[j] = item[j] /\ pc'[j] = pc[j]
  BY DEF ExecutionEnds, Goto, TypeOK
<1>2. /\ \A d \in Cases \ {c} : executions'[d] = executions[d]
      /\ Len(executions'[c]) = Len(executions[c]) + 1
  BY ExecutionAdded
<1>3. \A j \in Calls : item'[j] # "none" => pc'[j] = "executing"
  BY <1>1 DEF OverrunInv
<1>4. c # "none"
  OBVIOUS
<1>5. /\ Executing(c)' = Executing(c) \ {k}
      /\ k \in Executing(c)
      /\ \A d \in Cases \ {c} : Executing(d)' = Executing(d)
  BY <1>1, <1>4 DEF Executing
<1>6. Cardinality(Executing(c)') = Cardinality(Executing(c)) - 1
  BY <1>5, ExecutingIsFinite, FS_RemoveElement
<1>7. Len(executions[c]) \in Nat /\ Cardinality(Executing(c)) \in Nat
  BY ExecutingIsFinite DEF TypeOK
<1>8. Len(executions[c]) + Cardinality(Executing(c)) <= MaxAttempts + MaxCalls - 1
  BY DEF OverrunInv
<1>9. \A d \in Cases :
        Len(executions'[d]) + Cardinality(Executing(d)') <= MaxAttempts + MaxCalls - 1
  <2>1. ASSUME NEW d \in Cases \ {c}
        PROVE  /\ Len(executions'[d]) = Len(executions[d])
               /\ Cardinality(Executing(d)') = Cardinality(Executing(d))
    BY <1>2, <1>5
  <2>2. Len(executions'[c]) + Cardinality(Executing(c)') <= MaxAttempts + MaxCalls - 1
    BY <1>2, <1>6, <1>7, <1>8
  <2>3. QED
    BY <2>1, <2>2 DEF OverrunInv
<1>10. QED
  BY <1>3, <1>9 DEF OverrunInv

\* A call that executes nothing any more leaves no more under way than before.
LEMMA OverrunOfNothing ==
  ASSUME TypeOK, OverrunInv, NEW k \in Calls, UNCHANGED executions, item'[k] = "none",
         \A j \in Calls \ {k} : item'[j] = item[j] /\ pc'[j] = pc[j]
  PROVE  OverrunInv'
<1>1. \A j \in Calls : item'[j] # "none" => pc'[j] = "executing"
  BY DEF OverrunInv
<1>2. ASSUME NEW c \in Cases
      PROVE  Len(executions'[c]) + Cardinality(Executing(c)') <= MaxAttempts + MaxCalls - 1
  <2>1. Executing(c)' \subseteq Executing(c)
    BY RunAssumption DEF Executing
  <2>2. /\ Cardinality(Executing(c)') \in Nat
        /\ Cardinality(Executing(c)') <= Cardinality(Executing(c))
    BY <2>1, ExecutingIsFinite, FS_Subset, FS_CardinalityType
  <2>3. Len(executions[c]) \in Nat /\ Cardinality(Executing(c)) \in Nat
    BY ExecutingIsFinite DEF TypeOK
  <2>4. Len(executions[c]) + Cardinality(Executing(c)) <= MaxAttempts + MaxCalls - 1
    BY DEF OverrunInv
  <2>5. QED
    BY <2>2, <2>3, <2>4, RunAssumption
<1>3. QED
  BY <1>1, <1>2 DEF OverrunInv

LEMMA OverrunKept ==
  TypeOK /\ CallsInv /\ WrittenInv /\ OverrunInv /\ [Next]_vars => OverrunInv'
<1> SUFFICES ASSUME TypeOK, CallsInv, WrittenInv, OverrunInv, [Next]_vars PROVE OverrunInv'
  OBVIOUS
<1>1. CASE Flow
  <2>1. UNCHANGED <<item, executions>>
    BY <1>1, FlowSteps DEF work
  <2>2. \/ pc' = pc
        \/ \A k \in Calls : item[k] = "none"
    <3>1. CASE UNCHANGED pc
      BY <3>1
    <3>2. CASE stage = "model"
      BY <3>2 DEF CallsInv, OverrunInv
    <3>3. QED
      BY <1>1, <3>1, <3>2, FlowSteps
  <2>3. QED
    BY <2>1, <2>2, NoneTaken DEF OverrunInv
<1>2. ASSUME NEW k \in Calls, Call(k) PROVE OverrunInv'
  <2>1. \A j \in Calls \ {k} : pc'[j] = pc[j]
    BY <1>2, CallSteps
  <2>2. ASSUME pc[k] # "executing", UNCHANGED <<item, executions>> PROVE OverrunInv'
    BY <2>1, <2>2, NoneTaken DEF OverrunInv
  <2>3. CASE Harmless(k)
    <3>1. /\ UNCHANGED executions
          /\ item'[k] = "none"
          /\ \A j \in Calls \ {k} : item'[j] = item[j]
      BY <2>3, HarmlessSteps DEF OverrunInv
    <3>2. QED
      BY <2>1, <3>1, OverrunOfNothing
  <2>4. CASE Select(k) BY <2>2, <2>4 DEF Select
  <2>5. CASE WriteTests(k) BY <2>2, <2>5 DEF WriteTests, Begin, Due, work
  <2>6. CASE WriteNext(k) BY <2>2, <2>6 DEF WriteNext
  <2>7. CASE RunTests(k)
    BY <2>7, OverrunInLoop DEF RunTests, Begin, Due, work, TypeOK
  <2>8. CASE ExecutionEnds(k)
    <3>1. item[k] \in Cases
      BY <2>8 DEF ExecutionEnds, WrittenInv, Written
    <3>2. QED
      BY <2>8, <3>1, OverrunOfExecution
  <2>9. CASE Recorded(k)
    BY <2>9, OverrunInLoop DEF Recorded, work, TypeOK
  <2>10. CASE FinishReport(k) BY <2>2, <2>10 DEF FinishReport, Begin, Due, work
  <2>11. QED
    BY <1>2, <2>3, <2>4, <2>5, <2>6, <2>7, <2>8, <2>9, <2>10, WorkSteps
<1>3. QED
  BY <1>1, <1>2, AllSteps

LEMMA InitialOverrun == Init => OverrunInv
<1> SUFFICES ASSUME Init PROVE OverrunInv OBVIOUS
<1>1. \A k \in Calls : item[k] = "none"
  BY DEF Init
<1>2. \A c \in Cases : Executing(c) = {} /\ executions[c] = <<>>
  BY <1>1 DEF Init, Executing
<1>3. Cardinality({}) = 0
  BY FS_EmptySet
<1>4. \A c \in Cases : Len(executions[c]) = 0
  <2>1. Len(<<>>) = 0
    OBVIOUS
  <2>2. QED
    BY <1>2, <2>1
<1>5. \A c \in Cases : Cardinality(Executing(c)) = 0
  BY <1>2, <1>3
<1>6. QED
  BY <1>1, <1>4, <1>5 DEF OverrunInv

\* Even calls that overlap execute a case only MaxCalls - 1 times more than the
\* budget of attempts allows.
THEOREM OverrunsAreBounded == Spec => []OverrunIsBounded
<1>1. TypeOK /\ OverrunInv => OverrunIsBounded
  <2> SUFFICES ASSUME TypeOK, OverrunInv, NEW c \in Cases
               PROVE  Len(executions[c]) <= MaxAttempts + MaxCalls - 1
    BY DEF OverrunIsBounded
  <2>1. Len(executions[c]) \in Nat /\ Cardinality(Executing(c)) \in Nat
    BY ExecutingIsFinite DEF TypeOK
  <2>2. QED
    BY <2>1 DEF OverrunInv
<1>2. RunInv /\ OverrunInv /\ [Next]_vars => OverrunInv'
  BY OverrunKept DEF RunInv
<1>3. Spec => []OverrunInv
  BY <1>2, InvariantHolds, InitialOverrun, PTL DEF Spec
<1>4. RunInv => TypeOK
  BY DEF RunInv
<1>5. QED
  BY <1>1, <1>3, <1>4, InvariantHolds, PTL

-----------------------------------------------------------------------------
(* A run takes only so many steps.                                           *)

One(b) == IF b THEN 1 ELSE 0

\* The steps of a tool call: one to write a case and two to execute one, and
\* the few before and after.
CallLength == 2 * Cardinality(Cases) + 4

\* The steps a call can still take.
CallRank(k) ==
  CASE pc[k] = "idle"      -> 0
    [] pc[k] = "asked"     -> CallLength
    [] pc[k] = "preparing" -> 3
    [] pc[k] = "scoring"   -> 2
    [] pc[k] = "ranking"   -> 1
    [] pc[k] = "writing"   -> Cardinality(rest[k]) + 1
    [] pc[k] = "executing" -> 2 * Cardinality(rest[k]) + 2
    [] pc[k] = "recording" -> 2 * Cardinality(rest[k]) + 1

\* They are counted together, since calls may overlap.
CallPoints == Calls \X (1..CallLength)
PointsLeft == {p \in CallPoints : p[2] <= CallRank(p[1])}
CallsLeft == Cardinality(PointsLeft)

\* The steps of a turn: the request, the answer, the calls, and the return.
TurnSteps == MaxCalls * CallLength + 3
TurnsLeft == (MaxTurns - turns) * TurnSteps

\* The steps of the run itself, from where it is.
Ahead ==
  CASE stage = "setup"   -> TurnsLeft + 6
    [] stage = "gate"    -> TurnsLeft + 5
    [] stage = "request" -> TurnsLeft + 4
    [] stage = "model"   -> TurnsLeft + TurnSteps + 3
    [] stage = "tools"   -> TurnsLeft + 5
    [] stage = "ended"   -> 3
    [] stage = "verify"  -> 2
    [] stage = "closing" -> 1
    [] stage = "done"    -> 0

\* What can still come from outside: an abort, and a change of the source.
Disturbances == One(~Aborted) + One(intact)

StepsLeft == Ahead + CallsLeft + Disturbances

\* Every step of a run, of its loop, of its tools or around it, uses one up:
\* there are only so many, whatever the model asks for, whichever calls
\* overlap, and whatever is cancelled, thrown or changed.
StepsRunOut ==
  [][/\ StepsLeft \in Nat
     /\ StepsLeft' \in Nat
     /\ StepsLeft' < StepsLeft]_vars

LEMMA CountsOfCases ==
  /\ Cardinality(Cases) \in Nat
  /\ CallLength \in Nat /\ CallLength >= 4
  /\ \A S \in SUBSET Cases :
       /\ IsFiniteSet(S)
       /\ Cardinality(S) \in 0..Cardinality(Cases)
       /\ \A c \in S : Cardinality(S \ {c}) = Cardinality(S) - 1
<1>1. Cardinality(Cases) \in Nat
  BY FS_CardinalityType
<1>2. \A S \in SUBSET Cases :
        /\ IsFiniteSet(S)
        /\ Cardinality(S) \in Nat
        /\ Cardinality(S) <= Cardinality(Cases)
  BY FS_Subset, FS_CardinalityType
<1>3. \A S \in SUBSET Cases : \A c \in S : Cardinality(S \ {c}) = Cardinality(S) - 1
  BY <1>2, FS_RemoveElement
<1>4. QED
  BY <1>1, <1>2, <1>3 DEF CallLength

LEMMA CallIsCounted ==
  ASSUME TypeOK, NEW k \in Calls
  PROVE  /\ CallRank(k) \in Nat
         /\ CallRank(k) <= CallLength
         /\ pc[k] # "idle" => CallRank(k) >= 1
<1>1. Cardinality(rest[k]) \in 0..Cardinality(Cases)
  BY CountsOfCases DEF TypeOK
<1>2. QED
  BY <1>1, CountsOfCases DEF TypeOK, Points, CallRank, CallLength

\* All calls together have MaxCalls times as many, ...
LEMMA PointsAreFinite ==
  /\ IsFiniteSet(CallPoints)
  /\ Cardinality(CallPoints) = MaxCalls * CallLength
  /\ MaxCalls * CallLength \in Nat
<1>1. IsFiniteSet(Calls) /\ Cardinality(Calls) = MaxCalls
  BY FS_Interval DEF Calls
<1>2. IsFiniteSet(1..CallLength) /\ Cardinality(1..CallLength) = CallLength
  BY CountsOfCases, FS_Interval
<1>3. IsFiniteSet(CallPoints) /\ Cardinality(CallPoints) = MaxCalls * CallLength
  BY <1>1, <1>2, FS_Product DEF CallPoints
<1>4. QED
  BY <1>3, FS_CardinalityType

LEMMA CallsAreCounted ==
  /\ IsFiniteSet(PointsLeft)
  /\ CallsLeft \in Nat
  /\ CallsLeft <= MaxCalls * CallLength
  BY PointsAreFinite, FS_Subset, FS_CardinalityType DEF PointsLeft, CallsLeft

LEMMA CallsAreCountedNext ==
  /\ CallsLeft' \in Nat
  /\ CallsLeft' <= MaxCalls * CallLength
<1>1. PointsLeft' \subseteq CallPoints
  BY DEF PointsLeft, CallPoints
<1>2. QED
  BY <1>1, PointsAreFinite, FS_Subset, FS_CardinalityType DEF CallsLeft

\* ... a call that comes nearer to its end lowers their number, ...
LEMMA CallPays ==
  ASSUME TypeOK, NEW k \in Calls, CallRank(k)' \in Nat, CallRank(k)' < CallRank(k),
         \A j \in Calls \ {k} : CallRank(j)' = CallRank(j)
  PROVE  CallsLeft' < CallsLeft
<1> DEFINE p == <<k, CallRank(k)>>
<1>1. /\ CallRank(k) \in 1..CallLength
  BY CallIsCounted, CountsOfCases
<1>2. p \in PointsLeft
  BY <1>1 DEF PointsLeft, CallPoints
<1>3. PointsLeft' \subseteq PointsLeft \ {p}
  <2> SUFFICES ASSUME NEW q \in CallPoints, q[2] <= CallRank(q[1])'
               PROVE  q[2] <= CallRank(q[1]) /\ q # p
    BY DEF PointsLeft, CallPoints
  <2>1. q[1] \in Calls /\ q[2] \in Nat
    BY CountsOfCases DEF CallPoints
  <2>2. CASE q[1] = k
    BY <1>1, <2>1, <2>2, CountsOfCases
  <2>3. CASE q[1] # k
    BY <2>1, <2>3
  <2>4. QED
    BY <2>2, <2>3
<1>4. /\ IsFiniteSet(PointsLeft \ {p})
      /\ Cardinality(PointsLeft \ {p}) = CallsLeft - 1
  BY <1>2, CallsAreCounted, FS_RemoveElement DEF CallsLeft
<1>5. CallsLeft' <= Cardinality(PointsLeft \ {p})
  BY <1>3, <1>4, FS_Subset DEF CallsLeft
<1>6. QED
  BY <1>4, <1>5, CallsAreCounted, CallsAreCountedNext

\* ... and when all are idle it is 0.
LEMMA NoCallLeft ==
  ASSUME \A k \in Calls : pc[k] = "idle" PROVE CallsLeft = 0
<1>1. PointsLeft = {}
  BY CountsOfCases DEF PointsLeft, CallPoints, CallRank
<1>2. QED
  BY <1>1, FS_EmptySet DEF CallsLeft

\* The loop of runTests comes nearer to its end.
LEMMA LoopPays ==
  ASSUME TypeOK, NEW k \in Calls, NEW left \in SUBSET Cases, NextCase(k, left)
  PROVE  CallRank(k)' \in Nat /\ CallRank(k)' <= 2 * Cardinality(left)
<1>1. Cardinality(left) \in Nat
  BY CountsOfCases
<1>2. CASE pc'[k] = "idle"
  BY <1>1, <1>2 DEF CallRank
<1>3. CASE pc'[k] = "executing" /\ \E c \in left : rest'[k] = left \ {c}
  <2>1. PICK c \in left : rest'[k] = left \ {c}
    BY <1>3
  <2>2. Cardinality(rest'[k]) = Cardinality(left) - 1 /\ Cardinality(rest'[k]) \in Nat
    BY <2>1, CountsOfCases
  <2>3. CallRank(k)' = 2 * Cardinality(rest'[k]) + 2
    BY <1>3 DEF CallRank
  <2>4. QED
    BY <1>1, <2>2, <2>3
<1>4. QED
  BY <1>2, <1>3, LoopSteps

\* Every step of a call brings it nearer to its end and moves no other.
LEMMA CallStepPays ==
  ASSUME TypeOK, NEW k \in Calls, Call(k)
  PROVE  /\ CallRank(k)' \in Nat /\ CallRank(k)' < CallRank(k)
         /\ \A j \in Calls \ {k} : CallRank(j)' = CallRank(j)
<1>1. \A j \in Calls \ {k} : pc'[j] = pc[j] /\ rest'[j] = rest[j]
  <2>1. CASE Harmless(k) BY <2>1, HarmlessSteps
  <2>2. CASE Select(k) BY <2>2, CallSteps DEF Select
  <2>3. CASE WriteTests(k) BY <2>3 DEF WriteTests, Goto, TypeOK
  <2>4. CASE WriteNext(k) BY <2>4 DEF WriteNext, Goto, TypeOK
  <2>5. CASE RunTests(k) BY <2>5, LoopSteps DEF RunTests, TypeOK
  <2>6. CASE ExecutionEnds(k) BY <2>6 DEF ExecutionEnds, Goto, TypeOK
  <2>7. CASE Recorded(k) BY <2>7, LoopSteps DEF Recorded, TypeOK
  <2>8. CASE FinishReport(k) BY <2>8, CallSteps DEF FinishReport
  <2>9. QED
    BY <2>1, <2>2, <2>3, <2>4, <2>5, <2>6, <2>7, <2>8, WorkSteps
<1>2. \A j \in Calls \ {k} : CallRank(j)' = CallRank(j)
  BY <1>1 DEF CallRank
<1>3. CallRank(k)' \in Nat /\ CallRank(k)' < CallRank(k)
  <2>1. ASSUME pc'[k] = "idle" PROVE CallRank(k)' \in Nat /\ CallRank(k)' < CallRank(k)
    <3>1. CallRank(k)' = 0
      BY <2>1 DEF CallRank
    <3>2. QED
      BY <3>1, CallIsCounted, CallSteps
  <2> USE DEF Goto, Begin, Due, TypeOK
  <2>2. CASE Refuse(k) BY <2>1, <2>2 DEF Refuse
  <2>3. CASE ReadProject(k) BY <2>1, <2>3 DEF ReadProject
  <2>4. CASE AskJEV(k) BY <2>4, CountsOfCases DEF AskJEV, CallRank
  <2>5. CASE Submit(k) BY <2>5 DEF Submit, CallRank
  <2>6. CASE Scored(k) BY <2>6 DEF Scored, CallRank
  <2>7. CASE ScoringFails(k) BY <2>1, <2>7 DEF ScoringFails
  <2>8. CASE Select(k) BY <2>1, <2>8 DEF Select
  <2>9. CASE WriteTests(k)
    <3>1. PICK asked \in SUBSET Cases : rest'[k] = asked
      BY <2>9 DEF WriteTests
    <3>2. pc[k] = "asked" /\ pc'[k] = "writing"
      BY <2>9 DEF WriteTests
    <3>3. CallRank(k)' = Cardinality(asked) + 1 /\ CallRank(k) = CallLength
      BY <3>1, <3>2 DEF CallRank
    <3>4. QED
      BY <3>3, CountsOfCases DEF CallLength
  <2>10. CASE WriteNext(k)
    <3>1. PICK c \in rest[k] :
            /\ rest' = [rest EXCEPT ![k] = @ \ {c}]
            /\ Goto(k, IF rest[k] = {c} THEN "idle" ELSE "writing")
      BY <2>10 DEF WriteNext
    <3>2. /\ Cardinality(rest'[k]) = Cardinality(rest[k]) - 1
          /\ Cardinality(rest[k]) \in Nat /\ Cardinality(rest'[k]) \in Nat
      <4>1. rest'[k] = rest[k] \ {c} /\ rest[k] \in SUBSET Cases
        BY <3>1
      <4>2. rest'[k] \in SUBSET Cases
        BY <4>1
      <4>3. QED
        BY <4>1, <4>2, CountsOfCases
    <3>3. CASE rest[k] = {c}
      BY <2>1, <3>1, <3>3
    <3>4. CASE rest[k] # {c}
      <4>1. pc[k] = "writing" /\ pc'[k] = "writing"
        BY <2>10, <3>1, <3>4 DEF WriteNext
      <4>2. QED
        BY <3>2, <4>1 DEF CallRank
    <3>5. QED
      BY <3>3, <3>4
  <2>11. CASE RunTests(k)
    <3>1. NextCase(k, selection) /\ selection \in SUBSET Cases /\ pc[k] = "asked"
      BY <2>11 DEF RunTests
    <3>2. CallRank(k)' \in Nat /\ CallRank(k)' <= 2 * Cardinality(selection)
      BY <3>1, LoopPays
    <3>3. CallRank(k) = CallLength
      BY <3>1 DEF CallRank
    <3>4. QED
      BY <3>1, <3>2, <3>3, CountsOfCases DEF CallLength
  <2>12. CASE ExecutionEnds(k)
    <3>1. pc[k] = "executing" /\ pc'[k] = "recording" /\ rest'[k] = rest[k]
      BY <2>12 DEF ExecutionEnds
    <3>2. Cardinality(rest[k]) \in Nat
      BY CountsOfCases
    <3>3. QED
      BY <3>1, <3>2 DEF CallRank
  <2>13. CASE Recorded(k)
    <3>1. NextCase(k, rest[k]) /\ rest[k] \in SUBSET Cases /\ pc[k] = "recording"
      BY <2>13 DEF Recorded
    <3>2. CallRank(k)' \in Nat /\ CallRank(k)' <= 2 * Cardinality(rest[k])
      BY <3>1, LoopPays
    <3>3. CallRank(k) = 2 * Cardinality(rest[k]) + 1 /\ Cardinality(rest[k]) \in Nat
      BY <3>1, CountsOfCases DEF CallRank
    <3>4. QED
      BY <3>2, <3>3
  <2>14. CASE Breaks(k) BY <2>1, <2>14 DEF Breaks
  <2>15. CASE FinishReport(k) BY <2>1, <2>15 DEF FinishReport
  <2>16. QED
    BY <2>2, <2>3, <2>4, <2>5, <2>6, <2>7, <2>8, <2>9, <2>10, <2>11, <2>12, <2>13,
       <2>14, <2>15 DEF Call
<1>4. QED
  BY <1>2, <1>3

\* A turn pays for its request, its answer and its calls.
LEMMA TurnsAreCounted ==
  ASSUME TypeOK
  PROVE  /\ TurnSteps \in Nat /\ TurnsLeft \in Nat
         /\ turns < MaxTurns /\ turns' = turns + 1 =>
              TurnsLeft' \in Nat /\ TurnsLeft = TurnsLeft' + TurnSteps
<1>1. TurnSteps \in Nat
  BY PointsAreFinite DEF TurnSteps
<1>2. \A a, b \in Nat : a * b \in Nat
  OBVIOUS
<1>3. MaxTurns - turns \in Nat
  BY DEF TypeOK
<1>4. TurnsLeft \in Nat
  BY <1>1, <1>2, <1>3 DEF TurnsLeft
<1>5. ASSUME turns < MaxTurns, turns' = turns + 1
      PROVE  TurnsLeft' \in Nat /\ TurnsLeft = TurnsLeft' + TurnSteps
  <2>1. PICK m \in Nat : m = MaxTurns - turns'
    BY <1>5 DEF TypeOK
  <2>2. MaxTurns - turns = m + 1
    BY <1>5, <2>1 DEF TypeOK
  <2>3. TurnsLeft = (m + 1) * TurnSteps /\ TurnsLeft' = m * TurnSteps
    BY <2>1, <2>2 DEF TurnsLeft, TurnSteps, CallLength
  <2>4. \A n \in Nat : (m + 1) * n = m * n + n
    BY <2>1
  <2>5. QED
    BY <1>1, <1>2, <2>1, <2>3, <2>4
<1>6. QED
  BY <1>1, <1>4, <1>5

LEMMA AheadIsCounted == TypeOK => Ahead \in Nat
<1> SUFFICES ASSUME TypeOK PROVE Ahead \in Nat OBVIOUS
<1>1. TurnSteps \in Nat /\ TurnsLeft \in Nat
  BY TurnsAreCounted
<1>2. QED
  BY <1>1 DEF Ahead, TypeOK, Stages

LEMMA StepsAreCounted == TypeOK => StepsLeft \in Nat
  BY AheadIsCounted, CallsAreCounted DEF StepsLeft, Disturbances, One

\* The world around the run can disturb it twice: abort it, and change its
\* source.
LEMMA WorldPays ==
  ASSUME TypeOK, Cancel \/ TimerFires \/ SourceChanges, ~UNCHANGED vars
  PROVE  /\ Ahead' = Ahead /\ CallsLeft' = CallsLeft
         /\ Disturbances' < Disturbances
         /\ Disturbances \in Nat /\ Disturbances' \in Nat
<1> USE DEF Cancel, TimerFires, SourceChanges, Abort, Aborted, One, Disturbances
<1>1. UNCHANGED <<stage, turns, pc, rest>>
  BY DEF tools
<1>2. Ahead' = Ahead /\ CallsLeft' = CallsLeft
  BY <1>1 DEF Ahead, TurnsLeft, TurnSteps, CallLength, CallsLeft, PointsLeft, CallPoints,
     CallRank
<1>3. \/ ~Aborted /\ reason' # "none" /\ intact' = intact
      \/ intact /\ ~intact' /\ reason' = reason
  BY DEF vars, TypeOK
<1>4. QED
  BY <1>2, <1>3 DEF TypeOK

LEMMA SumFalls ==
  ASSUME NEW a \in Nat, NEW b \in Nat, NEW c \in Nat,
         NEW x \in Nat, NEW y \in Nat, NEW z \in Nat,
         x + y < a + b, z <= c
  PROVE  x + y + z < a + b + c
  OBVIOUS

LEMMA PartFalls ==
  ASSUME NEW a \in Nat, NEW b \in Nat, NEW c \in Nat, NEW y \in Nat, NEW z \in Nat,
         y < b, z <= c
  PROVE  a + y + z < a + b + c
  OBVIOUS

\* The steps of the run itself.
LEMMA RunPays ==
  ASSUME TypeOK, CallsInv, Flow, ~UNCHANGED vars, ~(Cancel \/ TimerFires \/ SourceChanges)
  PROVE  StepsLeft' < StepsLeft
<1>1. /\ Ahead \in Nat /\ CallsLeft \in Nat /\ CallsLeft' \in Nat
      /\ CallsLeft' <= MaxCalls * CallLength /\ MaxCalls * CallLength \in Nat
      /\ TurnSteps \in Nat /\ TurnsLeft \in Nat
      /\ TurnSteps = MaxCalls * CallLength + 3
  BY AheadIsCounted, CallsAreCounted, CallsAreCountedNext, TurnsAreCounted,
     PointsAreFinite DEF TurnSteps
<1>2. ASSUME UNCHANGED <<pc, rest>> PROVE CallsLeft' = CallsLeft
  BY <1>2 DEF CallsLeft, PointsLeft, CallPoints, CallLength, CallRank
<1>3. ASSUME UNCHANGED turns PROVE TurnsLeft' = TurnsLeft
  BY <1>3 DEF TurnsLeft, TurnSteps, CallLength
<1>4. /\ Disturbances' <= Disturbances
      /\ Disturbances \in Nat /\ Disturbances' \in Nat
  BY DEF Flow, Baseline, Gate, Throws, Request, Answer, Stop, RequestAborted, Answered,
     Ended, Verify, Conclude, Abort, Aborted, One, Disturbances, TypeOK
<1> DEFINE Less == Ahead' + CallsLeft' < Ahead + CallsLeft /\ Ahead' \in Nat
<1>5. Less
  <2>1. CASE Baseline
    BY <1>1, <1>2, <1>3, <2>1 DEF Baseline, Ahead, tools
  <2>2. CASE Gate
    BY <1>1, <1>2, <1>3, <2>2 DEF Gate, Ahead, tools
  <2>3. CASE Throws
    BY <1>1, <1>2, <1>3, <2>3 DEF Throws, Ahead, tools
  <2>4. CASE Request
    <3>1. CallsLeft' = CallsLeft /\ Ahead = TurnsLeft + 4
      BY <1>2, <2>4 DEF Request, tools, Ahead
    <3>2. CASE stage' = "ended"
      <4>1. Ahead' = 3
        BY <3>2 DEF Ahead
      <4>2. QED
        BY <1>1, <3>1, <4>1
    <3>3. CASE stage' = "model"
      <4>1. turns < MaxTurns /\ turns' = turns + 1
        BY <2>4, <3>3 DEF Request, Abort, Aborted, TypeOK
      <4>2. TurnsLeft' \in Nat /\ TurnsLeft = TurnsLeft' + TurnSteps
        BY <4>1, TurnsAreCounted
      <4>3. Ahead' = TurnsLeft' + TurnSteps + 3
        BY <3>3 DEF Ahead, TurnSteps, CallLength
      <4>4. QED
        BY <1>1, <3>1, <4>2, <4>3
    <3>4. QED
      BY <2>4, <3>2, <3>3 DEF Request
  <2>5. CASE Answer
    <3>1. CallsLeft = 0
      BY <2>5, NoCallLeft DEF Answer, CallsInv
    <3>2. Ahead = TurnsLeft + TurnSteps + 3 /\ Ahead' = TurnsLeft + 5
      BY <1>3, <2>5 DEF Answer, Ahead
    <3>3. QED
      BY <1>1, <3>1, <3>2
  <2>6. CASE Stop
    BY <1>1, <1>2, <1>3, <2>6 DEF Stop, Ahead, tools
  <2>7. CASE RequestAborted
    BY <1>1, <1>2, <1>3, <2>7 DEF RequestAborted, Ahead, tools
  <2>8. CASE Answered
    BY <1>1, <1>2, <1>3, <2>8 DEF Answered, Ahead, tools
  <2>9. CASE Ended
    BY <1>1, <1>2, <1>3, <2>9 DEF Ended, Ahead, tools
  <2>10. CASE Verify
    BY <1>1, <1>2, <1>3, <2>10 DEF Verify, Ahead, tools
  <2>11. CASE Conclude
    BY <1>1, <1>2, <1>3, <2>11 DEF Conclude, Ahead, tools
  <2>12. QED
    BY <2>1, <2>2, <2>3, <2>4, <2>5, <2>6, <2>7, <2>8, <2>9, <2>10, <2>11 DEF Flow
<1>6. Ahead' + CallsLeft' < Ahead + CallsLeft /\ Ahead' \in Nat
  BY <1>5
<1> HIDE DEF Less
<1>7. QED
  BY <1>1, <1>4, <1>6, SumFalls DEF StepsLeft

\* A call is not a step of the run itself.
LEMMA CallsOnlyPay ==
  ASSUME TypeOK, NEW k \in Calls, Call(k)
  PROVE  StepsLeft' < StepsLeft
<1>1. CallsLeft \in Nat /\ CallsLeft' \in Nat /\ CallsLeft' < CallsLeft
  BY CallStepPays, CallPays, CallsAreCounted, CallsAreCountedNext
<1>2. UNCHANGED <<stage, turns, intact>> /\ (Aborted => Aborted')
  BY DEF Call, Refuse, ReadProject, AskJEV, Submit, Scored, ScoringFails, Select,
     WriteTests, WriteNext, RunTests, ExecutionEnds, Recorded, Breaks, FinishReport,
     Abort, Aborted
<1>3. Ahead' = Ahead /\ Ahead \in Nat
  BY <1>2, AheadIsCounted DEF Ahead, TurnsLeft, TurnSteps, CallLength
<1>4. /\ Disturbances' <= Disturbances
      /\ Disturbances \in Nat /\ Disturbances' \in Nat
  BY <1>2 DEF One, Disturbances
<1>5. QED
  BY <1>1, <1>3, <1>4, PartFalls DEF StepsLeft

\* However often the model asks, whichever tools it calls and whether its calls
\* overlap, a run takes at most
\* MaxTurns * (MaxCalls * (2 * Cardinality(Cases) + 4) + 3) + 8 steps.
THEOREM RunStepsRunOut == Spec => StepsRunOut
<1>1. RunInv => TypeOK /\ CallsInv /\ StepsLeft \in Nat
  BY StepsAreCounted DEF RunInv
<1>2. RunInv' => (StepsLeft \in Nat)'
  BY <1>1, PTL
<1>3. ASSUME RunInv, [Next]_vars, ~UNCHANGED vars PROVE StepsLeft' < StepsLeft
  <2>1. TypeOK /\ CallsInv
    BY <1>1, <1>3
  <2>2. CASE Cancel \/ TimerFires \/ SourceChanges
    <3>1. Ahead \in Nat /\ CallsLeft \in Nat
      BY <2>1, AheadIsCounted, CallsAreCounted
    <3>2. QED
      BY <1>3, <2>1, <2>2, <3>1, WorldPays DEF StepsLeft
  <2>3. CASE Flow /\ ~(Cancel \/ TimerFires \/ SourceChanges)
    BY <1>3, <2>1, <2>3, RunPays
  <2>4. CASE \E k \in Calls : Call(k)
    BY <2>1, <2>4, CallsOnlyPay
  <2>5. QED
    BY <1>3, <2>2, <2>3, <2>4, AllSteps
<1>4. RunInv /\ RunInv' /\ [Next]_vars =>
        [/\ StepsLeft \in Nat
         /\ StepsLeft' \in Nat
         /\ StepsLeft' < StepsLeft]_vars
  BY <1>1, <1>2, <1>3
<1>5. QED
  BY <1>4, InvariantHolds, PTL DEF Spec, StepsRunOut
=============================================================================
