------------------------------ MODULE Campaign ------------------------------
(* A campaign (src/src/campaign.mjs, runCampaign): rounds of the run         *)
(* pipeline on one frozen snapshot, each followed by a replay of the round   *)
(* if it had failures, until a budget is used up, the rounds bring nothing   *)
(* new, or something goes wrong.  What it found goes to result.json and to   *)
(* coding-handoff.json, one after the other, again and again, and the        *)
(* process may be killed at any point.                                       *)
(*                                                                           *)
(* A run of the pipeline is one step here, with the outcomes RunTask has.    *)
(* A test is its fingerprint.                                                *)
EXTENDS Naturals, Sequences

CONSTANTS
  Tests,        \* fingerprints of the tests a round may execute
  Rounds,       \* limits.rounds
  MaxTurns,     \* limits.max_model_turns
  RunTurns,     \* task.budget.max_model_turns
  Stagnation    \* limits.stagnation_rounds

ASSUME CampaignAssumption ==
  /\ Rounds \in Nat \ {0}
  /\ MaxTurns \in Nat \ {0}
  /\ RunTurns \in Nat \ {0}
  /\ Stagnation \in Nat \ {0}

VARIABLES
  pc,           \* the await runCampaign is at
  after,        \* where it goes on when save() is done
  reason,       \* why the AbortController was aborted, or "none"
  intact,       \* the source still has the hashes of the snapshot
  rounds,       \* result.rounds
  findings,     \* result.findings
  turns,        \* result.statistics.model_turns
  stop,         \* result.stop_reason
  seen,         \* fingerprints of the tests of earlier rounds
  stagnant,     \* consecutive rounds without a new one
  status,       \* result.run_status
  assessment,   \* result.assessment
  resultFile,   \* result.json
  handoffFile,  \* coding-handoff.json
  tried,        \* history: rounds whose failures were replayed to the end
  tainted       \* history: something was executed on a changed source

files == <<resultFile, handoffFile>>
history == <<tried, tainted>>
verdict == <<stop, status, assessment>>
vars == <<pc, after, reason, intact, rounds, findings, turns, seen, stagnant,
          verdict, files, history>>

Points == {"snapshot", "head", "verify", "running", "returned", "covering",
           "reproducing", "reproduced", "counting", "counted", "lastVerify",
           "conclude", "saveResult", "saveHandoff", "report", "done", "dead"}
Reproductions == {"not_reproduced", "assertion_reproduced", "execution_error",
                  "incomplete"}
Round == [status : {"completed", "partial", "failed", "cancelled"},
          clean : BOOLEAN, executed : SUBSET Tests, fresh : BOOLEAN]
Finding == [round : Nat, test : Tests, confirmed : BOOLEAN,
            reproduction : Reproductions]
StopReasons == {"none", "cancelled", "wall_budget", "model_turn_budget",
                "round_incomplete", "reproduction_incomplete",
                "no_new_scenarios", "round_budget", "source_changed",
                "campaign_error"}
File == [status : {"absent", "running", "completed", "partial", "failed",
                   "cancelled"},
         rounds : Nat, findings : SUBSET Finding]

NoFile == [status |-> "absent", rounds |-> 0, findings |-> {}]
Result == [status |-> status, rounds |-> Len(rounds), findings |-> findings]

Aborted == reason # "none"
Last == rounds[Len(rounds)]

\* Mutant: a replay speaks of the findings of all rounds.
OfLastRound_OrAny == findings

OfLastRound == {f \in findings : f.round = Len(rounds)}

Init ==
  /\ pc = "snapshot"
  /\ after = "head"
  /\ reason \in {"none", "cancelled"}
  /\ intact = TRUE
  /\ rounds = <<>>
  /\ findings = {}
  /\ turns = 0
  /\ stop = "none"
  /\ seen = {}
  /\ stagnant = 0
  /\ status = "running"
  /\ assessment = "inconclusive"
  /\ resultFile = NoFile
  /\ handoffFile = NoFile
  /\ tried = {}
  /\ tainted = FALSE

----------------------------------------------------------------------------
(* save(), and the ways out of the loop.                                     *)

Save(next) == pc' = "saveResult" /\ after' = next

\* break, with a stop reason or without one.
Break(why) == pc' = "lastVerify" /\ stop' = why /\ UNCHANGED after

\* throw, and what the catch block makes of it.
Throw(why) == pc' = "conclude" /\ stop' = why /\ UNCHANGED after

\* Mutant: the handoff is left for the end.
SaveResult_HandoffLast ==
  /\ pc = "saveResult"
  /\ resultFile' = Result
  /\ pc' = IF after = "report" THEN "saveHandoff" ELSE after
  /\ UNCHANGED <<after, reason, intact, rounds, findings, turns, seen, stagnant,
                 verdict, handoffFile, history>>

SaveResult ==
  /\ pc = "saveResult"
  /\ resultFile' = Result
  /\ pc' = "saveHandoff"
  /\ UNCHANGED <<after, reason, intact, rounds, findings, turns, seen, stagnant,
                 verdict, handoffFile, history>>

SaveHandoff ==
  /\ pc = "saveHandoff"
  /\ handoffFile' = Result
  /\ pc' = after
  /\ UNCHANGED <<after, reason, intact, rounds, findings, turns, seen, stagnant,
                 verdict, resultFile, history>>

\* A read, a write, a run or a replay throws; past the catch block that ends
\* the process.
Fails ==
  /\ pc \notin {"head", "verify", "reproduced", "counting", "counted",
              "lastVerify", "conclude", "done", "dead"}
  /\ IF pc \in {"saveResult", "saveHandoff", "report"} /\ after = "report"
       THEN pc' = "dead" /\ UNCHANGED <<stop, after>>
       ELSE Throw("campaign_error")
  /\ UNCHANGED <<reason, intact, rounds, findings, turns, seen, stagnant, status,
                 assessment, files, history>>

----------------------------------------------------------------------------
(* The loop.                                                                 *)

Snapshot ==
  /\ pc = "snapshot"
  /\ Save("head")
  /\ UNCHANGED <<reason, intact, rounds, findings, turns, seen, stagnant,
                 verdict, files, history>>

\* The head of the loop.  The clock may say at any time that less than ten
\* seconds are left.
NextRound ==
  /\ pc = "head"
  /\ \/ /\ Len(rounds) = Rounds \/ Aborted
        /\ Break(stop)
     \/ /\ Len(rounds) < Rounds /\ ~Aborted
        /\ Break("wall_budget")
     \/ /\ Len(rounds) < Rounds /\ ~Aborted
        /\ IF turns = MaxTurns
             THEN Break("model_turn_budget")
             ELSE pc' = "verify" /\ UNCHANGED <<stop, after>>
  /\ UNCHANGED <<reason, intact, rounds, findings, turns, seen, stagnant, status,
                 assessment, files, history>>

\* verifyFixed, before the round ...  It takes a file it cannot read for a
\* changed one.
Verify ==
  /\ pc = "verify"
  /\ \/ intact /\ pc' = "running" /\ UNCHANGED <<stop, after>>
     \/ Throw("source_changed")
  /\ UNCHANGED <<reason, intact, rounds, findings, turns, seen, stagnant, status,
                 assessment, files, history>>

\* The outcome of runTask.  It is never cancelled by itself; when it
\* completes, each failed test has its analysis.
Outcomes == {"completed", "partial", "failed"} \cup (IF Aborted THEN {"cancelled"} ELSE {})

\* Mutant: the budget of the task alone.
TurnsLeft_TaskOnly == 0..RunTurns

\* The turns a run may take: its own budget, or what is left of the campaign's.
TurnsLeft == {n \in 0..RunTurns : turns + n <= MaxTurns}

\* The record of a round, and the findings it adds.
Record(outcome, executed, failed) ==
  [status |-> outcome,
   clean |-> outcome = "completed" /\ executed # {} /\ failed = {},
   executed |-> executed, fresh |-> FALSE]
Found(failed, confirmed) ==
  {[round |-> Len(rounds) + 1, test |-> t, confirmed |-> t \in confirmed,
    reproduction |-> "not_reproduced"] : t \in failed}

RunReturns ==
  /\ pc = "running"
  /\ \E outcome \in Outcomes, n \in TurnsLeft,
        executed, failed, confirmed \in SUBSET Tests :
       /\ confirmed \subseteq failed
       /\ failed \subseteq executed
       /\ rounds' = Append(rounds, Record(outcome, executed, failed))
       /\ findings' = findings \cup Found(failed, confirmed)
       /\ turns' = turns + n
  /\ tainted' = (tainted \/ ~intact)
  /\ Save("returned")
  /\ UNCHANGED <<reason, intact, seen, stagnant, verdict, files, tried>>

\* ... and after it; only then its status counts.
Returned ==
  /\ pc = "returned"
  /\ \/ Throw("source_changed")
     \/ intact /\ Last.status # "completed" /\ Break("round_incomplete")
     \/ /\ intact
        /\ Last.status = "completed"
        /\ pc' = "covering"
        /\ UNCHANGED <<stop, after>>
  /\ UNCHANGED <<reason, intact, rounds, findings, turns, seen, stagnant, status,
                 assessment, files, history>>

\* The fingerprints of what was executed.
Cover ==
  /\ pc = "covering"
  /\ seen' = seen \cup Last.executed
  /\ rounds' = [rounds EXCEPT ![Len(rounds)].fresh = ~(Last.executed \subseteq seen)]
  /\ pc' = IF OfLastRound # {} /\ ~Aborted THEN "reproducing" ELSE "counting"
  /\ UNCHANGED <<after, reason, intact, findings, turns, stagnant, verdict, files,
                 history>>

\* The replay of the round: cancelled, out of time, or what became of each
\* finding.
Reproduce ==
  /\ pc = "reproducing"
  /\ \/ /\ findings' = (findings \ OfLastRound) \cup
             {[f EXCEPT !.reproduction = "incomplete"] : f \in OfLastRound}
        /\ UNCHANGED tried
     \/ /\ \E again \in [OfLastRound -> Reproductions \ {"incomplete"}] :
             findings' = (findings \ OfLastRound) \cup
               {[f EXCEPT !.reproduction = again[f]] : f \in OfLastRound}
        /\ tried' = tried \cup {Len(rounds)}
  /\ tainted' = (tainted \/ ~intact)
  /\ Save("reproduced")
  /\ UNCHANGED <<reason, intact, rounds, turns, seen, stagnant, verdict, files>>

Reproduced ==
  /\ pc = "reproduced"
  /\ IF \E f \in OfLastRound : f.reproduction = "incomplete"
       THEN Break("reproduction_incomplete")
       ELSE pc' = "counting" /\ UNCHANGED <<stop, after>>
  /\ UNCHANGED <<reason, intact, rounds, findings, turns, seen, stagnant, status,
                 assessment, files, history>>

\* Mutant: the counter is never reset.
Count_NeverReset ==
  /\ pc = "counting"
  /\ stagnant' = IF Last.fresh THEN stagnant ELSE stagnant + 1
  /\ Save("counted")
  /\ UNCHANGED <<reason, intact, rounds, findings, turns, seen, verdict, files,
                 history>>

Count ==
  /\ pc = "counting"
  /\ stagnant' = IF Last.fresh THEN 0 ELSE stagnant + 1
  /\ Save("counted")
  /\ UNCHANGED <<reason, intact, rounds, findings, turns, seen, verdict, files,
                 history>>

Counted ==
  /\ pc = "counted"
  /\ IF stagnant >= Stagnation
       THEN Break("no_new_scenarios")
       ELSE pc' = "head" /\ UNCHANGED <<stop, after>>
  /\ UNCHANGED <<reason, intact, rounds, findings, turns, seen, stagnant, status,
                 assessment, files, history>>

----------------------------------------------------------------------------
(* The end.                                                                  *)

LastVerify ==
  /\ pc = "lastVerify"
  /\ \/ Throw("source_changed")
     \/ intact /\ Throw(IF stop = "none" THEN "round_budget" ELSE stop)
  /\ UNCHANGED <<reason, intact, rounds, findings, turns, seen, stagnant, status,
                 assessment, files, history>>

\* Mutant: the loop's own reason is kept.
FinalReason_Own == stop

\* An abort replaces whatever the reason was, and the status follows from it.
FinalReason == IF Aborted THEN reason ELSE stop

FinalStatus(why) ==
  CASE why = "cancelled" -> "cancelled"
    [] why \in {"round_budget", "no_new_scenarios"} -> "completed"
    [] OTHER -> IF rounds # <<>> THEN "partial" ELSE "failed"

\* Mutant: the last round speaks for all.
FinalAssessment_LastRound(s) ==
  IF \E f \in findings : f.confirmed /\ f.reproduction = "assertion_reproduced"
    THEN "confirmed_findings"
  ELSE IF s = "completed" /\ rounds # <<>> /\ Last.clean
    THEN "no_confirmed_findings"
  ELSE "inconclusive"

FinalAssessment(s) ==
  IF \E f \in findings : f.confirmed /\ f.reproduction = "assertion_reproduced"
    THEN "confirmed_findings"
  ELSE IF /\ s = "completed"
          /\ rounds # <<>>
          /\ \A i \in 1..Len(rounds) : rounds[i].clean
    THEN "no_confirmed_findings"
  ELSE "inconclusive"

Conclude ==
  /\ pc = "conclude"
  /\ stop' = FinalReason
  /\ status' = FinalStatus(FinalReason)
  /\ assessment' = FinalAssessment(FinalStatus(FinalReason))
  /\ Save("report")
  /\ UNCHANGED <<reason, intact, rounds, findings, turns, seen, stagnant, files,
                 history>>

Report ==
  /\ pc = "report"
  /\ pc' = "done"
  /\ UNCHANGED <<after, reason, intact, rounds, findings, turns, seen, stagnant,
                 verdict, files, history>>

----------------------------------------------------------------------------
(* The world around the campaign.                                            *)

\* Until the finally block takes the listener and the timer down.
Listening ==
  /\ pc \notin {"conclude", "report", "done", "dead"}
  /\ after # "report"

Abort(why) ==
  /\ Listening
  /\ ~Aborted
  /\ reason' = why
  /\ UNCHANGED <<pc, after, intact, rounds, findings, turns, seen, stagnant,
                 verdict, files, history>>

SourceChanges ==
  /\ intact
  /\ intact' = FALSE
  /\ UNCHANGED <<pc, after, reason, rounds, findings, turns, seen, stagnant,
                 verdict, files, history>>

\* The process is killed.
Dies ==
  /\ pc \notin {"done", "dead"}
  /\ pc' = "dead"
  /\ UNCHANGED <<after, reason, intact, rounds, findings, turns, seen, stagnant,
                 verdict, files, history>>

Next ==
  \/ Snapshot \/ NextRound \/ Verify \/ RunReturns \/ Returned \/ Cover \/ Reproduce
  \/ Reproduced \/ Count \/ Counted \/ LastVerify \/ Conclude \/ Report
  \/ SaveResult \/ SaveHandoff \/ Fails
  \/ \E why \in {"cancelled", "wall_budget"} : Abort(why)
  \/ SourceChanges \/ Dies

Spec == Init /\ [][Next]_vars

----------------------------------------------------------------------------
(* Properties.                                                               *)

\* Every variable keeps to its type, and the model turns of all rounds
\* together to the budget of the campaign.
TypeOK ==
  /\ pc \in Points
  /\ after \in Points
  /\ reason \in {"none", "cancelled", "wall_budget"}
  /\ intact \in BOOLEAN
  /\ rounds \in Seq(Round)
  /\ Len(rounds) <= Rounds
  /\ findings \subseteq Finding
  /\ turns \in 0..MaxTurns
  /\ stop \in StopReasons
  /\ seen \subseteq Tests
  /\ stagnant \in Nat
  /\ status \in {"running", "completed", "partial", "failed", "cancelled"}
  /\ assessment \in {"confirmed_findings", "no_confirmed_findings",
                     "inconclusive"}
  /\ resultFile \in File
  /\ handoffFile \in File
  /\ tried \subseteq Nat
  /\ tainted \in BOOLEAN

\* A campaign is reported as completed only if each of its rounds was, the
\* failures of each were replayed to the end, and nothing was ever executed
\* on a changed source - although an abort makes it skip the replay silently,
\* and the loop goes on to its head after that.
CompletedIsWhole ==
  status = "completed" =>
    /\ \A i \in 1..Len(rounds) : rounds[i].status = "completed"
    /\ \A f \in findings : f.round \in tried
    /\ ~tainted

\* Nobody is told that there are no findings when there are.
CleanIsClean ==
  assessment = "no_confirmed_findings" =>
    /\ findings = {}
    /\ \A i \in 1..Len(rounds) : /\ rounds[i].status = "completed"
                                  /\ rounds[i].executed # {}

Names(fs) == {<<f.round, f.test>> : f \in fs}

\* Whatever a round found is in both files before anything else is done, so
\* that a crash cannot erase it; and the handoff, which is written second,
\* never hands over what the result does not know.
EvidenceIsSaved ==
  /\ pc \notin {"snapshot", "saveResult", "saveHandoff", "conclude", "dead"} =>
       /\ Names(findings) \subseteq Names(resultFile.findings)
       /\ Names(findings) \subseteq Names(handoffFile.findings)
       /\ resultFile.rounds = Len(rounds)
       /\ handoffFile.rounds = Len(rounds)
  /\ Names(handoffFile.findings) \subseteq Names(resultFile.findings)

\* No write takes a finding out of a file, or back what a replay has shown of
\* a finding of an earlier round.
NothingIsForgotten ==
  [][/\ Names(resultFile.findings) \subseteq Names(resultFile'.findings)
     /\ Names(handoffFile.findings) \subseteq Names(handoffFile'.findings)
     /\ \A f \in resultFile.findings :
          f.reproduction # "not_reproduced" => f \in resultFile'.findings]_vars

\* A campaign that stops for want of new scenarios has had as many rounds in
\* a row without one as the limit says.
StagnationIsReal ==
  stop = "no_new_scenarios" =>
    /\ Len(rounds) >= Stagnation
    /\ \A i \in Len(rounds) - Stagnation + 1 .. Len(rounds) :
         rounds[i].executed \subseteq UNION {rounds[j].executed : j \in 1..i - 1}
============================================================================
