--------------------------- MODULE CampaignProofs ---------------------------
(* Theorems about Campaign, for any number of tests, rounds and turns.       *)
EXTENDS Campaign, TLAPS

USE CampaignAssumption

Saving == pc \in {"saveResult", "saveHandoff"}

\* Where runCampaign is, or is going on when save() is done.
Point == IF Saving THEN after ELSE pc

\* The points of the loop and before it.
Loop == {"snapshot", "head", "verify", "running", "returned", "covering",
         "reproducing", "reproduced", "counting", "counted"}

\* What the verdict was is settled exactly from conclude on.
PointInv ==
  /\ after \in {"head", "returned", "reproduced", "counted", "report"}
  /\ pc \in {"report", "done"} => after = "report"
  /\ after = "report" => Saving \/ pc \in {"report", "done", "dead"}
  /\ status = "running" <=> after # "report"
  /\ assessment # "inconclusive" => after = "report"
  /\ Point \in Loop => stop = "none"
  /\ Point \in {"verify", "running"} => Len(rounds) < Rounds
  /\ Point \in {"returned", "covering", "reproducing", "reproduced", "counting"} =>
       Len(rounds) > 0
  /\ Point = "snapshot" => rounds = <<>>
  /\ pc = "verify" => turns <= MaxTurns

TypeInv == TypeOK /\ PointInv

-----------------------------------------------------------------------------
(* Type correctness.                                                         *)

\* The campaign starts well typed, at the snapshot.
LEMMA InitialTypes == Init => TypeInv
<1> SUFFICES ASSUME Init PROVE TypeInv OBVIOUS
<1>1. TypeOK
  <2>1. NoFile \in File
    BY DEF NoFile, File
  <2>2. rounds \in Seq(Round) /\ Len(rounds) <= Rounds /\ turns \in 0..MaxTurns
    BY DEF Init
  <2>3. QED
    BY <2>1, <2>2 DEF Init, TypeOK, Points, StopReasons
<1>2. PointInv
  BY DEF Init, PointInv, Point, Saving, Loop
<1>3. QED
  BY <1>1, <1>2 DEF TypeInv

\* Types and points survive what happens around the campaign, and save().
LEMMA OuterTypes == ASSUME TypeInv,
                           \/ SaveResult \/ SaveHandoff \/ Fails \/ Report
                           \/ \E why \in {"cancelled", "wall_budget"} : Abort(why)
                           \/ SourceChanges \/ Dies \/ UNCHANGED vars
                    PROVE  TypeInv'
<1> USE DEF TypeInv, TypeOK, PointInv, Point, Saving, Loop, Points
<1> USE DEF vars, verdict, files, history
<1>1. Result \in File
  BY DEF Result, File
<1>2. CASE SaveResult BY <1>1, <1>2 DEF SaveResult
<1>3. CASE SaveHandoff BY <1>1, <1>3 DEF SaveHandoff
<1>4. CASE Fails BY <1>4 DEF Fails, Throw, StopReasons
<1>5. CASE Report BY <1>5 DEF Report
<1>6. CASE \E why \in {"cancelled", "wall_budget"} : Abort(why)
  BY <1>6 DEF Abort, Listening
<1>7. CASE SourceChanges
  <2>1. intact' \in BOOLEAN
    BY <1>7 DEF SourceChanges
  <2>2. QED
    BY <1>7, <2>1 DEF SourceChanges
<1>8. CASE Dies BY <1>8 DEF Dies
<1>9. CASE UNCHANGED vars BY <1>9
<1>10. QED
  BY <1>2, <1>3, <1>4, <1>5, <1>6, <1>7, <1>8, <1>9

\* They survive the steps of the loop that neither add a round nor change one.
LEMMA LoopTypes == ASSUME TypeInv,
                          \/ Snapshot \/ NextRound \/ Verify \/ Returned \/ Reproduced
                          \/ Count \/ Counted \/ LastVerify
                   PROVE  TypeInv'
<1> USE DEF TypeInv, TypeOK, PointInv, Point, Saving, Loop, Points, StopReasons
<1> USE DEF vars, verdict, files, history, Save, Break, Throw
<1>1. CASE Snapshot BY <1>1 DEF Snapshot
<1>2. CASE NextRound BY <1>2 DEF NextRound
<1>3. CASE Verify BY <1>3 DEF Verify
<1>4. CASE Returned BY <1>4 DEF Returned
<1>5. CASE Reproduced BY <1>5 DEF Reproduced
<1>6. CASE Count BY <1>6 DEF Count
<1>7. CASE Counted BY <1>7 DEF Counted
<1>8. CASE LastVerify BY <1>8 DEF LastVerify
<1>9. QED
  BY <1>1, <1>2, <1>3, <1>4, <1>5, <1>6, <1>7, <1>8

\* What a replay makes of the findings of the last round are findings again.
LEMMA ReproduceTypes == ASSUME TypeInv, Reproduce PROVE findings' \subseteq Finding
<1>1. OfLastRound \subseteq Finding /\ findings \subseteq Finding
  BY DEF TypeInv, TypeOK, OfLastRound
<1>2. \A f \in OfLastRound, r \in Reproductions :
        [f EXCEPT !.reproduction = r] \in Finding
  BY <1>1 DEF Finding
<1>3. "incomplete" \in Reproductions
  BY DEF Reproductions
<1>4. \/ findings' = (findings \ OfLastRound) \cup
            {[f EXCEPT !.reproduction = "incomplete"] : f \in OfLastRound}
      \/ \E again \in [OfLastRound -> Reproductions \ {"incomplete"}] :
           findings' = (findings \ OfLastRound) \cup
             {[f EXCEPT !.reproduction = again[f]] : f \in OfLastRound}
  BY DEF Reproduce
<1>5. QED
  BY <1>1, <1>2, <1>3, <1>4

\* A replay keeps the findings of earlier rounds, and what the others are of.
LEMMA SameRounds ==
  ASSUME TypeInv, Reproduce
  PROVE  /\ findings \ OfLastRound \subseteq findings'
         /\ \A f \in findings' : \/ f \in findings \ OfLastRound
                                 \/ \E g \in OfLastRound : f.round = g.round /\ f.test = g.test
         /\ \A g \in OfLastRound : \E f \in findings' : f.round = g.round /\ f.test = g.test
<1>1. OfLastRound \subseteq Finding
  BY DEF TypeInv, TypeOK, OfLastRound
<1>2. \E again \in [OfLastRound -> Reproductions] :
        findings' = (findings \ OfLastRound) \cup
          {[f EXCEPT !.reproduction = again[f]] : f \in OfLastRound}
  <2>1. CASE findings' = (findings \ OfLastRound) \cup
               {[f EXCEPT !.reproduction = "incomplete"] : f \in OfLastRound}
    <3>1. [f \in OfLastRound |-> "incomplete"] \in [OfLastRound -> Reproductions]
      BY DEF Reproductions
    <3>2. QED
      BY <2>1, <3>1
  <2>2. CASE \E again \in [OfLastRound -> Reproductions \ {"incomplete"}] :
               findings' = (findings \ OfLastRound) \cup
                 {[f EXCEPT !.reproduction = again[f]] : f \in OfLastRound}
    BY <2>2
  <2>3. QED
    BY <2>1, <2>2 DEF Reproduce
<1>3. PICK again \in [OfLastRound -> Reproductions] :
        findings' = (findings \ OfLastRound) \cup
          {[f EXCEPT !.reproduction = again[f]] : f \in OfLastRound}
  BY <1>2
<1>4. \A g \in OfLastRound : /\ [g EXCEPT !.reproduction = again[g]].round = g.round
                             /\ [g EXCEPT !.reproduction = again[g]].test = g.test
  BY <1>1 DEF Finding
<1>5. QED
  BY <1>3, <1>4

\* They survive a round, the reading of its tests, its replay, and the verdict.
LEMMA RoundTypes == ASSUME TypeInv, RunReturns \/ Cover \/ Reproduce \/ Conclude
                    PROVE  TypeInv'
<1> USE DEF TypeInv, TypeOK, PointInv, Point, Saving, Loop, Points
<1> USE DEF vars, verdict, files, history, Save
<1>1. CASE RunReturns
  <2>1. PICK outcome \in Outcomes, n \in TurnsLeft,
             executed \in SUBSET Tests, failed \in SUBSET Tests,
             confirmed \in SUBSET Tests :
          /\ rounds' = Append(rounds, Record(outcome, executed, failed))
          /\ findings' = findings \cup Found(failed, confirmed)
          /\ turns' = turns + n
    BY <1>1, Zenon DEF RunReturns
  <2>2. outcome \in {"completed", "partial", "failed", "cancelled"}
    BY DEF Outcomes
  <2>3. Record(outcome, executed, failed) \in Round
    BY <2>2 DEF Record, Round
  <2>4. rounds' \in Seq(Round) /\ Len(rounds') = Len(rounds) + 1
    BY <2>1, <2>3
  <2>5. findings' \subseteq Finding
    <3>1. ASSUME NEW t \in failed
          PROVE  [round |-> Len(rounds) + 1, test |-> t, confirmed |-> t \in confirmed,
                  reproduction |-> "not_reproduced"] \in Finding
      BY DEF Finding, Reproductions
    <3>2. QED
      BY <2>1, <3>1 DEF Found
  <2>6. turns' \in 0..MaxTurns
    BY <2>1 DEF TurnsLeft
  <2>7. tainted' \in BOOLEAN /\ pc = "running" /\ Len(rounds) < Rounds
    BY <1>1 DEF RunReturns
  <2>8. QED
    BY <1>1, <2>4, <2>5, <2>6, <2>7 DEF RunReturns
<1>2. CASE Cover
  <2>1. Len(rounds) > 0 /\ Last \in Round
    BY <1>2 DEF Cover, Last
  <2>2. seen' \subseteq Tests
    BY <1>2, <2>1 DEF Cover, Round
  <2>3. rounds' \in Seq(Round) /\ Len(rounds') = Len(rounds)
    <3>1. rounds' = [rounds EXCEPT ![Len(rounds)] =
            [@ EXCEPT !.fresh = ~(Last.executed \subseteq seen)]]
      BY <1>2 DEF Cover
    <3>2. [rounds[Len(rounds)] EXCEPT !.fresh = ~(Last.executed \subseteq seen)] \in Round
      BY <2>1 DEF Round, Last
    <3>3. QED
      BY <2>1, <3>1, <3>2
  <2>4. QED
    BY <1>2, <2>1, <2>2, <2>3 DEF Cover
<1>3. CASE Reproduce
  <2>1. findings' \subseteq Finding
    BY <1>3, ReproduceTypes
  <2>2. tried' \subseteq Nat
    BY <1>3 DEF Reproduce
  <2>3. QED
    BY <1>3, <2>1, <2>2 DEF Reproduce
<1>4. CASE Conclude
  BY <1>4 DEF Conclude, FinalReason, FinalStatus, FinalAssessment, Aborted, StopReasons
<1>5. QED
  BY <1>1, <1>2, <1>3, <1>4

\* No step leaves the types.
LEMMA TypesKept == TypeInv /\ [Next]_vars => TypeInv'
  BY OuterTypes, LoopTypes, RoundTypes DEF Next

\* Every variable keeps to its type, and the turns of all rounds together to
\* the budget of the campaign.
THEOREM TypeCorrect == Spec => []TypeOK
<1>1. TypeInv => TypeOK
  BY DEF TypeInv
<1>2. Spec => []TypeInv
  BY InitialTypes, TypesKept, PTL DEF Spec
<1>3. QED
  BY <1>1, <1>2, PTL

-----------------------------------------------------------------------------
(* The steps by what they touch.                                             *)

\* Everything but a round, the reading of its tests and its replay.
Quiet ==
  \/ SaveResult \/ SaveHandoff \/ Fails \/ Report
  \/ \E why \in {"cancelled", "wall_budget"} : Abort(why)
  \/ SourceChanges \/ Dies \/ UNCHANGED vars
  \/ Snapshot \/ NextRound \/ Verify \/ Returned \/ Reproduced
  \/ Count \/ Counted \/ LastVerify \/ Conclude

\* Those leave the rounds and their findings alone.
LEMMA QuietSteps == Quiet => UNCHANGED <<rounds, findings, seen, history>>
  BY DEF Quiet, SaveResult, SaveHandoff, Fails, Report, Abort, SourceChanges, Dies,
     Snapshot, NextRound, Verify, Returned, Reproduced, Count, Counted, LastVerify,
     Conclude, vars, history

LEMMA AllSteps == [Next]_vars => Quiet \/ RunReturns \/ Cover \/ Reproduce
  BY DEF Next, Quiet

\* The verdict is given once.
LEMMA VerdictStays == TypeInv /\ [Next]_vars /\ ~Conclude => UNCHANGED <<status, assessment>>
  BY DEF Next, SaveResult, SaveHandoff, Fails, Report, Abort, SourceChanges, Dies,
     Snapshot, NextRound, Verify, Returned, Reproduced, Count, Counted, LastVerify,
     RunReturns, Cover, Reproduce, vars, verdict

\* After it, no round is run, read or replayed.
LEMMA NoRoundAfterTheVerdict ==
  TypeInv /\ (RunReturns \/ Cover \/ Reproduce) => after # "report"
  BY DEF TypeInv, PointInv, Saving, RunReturns, Cover, Reproduce

\* A round is added, with findings of its own, ...
LEMMA RoundAdded ==
  ASSUME TypeInv, RunReturns
  PROVE  \E r \in Round, new \in SUBSET Finding :
           /\ Len(rounds') = Len(rounds) + 1
           /\ \A i \in 1..Len(rounds) : rounds'[i] = rounds[i]
           /\ rounds'[Len(rounds) + 1] = r
           /\ findings' = findings \cup new
           /\ \A f \in new : /\ f.round = Len(rounds) + 1
                              /\ f.reproduction = "not_reproduced"
           /\ r.clean => r.status = "completed" /\ r.executed # {} /\ new = {}
<1>1. PICK outcome \in Outcomes, n \in TurnsLeft,
           executed \in SUBSET Tests, failed \in SUBSET Tests,
           confirmed \in SUBSET Tests :
        /\ rounds' = Append(rounds, Record(outcome, executed, failed))
        /\ findings' = findings \cup Found(failed, confirmed)
  BY Zenon DEF RunReturns
<1> DEFINE r == Record(outcome, executed, failed)
           new == Found(failed, confirmed)
<1>2. r \in Round
  BY DEF Record, Round, Outcomes
<1>3. new \in SUBSET Finding
  <2>1. Len(rounds) + 1 \in Nat
    BY DEF TypeInv, TypeOK
  <2>2. ASSUME NEW t \in Tests
        PROVE  [round |-> Len(rounds) + 1, test |-> t, confirmed |-> t \in confirmed,
                reproduction |-> "not_reproduced"] \in Finding
    BY <2>1 DEF Finding, Reproductions
  <2>3. QED
    BY <2>2 DEF Found
<1>4. \A f \in new : /\ f.round = Len(rounds) + 1
                     /\ f.reproduction = "not_reproduced"
  BY DEF Found
<1>5. r.clean => r.status = "completed" /\ r.executed # {} /\ new = {}
  BY DEF Record, Found
<1>6. /\ rounds' = Append(rounds, r)
      /\ findings' = findings \cup new
  BY <1>1
<1> HIDE DEF r, new
<1>7. /\ Len(rounds') = Len(rounds) + 1
      /\ \A i \in 1..Len(rounds) : rounds'[i] = rounds[i]
      /\ rounds'[Len(rounds) + 1] = r
  BY <1>2, <1>6 DEF TypeInv, TypeOK
<1>8. QED
  BY <1>2, <1>3, <1>4, <1>5, <1>6, <1>7

\* ... and to read its tests changes no more of it than `fresh`.
LEMMA RoundRead ==
  ASSUME TypeInv, Cover
  PROVE  /\ Len(rounds') = Len(rounds)
         /\ \A i \in 1..Len(rounds) : /\ rounds'[i].clean = rounds[i].clean
                                      /\ rounds'[i].status = rounds[i].status
                                      /\ rounds'[i].executed = rounds[i].executed
                                      /\ i # Len(rounds) => rounds'[i] = rounds[i]
         /\ rounds'[Len(rounds)].fresh = ~(Last.executed \subseteq seen)
<1>1. rounds \in Seq(Round) /\ Len(rounds) > 0
  BY DEF TypeInv, TypeOK, PointInv, Point, Saving, Cover
<1>2. rounds' = [rounds EXCEPT ![Len(rounds)] =
        [@ EXCEPT !.fresh = ~(Last.executed \subseteq seen)]]
  BY DEF Cover
<1>3. Len(rounds') = Len(rounds)
  BY <1>1, <1>2
<1>4. ASSUME NEW i \in 1..Len(rounds)
      PROVE  /\ rounds'[i].clean = rounds[i].clean
             /\ rounds'[i].status = rounds[i].status
             /\ rounds'[i].executed = rounds[i].executed
             /\ i # Len(rounds) => rounds'[i] = rounds[i]
  <2>1. rounds[i] \in Round
    BY <1>1
  <2>2. \/ rounds'[i] = rounds[i]
        \/ /\ i = Len(rounds)
           /\ rounds'[i] = [rounds[i] EXCEPT !.fresh = ~(Last.executed \subseteq seen)]
    BY <1>1, <1>2
  <2>3. QED
    BY <2>1, <2>2 DEF Round
<1>5. rounds'[Len(rounds)].fresh = ~(Last.executed \subseteq seen)
  <2>1. rounds[Len(rounds)] \in Round
    BY <1>1
  <2>2. rounds'[Len(rounds)] =
          [rounds[Len(rounds)] EXCEPT !.fresh = ~(Last.executed \subseteq seen)]
    BY <1>1, <1>2
  <2>3. QED
    BY <2>1, <2>2 DEF Round
<1>6. QED
  BY <1>3, <1>4, <1>5

-----------------------------------------------------------------------------
(* No findings are denied.                                                   *)

\* A finding belongs to a round, and to none that is clean.
CleanInv ==
  /\ \A f \in findings : f.round \in 1..Len(rounds)
  /\ \A i \in 1..Len(rounds) :
       rounds[i].clean => /\ rounds[i].status = "completed"
                          /\ rounds[i].executed # {}
                          /\ \A f \in findings : f.round # i
  /\ CleanIsClean

LEMMA CleanKept == TypeInv /\ CleanInv /\ [Next]_vars => CleanInv'
<1> SUFFICES ASSUME TypeInv, CleanInv, [Next]_vars PROVE CleanInv'
  OBVIOUS
<1> USE DEF CleanInv
<1>1. rounds \in Seq(Round) /\ findings \subseteq Finding /\ Len(rounds) \in Nat
  BY DEF TypeInv, TypeOK
<1>2. CASE Quiet
  <2>1. rounds' = rounds /\ findings' = findings
    BY <1>2, QuietSteps
  <2>2. CleanIsClean'
    <3>1. CASE Conclude
      <4>1. assessment' = FinalAssessment(FinalStatus(FinalReason))
        BY <3>1 DEF Conclude
      <4>2. assessment' = "no_confirmed_findings" =>
              rounds # <<>> /\ \A i \in 1..Len(rounds) : rounds[i].clean
        BY <4>1 DEF FinalAssessment
      <4>3. assessment' = "no_confirmed_findings" => findings = {}
        BY <1>1, <4>2
      <4>4. QED
        BY <1>1, <2>1, <4>2, <4>3 DEF CleanIsClean
    <3>2. CASE ~Conclude
      BY <3>2, <2>1, VerdictStays DEF CleanIsClean
    <3>3. QED
      BY <3>1, <3>2
  <2>3. QED
    BY <2>1, <2>2
<1>3. CASE RunReturns
  <2>1. PICK r \in Round, new \in SUBSET Finding :
          /\ Len(rounds') = Len(rounds) + 1
          /\ \A i \in 1..Len(rounds) : rounds'[i] = rounds[i]
          /\ rounds'[Len(rounds) + 1] = r
          /\ findings' = findings \cup new
          /\ \A f \in new : f.round = Len(rounds) + 1
          /\ r.clean => r.status = "completed" /\ r.executed # {} /\ new = {}
    BY <1>3, RoundAdded
  <2>2. \A f \in findings' : f.round \in 1..Len(rounds')
    BY <1>1, <2>1
  <2>3. ASSUME NEW i \in 1..Len(rounds'), rounds'[i].clean
        PROVE  /\ rounds'[i].status = "completed"
               /\ rounds'[i].executed # {}
               /\ \A f \in findings' : f.round # i
    BY <1>1, <2>1, <2>3
  <2>4. CleanIsClean'
    BY <1>3, NoRoundAfterTheVerdict
       DEF CleanIsClean, TypeInv, PointInv, RunReturns, verdict
  <2>5. QED
    BY <2>2, <2>3, <2>4
<1>4. CASE Cover
  <2>1. findings' = findings
    BY <1>4 DEF Cover
  <2>2. CleanIsClean'
    BY <1>4, NoRoundAfterTheVerdict
       DEF CleanIsClean, TypeInv, PointInv, Cover, verdict
  <2>3. QED
    BY <1>1, <1>4, <2>1, <2>2, RoundRead
<1>5. CASE Reproduce
  <2>1. rounds' = rounds
    BY <1>5 DEF Reproduce
  <2>2. \A f \in findings' : \E g \in findings : f.round = g.round
    BY <1>5, SameRounds DEF OfLastRound
  <2>3. CleanIsClean'
    BY <1>5, NoRoundAfterTheVerdict
       DEF CleanIsClean, TypeInv, PointInv, Reproduce, verdict
  <2>4. QED
    BY <1>1, <2>1, <2>2, <2>3
<1>6. QED
  BY <1>2, <1>3, <1>4, <1>5, AllSteps

\* Nobody is told that there are no findings when there are.
THEOREM CleanReportsAreClean == Spec => []CleanIsClean
<1>1. Init => CleanInv
  BY DEF Init, CleanInv, CleanIsClean
<1>2. CleanInv => CleanIsClean
  BY DEF CleanInv
<1>3. Spec => [](TypeInv /\ CleanInv)
  BY <1>1, InitialTypes, TypesKept, CleanKept, PTL DEF Spec
<1>4. QED
  BY <1>2, <1>3, PTL

-----------------------------------------------------------------------------
(* What a completed campaign has behind it.                                  *)

\* The stop reasons that an untroubled campaign has, if any yet.
Untroubled == stop \in {"none", "no_new_scenarios", "round_budget"}
Completed(n) == \A i \in 1..n : rounds[i].status = "completed"
Tried(n) == Aborted \/ \A f \in findings : f.round <= n => f.round \in tried

\* Which rounds are known to be completed and replayed, by the point; those
\* that an abort let pass are found out by the reason.
WholeInv ==
  /\ \A f \in findings : f.round \in 1..Len(rounds)
  /\ tainted => ~intact
  /\ Point \in Loop \ {"returned"} => Completed(Len(rounds))
  /\ Point = "returned" => Completed(Len(rounds) - 1)
  /\ Point \in Loop \ {"returned", "covering", "reproducing", "reproduced"} =>
       Tried(Len(rounds))
  /\ Point \in {"returned", "covering", "reproducing", "reproduced"} =>
       Tried(Len(rounds) - 1)
  /\ Point = "reproducing" => OfLastRound # {}
  /\ Point = "reproduced" =>
       Len(rounds) \in tried \/ \E f \in OfLastRound : f.reproduction = "incomplete"
  /\ Point \in {"lastVerify", "conclude"} /\ Untroubled =>
       Completed(Len(rounds)) /\ Tried(Len(rounds))
  /\ pc = "conclude" /\ Untroubled => stop # "none" /\ ~tainted
  /\ CompletedIsWhole

\* save(), and what happens around the campaign.
LEMMA OuterWhole == ASSUME TypeInv, WholeInv,
                           \/ SaveResult \/ SaveHandoff \/ Fails \/ Report
                           \/ \E why \in {"cancelled", "wall_budget"} : Abort(why)
                           \/ SourceChanges \/ Dies \/ UNCHANGED vars
                    PROVE  WholeInv'
<1> USE DEF WholeInv, Point, Saving, Loop, Untroubled, Completed, Tried, Aborted
<1> USE DEF OfLastRound, CompletedIsWhole, vars, verdict, files, history
<1>1. CASE SaveResult BY <1>1 DEF SaveResult, TypeInv, PointInv
<1>2. CASE SaveHandoff BY <1>2 DEF SaveHandoff, TypeInv, PointInv
<1>3. CASE Fails BY <1>3 DEF Fails, Throw
<1>4. CASE Report BY <1>4 DEF Report
<1>5. CASE \E why \in {"cancelled", "wall_budget"} : Abort(why)
  BY <1>5 DEF Abort, Listening
<1>6. CASE SourceChanges BY <1>6 DEF SourceChanges
<1>7. CASE Dies BY <1>7 DEF Dies
<1>8. CASE UNCHANGED vars BY <1>8
<1>9. QED
  BY <1>1, <1>2, <1>3, <1>4, <1>5, <1>6, <1>7, <1>8

\* The loop, but for the steps that change rounds or findings.
LEMMA LoopWhole == ASSUME TypeInv, WholeInv,
                          \/ Snapshot \/ NextRound \/ Verify \/ Returned \/ Reproduced
                          \/ Count \/ Counted \/ LastVerify
                   PROVE  WholeInv'
<1> USE DEF WholeInv, Point, Saving, Loop, Untroubled, Completed, Tried, Aborted
<1> USE DEF OfLastRound, CompletedIsWhole, vars, verdict, files, history
<1> USE DEF Save, Break, Throw
<1>0. Len(rounds) \in Nat
  BY DEF TypeInv, TypeOK
<1>1. CASE Snapshot BY <1>0, <1>1 DEF Snapshot
<1>2. CASE NextRound BY <1>0, <1>2 DEF NextRound
<1>3. CASE Verify BY <1>0, <1>3 DEF Verify
<1>4. CASE Returned BY <1>0, <1>4 DEF Returned, Last
<1>5. CASE Reproduced BY <1>0, <1>5 DEF Reproduced
<1>6. CASE Count BY <1>0, <1>6 DEF Count
<1>7. CASE Counted BY <1>0, <1>7 DEF Counted
<1>8. CASE LastVerify BY <1>0, <1>8 DEF LastVerify
<1>9. QED
  BY <1>1, <1>2, <1>3, <1>4, <1>5, <1>6, <1>7, <1>8

\* A round, the reading of its tests, its replay, and the verdict.
LEMMA RoundWhole == ASSUME TypeInv, WholeInv,
                           RunReturns \/ Cover \/ Reproduce \/ Conclude
                    PROVE  WholeInv'
<1> USE DEF WholeInv
<1>0. Len(rounds) \in Nat /\ findings \subseteq Finding /\ OfLastRound \subseteq findings
  BY DEF TypeInv, TypeOK, OfLastRound
<1>1. CASE RunReturns
  <2>1. PICK r \in Round, new \in SUBSET Finding :
          /\ Len(rounds') = Len(rounds) + 1
          /\ \A i \in 1..Len(rounds) : rounds'[i] = rounds[i]
          /\ findings' = findings \cup new
          /\ \A f \in new : f.round = Len(rounds) + 1
    BY <1>1, RoundAdded
  <2>2. /\ Point = "running" /\ Point' = "returned" /\ pc' # "conclude"
        /\ Completed(Len(rounds)) /\ Tried(Len(rounds))
    BY <1>1 DEF RunReturns, Save, Point, Saving, Loop
  <2>3. \A f \in findings' : f.round \in 1..Len(rounds')
    BY <1>0, <2>1
  <2>4. Completed(Len(rounds) - 1)'
    BY <1>0, <2>1, <2>2 DEF Completed
  <2>5. Tried(Len(rounds) - 1)'
    BY <1>0, <1>1, <2>1, <2>2 DEF Tried, Aborted, RunReturns
  <2>6. tainted' => ~intact'
    BY <1>1 DEF RunReturns
  <2>7. CompletedIsWhole'
    BY <1>1, NoRoundAfterTheVerdict
       DEF CompletedIsWhole, TypeInv, PointInv, RunReturns, verdict
  <2>8. QED
    BY <2>2, <2>3, <2>4, <2>5, <2>6, <2>7 DEF Loop
<1>2. CASE Cover
  <2>1. /\ Point = "covering" /\ Point' \in {"reproducing", "counting"}
        /\ pc' # "conclude"
        /\ Completed(Len(rounds)) /\ Tried(Len(rounds) - 1)
    BY <1>2 DEF Cover, Point, Saving, Loop
  <2>2. findings' = findings /\ UNCHANGED <<tried, tainted, intact, reason>>
    BY <1>2 DEF Cover, history
  <2>3. Len(rounds') = Len(rounds) /\ OfLastRound' = OfLastRound
    BY <1>2, <2>2, RoundRead DEF OfLastRound
  <2>4. Completed(Len(rounds))'
    BY <1>2, <2>1, RoundRead DEF Completed
  <2>5. Tried(Len(rounds) - 1)'
    BY <2>1, <2>2, <2>3 DEF Tried, Aborted
  <2>6. Point' = "reproducing" => OfLastRound' # {}
    BY <1>2, <2>3 DEF Cover, Point, Saving
  <2>7. Point' = "counting" => Tried(Len(rounds))'
    <3>1. ASSUME Point' = "counting" PROVE Aborted \/ OfLastRound = {}
      BY <1>2, <3>1 DEF Cover, Point, Saving
    <3>2. QED
      BY <1>0, <2>1, <2>2, <2>3, <3>1 DEF Tried, Aborted, OfLastRound, Finding
  <2>8. CompletedIsWhole'
    BY <1>2, NoRoundAfterTheVerdict
       DEF CompletedIsWhole, TypeInv, PointInv, Cover, verdict
  <2>9. QED
    BY <2>1, <2>2, <2>3, <2>4, <2>5, <2>6, <2>7, <2>8 DEF Loop
<1>3. CASE Reproduce
  <2>1. /\ Point = "reproducing" /\ Point' = "reproduced" /\ pc' # "conclude"
        /\ Completed(Len(rounds)) /\ Tried(Len(rounds) - 1) /\ OfLastRound # {}
    BY <1>3 DEF Reproduce, Save, Point, Saving, Loop
  <2>2. rounds' = rounds /\ reason' = reason /\ tried \subseteq tried'
    BY <1>3 DEF Reproduce
  <2>3. \A f \in findings' : \E g \in findings : f.round = g.round
    BY <1>0, <1>3, SameRounds
  <2>4. Tried(Len(rounds) - 1)'
    BY <2>1, <2>2, <2>3 DEF Tried, Aborted
  <2>5. Len(rounds) \in tried' \/ \E f \in OfLastRound' : f.reproduction = "incomplete"
    <3>1. CASE findings' = (findings \ OfLastRound) \cup
                 {[f EXCEPT !.reproduction = "incomplete"] : f \in OfLastRound}
      <4>1. PICK g \in OfLastRound : TRUE
        BY <2>1
      <4>2. /\ [g EXCEPT !.reproduction = "incomplete"].round = Len(rounds)
            /\ [g EXCEPT !.reproduction = "incomplete"].reproduction = "incomplete"
        BY <1>0, <4>1 DEF Finding, OfLastRound
      <4>3. QED
        BY <2>2, <3>1, <4>2 DEF OfLastRound
    <3>2. CASE tried' = tried \cup {Len(rounds)}
      BY <3>2
    <3>3. QED
      BY <1>3, <3>1, <3>2 DEF Reproduce
  <2>6. tainted' => ~intact'
    BY <1>3 DEF Reproduce
  <2>7. CompletedIsWhole'
    BY <1>3, NoRoundAfterTheVerdict
       DEF CompletedIsWhole, TypeInv, PointInv, Reproduce, verdict
  <2>8. Completed(Len(rounds))'
    BY <2>1, <2>2 DEF Completed
  <2>9. QED
    BY <2>1, <2>2, <2>3, <2>4, <2>5, <2>6, <2>7, <2>8 DEF Loop
<1>4. CASE Conclude
  <2>1. /\ UNCHANGED <<rounds, findings, tried, tainted, intact, reason>>
        /\ pc = "conclude" /\ pc' = "saveResult" /\ after' = "report"
        /\ stop' = FinalReason /\ status' = FinalStatus(FinalReason)
    BY <1>4 DEF Conclude, Save, history
  <2>2. Point' = "report" /\ Point = "conclude"
    BY <2>1 DEF Point, Saving
  <2>3. ASSUME status' = "completed" PROVE ~Aborted /\ Untroubled
    BY <2>1, <2>3 DEF FinalReason, FinalStatus, Aborted, Untroubled, TypeInv, TypeOK
  <2>4. CompletedIsWhole'
    BY <1>0, <2>1, <2>2, <2>3 DEF CompletedIsWhole, Completed, Tried
  <2>5. QED
    BY <2>1, <2>2, <2>4 DEF Loop
<1>5. QED
  BY <1>1, <1>2, <1>3, <1>4

LEMMA WholeKept == TypeInv /\ WholeInv /\ [Next]_vars => WholeInv'
  BY OuterWhole, LoopWhole, RoundWhole DEF Next

\* A campaign is reported as completed only if all of its rounds are, their
\* failures were replayed, and the source was the same all the time.
THEOREM CompletedCampaignsAreWhole == Spec => []CompletedIsWhole
<1>1. Init => WholeInv
  BY DEF Init, WholeInv, Point, Saving, Loop, Untroubled, Completed, Tried,
     CompletedIsWhole
<1>2. WholeInv => CompletedIsWhole
  BY DEF WholeInv
<1>3. Spec => [](TypeInv /\ WholeInv)
  BY <1>1, InitialTypes, TypesKept, WholeKept, PTL DEF Spec
<1>4. QED
  BY <1>2, <1>3, PTL

-----------------------------------------------------------------------------
(* The files.                                                                *)

\* What is written is what is known, and what is replayed is not written yet.
SavedInv ==
  /\ EvidenceIsSaved
  /\ Names(resultFile.findings) \subseteq Names(findings)
  /\ \A f \in resultFile.findings :
       f.reproduction # "not_reproduced" => f \in findings
  /\ pc = "saveHandoff" =>
       resultFile.rounds = Len(rounds) /\ resultFile.findings = findings
  /\ \A f \in findings : f.round \in 1..Len(rounds)
  /\ Point \in {"returned", "covering", "reproducing"} =>
       \A f \in OfLastRound : f.reproduction = "not_reproduced"

\* A finding keeps its name.
LEMMA NamesGrow == ASSUME NEW S, NEW T, S \subseteq T PROVE Names(S) \subseteq Names(T)
  BY DEF Names

LEMMA ReproduceKeepsNames == ASSUME TypeInv, Reproduce PROVE Names(findings') = Names(findings)
<1>1. OfLastRound \subseteq findings
  BY DEF OfLastRound
<1>2. ASSUME NEW f \in findings' PROVE <<f.round, f.test>> \in Names(findings)
  BY <1>1, SameRounds DEF Names
<1>3. ASSUME NEW f \in findings PROVE <<f.round, f.test>> \in Names(findings')
  <2>1. CASE f \in OfLastRound
    BY <2>1, SameRounds DEF Names
  <2>2. CASE f \notin OfLastRound
    BY <2>2, SameRounds DEF Names
  <2>3. QED
    BY <2>1, <2>2
<1>4. QED
  BY <1>2, <1>3 DEF Names

\* save(), and what happens around the campaign.
LEMMA OuterSaved == ASSUME TypeInv, SavedInv,
                           \/ SaveResult \/ SaveHandoff \/ Fails \/ Report
                           \/ \E why \in {"cancelled", "wall_budget"} : Abort(why)
                           \/ SourceChanges \/ Dies \/ UNCHANGED vars
                    PROVE  SavedInv'
<1> USE DEF SavedInv, EvidenceIsSaved, Point, Saving, OfLastRound
<1> USE DEF vars, verdict, files, history
<1>1. CASE SaveResult
  <2>1. /\ resultFile'.rounds = Len(rounds) /\ resultFile'.findings = findings
        /\ UNCHANGED <<rounds, findings, handoffFile, after>>
        /\ pc = "saveResult" /\ pc' = "saveHandoff"
    BY <1>1 DEF SaveResult, Result
  <2>2. Names(handoffFile.findings) \subseteq Names(findings)
    OBVIOUS
  <2>3. QED
    BY <2>1, <2>2
<1>2. CASE SaveHandoff
  <2>1. /\ handoffFile'.rounds = Len(rounds) /\ handoffFile'.findings = findings
        /\ UNCHANGED <<rounds, findings, resultFile, after>>
        /\ pc = "saveHandoff" /\ pc' = after
    BY <1>2 DEF SaveHandoff, Result
  <2>2. QED
    BY <2>1 DEF TypeInv, PointInv
<1>3. CASE Fails BY <1>3 DEF Fails, Throw
<1>4. CASE Report BY <1>4 DEF Report
<1>5. CASE \E why \in {"cancelled", "wall_budget"} : Abort(why)
  BY <1>5 DEF Abort
<1>6. CASE SourceChanges BY <1>6 DEF SourceChanges
<1>7. CASE Dies BY <1>7 DEF Dies
<1>8. CASE UNCHANGED vars BY <1>8
<1>9. QED
  BY <1>1, <1>2, <1>3, <1>4, <1>5, <1>6, <1>7, <1>8

\* The loop and the verdict, but for the steps that change rounds or findings.
LEMMA LoopSaved == ASSUME TypeInv, SavedInv,
                          \/ Snapshot \/ NextRound \/ Verify \/ Returned \/ Reproduced
                          \/ Count \/ Counted \/ LastVerify \/ Conclude
                   PROVE  SavedInv'
<1> USE DEF SavedInv, EvidenceIsSaved, Point, Saving, OfLastRound
<1> USE DEF vars, verdict, files, history, Save, Break, Throw
<1>1. CASE Snapshot BY <1>1 DEF Snapshot
<1>2. CASE NextRound BY <1>2 DEF NextRound
<1>3. CASE Verify BY <1>3 DEF Verify
<1>4. CASE Returned BY <1>4 DEF Returned
<1>5. CASE Reproduced BY <1>5 DEF Reproduced
<1>6. CASE Count BY <1>6 DEF Count
<1>7. CASE Counted BY <1>7 DEF Counted
<1>8. CASE LastVerify BY <1>8 DEF LastVerify
<1>9. CASE Conclude BY <1>9 DEF Conclude
<1>10. QED
  BY <1>1, <1>2, <1>3, <1>4, <1>5, <1>6, <1>7, <1>8, <1>9

\* A round, the reading of its tests, and its replay.
LEMMA RoundSaved == ASSUME TypeInv, SavedInv, RunReturns \/ Cover \/ Reproduce
                    PROVE  SavedInv'
<1> USE DEF SavedInv
<1>0. Len(rounds) \in Nat /\ OfLastRound \subseteq findings
  BY DEF TypeInv, TypeOK, OfLastRound
<1>1. CASE RunReturns
  <2>1. PICK r \in Round, new \in SUBSET Finding :
          /\ Len(rounds') = Len(rounds) + 1
          /\ findings' = findings \cup new
          /\ \A f \in new : /\ f.round = Len(rounds) + 1
                            /\ f.reproduction = "not_reproduced"
    BY <1>1, RoundAdded
  <2>2. pc' = "saveResult" /\ UNCHANGED <<resultFile, handoffFile>>
    BY <1>1 DEF RunReturns, Save, files
  <2>3. EvidenceIsSaved'
    BY <2>2 DEF EvidenceIsSaved
  <2>4. Names(findings) \subseteq Names(findings')
    BY <2>1, NamesGrow
  <2>5. \A f \in findings' : f.round \in 1..Len(rounds')
    BY <1>0, <2>1
  <2>6. \A f \in OfLastRound' : f.reproduction = "not_reproduced"
    BY <1>0, <2>1 DEF OfLastRound
  <2>7. QED
    BY <2>1, <2>2, <2>3, <2>4, <2>5, <2>6
<1>2. CASE Cover
  <2>1. Len(rounds') = Len(rounds) /\ findings' = findings
    BY <1>2, RoundRead DEF Cover
  <2>2. pc = "covering" /\ pc' # "saveHandoff" /\ UNCHANGED <<resultFile, handoffFile>>
    BY <1>2 DEF Cover, files
  <2>3. EvidenceIsSaved'
    BY <2>1, <2>2 DEF EvidenceIsSaved
  <2>4. Point = "covering" /\ OfLastRound' = OfLastRound
    BY <2>1, <2>2 DEF Point, Saving, OfLastRound
  <2>5. QED
    BY <2>1, <2>2, <2>3, <2>4
<1>3. CASE Reproduce
  <2>1. /\ Point = "reproducing" /\ Point' = "reproduced" /\ pc' = "saveResult"
        /\ UNCHANGED <<rounds, resultFile, handoffFile>>
    BY <1>3 DEF Reproduce, Save, Point, Saving, files
  <2>2. EvidenceIsSaved'
    BY <2>1 DEF EvidenceIsSaved
  <2>3. Names(findings') = Names(findings)
    BY <1>3, ReproduceKeepsNames
  <2>4. \A f \in resultFile.findings : f.reproduction # "not_reproduced" => f \in findings'
    BY <1>3, <2>1, SameRounds
  <2>5. \A f \in findings' : f.round \in 1..Len(rounds')
    BY <1>0, <1>3, <2>1, SameRounds
  <2>6. QED
    BY <2>1, <2>2, <2>3, <2>4, <2>5
<1>4. QED
  BY <1>1, <1>2, <1>3

LEMMA SavedKept == TypeInv /\ SavedInv /\ [Next]_vars => SavedInv'
  BY OuterSaved, LoopSaved, RoundSaved DEF Next

LEMMA InitialSaved == Init => SavedInv
<1> SUFFICES ASSUME Init PROVE SavedInv OBVIOUS
<1>1. resultFile.findings = {} /\ handoffFile.findings = {} /\ findings = {}
  BY DEF Init, NoFile
<1>2. pc = "snapshot" /\ Point = "snapshot"
  BY DEF Init, Point, Saving
<1>3. QED
  BY <1>1, <1>2 DEF SavedInv, EvidenceIsSaved, Names

\* Whatever a round found is in both files before anything else is done.
THEOREM EvidenceSurvives == Spec => []EvidenceIsSaved
<1>1. SavedInv => EvidenceIsSaved
  BY DEF SavedInv
<1>2. Spec => [](TypeInv /\ SavedInv)
  BY InitialSaved, InitialTypes, TypesKept, SavedKept, PTL DEF Spec
<1>3. QED
  BY <1>1, <1>2, PTL

\* No write takes a finding, or what its replay has shown, out of a file.
THEOREM NothingForgotten == Spec => NothingIsForgotten
<1> DEFINE Kept ==
      /\ Names(resultFile.findings) \subseteq Names(resultFile'.findings)
      /\ Names(handoffFile.findings) \subseteq Names(handoffFile'.findings)
      /\ \A f \in resultFile.findings :
           f.reproduction # "not_reproduced" => f \in resultFile'.findings
<1>1. ASSUME TypeInv, SavedInv, [Next]_vars PROVE Kept
  <2>1. CASE SaveResult
    <3>1. resultFile'.findings = findings /\ handoffFile' = handoffFile
      BY <2>1 DEF SaveResult, Result
    <3>2. QED
      BY <1>1, <3>1 DEF SavedInv
  <2>2. CASE SaveHandoff
    <3>1. handoffFile'.findings = findings /\ resultFile' = resultFile
      BY <2>2 DEF SaveHandoff, Result
    <3>2. resultFile.findings = findings
      BY <1>1, <2>2 DEF SavedInv, SaveHandoff
    <3>3. QED
      BY <1>1, <3>1, <3>2 DEF SavedInv, EvidenceIsSaved
  <2>3. CASE ~SaveResult /\ ~SaveHandoff
    <3>1. UNCHANGED <<resultFile, handoffFile>>
      BY <1>1, <2>3 DEF Next, Fails, Report, Abort, SourceChanges, Dies, Snapshot,
         NextRound, Verify, Returned, Reproduced, Count, Counted, LastVerify,
         Conclude, RunReturns, Cover, Reproduce, vars, files
    <3>2. QED
      BY <3>1
  <2>4. QED
    BY <2>1, <2>2, <2>3
<1>2. Spec => [](TypeInv /\ SavedInv)
  BY InitialSaved, InitialTypes, TypesKept, SavedKept, PTL DEF Spec
<1>3. QED
  BY <1>1, <1>2, PTL DEF Spec, NothingIsForgotten

-----------------------------------------------------------------------------
(* Stagnation.                                                               *)

\* The tests of the first n of some rounds; the i-th brings none to them.
Old(rs, n) == UNION {rs[j].executed : j \in 1..n}
Stale(rs, i) == rs[i].executed \subseteq Old(rs, i - 1)

\* Of the first n rounds, the last `stagnant` ones brought nothing.
StaleRun(rs, n) == stagnant <= n /\ \A i \in n - stagnant + 1 .. n : Stale(rs, i)

Uncounted == {"returned", "covering", "reproducing", "reproduced", "counting"}

StagnantInv ==
  /\ Point \in Loop \ {"returned", "covering"} => seen = Old(rounds, Len(rounds))
  /\ Point \in {"returned", "covering"} => seen = Old(rounds, Len(rounds) - 1)
  /\ Point \in Loop \ Uncounted => StaleRun(rounds, Len(rounds))
  /\ Point \in Uncounted => StaleRun(rounds, Len(rounds) - 1)
  /\ Point \in {"reproducing", "reproduced", "counting"} =>
       (rounds[Len(rounds)].fresh <=> ~Stale(rounds, Len(rounds)))
  /\ StagnationIsReal

\* Only what was executed matters.
LEMMA SameOld ==
  ASSUME NEW rs, NEW ts, NEW n \in Nat, \A i \in 1..n : rs[i].executed = ts[i].executed
  PROVE  /\ Old(rs, n) = Old(ts, n)
         /\ \A i \in 1..n : Stale(rs, i) <=> Stale(ts, i)
<1>1. \A k \in 0..n : Old(rs, k) = Old(ts, k)
  BY DEF Old
<1>2. QED
  BY <1>1 DEF Stale

\* The tests of one round more.
LEMMA OneMoreRound ==
  ASSUME NEW rs, NEW n \in Nat \ {0}
  PROVE  Old(rs, n) = Old(rs, n - 1) \cup rs[n].executed
  BY DEF Old

LEMMA StagnantKept == TypeInv /\ StagnantInv /\ [Next]_vars => StagnantInv'
<1> SUFFICES ASSUME TypeInv, StagnantInv, [Next]_vars PROVE StagnantInv'
  OBVIOUS
<1> USE DEF StagnantInv, Uncounted
<1>0. Len(rounds) \in Nat /\ stagnant \in Nat /\ rounds \in Seq(Round)
  BY DEF TypeInv, TypeOK
<1>1. CASE RunReturns
  <2>1. PICK r \in Round, new \in SUBSET Finding :
          /\ Len(rounds') = Len(rounds) + 1
          /\ \A i \in 1..Len(rounds) : rounds'[i] = rounds[i]
    BY <1>1, RoundAdded
  <2>2. /\ Point = "running" /\ Point' = "returned"
        /\ UNCHANGED <<seen, stagnant, stop>> /\ stop = "none"
    BY <1>1 DEF RunReturns, Save, Point, Saving, Loop, TypeInv, PointInv, verdict
  <2>3. /\ Old(rounds', Len(rounds)) = Old(rounds, Len(rounds))
        /\ \A i \in 1..Len(rounds) : Stale(rounds', i) <=> Stale(rounds, i)
    BY <1>0, <2>1, SameOld
  <2>4. Len(rounds') - 1 = Len(rounds)
    BY <1>0, <2>1
  <2>5. seen' = Old(rounds', Len(rounds') - 1)
    BY <2>2, <2>3, <2>4 DEF Loop
  <2>6. stagnant <= Len(rounds) /\
          \A i \in Len(rounds) - stagnant + 1 .. Len(rounds) : Stale(rounds, i)
    BY <2>2 DEF Loop, StaleRun
  <2>7. stagnant <= Len(rounds') - 1 /\
          \A i \in Len(rounds') - 1 - stagnant + 1 .. Len(rounds') - 1 : Stale(rounds', i)
    BY <1>0, <2>3, <2>4, <2>6
  <2>8. QED
    BY <2>2, <2>5, <2>7 DEF StaleRun, StagnationIsReal
<1>2. CASE Cover
  <2> DEFINE n == Len(rounds)
  <2>1. /\ Len(rounds') = n /\ n > 0
        /\ \A i \in 1..n : rounds'[i].executed = rounds[i].executed
        /\ rounds'[n].fresh = ~(rounds[n].executed \subseteq seen)
    BY <1>2, RoundRead DEF Last, Cover, Point, Saving, TypeInv, PointInv
  <2>2. /\ Point = "covering" /\ Point' \in {"reproducing", "counting"}
        /\ UNCHANGED <<stagnant, stop>> /\ stop = "none"
    BY <1>2 DEF Cover, Point, Saving, Loop, TypeInv, PointInv, verdict
  <2>3. seen' = seen \cup rounds[n].executed /\ seen = Old(rounds, n - 1)
    BY <1>2, <2>2 DEF Cover, Last
  <2>4. /\ Old(rounds', n) = Old(rounds, n)
        /\ \A i \in 1..n : Stale(rounds', i) <=> Stale(rounds, i)
    BY <1>0, <2>1, SameOld
  <2>5. seen' = Old(rounds', Len(rounds'))
    BY <1>0, <2>1, <2>3, <2>4, OneMoreRound
  <2>6. rounds'[n].fresh <=> ~Stale(rounds', n)
    <3>1. Stale(rounds', n) <=> Stale(rounds, n)
      BY <1>0, <2>1, <2>4
    <3>2. Stale(rounds, n) <=> rounds[n].executed \subseteq seen
      BY <2>3 DEF Stale
    <3>3. rounds'[n].fresh = ~(rounds[n].executed \subseteq seen)
      BY <2>1
    <3> HIDE DEF n
    <3>4. QED
      BY <3>1, <3>2, <3>3, Zenon
  <2>7. stagnant <= n - 1 /\ \A i \in n - 1 - stagnant + 1 .. n - 1 : Stale(rounds, i)
    BY <2>2 DEF StaleRun
  <2>8. \A i \in n - 1 - stagnant + 1 .. n - 1 : Stale(rounds', i)
    BY <1>0, <2>4, <2>7
  <2>9. QED
    BY <2>1, <2>2, <2>5, <2>6, <2>7, <2>8 DEF StaleRun, StagnationIsReal
<1>3. CASE Count
  <2>1. /\ Point = "counting" /\ Point' = "counted"
        /\ UNCHANGED <<rounds, seen, stop>> /\ stop = "none"
        /\ Len(rounds) > 0
    BY <1>3 DEF Count, Save, Point, Saving, Loop, TypeInv, PointInv, verdict
  <2>2. stagnant' = IF rounds[Len(rounds)].fresh THEN 0 ELSE stagnant + 1
    BY <1>3 DEF Count, Last
  <2>3. stagnant <= Len(rounds) - 1 /\
          \A i \in Len(rounds) - 1 - stagnant + 1 .. Len(rounds) - 1 : Stale(rounds, i)
    BY <2>1 DEF StaleRun
  <2>4. rounds[Len(rounds)].fresh <=> ~Stale(rounds, Len(rounds))
    BY <2>1
  <2>5. stagnant' <= Len(rounds) /\
          \A i \in Len(rounds) - stagnant' + 1 .. Len(rounds) : Stale(rounds, i)
    BY <1>0, <2>1, <2>2, <2>3, <2>4
  <2>6. QED
    BY <2>1, <2>5 DEF StaleRun, StagnationIsReal, Loop
<1>4. CASE Counted
  <2>1. /\ Point = "counted" /\ Point' \in {"lastVerify", "head"}
        /\ UNCHANGED <<rounds, seen, stagnant>>
    BY <1>4 DEF Counted, Break, Point, Saving
  <2>2. stagnant <= Len(rounds) /\
          \A i \in Len(rounds) - stagnant + 1 .. Len(rounds) : Stale(rounds, i)
    BY <2>1 DEF StaleRun, Loop
  <2>3. stop' = "no_new_scenarios" => stagnant >= Stagnation
    BY <1>4, <2>1 DEF Counted, Break, TypeInv, PointInv, Loop
  <2>4. StagnationIsReal'
    BY <1>0, <2>1, <2>2, <2>3 DEF StagnationIsReal, Stale, Old
  <2>5. QED
    BY <2>1, <2>4 DEF Loop, StaleRun
<1>5. CASE \/ Snapshot \/ NextRound \/ Verify \/ Returned \/ Reproduced \/ LastVerify
           \/ Conclude \/ Reproduce
  <2>1. /\ UNCHANGED <<rounds, seen, stagnant>>
        /\ stop' = "no_new_scenarios" => stop = "no_new_scenarios"
    BY <1>5 DEF Snapshot, NextRound, Verify, Returned, Reproduced, LastVerify,
       Conclude, Reproduce, Save, Break, Throw, FinalReason, verdict, TypeInv, TypeOK
  <2>2. \/ Point' \notin Loop
        \/ Point \in Loop /\ Point' = Point
        \/ Point \in Loop \ Uncounted /\ Point' \in Loop \ Uncounted
        \/ Point \in {"returned", "covering"} /\ Point' \in {"returned", "covering"}
        \/ /\ Point \in {"reproducing", "reproduced", "counting"}
           /\ Point' \in {"reproducing", "reproduced", "counting"}
    BY <1>5 DEF Snapshot, NextRound, Verify, Returned, Reproduced, LastVerify,
       Conclude, Reproduce, Save, Break, Throw, Loop, Point, Saving
  <2>3. QED
    BY <2>1, <2>2 DEF StagnationIsReal, StaleRun, Loop
<1>6. CASE \/ SaveResult \/ SaveHandoff \/ Fails \/ Report
           \/ \E why \in {"cancelled", "wall_budget"} : Abort(why)
           \/ SourceChanges \/ Dies \/ UNCHANGED vars
  <2>1. /\ UNCHANGED <<rounds, seen, stagnant>>
        /\ stop' = "no_new_scenarios" => stop = "no_new_scenarios"
    BY <1>6 DEF SaveResult, SaveHandoff, Fails, Report, Abort, SourceChanges, Dies,
       vars, Throw, verdict
  <2>2. Point' \notin Loop \/ Point' = Point
    BY <1>6 DEF SaveResult, SaveHandoff, Fails, Report, Abort, SourceChanges, Dies,
       vars, Throw, Loop, Point, Saving, TypeInv, PointInv
  <2>3. QED
    BY <2>1, <2>2 DEF StagnationIsReal, StaleRun, Loop
<1>7. QED
  BY <1>1, <1>2, <1>3, <1>4, <1>5, <1>6 DEF Next

\* A campaign that stops for want of new scenarios has had none for as many
\* rounds as the limit says.
THEOREM StagnationHolds == Spec => []StagnationIsReal
<1>1. Init => StagnantInv
  <2> SUFFICES ASSUME Init PROVE StagnantInv OBVIOUS
  <2>1. /\ rounds = <<>> /\ seen = {} /\ stagnant = 0 /\ stop = "none"
        /\ Point = "snapshot"
    BY DEF Init, Point, Saving
  <2>2. Old(rounds, 0) = {} /\ Len(rounds) = 0
    BY <2>1 DEF Old
  <2>3. QED
    BY <2>1, <2>2 DEF StagnantInv, StaleRun, StagnationIsReal, Loop, Uncounted
<1>2. StagnantInv => StagnationIsReal
  BY DEF StagnantInv
<1>3. Spec => [](TypeInv /\ StagnantInv)
  BY <1>1, InitialTypes, TypesKept, StagnantKept, PTL DEF Spec
<1>4. QED
  BY <1>2, <1>3, PTL
-----------------------------------------------------------------------------
(* The end.                                                                  *)

\* How far from the end of the process a point is, of one pass of the loop.
\* A save() is two steps from where it goes on; Rank places it just before.
Rank(p) ==
  CASE p \in {"done", "dead"} -> 0
    [] p = "report" -> 1
    [] p = "conclude" -> 4
    [] p = "lastVerify" -> 5
    [] p = "running" -> 6
    [] p = "verify" -> 7
    [] p = "head" -> 8
    [] p = "counted" -> 9
    [] p = "snapshot" -> 11
    [] p = "counting" -> 12
    [] p = "reproduced" -> 13
    [] p = "reproducing" -> 16
    [] p = "covering" -> 17
    [] p = "returned" -> 18
    [] OTHER -> 0

ThisPass == CASE pc = "saveResult" -> Rank(after) + 2
              [] pc = "saveHandoff" -> Rank(after) + 1
              [] OTHER -> Rank(pc)

One(condition) == IF condition THEN 1 ELSE 0

\* An upper bound on the steps that are still to come, the abort and the
\* change of the source included.
StepsLeft == 20 * (Rounds - Len(rounds)) + ThisPass + One(~Aborted) + One(intact)

\* Every step of a campaign, of its loop or around it, uses one up: there are
\* only so many, however its runs and its replays end, and whatever is thrown.
StepsRunOut ==
  [][/\ StepsLeft \in Nat
     /\ StepsLeft' \in Nat
     /\ StepsLeft' < StepsLeft]_vars

\* The bound is a number, ...
LEMMA PassIsCounted == TypeInv => ThisPass \in Nat
<1>1. TypeInv => Rank(pc) \in Nat /\ Rank(after) \in Nat
  BY DEF TypeInv, TypeOK, Points, Rank
<1>2. QED
  BY <1>1 DEF ThisPass

\* ... of the pass and of the whole.
LEMMA StepsAreCounted == TypeInv => StepsLeft \in Nat
<1> SUFFICES ASSUME TypeInv PROVE StepsLeft \in Nat OBVIOUS
<1>2. ThisPass \in Nat
  BY PassIsCounted
<1>3. Rounds - Len(rounds) \in Nat
  BY DEF TypeInv, TypeOK
<1>4. QED
  BY <1>2, <1>3 DEF StepsLeft, One

\* One step of the program: the round it adds pays for the pass that it leads.
LEMMA PassStep ==
  ASSUME TypeInv,
         \/ Snapshot \/ NextRound \/ Verify \/ RunReturns \/ Returned \/ Cover
         \/ Reproduce \/ Reproduced \/ Count \/ Counted \/ LastVerify \/ Conclude
         \/ Report \/ SaveResult \/ SaveHandoff \/ Fails \/ Dies
  PROVE  /\ UNCHANGED <<reason, intact>>
         /\ \/ Len(rounds') = Len(rounds) /\ ThisPass' < ThisPass
            \/ /\ Len(rounds') = Len(rounds) + 1
               /\ ThisPass' < ThisPass + 20
<1> USE DEF ThisPass, Rank, Save, Break, Throw
<1>1. CASE RunReturns
  <2>1. Len(rounds') = Len(rounds) + 1
    BY <1>1, RoundAdded
  <2>2. QED
    BY <1>1, <2>1 DEF RunReturns
<1>2. CASE Cover
  <2>1. Len(rounds') = Len(rounds)
    BY <1>2, RoundRead
  <2>2. /\ pc = "covering" /\ pc' \in {"reproducing", "counting"}
        /\ UNCHANGED <<reason, intact>>
    BY <1>2 DEF Cover
  <2>3. QED
    BY <2>1, <2>2
<1>3. CASE SaveResult \/ SaveHandoff
  BY <1>3 DEF SaveResult, SaveHandoff, TypeInv, PointInv
<1>4. CASE Fails
  BY <1>4 DEF Fails, TypeInv, TypeOK, Points, PointInv
<1>5. CASE Dies
  <2>1. pc \notin {"done", "dead"} => ThisPass > 0
    BY DEF TypeInv, TypeOK, Points, PointInv
  <2>2. QED
    BY <1>5, <2>1 DEF Dies
<1>6. CASE Snapshot BY <1>6 DEF Snapshot
<1>7. CASE NextRound BY <1>7 DEF NextRound
<1>8. CASE Verify BY <1>8 DEF Verify
<1>9. CASE Returned BY <1>9 DEF Returned
<1>10. CASE Reproduce BY <1>10 DEF Reproduce
<1>11. CASE Reproduced BY <1>11 DEF Reproduced
<1>12. CASE Count BY <1>12 DEF Count
<1>13. CASE Counted BY <1>13 DEF Counted
<1>14. CASE LastVerify BY <1>14 DEF LastVerify
<1>15. CASE Conclude BY <1>15 DEF Conclude
<1>16. CASE Report BY <1>16 DEF Report
<1>17. QED
  BY <1>1, <1>2, <1>3, <1>4, <1>5, <1>6, <1>7, <1>8, <1>9, <1>10, <1>11, <1>12,
     <1>13, <1>14, <1>15, <1>16

\* A campaign takes at most 20 steps for each round it may have, and 13 more.
THEOREM CampaignStepsRunOut == Spec => StepsRunOut
<1>0. TypeInv' => (ThisPass \in Nat)'
  BY PassIsCounted, PTL
<1>1. ASSUME TypeInv, TypeInv', [Next]_vars, vars' # vars
      PROVE  StepsLeft' < StepsLeft
  <2>1. CASE \E why \in {"cancelled", "wall_budget"} : Abort(why)
    <3>1. ~Aborted /\ Aborted' /\ UNCHANGED <<pc, after, rounds, intact>>
      BY <2>1 DEF Abort, Aborted
    <3>2. ThisPass' = ThisPass
      BY <3>1 DEF ThisPass
    <3>3. StepsLeft' = StepsLeft - 1
      BY <1>1, <3>1, <3>2, PassIsCounted DEF StepsLeft, One, TypeInv, TypeOK
    <3>4. QED
      BY <1>1, <3>3, StepsAreCounted
  <2>2. CASE SourceChanges
    <3>1. intact /\ ~intact' /\ UNCHANGED <<pc, after, rounds, reason>>
      BY <2>2 DEF SourceChanges
    <3>2. ThisPass' = ThisPass
      BY <3>1 DEF ThisPass
    <3>3. StepsLeft' = StepsLeft - 1
      BY <1>1, <3>1, <3>2, PassIsCounted DEF StepsLeft, One, Aborted, TypeInv, TypeOK
    <3>4. QED
      BY <1>1, <3>3, StepsAreCounted
  <2>3. CASE \/ Snapshot \/ NextRound \/ Verify \/ RunReturns \/ Returned \/ Cover
             \/ Reproduce \/ Reproduced \/ Count \/ Counted \/ LastVerify \/ Conclude
             \/ Report \/ SaveResult \/ SaveHandoff \/ Fails \/ Dies
    <3>1. /\ UNCHANGED <<reason, intact>>
          /\ \/ Len(rounds') = Len(rounds) /\ ThisPass' < ThisPass
             \/ Len(rounds') = Len(rounds) + 1 /\ ThisPass' < ThisPass + 20
      BY <1>1, <2>3, PassStep
    <3>2. Aborted' = Aborted
      BY <3>1 DEF Aborted
    <3>3. /\ ThisPass \in Nat /\ ThisPass' \in Nat
          /\ Len(rounds) \in Nat /\ Rounds \in Nat
      BY <1>1, <1>0, PassIsCounted DEF TypeInv, TypeOK
    <3>4. QED
      BY <3>1, <3>2, <3>3 DEF StepsLeft, One
  <2>4. QED
    BY <1>1, <2>1, <2>2, <2>3 DEF Next
<1>2. Spec => []TypeInv
  BY InitialTypes, TypesKept, PTL DEF Spec
<1>3. TypeInv' => (StepsLeft \in Nat)'
  BY StepsAreCounted, PTL
<1>4. TypeInv /\ TypeInv' /\ [Next]_vars =>
        [/\ StepsLeft \in Nat /\ StepsLeft' \in Nat /\ StepsLeft' < StepsLeft]_vars
  BY <1>1, <1>3, StepsAreCounted
<1>5. QED
  BY <1>2, <1>4, PTL DEF Spec, StepsRunOut
=============================================================================
