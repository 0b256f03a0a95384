--------------------------- MODULE SessionProofs ---------------------------
(***************************************************************************)
(* Theorems about Session, for any number of commands, projects, polls and *)
(* kills.                                                                  *)
(***************************************************************************)
EXTENDS SessionInv, TLAPS

USE NoneIsNew, MenuType, ProjectType, VerdictsType, BoundsType DEF Token

-----------------------------------------------------------------------------
(* Type correctness, by the process that takes the step.                   *)

\* What createSession leaves, and every process before its launch, is well typed.
LEMMA InitialTypes == Init => TypeOK
<1> SUFFICES ASSUME Init PROVE TypeOK OBVIOUS
<1>1. FreshState \in State
  BY DEF FreshState, State, Statuses
<1>2. FilesOK
  BY <1>1 DEF Init, FilesOK, Owner, Job, NoOwner, NoJob
<1>3. CommandsOK
  BY <1>1 DEF Init, CommandsOK, CommandPcs, Kinds, Phases, Outcomes, Request, NoJob
<1>4. WorkersOK
  BY <1>1 DEF Init, WorkersOK, WorkerPcs, Job, NoJob
<1>5. QED
  BY <1>2, <1>3, <1>4 DEF Init, TypeOK

\* Types survive the launch of a command and each of its steps.
LEMMA CommandTypes == ASSUME TypeOK, NEW c \in Commands, CommandStep(c) \/ Launch(c)
                      PROVE  TypeOK'
<1> USE DEF TypeOK, FilesOK, CommandsOK, WorkersOK
<1> USE DEF vars, shared, locals, worker, ghosts, At, Goto
<1> USE DEF CommandPcs, StartPcs, ClearPcs
<1>1. CASE LaunchFresh(c)
  BY <1>1 DEF LaunchFresh, Request, Kinds, Phases
<1>2. CASE LaunchRestart(c)
  <2>1. CASE jobFile = NoJob
    BY <1>2, <2>1 DEF LaunchRestart, Kinds, Phases, Outcomes
  <2>2. CASE jobFile # NoJob
    <3>1. [task |-> jobFile.task, plan |-> jobFile.plan] \in Request
      BY <2>2 DEF Job, Request
    <3>2. QED
      BY <1>2, <2>2, <3>1 DEF LaunchRestart, Kinds, Phases
  <2>3. QED BY <2>1, <2>2
<1>3. CASE LaunchInspect(c)
  BY <1>3 DEF LaunchInspect
<1>4. CASE Lock(c)
  BY <1>4 DEF Lock, Outcomes
<1>5. CASE Unlock(c)
  <2>1. FreshState \in State
    BY DEF FreshState, State, Statuses
  <2>2. phase' \in [Commands -> Phases] /\ outcome' \in [Commands -> Outcomes]
    BY <1>5 DEF Unlock, Outcomes, Phases
  <2>3. copy' \in [Commands -> State]
    BY <1>5, <2>1 DEF Unlock
  <2>4. pc' \in [Commands -> CommandPcs] /\ pc'[c] # "unstash"
    BY <1>5 DEF Unlock
  <2>5. QED
    BY <1>5, <2>2, <2>3, <2>4 DEF Unlock
<1>6. CASE Look(c)
  BY <1>6 DEF Look
<1>7. CASE Probe(c)
  BY <1>7 DEF Probe, StopSees, WaitSees, RecheckSees, ClearSees, InspectSees, Phases, Outcomes
<1>8. CASE WriteCancel(c)
  BY <1>8 DEF WriteCancel, State
<1>9. CASE Stash(c)
  BY <1>9 DEF Stash, Request
<1>10. CASE Unstash(c)
  BY <1>10 DEF Unstash, Request
<1>11. CASE ClearStep(c)
  <2>1. CASE ClearRead(c)
    BY <2>1 DEF ClearRead
  <2>2. CASE ClearContext(c)
    BY <2>2 DEF ClearContext
  <2>3. CASE ClearOwner(c)
    BY <2>3 DEF ClearOwner, Owner, NoOwner
  <2>4. CASE ClearBusy(c)
    BY <2>4 DEF ClearBusy, RemoveEmptyGuard
  <2>5. CASE ClearCancel(c)
    BY <2>5 DEF ClearCancel
  <2>6. CASE ClearState(c)
    <3> DEFINE s == copy[c]
    <3>1. s \in State OBVIOUS
    <3>2. s.generation + 1 \in Nat
      BY <3>1 DEF State
    <3>3. [s EXCEPT !.generation = s.generation + 1, !.status = "idle", !.job = None]
            \in State
      BY <3>1, <3>2 DEF State, Statuses
    <3>4. state' = [s EXCEPT !.generation = s.generation + 1, !.status = "idle",
                             !.job = None]
      BY <2>6 DEF ClearState
    <3>5. QED
      BY <2>6, <3>3, <3>4 DEF ClearState
  <2>7. QED
    BY <1>11, <2>1, <2>2, <2>3, <2>4, <2>5, <2>6 DEF ClearStep
<1>12. CASE StartStep(c)
  <2>0. copy[c] \in State /\ request[c] \in Request OBVIOUS
  <2>1. CASE StartRead(c)
    BY <2>1 DEF StartRead, Outcomes
  <2>2. CASE MakeGuard(c)
    BY <2>2 DEF MakeGuard, Outcomes
  <2>3. CASE WriteJob(c)
    <3>1. jobFile' \in Job
      BY <2>0, <2>3 DEF WriteJob, Job, Request, State
    <3>2. QED
      BY <2>3, <3>1 DEF WriteJob
  <2>4. CASE WriteOwner(c)
    BY <2>4 DEF WriteOwner, Owner
  <2>5. CASE RemoveCancel(c)
    BY <2>5 DEF RemoveCancel
  <2>6. CASE WriteStarting(c)
    <3>1. state' \in State
      BY <2>0, <2>6 DEF WriteStarting, State, Statuses, Request
    <3>2. QED
      BY <2>6, <3>1 DEF WriteStarting
  <2>7. CASE Spawn(c)
    BY <2>7 DEF Spawn, WorkerPcs
  <2>8. CASE WriteWorkerPid(c)
    BY <2>8 DEF WriteWorkerPid, Owner, Outcomes
  <2>9. CASE RemoveOwner(c)
    BY <2>9 DEF RemoveOwner, Owner, NoOwner
  <2>12. CASE RemoveGuard(c)
    BY <2>12 DEF RemoveGuard
  <2>10. CASE WriteFailed(c)
    <3>1. state' \in State
      BY <2>0, <2>10 DEF WriteFailed, State, Statuses
    <3>2. QED
      BY <2>10, <3>1 DEF WriteFailed, Outcomes
  <2>11. QED
    BY <1>12, <2>1, <2>2, <2>3, <2>4, <2>5, <2>6, <2>7, <2>8, <2>9, <2>10, <2>12
       DEF StartStep
<1>13. QED
  BY <1>1, <1>2, <1>3, <1>4, <1>5, <1>6, <1>7, <1>8, <1>9, <1>10, <1>11, <1>12
     DEF CommandStep, Launch

\* Types survive each step of a worker.
LEMMA WorkerTypes ==
    ASSUME TypeOK, NEW c \in Commands,
           WorkerStep(c) \/ WorkerConverses(c) \/ RunEnds(c)
    PROVE  TypeOK'
<1> USE DEF TypeOK, FilesOK, CommandsOK, WorkersOK
<1> USE DEF vars, shared, locals, worker, ghosts, WGoto, WorkerPcs
<1>0. wstate[c] \in State /\ wjob[c] \in Job /\ jobFile \in Job OBVIOUS
<1>1. CASE WorkerReadsJob(c)
  BY <1>1 DEF WorkerReadsJob, NoJob
<1>2. CASE WorkerReadsState(c)
  BY <1>2 DEF WorkerReadsState
<1>3. CASE WorkerReadsOwner(c)
  BY <1>3 DEF WorkerReadsOwner
<1>4. CASE WorkerMarksRunning(c)
  <2>1. state' \in State
    BY <1>0, <1>4 DEF WorkerMarksRunning, State, Statuses
  <2>2. wjob[c].task \in Commands
    BY <1>0, <1>4 DEF WorkerMarksRunning, Job
  <2>3. QED
    BY <1>4, <2>1, <2>2 DEF WorkerMarksRunning
<1>5. CASE WorkerPolls(c)
  BY <1>5 DEF WorkerPolls
<1>6. CASE WorkerRescues(c)
  <2>1. state' \in State
    BY <1>0, <1>6 DEF WorkerRescues, State, Statuses
  <2>2. QED
    BY <1>6, <2>1 DEF WorkerRescues
<1>7. CASE WorkerReleases(c)
  BY <1>7 DEF WorkerReleases
<1>8. CASE WorkerUnlinks(c)
  BY <1>8 DEF WorkerUnlinks, Owner, NoOwner
<1>9. CASE WorkerRemovesGuard(c)
  BY <1>9 DEF WorkerRemovesGuard, RemoveEmptyGuard, NoOwner
<1>10. CASE WorkerConverses(c)
  <2>1. wjob[c].generation \in Nat
    BY <1>0 DEF Job, NoJob
  <2>2. QED
    BY <1>10, <2>1 DEF WorkerConverses
<1>11. CASE WorkerFinishes(c)
  <2>1. PICK verdict \in RunStatuses(c) :
          state' = [wstate[c] EXCEPT !.status = verdict, !.last = c]
    BY <1>11 DEF WorkerFinishes
  <2>2. verdict \in Statuses
    BY DEF RunStatuses, Statuses
  <2>3. state' \in State
    BY <1>0, <2>1, <2>2 DEF State
  <2>4. QED
    BY <1>11, <2>3 DEF WorkerFinishes
<1>12. CASE WorkerThrows(c)
  BY <1>12 DEF WorkerThrows
<1>13. QED
  BY <1>1, <1>2, <1>3, <1>4, <1>5, <1>6, <1>7, <1>8, <1>9, <1>10, <1>11, <1>12
     DEF WorkerStep, RunEnds

\* Types survive a start that fails and a process that is killed.
LEMMA FailureTypes ==
    ASSUME TypeOK, NEW c \in Commands,
           OperationFails(c) \/ CommandDies(c) \/ WorkerDies(c)
    PROVE  TypeOK'
<1> USE DEF TypeOK, FilesOK, CommandsOK, WorkersOK
<1> USE DEF vars, shared, locals, worker, ghosts, Goto, WGoto
<1>1. CASE OperationFails(c)
  <2>1. pc' \in [Commands -> CommandPcs]
    BY <1>1 DEF OperationFails, CommandPcs, StartPcs, ClearPcs
  <2>2. outcome' \in [Commands -> Outcomes]
    BY <1>1 DEF OperationFails, Outcomes
  <2>3. pc'[c] # "unstash"
    BY <1>1 DEF OperationFails
  <2> QED
    BY <1>1, <2>1, <2>2, <2>3 DEF OperationFails
<1>2. CASE CommandDies(c)
  BY <1>2 DEF CommandDies, CommandPcs
<1>3. CASE WorkerDies(c)
  BY <1>3 DEF WorkerDies, WorkerPcs
<1>4. QED BY <1>1, <1>2, <1>3

\* Type correctness: whatever the commands do, and whichever process is killed,
\* every file and every variable of a process keeps to its type.
THEOREM TypeCorrect == Spec => []TypeOK
<1>1. TypeOK /\ [Next]_vars => TypeOK'
  <2>1. CASE UNCHANGED vars
    BY <2>1 DEF vars, shared, locals, worker, ghosts, TypeOK, FilesOK, CommandsOK, WorkersOK
  <2>2. CASE Next
    BY <2>2, CommandTypes, WorkerTypes, FailureTypes DEF Next
  <2>3. QED BY <2>1, <2>2
<1>2. QED BY <1>1, InitialTypes, PTL DEF Spec

-----------------------------------------------------------------------------
(* GuardInv: the lock, the guard and who owns them.                        *)

\* A session that createSession has just made has no guard and no owner.
LEMMA InitialGuard == Init => GuardInv
  BY DEF Init, GuardInv, LockInv, OwnerInv, StartInv, ClearInv, WorkerInv, NoOwner,
         HoldsLock, Holding, StartPcs, ClearPcs

\* Launching a command leaves the lock and the guard alone.
LEMMA LaunchKeepsGuard ==
    ASSUME TypeOK, GuardInv, NEW c \in Commands,
           Launch(c)
    PROVE  GuardInv'
<1> USE DEF TypeOK, FilesOK, CommandsOK, WorkersOK, Owner
<1> USE DEF GuardInv, LockInv, OwnerInv, StartInv, ClearInv, WorkerInv, HoldsLock, Holding
<1> USE DEF shared, locals, worker, ghosts, At, Goto, WGoto, StartPcs, ClearPcs
<1>1. CASE LaunchFresh(c)
  BY <1>1 DEF LaunchFresh
<1>2. CASE LaunchRestart(c)
  BY <1>2 DEF LaunchRestart
<1>3. CASE LaunchInspect(c)
  BY <1>3 DEF LaunchInspect
<1>4. QED BY <1>1, <1>2, <1>3 DEF Launch

\* The liveness probe ends in one of the five callers of inspectSession.
LEMMA ProbeAnswer ==
    ASSUME NEW c \in Commands, Probe(c)
    PROVE  \E isBusy \in (IF owner = NoOwner THEN {FALSE} ELSE AliveAnswers(owner)) :
              \/ StopSees(c, isBusy) \/ WaitSees(c, isBusy) \/ RecheckSees(c, isBusy)
              \/ ClearSees(c, isBusy) \/ InspectSees(c, isBusy)
BY DEF Probe

\* Locking, inspecting, cancelling and the hand-over of a restart keep who
\* owns the lock and the guard.
LEMMA CommandKeepsGuard ==
    ASSUME TypeOK, GuardInv, NEW c \in Commands,
           Lock(c) \/ Unlock(c) \/ Look(c) \/ Probe(c) \/ WriteCancel(c) \/ Stash(c) \/ Unstash(c)
    PROVE  GuardInv'
<1> USE DEF TypeOK, FilesOK, CommandsOK, WorkersOK, Owner
<1> USE DEF GuardInv, LockInv, OwnerInv, StartInv, ClearInv, WorkerInv, HoldsLock, Holding
<1> USE DEF shared, locals, worker, ghosts, At, Goto, WGoto, StartPcs, ClearPcs
<1>1. CASE Lock(c)
  BY <1>1 DEF Lock
<1>2. CASE Unlock(c)
  BY <1>2 DEF Unlock
<1>3. CASE Look(c)
  BY <1>3 DEF Look
<1>4. CASE Probe(c)
  <2>1. PICK isBusy \in (IF owner = NoOwner THEN {FALSE} ELSE AliveAnswers(owner)) :
          \/ StopSees(c, isBusy) \/ WaitSees(c, isBusy) \/ RecheckSees(c, isBusy)
          \/ ClearSees(c, isBusy) \/ InspectSees(c, isBusy)
    BY <1>4, ProbeAnswer
  <2>2. CASE StopSees(c, isBusy)
    BY <1>4, <2>2 DEF Probe, StopSees
  <2>3. CASE WaitSees(c, isBusy)
    BY <1>4, <2>3 DEF Probe, WaitSees
  <2>4. CASE RecheckSees(c, isBusy)
    BY <1>4, <2>4 DEF Probe, RecheckSees
  <2>5. CASE ClearSees(c, isBusy)
    <3>1. CASE isBusy
      BY <1>4, <2>5, <3>1 DEF Probe, ClearSees
    <3>2. CASE ~isBusy
      <4>1. \/ owner.token = None
            \/ owner.worker /\ wpc[owner.token] \in {"exit", "dead"}
        <5>1. lock = c
          BY <1>4, <2>5 DEF Probe, ClearSees
        <5>2. owner = NoOwner \/ ~Alive(owner)
          BY <2>1, <3>2 DEF AliveAnswers
        <5>3. CASE owner.token = None
          BY <5>3
        <5>4. CASE owner.token # None /\ owner.worker
          BY <5>2, <5>4 DEF Alive, WorkerLive, WorkerPcs, NoOwner
        <5>5. CASE owner.token # None /\ ~owner.worker
          BY <1>4, <5>1, <5>5 DEF Probe
        <5>6. QED BY <5>3, <5>4, <5>5
      <4>2. QED
        BY <1>4, <2>5, <3>2, <4>1 DEF Probe, ClearSees
    <3>3. QED BY <3>1, <3>2
  <2>6. CASE InspectSees(c, isBusy)
    BY <1>4, <2>6 DEF Probe, InspectSees
  <2>7. QED BY <2>1, <2>2, <2>3, <2>4, <2>5, <2>6
<1>5. CASE WriteCancel(c)
  BY <1>5 DEF WriteCancel
<1>6. CASE Stash(c)
  BY <1>6 DEF Stash
<1>7. CASE Unstash(c)
  BY <1>7 DEF Unstash
<1>8. QED BY <1>1, <1>2, <1>3, <1>4, <1>5, <1>6, <1>7

\* clearSession removes the guard of dead owners only.
LEMMA ClearKeepsGuard ==
    ASSUME TypeOK, GuardInv, NEW c \in Commands,
           ClearStep(c)
    PROVE  GuardInv'
<1> USE DEF TypeOK, FilesOK, CommandsOK, WorkersOK, Owner
<1> USE DEF GuardInv, LockInv, OwnerInv, StartInv, ClearInv, WorkerInv, HoldsLock, Holding
<1> USE DEF shared, locals, worker, ghosts, At, Goto, WGoto, StartPcs, ClearPcs
<1>1. CASE ClearRead(c)
  BY <1>1 DEF ClearRead
<1>2. CASE ClearContext(c)
  BY <1>2 DEF ClearContext
<1>3. CASE ClearOwner(c)
  BY <1>3 DEF ClearOwner, NoOwner
<1>4. CASE ClearBusy(c)
  BY <1>4 DEF ClearBusy, RemoveEmptyGuard
<1>5. CASE ClearCancel(c)
  BY <1>5 DEF ClearCancel
<1>6. CASE ClearState(c)
  BY <1>6 DEF ClearState
<1>7. QED BY <1>1, <1>2, <1>3, <1>4, <1>5, <1>6 DEF ClearStep

\* startSession takes the guard only where there is none.
LEMMA StartKeepsGuard ==
    ASSUME TypeOK, GuardInv, NEW c \in Commands,
           StartStep(c)
    PROVE  GuardInv'
<1> USE DEF TypeOK, FilesOK, CommandsOK, WorkersOK, Owner
<1> USE DEF GuardInv, LockInv, OwnerInv, StartInv, ClearInv, WorkerInv, HoldsLock, Holding
<1> USE DEF shared, locals, worker, ghosts, At, Goto, WGoto, StartPcs, ClearPcs
<1>1. CASE StartRead(c)
  BY <1>1 DEF StartRead
<1>2. CASE MakeGuard(c)
  BY <1>2 DEF MakeGuard
<1>3. CASE WriteJob(c)
  BY <1>3 DEF WriteJob
<1>4. CASE WriteOwner(c)
  BY <1>4 DEF WriteOwner
<1>5. CASE RemoveCancel(c)
  BY <1>5 DEF RemoveCancel
<1>6. CASE WriteStarting(c)
  BY <1>6 DEF WriteStarting
<1>7. CASE Spawn(c)
  BY <1>7 DEF Spawn
<1>8. CASE WriteWorkerPid(c)
  <2>1. lock = c /\ owner.token \in {c, None} /\ wpc[c] # "none"
    BY <1>8 DEF WriteWorkerPid
  <2>2. CASE busy
    <3>1. owner' = [token |-> c, worker |-> TRUE] /\ busy'
      BY <1>8, <2>2 DEF WriteWorkerPid
    <3>2. \A d \in Commands : Holding(d) => d = c
      BY <2>1
    <3>3. LockInv' /\ OwnerInv'
      BY <1>8, <2>1, <3>1 DEF WriteWorkerPid
    <3>4. StartInv' /\ ClearInv'
      BY <1>8, <2>1, <3>1 DEF WriteWorkerPid
    <3>5. WorkerInv'
      BY <1>8, <2>1, <3>1, <3>2 DEF WriteWorkerPid
    <3>6. QED BY <3>3, <3>4, <3>5
  <2>3. CASE ~busy
    BY <1>8, <2>1, <2>3 DEF WriteWorkerPid
  <2>4. QED BY <2>2, <2>3
<1>9. CASE RemoveOwner(c) \/ RemoveGuard(c)
  BY <1>9 DEF RemoveOwner, RemoveGuard, NoOwner
<1>10. CASE WriteFailed(c)
  BY <1>10 DEF WriteFailed
<1>11. QED BY <1>1, <1>2, <1>3, <1>4, <1>5, <1>6, <1>7, <1>8, <1>9, <1>10
             DEF StartStep

\* A worker gives its guard up, and never another one's owner file.
LEMMA WorkerKeepsGuard ==
    ASSUME TypeOK, GuardInv, NEW c \in Commands,
           WorkerStep(c) \/ WorkerConverses(c) \/ RunEnds(c)
    PROVE  GuardInv'
<1> USE DEF TypeOK, FilesOK, CommandsOK, WorkersOK, Owner
<1> USE DEF GuardInv, LockInv, OwnerInv, StartInv, ClearInv, WorkerInv, HoldsLock, Holding
<1> USE DEF shared, locals, worker, ghosts, At, Goto, WGoto, StartPcs, ClearPcs
<1>1. CASE WorkerReadsJob(c)
  BY <1>1 DEF WorkerReadsJob
<1>2. CASE WorkerReadsState(c)
  BY <1>2 DEF WorkerReadsState
<1>3. CASE WorkerReadsOwner(c)
  BY <1>3 DEF WorkerReadsOwner
<1>4. CASE WorkerMarksRunning(c)
  BY <1>4 DEF WorkerMarksRunning
<1>5. CASE WorkerPolls(c)
  BY <1>5 DEF WorkerPolls
<1>6. CASE WorkerRescues(c)
  BY <1>6 DEF WorkerRescues
<1>7. CASE WorkerReleases(c)
  BY <1>7 DEF WorkerReleases
<1>8. CASE WorkerUnlinks(c)
  BY <1>8 DEF WorkerUnlinks, NoOwner
<1>9. CASE WorkerRemovesGuard(c)
  BY <1>9 DEF WorkerRemovesGuard, RemoveEmptyGuard, NoOwner
<1>10. CASE WorkerConverses(c)
  BY <1>10 DEF WorkerConverses
<1>11. CASE WorkerFinishes(c)
  BY <1>11 DEF WorkerFinishes
<1>12. CASE WorkerThrows(c)
  BY <1>12 DEF WorkerThrows
<1>13. QED BY <1>1, <1>2, <1>3, <1>4, <1>5, <1>6, <1>7, <1>8, <1>9,
             <1>10, <1>11, <1>12 DEF WorkerStep, RunEnds

\* A kill or a failing start leaves a guard whose owner is known.
LEMMA FailureKeepsGuard ==
    ASSUME TypeOK, GuardInv, NEW c \in Commands,
           OperationFails(c) \/ CommandDies(c) \/ WorkerDies(c)
    PROVE  GuardInv'
<1> USE DEF TypeOK, FilesOK, CommandsOK, WorkersOK, Owner
<1> USE DEF GuardInv, LockInv, OwnerInv, StartInv, ClearInv, WorkerInv, HoldsLock, Holding
<1> USE DEF shared, locals, worker, ghosts, At, Goto, WGoto, StartPcs, ClearPcs
<1>1. CASE OperationFails(c)
  BY <1>1 DEF OperationFails
<1>2. CASE CommandDies(c)
  BY <1>2 DEF CommandDies, Running
<1>3. CASE WorkerDies(c)
  BY <1>3 DEF WorkerDies, WorkerLive, WorkerPcs
<1>4. QED BY <1>1, <1>2, <1>3

-----------------------------------------------------------------------------
(* JobInv: state.json is about the job that holds the guard.               *)

\* Launching a command leaves state.json alone.
LEMMA LaunchKeepsJobs ==
    ASSUME TypeOK, GuardInv, JobInv, NEW c \in Commands,
           Launch(c)
    PROVE  JobInv'
<1> USE DEF TypeOK, FilesOK, CommandsOK, WorkersOK, Owner, State
<1> USE DEF GuardInv, OwnerInv, StartInv, ClearInv, WorkerInv, JobInv, Holding
<1> USE DEF shared, locals, worker, ghosts, At, Goto, WGoto, StartPcs, ClearPcs
<1>1. CASE LaunchFresh(c)
  BY <1>1 DEF LaunchFresh
<1>2. CASE LaunchRestart(c)
  BY <1>2 DEF LaunchRestart
<1>3. CASE LaunchInspect(c)
  BY <1>3 DEF LaunchInspect
<1>4. QED BY <1>1, <1>2, <1>3 DEF Launch

\* Outside start and clear, no command writes state.json.
LEMMA CommandKeepsJobs ==
    ASSUME TypeOK, GuardInv, JobInv, NEW c \in Commands,
           Lock(c) \/ Unlock(c) \/ Look(c) \/ Probe(c) 
           \/ WriteCancel(c) \/ Stash(c) \/ Unstash(c)
    PROVE  JobInv'
<1> USE DEF TypeOK, FilesOK, CommandsOK, WorkersOK, Owner, State
<1> USE DEF GuardInv, OwnerInv, StartInv, ClearInv, WorkerInv, JobInv, Holding
<1> USE DEF shared, locals, worker, ghosts, At, Goto, WGoto, StartPcs, ClearPcs
<1>1. CASE Lock(c)
  BY <1>1 DEF Lock
<1>2. CASE Unlock(c)
  BY <1>2 DEF Unlock
<1>3. CASE Look(c)
  BY <1>3 DEF Look
<1>4. CASE Probe(c)
  BY <1>4 DEF Probe, StopSees, WaitSees, RecheckSees, ClearSees, InspectSees
<1>5. CASE WriteCancel(c)
  BY <1>5 DEF WriteCancel
<1>6. CASE Stash(c)
  BY <1>6 DEF Stash
<1>7. CASE Unstash(c)
  BY <1>7 DEF Unstash
<1>8. QED BY <1>1, <1>2, <1>3, <1>4, <1>5, <1>6, <1>7

\* clearSession unbinds the job from state.json when no worker holds the guard.
LEMMA ClearKeepsJobs ==
    ASSUME TypeOK, GuardInv, JobInv, NEW c \in Commands,
           ClearStep(c)
    PROVE  JobInv'
<1> USE DEF TypeOK, FilesOK, CommandsOK, WorkersOK, Owner, State
<1> USE DEF GuardInv, OwnerInv, StartInv, ClearInv, WorkerInv, JobInv, Holding
<1> USE DEF shared, locals, worker, ghosts, At, Goto, WGoto, StartPcs, ClearPcs
<1>1. CASE ClearRead(c)
  BY <1>1 DEF ClearRead
<1>2. CASE ClearContext(c)
  BY <1>2 DEF ClearContext
<1>3. CASE ClearOwner(c)
  BY <1>3 DEF ClearOwner
<1>4. CASE ClearBusy(c)
  BY <1>4 DEF ClearBusy
<1>5. CASE ClearCancel(c)
  BY <1>5 DEF ClearCancel
<1>6. CASE ClearState(c)
  BY <1>6 DEF ClearState
<1>7. QED BY <1>1, <1>2, <1>3, <1>4, <1>5, <1>6 DEF ClearStep

\* startSession writes its own job into state.json before it spawns the worker.
LEMMA StartKeepsJobs ==
    ASSUME TypeOK, GuardInv, JobInv, NEW c \in Commands,
           StartStep(c)
    PROVE  JobInv'
<1> USE DEF TypeOK, FilesOK, CommandsOK, WorkersOK, Owner, State
<1> USE DEF GuardInv, OwnerInv, StartInv, ClearInv, WorkerInv, JobInv, Holding
<1> USE DEF shared, locals, worker, ghosts, At, Goto, WGoto, StartPcs, ClearPcs
<1>1. CASE StartRead(c)
  BY <1>1 DEF StartRead
<1>2. CASE MakeGuard(c)
  BY <1>2 DEF MakeGuard
<1>3. CASE WriteJob(c)
  BY <1>3 DEF WriteJob
<1>4. CASE WriteOwner(c)
  BY <1>4 DEF WriteOwner
<1>5. CASE RemoveCancel(c)
  BY <1>5 DEF RemoveCancel
<1>6. CASE WriteStarting(c)
  BY <1>6 DEF WriteStarting
<1>7. CASE Spawn(c)
  BY <1>7 DEF Spawn
<1>8. CASE WriteWorkerPid(c)
  BY <1>8 DEF WriteWorkerPid
<1>9. CASE RemoveOwner(c) \/ RemoveGuard(c)
  BY <1>9 DEF RemoveOwner, RemoveGuard
<1>10. CASE WriteFailed(c)
  BY <1>10 DEF WriteFailed
<1>11. QED BY <1>1, <1>2, <1>3, <1>4, <1>5, <1>6, <1>7, <1>8, <1>9, <1>10
             DEF StartStep

\* A worker writes back the copy of state.json that names its own job.
LEMMA WorkerKeepsJobs ==
    ASSUME TypeOK, GuardInv, JobInv, NEW c \in Commands,
           WorkerStep(c) \/ WorkerConverses(c) \/ RunEnds(c)
    PROVE  JobInv'
<1> USE DEF TypeOK, FilesOK, CommandsOK, WorkersOK, Owner, State
<1> USE DEF GuardInv, OwnerInv, StartInv, ClearInv, WorkerInv, JobInv, Holding
<1> USE DEF shared, locals, worker, ghosts, At, Goto, WGoto, StartPcs, ClearPcs
<1>1. CASE WorkerReadsJob(c)
  BY <1>1 DEF WorkerReadsJob, NoJob
<1>2. CASE WorkerReadsState(c)
  BY <1>2 DEF WorkerReadsState
<1>3. CASE WorkerReadsOwner(c)
  BY <1>3 DEF WorkerReadsOwner
<1>4. CASE WorkerMarksRunning(c)
  BY <1>4 DEF WorkerMarksRunning
<1>5. CASE WorkerPolls(c)
  BY <1>5 DEF WorkerPolls
<1>6. CASE WorkerRescues(c)
  BY <1>6 DEF WorkerRescues
<1>7. CASE WorkerReleases(c)
  BY <1>7 DEF WorkerReleases
<1>8. CASE WorkerUnlinks(c)
  BY <1>8 DEF WorkerUnlinks
<1>9. CASE WorkerRemovesGuard(c)
  BY <1>9 DEF WorkerRemovesGuard
<1>10. CASE WorkerConverses(c)
  BY <1>10 DEF WorkerConverses
<1>11. CASE WorkerFinishes(c)
  BY <1>11 DEF WorkerFinishes
<1>12. CASE WorkerThrows(c)
  BY <1>12 DEF WorkerThrows
<1>13. QED BY <1>1, <1>2, <1>3, <1>4, <1>5, <1>6, <1>7, <1>8, <1>9,
             <1>10, <1>11, <1>12 DEF WorkerStep, RunEnds

\* A kill or a failing start leaves state.json as it is.
LEMMA FailureKeepsJobs ==
    ASSUME TypeOK, GuardInv, JobInv, NEW c \in Commands,
           OperationFails(c) \/ CommandDies(c) \/ WorkerDies(c)
    PROVE  JobInv'
<1> USE DEF TypeOK, FilesOK, CommandsOK, WorkersOK, Owner, State
<1> USE DEF GuardInv, OwnerInv, StartInv, ClearInv, WorkerInv, JobInv, Holding
<1> USE DEF shared, locals, worker, ghosts, At, Goto, WGoto, StartPcs, ClearPcs
<1>1. CASE OperationFails(c)
  BY <1>1 DEF OperationFails
<1>2. CASE CommandDies(c)
  BY <1>2 DEF CommandDies, Running
<1>3. CASE WorkerDies(c)
  BY <1>3 DEF WorkerDies
<1>4. QED BY <1>1, <1>2, <1>3

-----------------------------------------------------------------------------
(* GenerationInv: no stale copy of state.json is ever written back.        *)

\* Launching a command changes no generation.
LEMMA LaunchKeepsGenerations ==
    ASSUME TypeOK, GuardInv, JobInv, GenerationInv, NEW c \in Commands,
           Launch(c)
    PROVE  GenerationInv'
<1> USE DEF TypeOK, FilesOK, CommandsOK, WorkersOK, Owner, State
<1> USE DEF GuardInv, LockInv, OwnerInv, StartInv, ClearInv, WorkerInv, HoldsLock, Holding
<1> USE DEF JobInv, GenerationInv
<1> USE DEF shared, locals, worker, ghosts, At, Goto, WGoto, StartPcs, ClearPcs
<1>1. CASE LaunchFresh(c)
  BY <1>1 DEF LaunchFresh
<1>2. CASE LaunchRestart(c)
  BY <1>2 DEF LaunchRestart
<1>3. CASE LaunchInspect(c)
  BY <1>3 DEF LaunchInspect
<1>4. QED BY <1>1, <1>2, <1>3 DEF Launch

\* Outside start and clear, every copy of a generation stays.
LEMMA CommandKeepsGenerations ==
    ASSUME TypeOK, GuardInv, JobInv, GenerationInv, NEW c \in Commands,
           Lock(c) \/ Unlock(c) \/ Look(c) \/ Probe(c) 
           \/ WriteCancel(c) \/ Stash(c) \/ Unstash(c)
    PROVE  GenerationInv'
<1> USE DEF TypeOK, FilesOK, CommandsOK, WorkersOK, Owner, State
<1> USE DEF GuardInv, LockInv, OwnerInv, StartInv, ClearInv, WorkerInv, HoldsLock, Holding
<1> USE DEF JobInv, GenerationInv
<1> USE DEF shared, locals, worker, ghosts, At, Goto, WGoto, StartPcs, ClearPcs
<1>1. CASE Lock(c)
  <2>1. CASE lock = None
    BY <1>1, <2>1 DEF Lock
  <2>2. CASE lock # None
    BY <1>1, <2>2 DEF Lock
  <2>3. QED BY <2>1, <2>2
<1>2. CASE Unlock(c)
  BY <1>2 DEF Unlock
<1>3. CASE Look(c)
  BY <1>3 DEF Look
<1>4. CASE Probe(c)
  <2>1. UNCHANGED <<state, context, jobFile, copy, wpc, wjob, wstate>>
    BY <1>4 DEF Probe
  <2>2. \E label \in {"write_cancel", "unlock", "look", "done", "lock", "clear_read"} :
          pc' = [pc EXCEPT ![c] = label]
    BY <1>4 DEF Probe, StopSees, WaitSees, RecheckSees, ClearSees, InspectSees
  <2> QED BY <2>1, <2>2
<1>5. CASE WriteCancel(c)
  BY <1>5 DEF WriteCancel
<1>6. CASE Stash(c)
  BY <1>6 DEF Stash
<1>7. CASE Unstash(c)
  BY <1>7 DEF Unstash
<1>8. QED BY <1>1, <1>2, <1>3, <1>4, <1>5, <1>6, <1>7

\* clearSession bumps the generation after the conversation is gone and while
\* nobody else is about to write a copy.
LEMMA ClearKeepsGenerations ==
    ASSUME TypeOK, GuardInv, JobInv, GenerationInv, NEW c \in Commands,
           ClearStep(c)
    PROVE  GenerationInv'
<1> USE DEF TypeOK, FilesOK, CommandsOK, WorkersOK, Owner, State
<1> USE DEF GuardInv, LockInv, OwnerInv, StartInv, ClearInv, WorkerInv, HoldsLock, Holding
<1> USE DEF JobInv, GenerationInv
<1> USE DEF shared, locals, worker, ghosts, At, Goto, WGoto, StartPcs, ClearPcs
<1>1. CASE ClearRead(c)
  BY <1>1 DEF ClearRead
<1>2. CASE ClearContext(c)
  BY <1>2 DEF ClearContext
<1>3. CASE ClearOwner(c)
  BY <1>3 DEF ClearOwner
<1>4. CASE ClearBusy(c)
  BY <1>4 DEF ClearBusy
<1>5. CASE ClearCancel(c)
  BY <1>5 DEF ClearCancel
<1>6. CASE ClearState(c)
  BY <1>6 DEF ClearState
<1>7. QED BY <1>1, <1>2, <1>3, <1>4, <1>5, <1>6 DEF ClearStep

\* startSession hands the current generation on to job.json and the worker.
LEMMA StartKeepsGenerations ==
    ASSUME TypeOK, GuardInv, JobInv, GenerationInv, NEW c \in Commands,
           StartStep(c)
    PROVE  GenerationInv'
<1> USE DEF TypeOK, FilesOK, CommandsOK, WorkersOK, Owner, State
<1> USE DEF GuardInv, LockInv, OwnerInv, StartInv, ClearInv, WorkerInv, HoldsLock, Holding
<1> USE DEF JobInv, GenerationInv
<1> USE DEF shared, locals, worker, ghosts, At, Goto, WGoto, StartPcs, ClearPcs
<1>1. CASE StartRead(c)
  BY <1>1 DEF StartRead
<1>2. CASE MakeGuard(c)
  <2>1. UNCHANGED <<state, context, jobFile, copy, wpc, wjob, wstate>>
    BY <1>2 DEF MakeGuard
  <2>2. /\ pc[c] = "mkdir"
        /\ \E label \in {"unlock", "write_job"} : pc' = [pc EXCEPT ![c] = label]
    BY <1>2 DEF MakeGuard
  <2> QED BY <2>1, <2>2
<1>3. CASE WriteJob(c)
  BY <1>3 DEF WriteJob
<1>4. CASE WriteOwner(c)
  BY <1>4 DEF WriteOwner
<1>5. CASE RemoveCancel(c)
  BY <1>5 DEF RemoveCancel
<1>6. CASE WriteStarting(c)
  BY <1>6 DEF WriteStarting
<1>7. CASE Spawn(c)
  BY <1>7 DEF Spawn
<1>8. CASE WriteWorkerPid(c)
  BY <1>8 DEF WriteWorkerPid
<1>9. CASE RemoveOwner(c) \/ RemoveGuard(c)
  <2>1. UNCHANGED <<state, context, jobFile, copy, wpc, wjob, wstate>>
    BY <1>9 DEF RemoveOwner, RemoveGuard
  <2>2. \/ pc[c] = "rollback" /\ pc' = [pc EXCEPT ![c] = "rm_guard"]
        \/ pc[c] = "rm_guard" /\ pc' = [pc EXCEPT ![c] = "write_failed"]
    BY <1>9 DEF RemoveOwner, RemoveGuard
  <2> QED BY <2>1, <2>2
<1>10. CASE WriteFailed(c)
  BY <1>10 DEF WriteFailed
<1>11. QED BY <1>1, <1>2, <1>3, <1>4, <1>5, <1>6, <1>7, <1>8, <1>9, <1>10
             DEF StartStep

\* A worker converses in, and writes back, the current generation.
LEMMA WorkerKeepsGenerations ==
    ASSUME TypeOK, GuardInv, JobInv, GenerationInv, NEW c \in Commands,
           WorkerStep(c) \/ WorkerConverses(c) \/ RunEnds(c)
    PROVE  GenerationInv'
<1> USE DEF TypeOK, FilesOK, CommandsOK, WorkersOK, Owner, State
<1> USE DEF GuardInv, LockInv, OwnerInv, StartInv, ClearInv, WorkerInv, HoldsLock, Holding
<1> USE DEF JobInv, GenerationInv
<1> USE DEF shared, locals, worker, ghosts, At, Goto, WGoto, StartPcs, ClearPcs
<1>1. CASE WorkerReadsJob(c)
  BY <1>1 DEF WorkerReadsJob, NoJob
<1>2. CASE WorkerReadsState(c)
  BY <1>2 DEF WorkerReadsState
<1>3. CASE WorkerReadsOwner(c)
  BY <1>3 DEF WorkerReadsOwner
<1>4. CASE WorkerMarksRunning(c)
  BY <1>4 DEF WorkerMarksRunning
<1>5. CASE WorkerPolls(c)
  BY <1>5 DEF WorkerPolls
<1>6. CASE WorkerRescues(c)
  BY <1>6 DEF WorkerRescues
<1>7. CASE WorkerReleases(c)
  BY <1>7 DEF WorkerReleases
<1>8. CASE WorkerUnlinks(c)
  BY <1>8 DEF WorkerUnlinks
<1>9. CASE WorkerRemovesGuard(c)
  BY <1>9 DEF WorkerRemovesGuard
<1>10. CASE WorkerConverses(c)
  <2>1. wpc[c] = "run" /\ context' = context \cup {state.generation}
    BY <1>10 DEF WorkerConverses
  <2>2. owner.token = c /\ c # None
    BY <2>1
  <2>3. ASSUME NEW d \in Commands
        PROVE  pc[d] \notin {"rm_owner", "rm_busy", "clear_cancel", "clear_state"}
    BY <2>1, <2>2
  <2>4. QED
    BY <1>10, <2>1, <2>3 DEF WorkerConverses
<1>11. CASE WorkerFinishes(c)
  BY <1>11 DEF WorkerFinishes
<1>12. CASE WorkerThrows(c)
  BY <1>12 DEF WorkerThrows
<1>13. QED BY <1>1, <1>2, <1>3, <1>4, <1>5, <1>6, <1>7, <1>8, <1>9,
             <1>10, <1>11, <1>12 DEF WorkerStep, RunEnds

\* A kill or a failing start changes no generation.
LEMMA FailureKeepsGenerations ==
    ASSUME TypeOK, GuardInv, JobInv, GenerationInv, NEW c \in Commands,
           OperationFails(c) \/ CommandDies(c) \/ WorkerDies(c)
    PROVE  GenerationInv'
<1> USE DEF TypeOK, FilesOK, CommandsOK, WorkersOK, Owner, State
<1> USE DEF GuardInv, LockInv, OwnerInv, StartInv, ClearInv, WorkerInv, HoldsLock, Holding
<1> USE DEF JobInv, GenerationInv
<1> USE DEF shared, locals, worker, ghosts, At, Goto, WGoto, StartPcs, ClearPcs
<1>1. CASE OperationFails(c)
  BY <1>1 DEF OperationFails
<1>2. CASE CommandDies(c)
  BY <1>2 DEF CommandDies, Running
<1>3. CASE WorkerDies(c)
  BY <1>3 DEF WorkerDies
<1>4. QED BY <1>1, <1>2, <1>3

-----------------------------------------------------------------------------
(* The theorems.                                                           *)

\* Every step, of whichever process, preserves the whole invariant.
LEMMA InvariantStep ==
    ASSUME TypeOK, SessionInvariant, [Next]_vars
    PROVE  SessionInvariant'
<1>1. CASE UNCHANGED vars
  BY <1>1 DEF vars, shared, locals, worker, SessionInvariant, GuardInv, LockInv, OwnerInv,
       StartInv, ClearInv, WorkerInv, JobInv, GenerationInv, HoldsLock, Holding
<1>2. CASE Next
  <2>1. GuardInv'
    BY <1>2, LaunchKeepsGuard, CommandKeepsGuard, ClearKeepsGuard, StartKeepsGuard,
       WorkerKeepsGuard, FailureKeepsGuard DEF Next, CommandStep, SessionInvariant
  <2>2. JobInv'
    BY <1>2, LaunchKeepsJobs, CommandKeepsJobs, ClearKeepsJobs, StartKeepsJobs,
       WorkerKeepsJobs, FailureKeepsJobs DEF Next, CommandStep, SessionInvariant
  <2>3. GenerationInv'
    BY <1>2, LaunchKeepsGenerations, CommandKeepsGenerations, ClearKeepsGenerations,
       StartKeepsGenerations, WorkerKeepsGenerations, FailureKeepsGenerations
       DEF Next, CommandStep, SessionInvariant
  <2>4. QED BY <2>1, <2>2, <2>3 DEF SessionInvariant
<1>3. QED BY <1>1, <1>2

\* The inductive invariant: who owns the lock and the guard, and which copies of
\* state.json are current, at every program point of every process.
THEOREM InvariantHolds == Spec => []SessionInvariant
<1>1. Init => SessionInvariant
  BY InitialGuard DEF Init, SessionInvariant, JobInv, GenerationInv, Holding, StartPcs,
     ClearPcs, FreshState
<1>2. TypeOK /\ SessionInvariant /\ [Next]_vars => SessionInvariant'
  BY InvariantStep
<1>3. QED BY <1>1, <1>2, TypeCorrect, PTL DEF Spec

\* docs/sessions.md, one active job per session: never two workers at once that
\* have established ownership and not yet reported their result.
THEOREM MutualExclusion == Spec => []OneActiveJob
<1>1. SessionInvariant => OneActiveJob
  BY DEF SessionInvariant, GuardInv, WorkerInv, Holding, OneActiveJob, Active
<1>2. QED BY <1>1, InvariantHolds, PTL

\* No lost update of state.json: while a worker runs, the file names its job.
THEOREM NoLostUpdate == Spec => []StateIsTheActiveJobs
<1>1. SessionInvariant => StateIsTheActiveJobs
  BY DEF SessionInvariant, JobInv, Holding, StateIsTheActiveJobs
<1>2. QED BY <1>1, InvariantHolds, PTL

\* After a clear no conversation of an earlier generation is left or comes back.
THEOREM ClearedForGood == Spec => []ConversationIsCurrent
<1>1. SessionInvariant => ConversationIsCurrent
  BY DEF SessionInvariant, GenerationInv, ConversationIsCurrent
<1>2. QED BY <1>1, InvariantHolds, PTL

\* A worker writes state.json only while busy/owner.json carries its token.
THEOREM OwnershipBeforeState == Spec => OnlyTheOwnerWritesState
<1>1. SessionInvariant /\ [Next]_vars =>
        [\A c \in Commands :
           wpc[c] \in {"mark", "run", "rescue"} /\ wpc'[c] # wpc[c] /\ state' # state
              => owner.token = c]_vars
  BY DEF SessionInvariant, GuardInv, WorkerInv, Holding
<1>2. QED BY <1>1, InvariantHolds, PTL DEF Spec, OnlyTheOwnerWritesState

\* Every step that writes state.json keeps or bumps the generation.
LEMMA GenerationStep ==
    ASSUME TypeOK, SessionInvariant, [Next]_vars
    PROVE  [state'.generation >= state.generation]_vars
<1> USE DEF TypeOK, FilesOK, CommandsOK, WorkersOK, State, StartPcs, ClearPcs, At
<1> USE DEF SessionInvariant, GenerationInv
<1>1. ASSUME state' = state
      PROVE  state'.generation >= state.generation
  BY <1>1
<1>2. ASSUME NEW c \in Commands, ClearState(c)
      PROVE  state'.generation >= state.generation
  <2>1. copy[c] \in State /\ copy[c].generation = state.generation
    BY <1>2 DEF ClearState
  <2>2. state' = [copy[c] EXCEPT !.generation = @ + 1, !.status = "idle", !.job = None]
    BY <1>2 DEF ClearState
  <2>3. state'.generation = state.generation + 1
    BY <2>1, <2>2
  <2>4. QED BY <2>1, <2>3
<1>3. ASSUME NEW c \in Commands, WriteStarting(c) \/ WriteFailed(c)
      PROVE  state'.generation >= state.generation
  <2>1. copy[c] \in State /\ copy[c].generation = state.generation
    BY <1>3 DEF WriteStarting, WriteFailed
  <2>2. state'.generation = copy[c].generation
    BY <1>3, <2>1 DEF WriteStarting, WriteFailed
  <2>3. QED BY <2>1, <2>2
<1>4. ASSUME NEW c \in Commands,
             WorkerMarksRunning(c) \/ WorkerRescues(c) \/ WorkerFinishes(c)
      PROVE  state'.generation >= state.generation
  <2>1. wstate[c] \in State /\ wstate[c].generation = state.generation
    BY <1>4 DEF WorkerMarksRunning, WorkerRescues, WorkerFinishes
  <2>2. state'.generation = wstate[c].generation
    <3>1. CASE WorkerMarksRunning(c)
      BY <3>1, <2>1 DEF WorkerMarksRunning
    <3>2. CASE WorkerRescues(c)
      BY <3>2, <2>1 DEF WorkerRescues
    <3>3. CASE WorkerFinishes(c)
      BY <3>3, <2>1 DEF WorkerFinishes
    <3>4. QED BY <1>4, <3>1, <3>2, <3>3
  <2>3. QED BY <2>1, <2>2
<1>5. CASE Next
  <2>1. PICK c \in Commands :
          \/ Launch(c) \/ CommandStep(c) \/ OperationFails(c)
          \/ WorkerStep(c) \/ WorkerConverses(c) \/ RunEnds(c)
          \/ CommandDies(c) \/ WorkerDies(c)
    BY <1>5 DEF Next
  <2>2. CASE ClearState(c) \/ WriteStarting(c) \/ WriteFailed(c)
             \/ WorkerMarksRunning(c) \/ WorkerRescues(c) \/ WorkerFinishes(c)
    BY <2>2, <1>2, <1>3, <1>4
  <2>3. CASE ~(ClearState(c) \/ WriteStarting(c) \/ WriteFailed(c)
               \/ WorkerMarksRunning(c) \/ WorkerRescues(c) \/ WorkerFinishes(c))
    <3>1. state' = state
      BY <2>1, <2>3 DEF shared, Launch, LaunchFresh, LaunchRestart, LaunchInspect,
         CommandStep, Lock, Unlock, Look, Probe, WriteCancel, Stash, Unstash,
         ClearStep, ClearRead, ClearContext, ClearOwner, ClearBusy, ClearCancel,
         StartStep, StartRead, MakeGuard, WriteJob, WriteOwner, RemoveCancel, Spawn,
         WriteWorkerPid, RemoveOwner, RemoveGuard, OperationFails, WorkerStep, WorkerReadsJob,
         WorkerReadsState, WorkerReadsOwner, WorkerPolls, WorkerReleases,
         WorkerUnlinks, WorkerRemovesGuard, WorkerConverses, RunEnds, WorkerThrows,
         CommandDies, WorkerDies
    <3>2. QED BY <3>1, <1>1
  <2>4. QED BY <2>2, <2>3
<1>6. QED BY <1>5

\* The generation in state.json only grows: every process that rewrites the file
\* from a copy holds a copy of the current generation.
THEOREM GenerationsGrow == Spec => GenerationNeverDecreases
<1>1. TypeOK /\ SessionInvariant /\ [Next]_vars => [state'.generation >= state.generation]_vars
  BY GenerationStep
<1>2. QED BY <1>1, InvariantHolds, TypeCorrect, PTL DEF Spec, GenerationNeverDecreases

-----------------------------------------------------------------------------
(* ProjectInv: a session is bound to one project.                          *)

\* Launching a command binds no project.
LEMMA LaunchKeepsProjects ==
    ASSUME TypeOK, SessionInvariant, ProjectInv, NEW c \in Commands,
           Launch(c)
    PROVE  ProjectInv'
<1> USE DEF TypeOK, FilesOK, CommandsOK, WorkersOK, Owner, State, Job, NoJob, Request
<1> USE DEF SessionInvariant, GuardInv, LockInv, OwnerInv, StartInv, ClearInv, WorkerInv
<1> USE DEF HoldsLock, Holding, JobInv, GenerationInv, ProjectInv, BoundPcs
<1> USE DEF shared, locals, worker, ghosts, At, Goto, WGoto, StartPcs, ClearPcs
<1>1. CASE LaunchFresh(c)
  BY <1>1 DEF LaunchFresh
<1>2. CASE LaunchRestart(c)
  BY <1>2 DEF LaunchRestart
<1>3. CASE LaunchInspect(c)
  BY <1>3 DEF LaunchInspect
<1>4. QED
  BY <1>1, <1>2, <1>3 DEF Launch

\* Outside start and clear, no copy of state.json is written back.
LEMMA CommandKeepsProjects ==
    ASSUME TypeOK, SessionInvariant, ProjectInv, NEW c \in Commands,
           Lock(c) \/ Unlock(c) \/ Look(c) \/ Probe(c)
           \/ WriteCancel(c) \/ Stash(c) \/ Unstash(c)
    PROVE  ProjectInv'
<1> USE DEF TypeOK, FilesOK, CommandsOK, WorkersOK, Owner, State, Job, NoJob, Request
<1> USE DEF SessionInvariant, GuardInv, LockInv, OwnerInv, StartInv, ClearInv, WorkerInv
<1> USE DEF HoldsLock, Holding, JobInv, GenerationInv, ProjectInv, BoundPcs
<1> USE DEF shared, locals, worker, ghosts, At, Goto, WGoto, StartPcs, ClearPcs
<1>1. CASE Lock(c)
  BY <1>1 DEF Lock
<1>2. CASE Unlock(c)
  BY <1>2 DEF Unlock
<1>3. CASE Look(c)
  BY <1>3 DEF Look
<1>4. CASE Probe(c)
  BY <1>4 DEF Probe, StopSees, WaitSees, RecheckSees, ClearSees, InspectSees
<1>5. CASE WriteCancel(c)
  BY <1>5 DEF WriteCancel
<1>6. CASE Stash(c)
  BY <1>6 DEF Stash
<1>7. CASE Unstash(c)
  BY <1>7 DEF Unstash
<1>8. QED
  BY <1>1, <1>2, <1>3, <1>4, <1>5, <1>6, <1>7

\* clearSession keeps the session's project.
LEMMA ClearKeepsProjects ==
    ASSUME TypeOK, SessionInvariant, ProjectInv, NEW c \in Commands,
           ClearStep(c)
    PROVE  ProjectInv'
<1> USE DEF TypeOK, FilesOK, CommandsOK, WorkersOK, Owner, State, Job, NoJob, Request
<1> USE DEF SessionInvariant, GuardInv, LockInv, OwnerInv, StartInv, ClearInv, WorkerInv
<1> USE DEF HoldsLock, Holding, JobInv, GenerationInv, ProjectInv, BoundPcs
<1> USE DEF shared, locals, worker, ghosts, At, Goto, WGoto, StartPcs, ClearPcs
<1>1. CASE ClearRead(c)
  BY <1>1 DEF ClearRead
<1>2. CASE ClearContext(c)
  BY <1>2 DEF ClearContext
<1>3. CASE ClearOwner(c)
  BY <1>3 DEF ClearOwner
<1>4. CASE ClearBusy(c)
  BY <1>4 DEF ClearBusy
<1>5. CASE ClearCancel(c)
  BY <1>5 DEF ClearCancel
<1>6. CASE ClearState(c)
  BY <1>6 DEF ClearState
<1>7. QED
  BY <1>1, <1>2, <1>3, <1>4, <1>5, <1>6 DEF ClearStep

\* startSession binds the session to the project of its first job, or fails.
LEMMA StartKeepsProjects ==
    ASSUME TypeOK, SessionInvariant, ProjectInv, NEW c \in Commands,
           StartStep(c)
    PROVE  ProjectInv'
<1> USE DEF TypeOK, FilesOK, CommandsOK, WorkersOK, Owner, State, Job, NoJob, Request
<1> USE DEF SessionInvariant, GuardInv, LockInv, OwnerInv, StartInv, ClearInv, WorkerInv
<1> USE DEF HoldsLock, Holding, JobInv, GenerationInv, ProjectInv, BoundPcs
<1> USE DEF shared, locals, worker, ghosts, At, Goto, WGoto, StartPcs, ClearPcs
<1>1. CASE StartRead(c)
  BY <1>1 DEF StartRead
<1>2. CASE MakeGuard(c)
  BY <1>2 DEF MakeGuard
<1>3. CASE WriteJob(c)
  BY <1>3 DEF WriteJob
<1>4. CASE WriteOwner(c)
  BY <1>4 DEF WriteOwner
<1>5. CASE RemoveCancel(c)
  BY <1>5 DEF RemoveCancel
<1>6. CASE WriteStarting(c)
  <2>1. /\ pc[c] = "write_state" /\ lock = c /\ owner.token = c /\ wpc[c] = "none"
        /\ pc' = [pc EXCEPT ![c] = "spawn"]
        /\ state'.project = Project[request[c].task]
        /\ UNCHANGED <<copy, request, jobFile, tested, wpc, wjob, wstate>>
    <3>1. /\ pc[c] = "write_state" /\ pc' = [pc EXCEPT ![c] = "spawn"]
          /\ UNCHANGED <<copy, request, jobFile, tested, wpc, wjob, wstate>>
          /\ state' = [copy[c] EXCEPT !.status = "starting", !.job = c, !.last = None,
                                      !.project = Project[request[c].task]]
      BY <1>6 DEF WriteStarting
    <3>2. lock = c /\ owner.token = c
      BY <3>1
    <3>3. wpc[c] = "none"
      BY <3>1
    <3>4. state'.project = Project[request[c].task]
      BY <3>1
    <3> QED
      BY <3>1, <3>2, <3>3, <3>4
  <2>2. \A d \in Commands : ~Holding(d)
    BY <2>1
  <2>3. \A d \in Commands \ {c} : ~HoldsLock(d) /\ pc'[d] = pc[d]
    BY <2>1
  <2>4. \A p \in tested : p = Project[request[c].task]
    BY <2>1
  <2> QED
    BY <2>1, <2>2, <2>3, <2>4
<1>7. CASE Spawn(c)
  BY <1>7 DEF Spawn
<1>8. CASE WriteWorkerPid(c)
  BY <1>8 DEF WriteWorkerPid
<1>9. CASE RemoveOwner(c) \/ RemoveGuard(c)
  BY <1>9 DEF RemoveOwner, RemoveGuard
<1>10. CASE WriteFailed(c)
  BY <1>10 DEF WriteFailed
<1>11. QED
  BY <1>1, <1>2, <1>3, <1>4, <1>5, <1>6, <1>7, <1>8, <1>9, <1>10 DEF StartStep

\* A worker tests the project its job was bound to.
LEMMA WorkerKeepsProjects ==
    ASSUME TypeOK, SessionInvariant, ProjectInv, NEW c \in Commands,
           WorkerStep(c) \/ WorkerConverses(c) \/ RunEnds(c)
    PROVE  ProjectInv'
<1> USE DEF TypeOK, FilesOK, CommandsOK, WorkersOK, Owner, State, Job, NoJob, Request
<1> USE DEF SessionInvariant, GuardInv, LockInv, OwnerInv, StartInv, ClearInv, WorkerInv
<1> USE DEF HoldsLock, Holding, JobInv, GenerationInv, ProjectInv, BoundPcs
<1> USE DEF shared, locals, worker, ghosts, At, Goto, WGoto, StartPcs, ClearPcs
<1>1. CASE WorkerReadsJob(c)
  BY <1>1 DEF WorkerReadsJob
<1>2. CASE WorkerReadsState(c)
  BY <1>2 DEF WorkerReadsState
<1>3. CASE WorkerReadsOwner(c)
  BY <1>3 DEF WorkerReadsOwner
<1>4. CASE WorkerMarksRunning(c)
  <2>1. /\ wpc[c] = "mark" /\ owner.token = c /\ pc[c] \notin BoundPcs
        /\ wpc' = [wpc EXCEPT ![c] = "poll"]
        /\ state'.project = state.project
        /\ tested' = tested \cup {state.project}
        /\ UNCHANGED <<pc, copy, request, jobFile, wjob, wstate>>
    <3>1. /\ wpc[c] = "mark" /\ wpc' = [wpc EXCEPT ![c] = "poll"]
          /\ state' = [wstate[c] EXCEPT !.status = "running"]
          /\ tested' = tested \cup {Project[wjob[c].task]}
          /\ UNCHANGED <<pc, copy, request, jobFile, wjob, wstate>>
      BY <1>4 DEF WorkerMarksRunning
    <3>2. owner.token = c /\ pc[c] \notin BoundPcs
      BY <3>1
    <3>3. Project[wjob[c].task] = state.project /\ wstate[c].project = state.project
      BY <3>1
    <3>4. state'.project = wstate[c].project
      BY <3>1
    <3> QED
      BY <3>1, <3>2, <3>3, <3>4
  <2>2. \A p \in tested' : state'.project = p
    BY <2>1
  <2>3. \A d \in Commands : pc[d] \in BoundPcs => pc[d] = "mkdir"
    BY <2>1
  <2>4. \A d \in Commands : pc[d] \in BoundPcs => copy[d].project = state.project
    BY <2>3
  <2> QED
    BY <2>1, <2>2, <2>4
<1>5. CASE WorkerPolls(c)
  BY <1>5 DEF WorkerPolls
<1>6. CASE WorkerRescues(c)
  BY <1>6 DEF WorkerRescues
<1>7. CASE WorkerReleases(c)
  BY <1>7 DEF WorkerReleases
<1>8. CASE WorkerUnlinks(c)
  BY <1>8 DEF WorkerUnlinks
<1>9. CASE WorkerRemovesGuard(c)
  BY <1>9 DEF WorkerRemovesGuard
<1>10. CASE WorkerConverses(c)
  BY <1>10 DEF WorkerConverses
<1>11. CASE WorkerFinishes(c)
  BY <1>11 DEF WorkerFinishes
<1>12. CASE WorkerThrows(c)
  BY <1>12 DEF WorkerThrows
<1>13. QED
  BY <1>1, <1>2, <1>3, <1>4, <1>5, <1>6, <1>7, <1>8, <1>9, <1>10, <1>11, <1>12 DEF WorkerStep, RunEnds

\* A kill or a failing start changes no project.
LEMMA FailureKeepsProjects ==
    ASSUME TypeOK, SessionInvariant, ProjectInv, NEW c \in Commands,
           OperationFails(c) \/ CommandDies(c) \/ WorkerDies(c)
    PROVE  ProjectInv'
<1> USE DEF TypeOK, FilesOK, CommandsOK, WorkersOK, Owner, State, Job, NoJob, Request
<1> USE DEF SessionInvariant, GuardInv, LockInv, OwnerInv, StartInv, ClearInv, WorkerInv
<1> USE DEF HoldsLock, Holding, JobInv, GenerationInv, ProjectInv, BoundPcs
<1> USE DEF shared, locals, worker, ghosts, At, Goto, WGoto, StartPcs, ClearPcs
<1>1. CASE OperationFails(c)
  BY <1>1 DEF OperationFails
<1>2. CASE CommandDies(c)
  BY <1>2 DEF CommandDies, Running
<1>3. CASE WorkerDies(c)
  BY <1>3 DEF WorkerDies
<1>4. QED
  BY <1>1, <1>2, <1>3

\* Every step keeps the session bound.
LEMMA ProjectStep ==
    ASSUME TypeOK, SessionInvariant, ProjectInv, [Next]_vars PROVE ProjectInv'
<1>1. CASE UNCHANGED vars
  BY <1>1 DEF vars, shared, locals, worker, ghosts, ProjectInv
<1>2. CASE Next
  BY <1>2, LaunchKeepsProjects, CommandKeepsProjects, ClearKeepsProjects,
     StartKeepsProjects, WorkerKeepsProjects, FailureKeepsProjects DEF Next, CommandStep
<1> QED
  BY <1>1, <1>2

\* Every worker that gets past its proof of ownership tests the same project,
\* whatever starts, failed starts, clears and kills came in between.
THEOREM BoundToOneProject == Spec => []OneProject
<1>1. Init => ProjectInv
  BY DEF Init, ProjectInv, BoundPcs, ClearPcs, FreshState
<1>2. TypeOK /\ SessionInvariant /\ ProjectInv /\ [Next]_vars => ProjectInv'
  BY ProjectStep
<1>3. ProjectInv => OneProject
  BY DEF ProjectInv, OneProject
<1> QED
  BY <1>1, <1>2, <1>3, TypeCorrect, InvariantHolds, PTL DEF Spec

-----------------------------------------------------------------------------
(* ResultInv: a result is published with its own job, or with none.        *)

\* Whoever writes state.json takes the result and the job from one copy, sets
\* both to its own job, or removes one of them.
LEMMA ResultStep ==
    ASSUME TypeOK, SessionInvariant, ResultInv, [Next]_vars PROVE ResultInv'
<1> USE DEF TypeOK, FilesOK, CommandsOK, WorkersOK, State, ResultInv, OwnResult
<1>1. CASE UNCHANGED vars
  BY <1>1 DEF vars, shared, locals, worker
<1>2. ASSUME NEW c \in Commands, OwnResult(state'),
             copy' = copy \/ copy' = [copy EXCEPT ![c] = state]
                          \/ copy' = [copy EXCEPT ![c] = FreshState],
             wstate' = wstate \/ wstate' = [wstate EXCEPT ![c] = state]
      PROVE  ResultInv'
  BY <1>2 DEF FreshState
<1>3. ASSUME NEW c \in Commands, Launch(c) \/ CommandStep(c) \/ OperationFails(c)
      PROVE  ResultInv'
  <2>1. CASE ClearState(c)
    BY <2>1 DEF ClearState, locals, worker
  <2>2. CASE WriteStarting(c)
    BY <2>2 DEF WriteStarting, locals, worker
  <2>3. CASE WriteFailed(c)
    BY <2>3 DEF WriteFailed, worker
  <2>4. CASE ~(ClearState(c) \/ WriteStarting(c) \/ WriteFailed(c))
    <3>1. /\ UNCHANGED <<state, wstate>>
          /\ \/ copy' = copy
             \/ copy' = [copy EXCEPT ![c] = state]
             \/ copy' = [copy EXCEPT ![c] = FreshState]
      BY <1>3, <2>4 DEF shared, locals, worker, Launch, LaunchFresh, LaunchRestart,
         LaunchInspect, CommandStep, Lock, Unlock, Look, Probe, WriteCancel, Stash,
         Unstash, ClearStep, ClearRead, ClearContext, ClearOwner, ClearBusy,
         ClearCancel, StartStep, StartRead, MakeGuard, WriteJob, WriteOwner,
         RemoveCancel, Spawn, WriteWorkerPid, RemoveOwner, RemoveGuard, OperationFails
    <3> QED
      BY <1>2, <3>1
  <2> QED
    BY <2>1, <2>2, <2>3, <2>4
<1>4. ASSUME NEW c \in Commands, WorkerStep(c) \/ WorkerConverses(c) \/ RunEnds(c)
      PROVE  ResultInv'
  <2>1. CASE WorkerMarksRunning(c)
    BY <2>1 DEF WorkerMarksRunning, locals
  <2>2. CASE WorkerRescues(c)
    BY <2>2 DEF WorkerRescues, locals
  <2>3. CASE WorkerFinishes(c)
    <3>1. wstate[c].job = c
      BY <2>3 DEF WorkerFinishes, SessionInvariant, JobInv
    <3> QED
      BY <2>3, <3>1 DEF WorkerFinishes, locals
  <2>4. CASE ~(WorkerMarksRunning(c) \/ WorkerRescues(c) \/ WorkerFinishes(c))
    <3>1. /\ UNCHANGED <<state, copy>>
          /\ wstate' = wstate \/ wstate' = [wstate EXCEPT ![c] = state]
      <4>1. CASE WorkerReadsJob(c) \/ WorkerReadsState(c) \/ WorkerReadsOwner(c)
        BY <4>1 DEF shared, locals, WorkerReadsJob, WorkerReadsState, WorkerReadsOwner
      <4>2. CASE WorkerPolls(c) \/ WorkerReleases(c) \/ WorkerUnlinks(c)
        BY <4>2 DEF shared, locals, WorkerPolls, WorkerReleases, WorkerUnlinks
      <4>3. CASE WorkerRemovesGuard(c) \/ WorkerThrows(c)
        BY <4>3 DEF shared, locals, WorkerRemovesGuard, WorkerThrows
      <4>4. CASE WorkerConverses(c)
        BY <4>4 DEF locals, worker, WorkerConverses
      <4> QED
        BY <1>4, <2>4, <4>1, <4>2, <4>3, <4>4 DEF WorkerStep, RunEnds
    <3> QED
      BY <1>2, <3>1
  <2> QED
    BY <2>1, <2>2, <2>3, <2>4
<1>5. ASSUME NEW c \in Commands, CommandDies(c) \/ WorkerDies(c)
      PROVE  ResultInv'
  BY <1>5 DEF CommandDies, WorkerDies, shared, locals, worker
<1> QED
  BY <1>1, <1>3, <1>4, <1>5 DEF Next

\* A client that reads a result next to its job in state.json reads the result of
\* that job, at whatever moment it looks.
THEOREM ResultOfTheJob == Spec => []ResultIsTheJobs
<1>1. Init => ResultInv
  BY DEF Init, ResultInv, OwnResult, FreshState
<1>2. TypeOK /\ SessionInvariant /\ ResultInv /\ [Next]_vars => ResultInv'
  BY ResultStep
<1>3. ResultInv => ResultIsTheJobs
  BY DEF ResultInv, OwnResult, ResultIsTheJobs
<1> QED
  BY <1>1, <1>2, <1>3, TypeCorrect, InvariantHolds, PTL DEF Spec

-----------------------------------------------------------------------------
(* Also when the owner file that names the worker is not written.          *)

\* cancel.json names a job somebody stopped, and so does every abort.
CancelInv ==
    /\ aborted \in [Commands -> BOOLEAN]
    /\ cancelFile # None => cancelFile \in stopped
    /\ OnlyStoppedJobsAbort

\* Only a stop writes cancel.json, and only a worker that is named in it aborts.
LEMMA CancelStep ==
    ASSUME CancelInv, [FaultNext]_vars
    PROVE  CancelInv'
<1> USE DEF CancelInv, OnlyStoppedJobsAbort, shared, locals, worker, ghosts
<1>1. CASE UNCHANGED vars
  BY <1>1 DEF vars
<1>2. ASSUME NEW c \in Commands, WriteCancel(c)
      PROVE  CancelInv'
  BY <1>2 DEF WriteCancel
<1>3. ASSUME NEW c \in Commands, ClearStep(c)
      PROVE  CancelInv'
  BY <1>3 DEF ClearStep, ClearRead, ClearContext, ClearOwner, ClearBusy, ClearCancel, ClearState
<1>4. ASSUME NEW c \in Commands, StartStep(c)
      PROVE  CancelInv'
  BY <1>4 DEF StartStep, StartRead, MakeGuard, WriteJob, WriteOwner, RemoveCancel, WriteStarting,
     Spawn, WriteWorkerPid, RemoveOwner, RemoveGuard, WriteFailed
<1>5. ASSUME NEW c \in Commands, Lock(c) \/ Unlock(c) \/ Look(c) \/ Probe(c) \/ Stash(c) \/ Unstash(c)
      PROVE  CancelInv'
  BY <1>5 DEF Lock, Unlock, Look, Probe, Stash, Unstash
<1>6. ASSUME NEW c \in Commands, Launch(c)
      PROVE  CancelInv'
  BY <1>6 DEF Launch, LaunchFresh, LaunchRestart, LaunchInspect
<1>7. ASSUME NEW c \in Commands, WorkerPolls(c)
      PROVE  CancelInv'
  BY <1>7, NoneIsNew DEF WorkerPolls
<1>8. ASSUME NEW c \in Commands, WorkerStep(c), ~WorkerPolls(c)
      PROVE  CancelInv'
  BY <1>8 DEF WorkerStep, WorkerReadsJob, WorkerReadsState, WorkerReadsOwner, WorkerMarksRunning,
     WorkerRescues, WorkerReleases, WorkerUnlinks, WorkerRemovesGuard
<1>9. ASSUME NEW c \in Commands, WorkerConverses(c) \/ RunEnds(c)
      PROVE  CancelInv'
  BY <1>9 DEF WorkerConverses, RunEnds, WorkerFinishes, WorkerThrows
<1>10. ASSUME NEW c \in Commands, OperationFails(c) \/ CommandDies(c) \/ WorkerDies(c) \/ OwnerWriteFails(c)
       PROVE  CancelInv'
  BY <1>10 DEF OperationFails, CommandDies, WorkerDies, OwnerWriteFails
<1>11. QED
  BY <1>1, <1>2, <1>3, <1>4, <1>5, <1>6, <1>7, <1>8, <1>9, <1>10 DEF FaultNext, Next, CommandStep

\* A leftover cancel.json aborts no job but the one it was written for, even
\* when a start could not write the owner file that names its worker.
THEOREM NoStrayAborts == FaultSpec => []OnlyStoppedJobsAbort
<1>1. Init => CancelInv
  BY DEF Init, CancelInv, OnlyStoppedJobsAbort
<1>2. CancelInv /\ [FaultNext]_vars => CancelInv'
  BY CancelStep
<1>3. CancelInv => OnlyStoppedJobsAbort
  BY DEF CancelInv
<1>4. QED BY <1>1, <1>2, <1>3, PTL DEF FaultSpec

-----------------------------------------------------------------------------
(* CopyInv: every write of state.json is an update in place.               *)

\* While state.json is not written, a step changes what the copies of its own
\* process are worth, and no others.
LEMMA OtherCopiesStay ==
    ASSUME CopyInv, NEW c \in Commands, UNCHANGED state,
           \A d \in Commands \ {c} :
             /\ pc'[d] = pc[d] /\ phase'[d] = phase[d] /\ copy'[d] = copy[d]
             /\ request'[d] = request[d] /\ wpc'[d] = wpc[d] /\ wstate'[d] = wstate[d],
           CommandCopy(c)', WorkerCopy(c)'
    PROVE  CopyInv'
<1>1. ASSUME NEW d \in Commands \ {c} PROVE CommandCopy(d)' /\ WorkerCopy(d)'
  BY <1>1 DEF CopyInv, CommandCopy, WorkerCopy, MissesAtMostTheResult
<1> QED
  BY <1>1 DEF CopyInv

\* A command that does not write state.json keeps its worker's copy.
LEMMA CommandCopies ==
    ASSUME CopyInv, NEW c \in Commands, UNCHANGED <<state, wpc, wstate>>,
           \A d \in Commands \ {c} :
             /\ pc'[d] = pc[d] /\ phase'[d] = phase[d] /\ copy'[d] = copy[d]
             /\ request'[d] = request[d],
           CommandCopy(c)'
    PROVE  CopyInv'
<1>1. WorkerCopy(c)'
  BY DEF CopyInv, WorkerCopy
<1> QED
  BY <1>1, OtherCopiesStay

\* Launching a command and what it does outside start and clear.
LEMMA CommandKeepsCopies ==
    ASSUME TypeOK, SessionInvariant, CopyInv, NEW c \in Commands,
           \/ Launch(c) \/ Lock(c) \/ Unlock(c) \/ Look(c) \/ Probe(c)
           \/ WriteCancel(c) \/ Stash(c) \/ Unstash(c) \/ CommandDies(c)
    PROVE  CopyInv'
<1> USE DEF TypeOK, FilesOK, CommandsOK
<1> USE DEF shared, locals, worker, ghosts, At, Goto, StartPcs, ClearPcs, CommandPcs, Phases
<1>0. CommandCopy(c)
  BY DEF CopyInv
<1>1. CASE LaunchFresh(c)
  BY <1>1, CommandCopies DEF LaunchFresh, Request, Kinds, CommandCopy
<1>2. CASE LaunchRestart(c)
  BY <1>2, CommandCopies DEF LaunchRestart, CommandCopy
<1>3. CASE LaunchInspect(c)
  BY <1>3, CommandCopies DEF LaunchInspect, CommandCopy
<1>4. CASE Lock(c)
  BY <1>4, CommandCopies DEF Lock, CommandCopy
<1>5. CASE Unlock(c)
  BY <1>5, CommandCopies DEF Unlock, CommandCopy
<1>6. CASE Look(c)
  BY <1>6, CommandCopies DEF Look, CommandCopy
<1>7. CASE Probe(c)
  BY <1>0, <1>7, CommandCopies DEF Probe, StopSees, WaitSees, RecheckSees, ClearSees,
     InspectSees, CommandCopy
<1>8. CASE WriteCancel(c)
  BY <1>8, CommandCopies DEF WriteCancel, CommandCopy
<1>9. CASE Stash(c)
  BY <1>9, CommandCopies DEF Stash, CommandCopy
<1>10. CASE Unstash(c)
  BY <1>10, CommandCopies DEF Unstash, CommandCopy
<1>11. CASE CommandDies(c)
  BY <1>11, CommandCopies DEF CommandDies, CommandCopy
<1> QED
  BY <1>1, <1>2, <1>3, <1>4, <1>5, <1>6, <1>7, <1>8, <1>9, <1>10, <1>11 DEF Launch

\* With the lock held, nobody else is at a point at which its copy matters.
LEMMA LockedOut ==
    ASSUME GuardInv, NEW c \in Commands, HoldsLock(c), NEW d \in Commands \ {c}
    PROVE  /\ pc[d] \notin StartPcs \cup ClearPcs \cup {"write_cancel"}
           /\ ~(pc[d] = "probe" /\ phase[d] = "stop")
BY DEF GuardInv, LockInv, HoldsLock

\* A start that has the guard, or a clear past the busy check, meets no worker.
LEMMA NoWorker ==
    ASSUME SessionInvariant, NEW c \in Commands,
           pc[c] \in (ClearPcs \cup StartPcs) \ {"read", "mkdir", "write_pid"}
    PROVE  \A d \in Commands : ~Holding(d)
<1> USE DEF SessionInvariant, GuardInv, OwnerInv, StartInv, ClearInv, WorkerInv, Holding
<1> USE DEF StartPcs, ClearPcs
<1>1. SUFFICES ASSUME NEW d \in Commands, Holding(d)
               PROVE  FALSE
  OBVIOUS
<1>2. owner.token = d
  BY <1>1
<1> QED
  BY <1>1, <1>2, NoneIsNew

\* clearSession writes back what it has read, as no worker has been there since.
LEMMA ClearKeepsCopies ==
    ASSUME TypeOK, SessionInvariant, CopyInv, NEW c \in Commands,
           ClearStep(c)
    PROVE  CopyInv'
<1> USE DEF TypeOK, FilesOK, CommandsOK
<1> USE DEF shared, locals, worker, ghosts, At, Goto, StartPcs, ClearPcs
<1>0. CommandCopy(c)
  BY DEF CopyInv
<1>1. CASE ClearRead(c)
  BY <1>1, CommandCopies DEF ClearRead, CommandCopy
<1>2. CASE ClearContext(c)
  BY <1>0, <1>2, CommandCopies DEF ClearContext, CommandCopy
<1>3. CASE ClearOwner(c)
  BY <1>0, <1>3, CommandCopies DEF ClearOwner, CommandCopy
<1>4. CASE ClearBusy(c)
  BY <1>0, <1>4, CommandCopies DEF ClearBusy, CommandCopy
<1>5. CASE ClearCancel(c)
  BY <1>0, <1>5, CommandCopies DEF ClearCancel, CommandCopy
<1>6. CASE ClearState(c)
  <2>1. \A d \in Commands : ~Holding(d)
    BY <1>6, NoWorker DEF ClearState
  <2>2. \A d \in Commands \ {c} :
          /\ pc[d] \notin StartPcs \cup ClearPcs \cup {"write_cancel"}
          /\ ~(pc[d] = "probe" /\ phase[d] = "stop")
    BY <1>6, LockedOut DEF ClearState, HoldsLock, SessionInvariant
  <2> QED
    BY <1>6, <2>1, <2>2 DEF ClearState, CopyInv, CommandCopy, WorkerCopy, Holding
<1> QED
  BY <1>1, <1>2, <1>3, <1>4, <1>5, <1>6 DEF ClearStep

\* startSession reads state.json before it has the guard; from then on it loses
\* at most a result, and after the guard is made nothing.
LEMMA StartKeepsCopies ==
    ASSUME TypeOK, SessionInvariant, ProjectInv, CopyInv, NEW c \in Commands,
           StartStep(c) \/ OperationFails(c)
    PROVE  CopyInv'
<1> USE DEF TypeOK, FilesOK, CommandsOK, WorkersOK
<1> USE DEF shared, locals, worker, ghosts, At, Goto, WGoto, StartPcs, ClearPcs
<1>0. CommandCopy(c)
  BY DEF CopyInv
<1>1. CASE StartRead(c)
  BY <1>1, CommandCopies DEF StartRead, CommandCopy, MissesAtMostTheResult
<1>2. CASE MakeGuard(c)
  BY <1>0, <1>2, CommandCopies DEF MakeGuard, CommandCopy, MissesAtMostTheResult
<1>3. CASE WriteJob(c)
  BY <1>0, <1>3, CommandCopies DEF WriteJob, CommandCopy, MissesAtMostTheResult
<1>4. CASE WriteOwner(c)
  BY <1>0, <1>4, CommandCopies
     DEF WriteOwner, CommandCopy, MissesAtMostTheResult, ProjectInv, BoundPcs
<1>5. CASE RemoveCancel(c)
  BY <1>0, <1>5, CommandCopies DEF RemoveCancel, CommandCopy, MissesAtMostTheResult
<1>6. ASSUME WriteStarting(c) \/ WriteFailed(c)
      PROVE  CopyInv'
  <2>1. \A d \in Commands : ~Holding(d)
    BY <1>6, NoWorker DEF WriteStarting, WriteFailed
  <2>2. \A d \in Commands \ {c} :
          /\ pc[d] \notin StartPcs \cup ClearPcs \cup {"write_cancel"}
          /\ ~(pc[d] = "probe" /\ phase[d] = "stop")
    BY <1>6, LockedOut DEF WriteStarting, WriteFailed, HoldsLock, SessionInvariant
  <2>3. \A d \in Commands : WorkerCopy(d)'
    BY <1>6, <2>1 DEF WriteStarting, WriteFailed, WorkerCopy, Holding
  <2>4. \A d \in Commands \ {c} : CommandCopy(d)'
    BY <1>6, <2>2 DEF WriteStarting, WriteFailed, CommandCopy
  <2>5. CommandCopy(c)'
    <3>1. CASE WriteStarting(c)
      <4>1. pc'[c] = "spawn" /\ state'.status = "starting" /\ state'.last = None
        BY <3>1 DEF WriteStarting, State
      <4> QED
        BY <4>1 DEF CommandCopy
    <3>2. CASE WriteFailed(c)
      BY <3>2 DEF WriteFailed, CommandCopy
    <3> QED
      BY <1>6, <3>1, <3>2
  <2> QED
    BY <2>3, <2>4, <2>5 DEF CopyInv
<1>7. CASE Spawn(c)
  <2>1. CommandCopy(c)'
    BY <1>7 DEF Spawn, CommandCopy
  <2>2. WorkerCopy(c)'
    BY <1>0, <1>7 DEF Spawn, CommandCopy, WorkerCopy
  <2> QED
    BY <1>7, <2>1, <2>2, OtherCopiesStay DEF Spawn
<1>8. CASE WriteWorkerPid(c)
  BY <1>8, CommandCopies DEF WriteWorkerPid, CommandCopy
<1>9. CASE RemoveOwner(c) \/ RemoveGuard(c)
  BY <1>0, <1>9, CommandCopies
     DEF RemoveOwner, RemoveGuard, CommandCopy, MissesAtMostTheResult
<1>10. CASE OperationFails(c)
  BY <1>0, <1>10, CommandCopies
     DEF OperationFails, CommandCopy, MissesAtMostTheResult, ProjectInv, BoundPcs
<1> QED
  BY <1>1, <1>2, <1>3, <1>4, <1>5, <1>6, <1>7, <1>8, <1>9, <1>10 DEF StartStep

\* A worker's step that does not write state.json.
LEMMA WorkerCopies ==
    ASSUME CopyInv, NEW c \in Commands, UNCHANGED <<state, pc, phase, copy, request>>,
           \A d \in Commands \ {c} : wpc'[d] = wpc[d] /\ wstate'[d] = wstate[d],
           WorkerCopy(c)'
    PROVE  CopyInv'
<1>1. CommandCopy(c)'
  BY DEF CopyInv, CommandCopy, MissesAtMostTheResult
<1> QED
  BY <1>1, OtherCopiesStay

\* What a worker writes of its job keeps the copies of the others: those of a start
\* that waits for the guard, and of a stop, which only looks for the job.
LEMMA WorkerWrites ==
    ASSUME TypeOK, SessionInvariant, CopyInv, NEW c \in Commands,
           wpc[c] \in {"mark", "run", "rescue"},
           UNCHANGED <<pc, phase, copy, request, wstate>>,
           \A d \in Commands \ {c} : wpc'[d] = wpc[d],
           state'.job = state.job, state'.project = state.project,
           state'.last \in {state.last, c}, WorkerCopy(c)'
    PROVE  CopyInv'
<1>1. Holding(c) /\ owner.token = c /\ state.last = None
  BY DEF Holding, SessionInvariant, GuardInv, WorkerInv, CopyInv, WorkerCopy
<1>2. ASSUME NEW d \in Commands \ {c} PROVE WorkerCopy(d)'
  <2>1. ~Holding(d)
    BY <1>1, <1>2 DEF SessionInvariant, GuardInv, WorkerInv
  <2> QED
    BY <1>2, <2>1 DEF WorkerCopy, Holding
<1>3. ASSUME NEW d \in Commands PROVE CommandCopy(d)'
  <2>1. pc[d] \notin (ClearPcs \cup StartPcs) \ {"read", "mkdir", "write_pid"}
    BY <1>1, NoWorker
  <2>2. CommandCopy(d)
    BY DEF CopyInv
  <2> QED
    BY <1>1, <2>1, <2>2 DEF CommandCopy, MissesAtMostTheResult, StartPcs, ClearPcs
<1> QED
  BY <1>2, <1>3 DEF CopyInv

\* A worker's own copy is what state.json says, but for the status it wrote.
LEMMA WorkerKeepsCopies ==
    ASSUME TypeOK, SessionInvariant, CopyInv, NEW c \in Commands,
           WorkerStep(c) \/ WorkerConverses(c) \/ RunEnds(c) \/ WorkerDies(c)
    PROVE  CopyInv'
<1> USE DEF TypeOK, FilesOK, WorkersOK
<1> USE DEF shared, locals, worker, ghosts, WGoto
<1>0. WorkerCopy(c) /\ (Holding(c) => state.job = c)
  BY DEF CopyInv, SessionInvariant, JobInv
<1>1. CASE WorkerReadsJob(c)
  BY <1>0, <1>1, WorkerCopies DEF WorkerReadsJob, WorkerCopy
<1>2. CASE WorkerReadsState(c)
  BY <1>0, <1>2, WorkerCopies DEF WorkerReadsState, WorkerCopy
<1>3. CASE WorkerReadsOwner(c)
  <2>1. WorkerCopy(c)'
    BY <1>0, <1>3 DEF WorkerReadsOwner, WorkerCopy, State
  <2> QED
    BY <1>3, <2>1, WorkerCopies DEF WorkerReadsOwner
<1>4. CASE WorkerMarksRunning(c)
  <2>1. WorkerCopy(c)'
    BY <1>0, <1>4 DEF WorkerMarksRunning, WorkerCopy, State
  <2>2. state'.job = state.job /\ state'.project = state.project /\ state'.last = state.last
    BY <1>0, <1>4 DEF WorkerMarksRunning, WorkerCopy, State
  <2> QED
    BY <1>4, <2>1, <2>2, WorkerWrites DEF WorkerMarksRunning
<1>5. CASE WorkerPolls(c)
  BY <1>0, <1>5, WorkerCopies DEF WorkerPolls, WorkerCopy
<1>6. CASE WorkerRescues(c)
  <2>1. WorkerCopy(c)'
    BY <1>6 DEF WorkerRescues, WorkerCopy
  <2>2. state'.job = state.job /\ state'.project = state.project /\ state'.last = state.last
    BY <1>0, <1>6 DEF WorkerRescues, WorkerCopy, State
  <2> QED
    BY <1>6, <2>1, <2>2, WorkerWrites DEF WorkerRescues
<1>7. CASE WorkerReleases(c)
  BY <1>0, <1>7, WorkerCopies DEF WorkerReleases, WorkerCopy
<1>8. CASE WorkerUnlinks(c)
  BY <1>0, <1>8, WorkerCopies DEF WorkerUnlinks, WorkerCopy
<1>9. CASE WorkerRemovesGuard(c)
  BY <1>0, <1>9, WorkerCopies DEF WorkerRemovesGuard, WorkerCopy
<1>10. CASE WorkerConverses(c)
  BY <1>0, <1>10, WorkerCopies DEF WorkerConverses, WorkerCopy
<1>11. CASE WorkerFinishes(c)
  <2>1. WorkerCopy(c)'
    BY <1>11 DEF WorkerFinishes, WorkerCopy
  <2>2. state'.job = state.job /\ state'.project = state.project /\ state'.last = c
    BY <1>0, <1>11 DEF WorkerFinishes, WorkerCopy, State
  <2> QED
    BY <1>11, <2>1, <2>2, WorkerWrites DEF WorkerFinishes
<1>12. CASE WorkerThrows(c)
  <2>1. WorkerCopy(c)'
    BY <1>0, <1>12 DEF WorkerThrows, WorkerCopy, State
  <2> QED
    BY <1>12, <2>1, WorkerCopies DEF WorkerThrows
<1>13. CASE WorkerDies(c)
  BY <1>0, <1>13, WorkerCopies DEF WorkerDies, WorkerCopy
<1> QED
  BY <1>1, <1>2, <1>3, <1>4, <1>5, <1>6, <1>7, <1>8, <1>9, <1>10, <1>11, <1>12, <1>13
  DEF WorkerStep, RunEnds

\* Every step writes state.json in place, or not at all.
LEMMA CopyStep ==
    ASSUME TypeOK, SessionInvariant, ProjectInv, CopyInv, [Next]_vars PROVE CopyInv'
<1>1. CASE UNCHANGED vars
  BY <1>1 DEF vars, shared, locals, worker, CopyInv, CommandCopy, WorkerCopy,
     MissesAtMostTheResult
<1>2. CASE Next
  BY <1>2, CommandKeepsCopies, ClearKeepsCopies, StartKeepsCopies, WorkerKeepsCopies
     DEF Next, CommandStep
<1> QED
  BY <1>1, <1>2

-----------------------------------------------------------------------------
(* The refinement: each step is one of SessionAbs, or changes nothing in   *)
(* it.                                                                     *)

\* A running job holds the guard, and so is the only one.
LEMMA RunnerHolds ==
    ASSUME SessionInvariant, CopyInv, NEW c \in Commands, Runs(c)
    PROVE  Holding(c) /\ RunningJobs = {c} /\ state.job = c
<1>1. ASSUME NEW d \in Commands, Runs(d)
      PROVE  Holding(d) /\ owner.token = d /\ state.job = d
  BY <1>1 DEF Runs, Holding, SessionInvariant, GuardInv, WorkerInv, JobInv
<1> QED
  BY <1>1 DEF RunningJobs

\* Without a worker before its release, no job runs.
LEMMA NobodyRuns ==
    ASSUME SessionInvariant, CopyInv, \A c \in Commands : ~Holding(c)
    PROVE  RunningJobs = {}
BY RunnerHolds DEF RunningJobs

\* A command never starts, ends or kills a job by itself.
LEMMA CommandRunsNothing ==
    ASSUME UNCHANGED <<state, wpc>> PROVE UNCHANGED RunningJobs
BY DEF RunningJobs, Runs

\* Copies of state.json are read, and files are written, that no client reads.
LEMMA CommandStutters ==
    ASSUME NEW c \in Commands,
           \/ Launch(c) \/ Lock(c) \/ Unlock(c) \/ Look(c) \/ Probe(c) \/ Stash(c) \/ Unstash(c)
           \/ OperationFails(c) \/ CommandDies(c)
    PROVE  UNCHANGED <<state, context, RunningJobs, stopped>>
<1>1. UNCHANGED <<state, context, wpc, stopped>>
  BY DEF shared, locals, worker, ghosts, Launch, LaunchFresh, LaunchRestart, LaunchInspect,
     Lock, Unlock, Look, Probe, Stash, Unstash, OperationFails, CommandDies
<1> QED
  BY <1>1, CommandRunsNothing

\* stopSession asks the published job to stop.
LEMMA CancelStops ==
    ASSUME TypeOK, CopyInv, NEW c \in Commands, WriteCancel(c)
    PROVE  Promise!Stop
<1>1. copy[c].job = state.job
  BY DEF WriteCancel, At, CopyInv, CommandCopy
<1>2. UNCHANGED <<state, context, wpc>> /\ stopped' = stopped \cup {copy[c].job}
  BY DEF WriteCancel, worker
<1> QED
  BY <1>1, <1>2, CommandRunsNothing DEF Promise!Stop

\* clearSession forgets the conversation, and then makes the session new.
LEMMA ClearClears ==
    ASSUME TypeOK, SessionInvariant, CopyInv, NEW c \in Commands, ClearStep(c)
    PROVE  Promise!Forget \/ Promise!Clear \/ UNCHANGED <<state, context, RunningJobs, stopped>>
<1> USE DEF shared, locals, worker, ghosts, At
<1>1. CASE ClearContext(c)
  <2>1. RunningJobs = {}
    BY <1>1, NoWorker, NobodyRuns DEF ClearContext, ClearPcs
  <2>2. context' = {} /\ UNCHANGED <<state, wpc, stopped>>
    BY <1>1 DEF ClearContext
  <2> QED
    BY <2>1, <2>2, CommandRunsNothing DEF Promise!Forget
<1>2. CASE ClearState(c)
  <2>1. \A d \in Commands : ~Holding(d)
    BY <1>2, NoWorker DEF ClearState, ClearPcs
  <2>2. RunningJobs = {}
    BY <2>1, NobodyRuns
  <2>3. context = {} /\ copy[c] = state
    BY <1>2 DEF ClearState, SessionInvariant, GenerationInv, CopyInv, CommandCopy, ClearPcs
  <2>4. /\ state' = [state EXCEPT !.generation = @ + 1, !.status = "idle", !.job = None]
        /\ UNCHANGED <<context, wpc, stopped>>
    BY <1>2, <2>3 DEF ClearState
  <2>5. RunningJobs' = {}
    BY <2>1, <2>4 DEF RunningJobs, Runs, Holding
  <2> QED
    BY <2>2, <2>3, <2>4, <2>5 DEF Promise!Clear
<1>3. CASE ClearRead(c) \/ ClearOwner(c) \/ ClearBusy(c) \/ ClearCancel(c)
  <2>1. UNCHANGED <<state, context, wpc, stopped>>
    BY <1>3 DEF ClearRead, ClearOwner, ClearBusy, ClearCancel
  <2> QED
    BY <2>1, CommandRunsNothing
<1> QED
  BY <1>1, <1>2, <1>3 DEF ClearStep

\* startSession publishes its job, or takes it back.
LEMMA StartSubmits ==
    ASSUME TypeOK, SessionInvariant, ProjectInv, CopyInv, NEW c \in Commands, StartStep(c)
    PROVE  \/ Promise!Submit(c) \/ Promise!Withdraw
           \/ UNCHANGED <<state, context, RunningJobs, stopped>>
<1> USE DEF shared, locals, worker, ghosts, At, StartPcs
<1>1. CASE WriteStarting(c)
  <2>1. \A d \in Commands : ~Holding(d)
    BY <1>1, NoWorker DEF WriteStarting
  <2>2. RunningJobs = {}
    BY <2>1, NobodyRuns
  <2> DEFINE mine == Project[request[c].task]
  <2>3. /\ copy[c].generation = state.generation /\ copy[c].project = state.project
        /\ copy[c].project \in {None, mine}
        /\ copy[c] \in State /\ state \in State
    BY <1>1 DEF WriteStarting, SessionInvariant, GenerationInv, ProjectInv, BoundPcs,
       TypeOK, FilesOK, CommandsOK, ClearPcs
  <2>4. mine \in Projects
    BY ProjectType DEF TypeOK, CommandsOK, Request
  <2>5. /\ state' = [copy[c] EXCEPT !.status = "starting", !.job = c, !.last = None,
                                    !.project = mine]
        /\ UNCHANGED <<context, wpc, stopped>>
    BY <1>1 DEF WriteStarting
  <2>6. state' = [state EXCEPT !.status = "starting", !.job = c, !.project = mine,
                               !.last = None]
    BY <2>3, <2>5 DEF State
  <2>7. RunningJobs' = {}
    BY <2>1, <2>5 DEF RunningJobs, Runs, Holding
  <2> QED
    BY <2>2, <2>3, <2>4, <2>5, <2>6, <2>7 DEF Promise!Submit
<1>2. CASE WriteFailed(c)
  <2>1. \A d \in Commands : ~Holding(d)
    BY <1>2, NoWorker DEF WriteFailed
  <2>2. RunningJobs = {}
    BY <2>1, NobodyRuns
  <2>3. /\ copy[c].generation = state.generation
        /\ \/ copy[c].job = state.job /\ copy[c].last \in {None, state.last}
              /\ copy[c].project = state.project
           \/ state.status = "starting" /\ copy[c].project \in {None, state.project}
        /\ copy[c] \in State
    BY <1>2 DEF WriteFailed, SessionInvariant, GenerationInv, ProjectInv, BoundPcs, CopyInv,
       CommandCopy, MissesAtMostTheResult, TypeOK, CommandsOK
  <2>4. state' = [copy[c] EXCEPT !.status = "failed"] /\ UNCHANGED <<context, wpc, stopped>>
    BY <1>2 DEF WriteFailed
  <2>5. state' \in [status : {"failed"}, job : Commands \cup {None},
                    generation : {state.generation}, project : {None, state.project},
                    last : Commands \cup {None}]
    BY <2>3, <2>4 DEF State, Token
  <2>6. \/ state.status = "starting"
        \/ /\ state'.job = state.job /\ state'.project = state.project
           /\ state'.last \in {None, state.last}
    BY <2>3, <2>4 DEF State
  <2>7. RunningJobs' = {}
    BY <2>1, <2>4 DEF RunningJobs, Runs, Holding
  <2> QED
    BY <2>2, <2>4, <2>5, <2>6, <2>7 DEF Promise!Withdraw
<1>3. CASE Spawn(c)
  <2>1. wpc[c] = "none" /\ wpc' = [wpc EXCEPT ![c] = "job"]
    BY <1>3 DEF Spawn, SessionInvariant, GuardInv, WorkerInv
  <2>2. UNCHANGED <<state, context, stopped>>
    BY <1>3 DEF Spawn
  <2>3. \A d \in Commands : Runs(d)' <=> Runs(d)
    BY <2>1, <2>2 DEF Runs
  <2> QED
    BY <2>2, <2>3 DEF RunningJobs
<1>4. CASE \/ StartRead(c) \/ MakeGuard(c) \/ WriteJob(c) \/ WriteOwner(c)
           \/ RemoveCancel(c) \/ WriteWorkerPid(c) \/ RemoveOwner(c) \/ RemoveGuard(c)
  <2>1. UNCHANGED <<state, context, wpc, stopped>>
    BY <1>4 DEF StartRead, MakeGuard, WriteJob, WriteOwner, RemoveCancel, WriteWorkerPid,
       RemoveOwner, RemoveGuard
  <2> QED
    BY <2>1, CommandRunsNothing
<1> QED
  BY <1>1, <1>2, <1>3, <1>4 DEF StartStep

\* While a worker holds the guard the running jobs are its own, or none.
LEMMA OnlyMyJob ==
    ASSUME SessionInvariant, CopyInv, NEW c \in Commands, Holding(c),
           \A d \in Commands \ {c} : wpc'[d] = wpc[d]
    PROVE  /\ RunningJobs = IF Runs(c) THEN {c} ELSE {}
           /\ RunningJobs' = IF Runs(c)' THEN {c} ELSE {}
<1>1. ASSUME NEW d \in Commands \ {c} PROVE ~Runs(d) /\ ~Runs(d)'
  <2>1. ~Holding(d)
    BY <1>1 DEF SessionInvariant, GuardInv, WorkerInv
  <2> QED
    BY <1>1, <2>1 DEF Runs, Holding
<1> QED
  BY <1>1 DEF RunningJobs

\* A worker begins the job, adds to the conversation and says how the job ended.
LEMMA WorkerRunsTheJob ==
    ASSUME TypeOK, SessionInvariant, CopyInv, OnlyStoppedJobsAbort, NEW c \in Commands,
           WorkerMarksRunning(c) \/ WorkerConverses(c) \/ WorkerFinishes(c) \/ WorkerRescues(c)
    PROVE  Promise!Begin(c) \/ Promise!Converse(c) \/ Promise!Finish(c) \/ Promise!Fail(c)
<1> USE DEF TypeOK, FilesOK, WorkersOK, State, shared, locals, worker, ghosts, WGoto
<1>1. Holding(c) /\ state.job = c /\ WorkerCopy(c)
  BY DEF WorkerMarksRunning, WorkerConverses, WorkerFinishes, WorkerRescues, Holding,
     SessionInvariant, JobInv, CopyInv
<1>2. /\ RunningJobs = IF Runs(c) THEN {c} ELSE {}
      /\ RunningJobs' = IF Runs(c)' THEN {c} ELSE {}
  <2>1. \A d \in Commands \ {c} : wpc'[d] = wpc[d]
    BY DEF WorkerMarksRunning, WorkerConverses, WorkerFinishes, WorkerRescues
  <2> QED
    BY <1>1, <2>1, OnlyMyJob
<1>3. CASE WorkerMarksRunning(c)
  <2>1. /\ state = wstate[c] /\ state.status = "starting" /\ ~Runs(c)
        /\ state' = [wstate[c] EXCEPT !.status = "running"]
        /\ UNCHANGED <<context, stopped>>
    BY <1>1, <1>3 DEF WorkerMarksRunning, WorkerCopy, Runs
  <2>2. Runs(c)'
    BY <1>3 DEF WorkerMarksRunning, Runs
  <2> QED
    BY <1>1, <1>2, <2>1, <2>2 DEF Promise!Begin
<1>4. CASE WorkerConverses(c)
  <2>1. /\ wjob[c].generation = state.generation
        /\ context' = context \cup {wjob[c].generation}
        /\ UNCHANGED <<state, stopped>>
    BY <1>4 DEF WorkerConverses, SessionInvariant, GenerationInv
  <2>2. Runs(c) /\ Runs(c)'
    BY <1>4 DEF WorkerConverses, Runs
  <2> QED
    BY <1>2, <2>1, <2>2 DEF Promise!Converse
<1>5. CASE WorkerFinishes(c)
  <2>1. PICK verdict \in RunStatuses(c) :
          state' = [wstate[c] EXCEPT !.status = verdict, !.last = c]
    BY <1>5 DEF WorkerFinishes
  <2>2. state' = [state EXCEPT !.status = verdict, !.last = c]
    BY <1>1, <1>5, <2>1 DEF WorkerFinishes, WorkerCopy
  <2>3. verdict \in Promise!Ends(c, Verdicts)
    BY DEF RunStatuses, Promise!Ends, OnlyStoppedJobsAbort
  <2>4. Runs(c) /\ ~Runs(c)' /\ UNCHANGED <<context, stopped>>
    BY <1>5 DEF WorkerFinishes, Runs
  <2> QED
    BY <1>2, <2>2, <2>3, <2>4 DEF Promise!Finish
<1>6. CASE WorkerRescues(c)
  <2> DEFINE verdict == IF aborted[c] THEN "cancelled" ELSE "failed"
  <2>1. state' = [state EXCEPT !.status = verdict]
    BY <1>1, <1>6 DEF WorkerRescues, WorkerCopy
  <2>2. verdict \in Promise!Ends(c, {"failed"})
    BY DEF Promise!Ends, OnlyStoppedJobsAbort
  <2>3. ~Runs(c)' /\ UNCHANGED <<context, stopped>>
    BY <1>6 DEF WorkerRescues, Runs
  <2>4. Runs(c) \/ state.status = "starting"
    BY <1>1, <1>6 DEF WorkerRescues, WorkerCopy, Runs
  <2> QED
    BY <1>1, <1>2, <2>1, <2>2, <2>3, <2>4 DEF Promise!Fail
<1> QED
  BY <1>3, <1>4, <1>5, <1>6

\* What else a worker does shows to nobody, unless it is killed in a run.
LEMMA WorkerStutters ==
    ASSUME TypeOK, SessionInvariant, CopyInv, NEW c \in Commands,
           \/ WorkerReadsJob(c) \/ WorkerReadsState(c) \/ WorkerReadsOwner(c) \/ WorkerPolls(c)
           \/ WorkerThrows(c) \/ WorkerReleases(c) \/ WorkerUnlinks(c)
           \/ WorkerRemovesGuard(c) \/ WorkerDies(c)
    PROVE  Promise!Die(c) \/ UNCHANGED <<state, context, RunningJobs, stopped>>
<1> USE DEF TypeOK, WorkersOK, shared, locals, worker, ghosts, WGoto
<1>1. /\ UNCHANGED <<state, context, stopped>>
      /\ \A d \in Commands \ {c} : Runs(d)' <=> Runs(d)
  BY DEF WorkerReadsJob, WorkerReadsState, WorkerReadsOwner, WorkerPolls, WorkerThrows,
     WorkerReleases, WorkerUnlinks, WorkerRemovesGuard, WorkerDies, Runs
<1>2. CASE Runs(c)' <=> Runs(c)
  BY <1>1, <1>2 DEF RunningJobs
<1>3. CASE Runs(c) /\ ~Runs(c)'
  <2>1. RunningJobs = {c}
    BY <1>3, RunnerHolds
  <2>2. RunningJobs' = {}
    BY <1>1, <1>3, <2>1 DEF RunningJobs
  <2> QED
    BY <1>1, <2>1, <2>2 DEF Promise!Die
<1>4. CASE ~Runs(c) /\ Runs(c)'
  <2>1. WorkerCopy(c)
    BY DEF CopyInv
  <2> QED
    BY <1>1, <1>4, <2>1
    DEF WorkerReadsJob, WorkerReadsState, WorkerReadsOwner, WorkerPolls, WorkerThrows,
     WorkerReleases, WorkerUnlinks, WorkerRemovesGuard, WorkerDies, Runs, WorkerCopy
<1> QED
  BY <1>2, <1>3, <1>4

\* Every step of the processes is one that SessionAbs allows.
LEMMA PromiseStep ==
    ASSUME TypeOK, SessionInvariant, ProjectInv, CopyInv, OnlyStoppedJobsAbort, [Next]_vars
    PROVE  [Promise!Next]_<<state, context, RunningJobs, stopped>>
<1>1. CASE UNCHANGED vars
  BY <1>1 DEF vars, shared, worker, ghosts, RunningJobs, Runs
<1>2. CASE Next
  <2>1. PICK c \in Commands :
          \/ Launch(c) \/ CommandStep(c) \/ OperationFails(c)
          \/ WorkerStep(c) \/ WorkerConverses(c) \/ RunEnds(c)
          \/ CommandDies(c) \/ WorkerDies(c)
    BY <1>2 DEF Next
  <2>2. CASE Launch(c) \/ CommandStep(c) \/ OperationFails(c) \/ CommandDies(c)
    BY <2>2, CommandStutters, CancelStops, ClearClears, StartSubmits
    DEF CommandStep, Promise!Next
  <2>3. CASE WorkerStep(c) \/ WorkerConverses(c) \/ RunEnds(c) \/ WorkerDies(c)
    BY <2>3, WorkerRunsTheJob, WorkerStutters DEF WorkerStep, RunEnds, Promise!Next
  <2> QED
    BY <2>1, <2>2, <2>3
<1> QED
  BY <1>1, <1>2

\* CopyInv holds of every reachable state: no process ever writes state.json back
\* from a copy that has been overtaken, except that a start may miss a result.
THEOREM WritesAreInPlace == Spec => [](ProjectInv /\ CopyInv)
<1>1. Init => ProjectInv /\ CopyInv
  BY DEF Init, ProjectInv, BoundPcs, ClearPcs, CopyInv, CommandCopy, WorkerCopy
<1>2. TypeOK /\ SessionInvariant /\ ProjectInv /\ CopyInv /\ [Next]_vars
        => ProjectInv' /\ CopyInv'
  BY ProjectStep, CopyStep
<1> QED
  BY <1>1, <1>2, TypeCorrect, InvariantHolds, PTL DEF Spec

\* A session keeps the promise of SessionAbs: whatever processes are started and
\* killed, those who read state.json see one job at a time begin, run and end,
\* cancelled only if it was stopped, and the session cleared between jobs only.
THEOREM SessionImplementsPromise == Spec => KeepsItsPromise
<1>1. Init => Promise!Init
  BY DEF Init, Promise!Init, RunningJobs, Runs, FreshState
<1>2. [Next]_vars => [FaultNext]_vars
  BY DEF FaultNext
<1>3. TypeOK /\ SessionInvariant /\ ProjectInv /\ CopyInv /\ OnlyStoppedJobsAbort /\ [Next]_vars
        => [Promise!Next]_<<state, context, RunningJobs, stopped>>
  BY PromiseStep
<1> QED
  BY <1>1, <1>2, <1>3, TypeCorrect, InvariantHolds, WritesAreInPlace, NoStrayAborts, PTL
  DEF Spec, FaultSpec, KeepsItsPromise, Promise!Spec

-----------------------------------------------------------------------------
(* The steps of a process run out.                                         *)

\* How far the end of its phase is from a program point of a command.
Pace(label) ==
    CASE label = "stash" -> 14
      [] label = "unstash" -> 13
      [] label = "lock" -> 12
      [] label = "read" -> 11
      [] label = "mkdir" -> 10
      [] label \in {"look", "write_job"} -> 9
      [] label \in {"probe", "write_owner"} -> 8
      [] label \in {"clear_read", "rm_cancel"} -> 7
      [] label \in {"rm_context", "write_state"} -> 6
      [] label \in {"rm_owner", "spawn"} -> 5
      [] label \in {"rm_busy", "rollback"} -> 4
      [] label \in {"clear_cancel", "rm_guard"} -> 3
      [] label \in {"clear_state", "write_cancel", "write_pid", "write_failed"} -> 2
      [] label = "unlock" -> 1
      [] OTHER -> 0

\* The phases a restart has before it: each poll of its wait is two steps.
PhasesAhead(c) ==
    CASE phase[c] \in {"start", "inspect"} -> 0
      [] phase[c] = "clear" -> 14
      [] phase[c] = "recheck" -> 28
      [] phase[c] = "wait" -> 42 + 2 * (MaxPolls - polls[c])
      [] phase[c] = "stop" -> 56 + 2 * MaxPolls
      [] OTHER -> 0

\* Upper bounds on the steps a command and a worker have still to take, those of
\* an unbounded run apart.
CommandStepsLeft(c) ==
    CASE pc[c] \in {"done", "crashed"} -> 0
      [] pc[c] = "ready" -> 70 + 2 * MaxPolls
      [] OTHER -> PhasesAhead(c) + Pace(pc[c])

WorkerStepsLeft(c) ==
    CASE wpc[c] \in {"exit", "dead"} -> 0
      [] wpc[c] = "rmdir" -> 1
      [] wpc[c] = "unlink" -> 2
      [] wpc[c] = "release" -> 3
      [] wpc[c] = "rescue" -> 4
      [] wpc[c] = "run" -> 5
      [] wpc[c] = "poll" -> 6
      [] wpc[c] = "mark" -> 7
      [] wpc[c] = "own" -> 8 + (MaxOwnerPolls - wpolls[c])
      [] wpc[c] = "state" -> 9 + MaxOwnerPolls
      [] wpc[c] = "job" -> 10 + MaxOwnerPolls
      [] OTHER -> 11 + MaxOwnerPolls

\* Every step of a command uses one up, and nothing another process does gives it
\* one back: no command is made to wait or to start again.
CommandsWaitForNobody ==
    [][\A c \in Commands :
         /\ CommandStepsLeft(c) \in Nat
         /\ CommandStepsLeft(c)' \in Nat
         /\ IF pc'[c] = pc[c] THEN CommandStepsLeft(c)' = CommandStepsLeft(c)
                              ELSE CommandStepsLeft(c)' < CommandStepsLeft(c)]_vars

\* The same of a worker, but for the polls and the conversation of its run, which
\* leave it where it is.
WorkersWaitForNobody ==
    [][\A c \in Commands :
         /\ WorkerStepsLeft(c) \in Nat
         /\ WorkerStepsLeft(c)' \in Nat
         /\ IF UNCHANGED <<wpc[c], wpolls[c]>>
              THEN WorkerStepsLeft(c)' = WorkerStepsLeft(c)
              ELSE WorkerStepsLeft(c)' < WorkerStepsLeft(c)]_vars

\* A stop that named a job stays in cancel.json, and an abort is not taken back,
\* until the worker has left its run: no clear, start or other stop overtakes it.
StopsStay ==
    [][\A c \in Commands :
         wpc[c] \in {"poll", "run"} /\ wpc'[c] \in {"poll", "run"} =>
           /\ cancelFile = c => cancelFile' = c
           /\ aborted[c] => aborted'[c]]_vars

LEMMA CommandsAreCounted == TypeOK => \A c \in Commands : CommandStepsLeft(c) \in Nat
<1> SUFFICES ASSUME TypeOK, NEW c \in Commands PROVE CommandStepsLeft(c) \in Nat
  OBVIOUS
<1>1. Pace(pc[c]) \in Nat
  BY DEF Pace, TypeOK, CommandsOK, CommandPcs, StartPcs, ClearPcs
<1>2. MaxPolls - polls[c] \in Nat /\ MaxPolls \in Nat
  BY DEF TypeOK, CommandsOK
<1>3. PhasesAhead(c) \in Nat
  BY <1>2 DEF PhasesAhead
<1>4. QED
  BY <1>1, <1>2, <1>3 DEF CommandStepsLeft

LEMMA WorkersAreCounted == TypeOK => \A c \in Commands : WorkerStepsLeft(c) \in Nat
<1> SUFFICES ASSUME TypeOK, NEW c \in Commands PROVE WorkerStepsLeft(c) \in Nat
  OBVIOUS
<1>1. MaxOwnerPolls - wpolls[c] \in Nat /\ MaxOwnerPolls \in Nat
  BY DEF TypeOK, WorkersOK
<1>2. QED
  BY <1>1 DEF WorkerStepsLeft

\* A command moves nobody but itself.
LEMMA CommandMovesItself ==
    ASSUME TypeOK, NEW c \in Commands, NEW d \in Commands \ {c},
           Launch(c) \/ CommandStep(c) \/ OperationFails(c) \/ CommandDies(c)
    PROVE  UNCHANGED <<pc[d], phase[d], polls[d]>>
<1> USE DEF TypeOK, CommandsOK, At, Goto, locals
<1>1. CASE Launch(c)
  BY <1>1 DEF Launch, LaunchFresh, LaunchRestart, LaunchInspect
<1>2. CASE Lock(c) \/ Unlock(c) \/ Look(c) \/ WriteCancel(c) \/ Stash(c) \/ Unstash(c)
  BY <1>2 DEF Lock, Unlock, Look, WriteCancel, Stash, Unstash
<1>3. CASE Probe(c)
  BY <1>3 DEF Probe, StopSees, WaitSees, RecheckSees, ClearSees, InspectSees
<1>4. CASE ClearStep(c)
  BY <1>4 DEF ClearStep, ClearRead, ClearContext, ClearOwner, ClearBusy, ClearCancel,
     ClearState
<1>5. CASE StartStep(c)
  BY <1>5 DEF StartStep, StartRead, MakeGuard, WriteJob, WriteOwner, RemoveCancel,
     WriteStarting, Spawn, WriteWorkerPid, RemoveOwner, RemoveGuard, WriteFailed
<1>6. CASE OperationFails(c) \/ CommandDies(c)
  BY <1>6 DEF OperationFails, CommandDies
<1> QED
  BY <1>1, <1>2, <1>3, <1>4, <1>5, <1>6 DEF CommandStep

\* It is nearer to its end after each step.
LEMMA CommandStepCounts ==
    ASSUME TypeOK, SessionInvariant, NEW c \in Commands,
           Launch(c) \/ CommandStep(c) \/ OperationFails(c) \/ CommandDies(c)
    PROVE  pc'[c] # pc[c] /\ CommandStepsLeft(c)' < CommandStepsLeft(c)
<1> USE DEF CommandStepsLeft, Pace, PhasesAhead, At, Goto, locals
<1>1. /\ pc \in [Commands -> CommandPcs] /\ phase \in [Commands -> Phases]
      /\ MaxPolls \in Nat /\ polls \in [Commands -> 0 .. MaxPolls]
  BY DEF TypeOK, CommandsOK
<1>2. CASE Launch(c)
  <2>1. phase'[c] \in Phases /\ pc'[c] \in {"lock", "look", "done"} /\ pc[c] = "ready"
    BY <1>1, <1>2 DEF Launch, LaunchFresh, LaunchRestart, LaunchInspect, Kinds, Phases
  <2>2. polls'[c] \in 0 .. MaxPolls
    BY <1>1, <1>2 DEF Launch, LaunchFresh, LaunchRestart, LaunchInspect
  <2> QED
    BY <1>1, <2>1, <2>2 DEF Phases
<1>3. CASE Lock(c)
  BY <1>1, <1>3 DEF Lock, Phases
<1>4. CASE Unlock(c)
  BY <1>1, <1>4 DEF Unlock, Phases
<1>5. CASE Look(c) \/ WriteCancel(c) \/ Stash(c) \/ Unstash(c)
  BY <1>1, <1>5 DEF Look, WriteCancel, Stash, Unstash, Phases
<1>6. CASE Probe(c)
  <2>1. PICK isBusy \in IF owner = NoOwner THEN {FALSE} ELSE AliveAnswers(owner) :
          \/ StopSees(c, isBusy) \/ WaitSees(c, isBusy) \/ RecheckSees(c, isBusy)
          \/ ClearSees(c, isBusy) \/ InspectSees(c, isBusy)
    BY <1>6, Zenon DEF Probe
  <2>2. pc[c] = "probe"
    BY <1>6 DEF Probe
  <2>3. CASE StopSees(c, isBusy)
    BY <1>1, <2>2, <2>3 DEF StopSees
  <2>4. CASE WaitSees(c, isBusy)
    BY <1>1, <2>2, <2>4 DEF WaitSees
  <2>5. CASE RecheckSees(c, isBusy)
    BY <1>1, <2>2, <2>5 DEF RecheckSees
  <2>6. CASE ClearSees(c, isBusy)
    BY <1>1, <2>2, <2>6 DEF ClearSees
  <2>7. CASE InspectSees(c, isBusy)
    BY <1>1, <2>2, <2>7 DEF InspectSees
  <2> QED
    BY <2>1, <2>3, <2>4, <2>5, <2>6, <2>7
<1>7. CASE ClearStep(c)
  BY <1>1, <1>7 DEF ClearStep, ClearRead, ClearContext, ClearOwner, ClearBusy, ClearCancel,
     ClearState, Phases
<1>8. CASE StartStep(c)
  <2>1. phase[c] = "start"
    BY <1>8 DEF SessionInvariant, GuardInv, LockInv, StartPcs, StartStep, StartRead,
       MakeGuard, WriteJob, WriteOwner, RemoveCancel, WriteStarting, Spawn,
       WriteWorkerPid, RemoveOwner, RemoveGuard, WriteFailed
  <2> QED
    BY <1>1, <1>8, <2>1 DEF StartStep, StartRead, MakeGuard, WriteJob, WriteOwner,
       RemoveCancel, WriteStarting, Spawn, WriteWorkerPid, RemoveOwner, RemoveGuard, WriteFailed
<1>9. CASE OperationFails(c)
  <2>1. CASE pc[c] \in {"write_job", "write_owner", "rm_cancel", "write_state", "spawn"}
    <3>1. pc' = [pc EXCEPT ![c] = "rollback"] /\ UNCHANGED <<phase, polls>>
      BY <1>9, <2>1 DEF OperationFails, ClearPcs
    <3> QED BY <1>1, <2>1, <3>1 DEF Phases
  <2>2. CASE pc[c] \in ClearPcs \cup {"look", "write_cancel", "read", "mkdir", "rm_guard",
                                     "write_failed"}
    <3>1. pc' = [pc EXCEPT ![c] = "unlock"] /\ UNCHANGED <<phase, polls>>
      BY <1>9, <2>2 DEF OperationFails, ClearPcs
    <3> QED BY <1>1, <2>2, <3>1 DEF Phases, ClearPcs
  <2> QED BY <1>9, <2>1, <2>2 DEF OperationFails
<1>10. CASE CommandDies(c)
  <2>1. pc[c] \notin {"ready", "done", "crashed"} => CommandStepsLeft(c) > 0
    BY <1>1 DEF CommandPcs, StartPcs, ClearPcs, Phases
  <2> QED
    BY <1>1, <1>10, <2>1 DEF CommandDies, Running
<1> QED
  BY <1>2, <1>3, <1>4, <1>5, <1>6, <1>7, <1>8, <1>9, <1>10 DEF CommandStep

\* Workers do not move commands.
LEMMA WorkerMovesNoCommand ==
    ASSUME TypeOK, NEW c \in Commands,
           WorkerStep(c) \/ WorkerConverses(c) \/ RunEnds(c) \/ WorkerDies(c)
    PROVE  UNCHANGED <<pc, phase, polls>>
  BY DEF WorkerStep, WorkerReadsJob, WorkerReadsState, WorkerReadsOwner,
     WorkerMarksRunning, WorkerPolls, WorkerRescues, WorkerReleases, WorkerUnlinks,
     WorkerRemovesGuard, WorkerConverses, RunEnds, WorkerFinishes, WorkerThrows,
     WorkerDies, locals

\* Every command comes to its end by its own steps: a restart waits a bounded
\* number of polls, and nothing another process does sends a command back.
THEOREM CommandStepsRunOut == Spec => CommandsWaitForNobody
<1>1. ASSUME TypeOK, SessionInvariant, [Next]_vars, NEW c \in Commands
      PROVE  IF pc'[c] = pc[c] THEN CommandStepsLeft(c)' = CommandStepsLeft(c)
                               ELSE CommandStepsLeft(c)' < CommandStepsLeft(c)
  <2>1. CASE UNCHANGED <<pc[c], phase[c], polls[c]>>
    BY <2>1 DEF CommandStepsLeft, PhasesAhead
  <2>2. CASE UNCHANGED vars
    BY <2>1, <2>2 DEF vars, locals
  <2>3. CASE Next
    <3>1. PICK d \in Commands :
            \/ Launch(d) \/ CommandStep(d) \/ OperationFails(d)
            \/ WorkerStep(d) \/ WorkerConverses(d) \/ RunEnds(d)
            \/ CommandDies(d) \/ WorkerDies(d)
      BY <2>3 DEF Next
    <3>2. CASE WorkerStep(d) \/ WorkerConverses(d) \/ RunEnds(d) \/ WorkerDies(d)
      BY <1>1, <2>1, <3>2, WorkerMovesNoCommand
    <3>3. CASE Launch(d) \/ CommandStep(d) \/ OperationFails(d) \/ CommandDies(d)
      BY <1>1, <2>1, <3>3, CommandMovesItself, CommandStepCounts
    <3> QED
      BY <3>1, <3>2, <3>3
  <2> QED
    BY <1>1, <2>2, <2>3
<1>2. TypeOK' => (\A c \in Commands : CommandStepsLeft(c) \in Nat)'
  BY CommandsAreCounted, PTL
<1>3. TypeOK /\ TypeOK' /\ SessionInvariant /\ [Next]_vars =>
        \A c \in Commands :
           /\ CommandStepsLeft(c) \in Nat
           /\ CommandStepsLeft(c)' \in Nat
           /\ IF pc'[c] = pc[c] THEN CommandStepsLeft(c)' = CommandStepsLeft(c)
                                ELSE CommandStepsLeft(c)' < CommandStepsLeft(c)
  BY <1>1, <1>2, CommandsAreCounted
<1> QED
  BY <1>3, TypeCorrect, InvariantHolds, PTL DEF Spec, CommandsWaitForNobody

\* A worker moves only itself, and nearer to its end.
LEMMA WorkerStepCounts ==
    ASSUME TypeOK, NEW c \in Commands,
           WorkerStep(c) \/ WorkerConverses(c) \/ RunEnds(c) \/ WorkerDies(c)
    PROVE  /\ \A d \in Commands \ {c} : UNCHANGED <<wpc[d], wpolls[d]>>
           /\ \/ UNCHANGED <<wpc[c], wpolls[c]>>
              \/ WorkerStepsLeft(c)' < WorkerStepsLeft(c)
<1> USE DEF WorkerStepsLeft, WGoto, worker
<1>1. /\ wpc \in [Commands -> WorkerPcs] /\ MaxOwnerPolls \in Nat
      /\ wpolls \in [Commands -> 0 .. MaxOwnerPolls]
  BY DEF TypeOK, WorkersOK
<1>2. CASE WorkerReadsJob(c) \/ WorkerReadsState(c) \/ WorkerReadsOwner(c)
  BY <1>1, <1>2 DEF WorkerReadsJob, WorkerReadsState, WorkerReadsOwner
<1>3. CASE WorkerMarksRunning(c) \/ WorkerPolls(c) \/ WorkerConverses(c)
  BY <1>1, <1>3 DEF WorkerMarksRunning, WorkerPolls, WorkerConverses
<1>4. CASE RunEnds(c) \/ WorkerRescues(c)
  <2>1. /\ UNCHANGED wpolls
        /\ \/ wpc[c] = "run" /\ wpc' = [wpc EXCEPT ![c] = "release"]
           \/ wpc[c] = "run" /\ wpc' = [wpc EXCEPT ![c] = "rescue"]
           \/ wpc[c] = "rescue" /\ wpc' = [wpc EXCEPT ![c] = "release"]
    BY <1>4 DEF RunEnds, WorkerFinishes, WorkerThrows, WorkerRescues
  <2> QED
    BY <1>1, <2>1
<1>5. CASE WorkerReleases(c) \/ WorkerUnlinks(c) \/ WorkerRemovesGuard(c)
  BY <1>1, <1>5 DEF WorkerReleases, WorkerUnlinks, WorkerRemovesGuard
<1>6. CASE WorkerDies(c)
  <2>1. wpc[c] \notin {"exit", "dead"} => WorkerStepsLeft(c) > 0
    BY <1>1 DEF WorkerPcs
  <2> QED
    BY <1>1, <1>6, <2>1 DEF WorkerDies, WorkerLive
<1> QED
  BY <1>2, <1>3, <1>4, <1>5, <1>6 DEF WorkerStep

\* A command moves no worker but the one it spawns, once.
LEMMA CommandMovesNoWorker ==
    ASSUME TypeOK, SessionInvariant, NEW c \in Commands,
           Launch(c) \/ CommandStep(c) \/ OperationFails(c) \/ CommandDies(c)
    PROVE  \/ UNCHANGED <<wpc, wpolls>>
           \/ /\ wpc[c] = "none" /\ wpc' = [wpc EXCEPT ![c] = "job"]
              /\ UNCHANGED wpolls
<1>1. CASE Spawn(c)
  BY <1>1 DEF Spawn, At, SessionInvariant, GuardInv, WorkerInv
<1>2. CASE Launch(c) \/ OperationFails(c) \/ CommandDies(c)
  BY <1>2 DEF Launch, LaunchFresh, LaunchRestart, LaunchInspect, OperationFails, CommandDies,
     worker
<1>3. CASE CommandStep(c) /\ ~Spawn(c)
  BY <1>3 DEF CommandStep, Lock, Unlock, Look, Probe, WriteCancel, Stash, Unstash,
     ClearStep, ClearRead, ClearContext, ClearOwner, ClearBusy, ClearCancel, ClearState,
     StartStep, StartRead, MakeGuard, WriteJob, WriteOwner, RemoveCancel, WriteStarting,
     WriteWorkerPid, RemoveOwner, RemoveGuard, WriteFailed, worker
<1> QED
  BY <1>1, <1>2, <1>3

\* Every worker comes to its end by its own steps: it waits for its owner file a
\* bounded number of reads, and only the run itself may go on for ever.
THEOREM WorkerStepsRunOut == Spec => WorkersWaitForNobody
<1>1. ASSUME TypeOK, SessionInvariant, [Next]_vars, NEW c \in Commands
      PROVE  IF UNCHANGED <<wpc[c], wpolls[c]>>
               THEN WorkerStepsLeft(c)' = WorkerStepsLeft(c)
               ELSE WorkerStepsLeft(c)' < WorkerStepsLeft(c)
  <2>1. CASE UNCHANGED <<wpc[c], wpolls[c]>>
    BY <2>1 DEF WorkerStepsLeft
  <2>2. CASE UNCHANGED vars
    BY <2>1, <2>2 DEF vars, worker
  <2>3. CASE Next
    <3>1. PICK d \in Commands :
            \/ Launch(d) \/ CommandStep(d) \/ OperationFails(d)
            \/ WorkerStep(d) \/ WorkerConverses(d) \/ RunEnds(d)
            \/ CommandDies(d) \/ WorkerDies(d)
      BY <2>3 DEF Next
    <3>2. CASE WorkerStep(d) \/ WorkerConverses(d) \/ RunEnds(d) \/ WorkerDies(d)
      <4>1. CASE c = d
        BY <1>1, <2>1, <3>2, <4>1, WorkerStepCounts
      <4>2. CASE c # d
        BY <1>1, <2>1, <3>2, <4>2, WorkerStepCounts
      <4> QED
        BY <4>1, <4>2
    <3>3. CASE Launch(d) \/ CommandStep(d) \/ OperationFails(d) \/ CommandDies(d)
      <4>1. CASE UNCHANGED <<wpc, wpolls>>
        BY <2>1, <4>1
      <4>2. CASE wpc[d] = "none" /\ wpc' = [wpc EXCEPT ![d] = "job"] /\ UNCHANGED wpolls
        <5>1. CASE c = d
          BY <1>1, <4>2, <5>1 DEF WorkerStepsLeft, TypeOK, WorkersOK
        <5>2. CASE c # d
          BY <1>1, <2>1, <4>2, <5>2 DEF TypeOK, WorkersOK
        <5> QED
          BY <5>1, <5>2
      <4> QED
        BY <1>1, <3>3, <4>1, <4>2, CommandMovesNoWorker
    <3> QED
      BY <3>1, <3>2, <3>3
  <2> QED
    BY <1>1, <2>2, <2>3
<1>2. TypeOK' => (\A c \in Commands : WorkerStepsLeft(c) \in Nat)'
  BY WorkersAreCounted, PTL
<1>3. TypeOK /\ TypeOK' /\ SessionInvariant /\ [Next]_vars =>
        \A c \in Commands :
           /\ WorkerStepsLeft(c) \in Nat
           /\ WorkerStepsLeft(c)' \in Nat
           /\ IF UNCHANGED <<wpc[c], wpolls[c]>>
                THEN WorkerStepsLeft(c)' = WorkerStepsLeft(c)
                ELSE WorkerStepsLeft(c)' < WorkerStepsLeft(c)
  BY <1>1, <1>2, WorkersAreCounted
<1> QED
  BY <1>3, TypeCorrect, InvariantHolds, PTL DEF Spec, WorkersWaitForNobody

\* Who writes or removes cancel.json while a job runs writes that job's name.
LEMMA StopStaysStep ==
    ASSUME TypeOK, SessionInvariant, CopyInv, [Next]_vars, NEW c \in Commands,
           wpc[c] \in {"poll", "run"}, wpc'[c] \in {"poll", "run"}
    PROVE  /\ cancelFile = c => cancelFile' = c
           /\ aborted[c] => aborted'[c]
<1>1. CASE UNCHANGED vars
  BY <1>1 DEF vars, shared, worker
<1>2. CASE Next
  <2>1. PICK d \in Commands :
          \/ Launch(d) \/ CommandStep(d) \/ OperationFails(d)
          \/ WorkerStep(d) \/ WorkerConverses(d) \/ RunEnds(d)
          \/ CommandDies(d) \/ WorkerDies(d)
    BY <1>2 DEF Next
  <2>2. owner.token = c /\ state.job = c
    BY DEF SessionInvariant, GuardInv, WorkerInv, JobInv, Holding
  <2>3. CASE WriteCancel(d)
    <3>1. copy[d].job = state.job
      BY <2>3 DEF WriteCancel, At, CopyInv, CommandCopy
    <3> QED
      BY <2>2, <2>3, <3>1 DEF WriteCancel, worker
  <2>4. CASE ClearCancel(d)
    <3>1. owner.token = None
      BY <2>4 DEF ClearCancel, At, SessionInvariant, GuardInv, ClearInv
    <3> QED
      BY <2>2, <3>1
  <2>5. CASE RemoveCancel(d)
    <3>1. owner.token = d /\ pc[d] = "rm_cancel"
      BY <2>5 DEF RemoveCancel, At, SessionInvariant, GuardInv, StartInv
    <3>2. pc[c] # "rm_cancel"
      BY DEF SessionInvariant, GuardInv, WorkerInv
    <3> QED
      BY <2>2, <3>1, <3>2
  <2>6. CASE WorkerStep(d) \/ WorkerConverses(d) \/ RunEnds(d) \/ WorkerDies(d)
    BY <2>6 DEF WorkerStep, WorkerReadsJob, WorkerReadsState, WorkerReadsOwner,
       WorkerMarksRunning, WorkerPolls, WorkerRescues, WorkerReleases, WorkerUnlinks,
       WorkerRemovesGuard, WorkerConverses, RunEnds, WorkerFinishes, WorkerThrows,
       WorkerDies, shared, worker, TypeOK, WorkersOK
  <2>7. CASE Launch(d) \/ OperationFails(d) \/ CommandDies(d)
    BY <2>7 DEF Launch, LaunchFresh, LaunchRestart, LaunchInspect, OperationFails,
       CommandDies, shared, worker
  <2>8. CASE CommandStep(d) /\ ~WriteCancel(d) /\ ~ClearCancel(d) /\ ~RemoveCancel(d)
    BY <2>8 DEF CommandStep, Lock, Unlock, Look, Probe, Stash, Unstash, ClearStep,
       ClearRead, ClearContext, ClearOwner, ClearBusy, ClearState, StartStep, StartRead,
       MakeGuard, WriteJob, WriteOwner, WriteStarting, Spawn, WriteWorkerPid,
       RemoveOwner, RemoveGuard, WriteFailed, shared, worker
  <2> QED
    BY <2>1, <2>3, <2>4, <2>5, <2>6, <2>7, <2>8
<1> QED
  BY <1>1, <1>2

\* A stop cannot be lost once it is written: the next poll of the worker it names
\* finds it, and the abort it raises is still there when the run ends.
THEOREM StopIsNotLost == Spec => StopsStay
<1>1. TypeOK /\ SessionInvariant /\ CopyInv /\ [Next]_vars =>
        \A c \in Commands :
           wpc[c] \in {"poll", "run"} /\ wpc'[c] \in {"poll", "run"} =>
             /\ cancelFile = c => cancelFile' = c
             /\ aborted[c] => aborted'[c]
  BY StopStaysStep
<1> QED
  BY <1>1, TypeCorrect, InvariantHolds, WritesAreInPlace, PTL DEF Spec, StopsStay
=============================================================================
