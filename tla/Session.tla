------------------------------ MODULE Session ------------------------------
(***************************************************************************)
(* One test session directory, the command-line processes that operate on  *)
(* it (src/sessions.mjs) and the detached workers they spawn               *)
(* (src/session-worker.mjs).                                               *)
(*                                                                         *)
(* Every process is one element c of Commands: it is launched once, runs   *)
(* one session subcommand and exits.  A process starts at most one job, so *)
(* c also stands for the job token it draws, for its launcher pid and for  *)
(* the worker process it spawns.  Each action is one file operation, the   *)
(* unit at which the processes interleave; atomicJSON is a rename, so a    *)
(* JSON file is read and written whole.                                    *)
(***************************************************************************)
EXTENDS Naturals

CONSTANTS
    Commands,       \* command-line processes, and so jobs and workers
    Projects,       \* project directories a task document can name
    None,           \* null, and the absence of a file
    Menu,           \* Menu[c]: the subcommands c may turn out to be
    Project,        \* Project[c]: the project of the task document c submits
    Campaigns,      \* the commands that submit "session campaign" jobs
    Verdicts,       \* run_status of a run nobody cancelled
    MaxPolls,       \* inspections in restartSession's wait loop (50 in the code)
    MaxOwnerPolls,  \* re-reads of owner.json by a worker (100 in the code)
    MaxCrashes,     \* bound: processes killed in one behaviour
    PidReuse        \* whether the pid of a dead process can be given away

Kinds == {"start", "stop", "clear", "restart", "resubmit", "inspect"}

ASSUME NoneIsNew == None \notin Commands \cup Projects
ASSUME MenuType == Menu \in [Commands -> SUBSET Kinds]
ASSUME ProjectType == Project \in [Commands -> Projects]
ASSUME CampaignsType == Campaigns \subseteq Commands
ASSUME VerdictsType == Verdicts \subseteq {"completed", "partial", "failed"}
ASSUME BoundsType == {MaxPolls, MaxOwnerPolls, MaxCrashes} \subseteq Nat
ASSUME LoopType == MaxPolls # 0
ASSUME PidReuseType == PidReuse \in BOOLEAN

VARIABLES
    \* The session directory.
    lock,         \* holder of mutation.lock/, or None
    busy,         \* whether busy/ exists
    owner,        \* busy/owner.json: token and whether it names a worker pid
    jobFile,      \* job.json
    cancelFile,   \* cancel.json: the job it names, or None
    restartFile,  \* restart-task.json: whose task document it holds, or None
    state,        \* state.json
    context,      \* generations whose jobs wrote the files in context/
    \* The command processes.
    pc, kind, phase, outcome,
    copy,         \* copy[c]: the state.json c read last
    request,      \* request[c]: whose task and campaign limits c submits
    polls,
    \* The worker processes.
    wpc, wjob, wstate, wpolls, aborted,
    \* History: jobs a stop was requested for, projects tested, kills so far.
    stopped, tested, crashes

shared == <<lock, busy, owner, jobFile, cancelFile, restartFile, state, context>>
locals == <<kind, phase, outcome, copy, request, polls>>
worker == <<wpc, wjob, wstate, wpolls, aborted>>
ghosts == <<stopped, tested, crashes>>
vars   == <<shared, pc, locals, worker, ghosts>>

Token    == Commands \cup {None}
Statuses == {"idle", "starting", "running", "completed", "partial", "failed", "cancelled"}
Phases   == {"stop", "wait", "recheck", "clear", "start", "inspect"}
Outcomes == {"pending", "done", "refused", "failed", "busy", "interrupted", "settled"}

State   == [status : Statuses, job : Token, generation : Nat,
            project : Projects \cup {None}, last : Token]
Owner   == [token : Token, worker : BOOLEAN]
Request == [task : Commands, plan : Commands]

\* What createSession writes.
FreshState == [status |-> "idle", job |-> None, generation |-> 1,
               project |-> None, last |-> None]
NoOwner == [token |-> None, worker |-> FALSE]
NoJob   == [token |-> None, task |-> None, plan |-> None, generation |-> 0]
Job     == [token : Commands, task : Commands, plan : Commands, generation : Nat]
           \cup {NoJob}

\* Program points of a command: outside the lock, and inside mutation().
StartPcs  == {"read", "mkdir", "write_job", "write_owner", "rm_cancel", "write_state",
              "spawn", "write_pid", "rollback", "rm_guard", "write_failed"}
ClearPcs  == {"clear_read", "rm_context", "rm_owner", "rm_busy", "clear_cancel",
              "clear_state"}
CommandPcs == {"ready", "lock", "look", "probe", "write_cancel", "unlock", "stash",
               "unstash", "done", "crashed"} \cup StartPcs \cup ClearPcs

\* Program points of a worker.
WorkerPcs == {"none", "job", "state", "own", "mark", "poll", "run", "rescue", "release",
              "unlink", "rmdir", "exit", "dead"}
WorkerLive == WorkerPcs \ {"none", "exit", "dead"}

Init ==
    /\ lock = None /\ busy = FALSE /\ owner = NoOwner /\ jobFile = NoJob
    /\ cancelFile = None /\ restartFile = None /\ context = {}
    /\ state = FreshState
    /\ pc = [c \in Commands |-> "ready"]
    /\ kind = [c \in Commands |-> "inspect"]
    /\ phase = [c \in Commands |-> "inspect"]
    /\ outcome = [c \in Commands |-> "pending"]
    /\ copy = [c \in Commands |-> FreshState]
    /\ request = [c \in Commands |-> [task |-> c, plan |-> c]]
    /\ polls = [c \in Commands |-> 0]
    /\ wpc = [c \in Commands |-> "none"]
    /\ wjob = [c \in Commands |-> NoJob]
    /\ wstate = [c \in Commands |-> FreshState]
    /\ wpolls = [c \in Commands |-> 0]
    /\ aborted = [c \in Commands |-> FALSE]
    /\ stopped = {} /\ tested = {} /\ crashes = 0

-----------------------------------------------------------------------------
(* Helpers.                                                                *)

At(c, label) == pc[c] = label
Goto(c, label) == pc' = [pc EXCEPT ![c] = label]

Running(c) == pc[c] \notin {"ready", "done", "crashed"}

\* alive(): does the process the owner file names still exist?
Alive(o) == IF o.worker THEN wpc[o.token] \in WorkerLive ELSE Running(o.token)

\* The answers signal 0 can give: a reused pid makes a dead owner look alive.
AliveAnswers(o) == {Alive(o)} \cup (IF PidReuse THEN {TRUE} ELSE {})

\* The run_status a run can end with: cancelling it may come too late to show.
RunStatuses(c) == Verdicts \cup (IF aborted[c] THEN {"cancelled"} ELSE {})

\* fs.rmdir of busy/: fails with ENOTEMPTY while owner.json is in it.
RemoveEmptyGuard == busy' = (busy /\ owner # NoOwner)

-----------------------------------------------------------------------------
(* Launching a command.                                                    *)

\* The command line picks the subcommand; "session run" and "session campaign"
\* read their own task document, "restart --request" too.
LaunchFresh(c) ==
    /\ At(c, "ready")
    /\ \E k \in Menu[c] \ {"restart", "inspect"} :
          /\ kind' = [kind EXCEPT ![c] = k]
          /\ phase' = [phase EXCEPT ![c] = IF k = "resubmit" THEN "stop" ELSE k]
    /\ request' = [request EXCEPT ![c] = [task |-> c, plan |-> c]]
    /\ Goto(c, "lock")
    /\ UNCHANGED <<shared, outcome, copy, polls, worker, ghosts>>

\* restartSession without --request: resolve the previously submitted job.
LaunchRestart(c) ==
    /\ At(c, "ready")
    /\ "restart" \in Menu[c]
    /\ kind' = [kind EXCEPT ![c] = "restart"]
    /\ phase' = [phase EXCEPT ![c] = "stop"]
    /\ IF jobFile = NoJob
         THEN /\ Goto(c, "done")
              /\ outcome' = [outcome EXCEPT ![c] = "failed"]
              /\ UNCHANGED request
         ELSE /\ Goto(c, "lock")
              /\ request' = [request EXCEPT
                               ![c] = [task |-> jobFile.task, plan |-> jobFile.plan]]
              /\ UNCHANGED outcome
    /\ UNCHANGED <<shared, copy, polls, worker, ghosts>>

LaunchInspect(c) ==
    /\ At(c, "ready")
    /\ "inspect" \in Menu[c]
    /\ Goto(c, "look")
    /\ UNCHANGED <<shared, locals, worker, ghosts>>

-----------------------------------------------------------------------------
(* mutation(): the lock directory around stop, clear and start.            *)

Lock(c) ==
    /\ At(c, "lock")
    /\ IF lock = None
         THEN /\ lock' = c
              /\ Goto(c, IF phase[c] = "start" THEN "read" ELSE "look")
              /\ UNCHANGED outcome
         ELSE /\ Goto(c, "done")
              /\ outcome' = [outcome EXCEPT ![c] = "refused"]
              /\ UNCHANGED lock
    /\ UNCHANGED <<busy, owner, jobFile, cancelFile, restartFile, state, context,
                   kind, phase, copy, request, polls, worker, ghosts>>

\* rmdir of the lock: what the operation read goes out of scope, and a restart
\* goes on to its next operation.
Unlock(c) ==
    /\ At(c, "unlock")
    /\ lock' = None
    /\ copy' = [copy EXCEPT ![c] = FreshState]
    /\ LET goesOn == kind[c] \in {"restart", "resubmit"} /\ outcome[c] = "pending"
       IN  \/ /\ goesOn /\ phase[c] = "stop"
              /\ phase' = [phase EXCEPT ![c] = "wait"]
              /\ Goto(c, "look")
              /\ UNCHANGED outcome
           \/ /\ goesOn /\ phase[c] = "clear"
              /\ phase' = [phase EXCEPT ![c] = "start"]
              /\ Goto(c, IF kind[c] = "restart" THEN "stash" ELSE "lock")
              /\ UNCHANGED outcome
           \/ /\ ~(goesOn /\ phase[c] \in {"stop", "clear"})
              /\ Goto(c, "done")
              /\ outcome' = [outcome EXCEPT
                               ![c] = IF @ = "pending" THEN "done" ELSE @]
              /\ UNCHANGED phase
    /\ UNCHANGED <<busy, owner, jobFile, cancelFile, restartFile, state, context,
                   kind, request, polls, worker, ghosts>>

-----------------------------------------------------------------------------
(* inspectSession(): two reads, no lock of its own.                        *)

\* First read: state.json.
Look(c) ==
    /\ At(c, "look")
    /\ copy' = [copy EXCEPT ![c] = state]
    /\ Goto(c, "probe")
    /\ UNCHANGED <<shared, kind, phase, outcome, request, polls, worker, ghosts>>

\* What the caller of inspectSession does with the answer.
StopSees(c, isBusy) ==
    /\ phase[c] = "stop"
    /\ Goto(c, IF isBusy THEN "write_cancel" ELSE "unlock")
    /\ UNCHANGED <<phase, outcome, polls>>

\* Mutant: the wait loop has no limit.
WaitSees_Forever(c, isBusy) ==
    /\ phase[c] = "wait"
    /\ Goto(c, "look")
    /\ phase' = [phase EXCEPT ![c] = IF isBusy THEN @ ELSE "recheck"]
    /\ UNCHANGED <<polls, outcome>>

\* The loop is left without another look when it has counted MaxPolls of them.
WaitSees(c, isBusy) ==
    /\ phase[c] = "wait"
    /\ Goto(c, "look")
    /\ IF isBusy /\ polls[c] + 1 < MaxPolls
         THEN polls' = [polls EXCEPT ![c] = @ + 1] /\ UNCHANGED phase
         ELSE /\ phase' = [phase EXCEPT ![c] = "recheck"]
              /\ polls' = [polls EXCEPT ![c] = 0]
    /\ UNCHANGED outcome

RecheckSees(c, isBusy) ==
    /\ phase[c] = "recheck"
    /\ IF isBusy
         THEN /\ outcome' = [outcome EXCEPT ![c] = "refused"]
              /\ Goto(c, "done")
              /\ UNCHANGED phase
         ELSE /\ phase' = [phase EXCEPT ![c] = "clear"]
              /\ Goto(c, "lock")
              /\ UNCHANGED outcome
    /\ UNCHANGED polls

\* Mutant: clearSession does not refuse a busy session.
ClearSees_Unchecked(c, isBusy) ==
    /\ phase[c] = "clear"
    /\ Goto(c, "clear_read")
    /\ UNCHANGED <<phase, outcome, polls>>

ClearSees(c, isBusy) ==
    /\ phase[c] = "clear"
    /\ IF isBusy
         THEN /\ outcome' = [outcome EXCEPT ![c] = "refused"]
              /\ Goto(c, "unlock")
         ELSE Goto(c, "clear_read") /\ UNCHANGED outcome
    /\ UNCHANGED <<phase, polls>>

InspectSees(c, isBusy) ==
    /\ phase[c] = "inspect"
    /\ Goto(c, "done")
    /\ outcome' = [outcome EXCEPT ![c] = IF isBusy THEN "busy"
                                         ELSE IF owner = NoOwner THEN "settled"
                                         ELSE "interrupted"]
    /\ UNCHANGED <<phase, polls>>

\* Second read: busy/owner.json and the liveness probe of the process it names.
Probe(c) ==
    /\ At(c, "probe")
    /\ \E isBusy \in IF owner = NoOwner THEN {FALSE} ELSE AliveAnswers(owner) :
          \/ StopSees(c, isBusy)
          \/ WaitSees(c, isBusy)
          \/ RecheckSees(c, isBusy)
          \/ ClearSees(c, isBusy)
          \/ InspectSees(c, isBusy)
    /\ UNCHANGED <<shared, kind, copy, request, worker, ghosts>>

-----------------------------------------------------------------------------
(* stopSession()                                                           *)

WriteCancel(c) ==
    /\ At(c, "write_cancel")
    /\ cancelFile' = copy[c].job
    /\ stopped' = stopped \cup {copy[c].job}
    /\ Goto(c, "unlock")
    /\ UNCHANGED <<lock, busy, owner, jobFile, restartFile, state, context,
                   locals, worker, tested, crashes>>

-----------------------------------------------------------------------------
(* clearSession(), past the busy check                                     *)

\* Mutant: clear writes back what inspectSession read before the busy check.
ClearRead_Inspected(c) ==
    /\ At(c, "clear_read")
    /\ Goto(c, "rm_context")
    /\ UNCHANGED <<shared, locals, worker, ghosts>>

ClearRead(c) ==
    /\ At(c, "clear_read")
    /\ copy' = [copy EXCEPT ![c] = state]
    /\ Goto(c, "rm_context")
    /\ UNCHANGED <<shared, kind, phase, outcome, request, polls, worker, ghosts>>

\* Mutant: the conversation stays on disk.
ClearContext_Kept(c) ==
    /\ At(c, "rm_context")
    /\ Goto(c, "rm_owner")
    /\ UNCHANGED <<shared, locals, worker, ghosts>>

ClearContext(c) ==
    /\ At(c, "rm_context")
    /\ context' = {}
    /\ Goto(c, "rm_owner")
    /\ UNCHANGED <<lock, busy, owner, jobFile, cancelFile, restartFile, state,
                   locals, worker, ghosts>>

ClearOwner(c) ==
    /\ At(c, "rm_owner")
    /\ owner' = NoOwner
    /\ Goto(c, "rm_busy")
    /\ UNCHANGED <<lock, busy, jobFile, cancelFile, restartFile, state, context,
                   locals, worker, ghosts>>

ClearBusy(c) ==
    /\ At(c, "rm_busy")
    /\ RemoveEmptyGuard
    /\ Goto(c, "clear_cancel")
    /\ UNCHANGED <<lock, owner, jobFile, cancelFile, restartFile, state, context,
                   locals, worker, ghosts>>

ClearCancel(c) ==
    /\ At(c, "clear_cancel")
    /\ cancelFile' = None
    /\ Goto(c, "clear_state")
    /\ UNCHANGED <<lock, busy, owner, jobFile, restartFile, state, context,
                   locals, worker, ghosts>>

\* Mutant: clear writes a fresh state, unbinding the session from its project.
ClearState_Unbinds(c) ==
    /\ At(c, "clear_state")
    /\ state' = [FreshState EXCEPT !.generation = copy[c].generation + 1]
    /\ Goto(c, "unlock")
    /\ UNCHANGED <<lock, busy, owner, jobFile, cancelFile, restartFile, context,
                   locals, worker, ghosts>>

ClearState(c) ==
    /\ At(c, "clear_state")
    /\ state' = [copy[c] EXCEPT !.generation = @ + 1, !.status = "idle", !.job = None]
    /\ Goto(c, "unlock")
    /\ UNCHANGED <<lock, busy, owner, jobFile, cancelFile, restartFile, context,
                   locals, worker, ghosts>>

-----------------------------------------------------------------------------
(* restartSession(): the task document passes through restart-task.json,   *)
(* the campaign limits do not.                                             *)

Stash(c) ==
    /\ At(c, "stash")
    /\ restartFile' = request[c].task
    /\ Goto(c, "unstash")
    /\ UNCHANGED <<lock, busy, owner, jobFile, cancelFile, state, context,
                   locals, worker, ghosts>>

Unstash(c) ==
    /\ At(c, "unstash")
    /\ request' = [request EXCEPT ![c].task = restartFile]
    /\ Goto(c, "lock")
    /\ UNCHANGED <<shared, kind, phase, outcome, copy, polls, worker, ghosts>>

-----------------------------------------------------------------------------
(* startSession(), inside the lock                                         *)

\* Read state.json and check the session's project binding.
StartRead(c) ==
    /\ At(c, "read")
    /\ copy' = [copy EXCEPT ![c] = state]
    /\ IF state.project \in {None, Project[request[c].task]}
         THEN Goto(c, "mkdir") /\ UNCHANGED outcome
         ELSE Goto(c, "unlock") /\ outcome' = [outcome EXCEPT ![c] = "failed"]
    /\ UNCHANGED <<shared, kind, phase, request, polls, worker, ghosts>>

\* Mutant: an existing busy/ is taken over instead of reported.
MakeGuard_TakesOver(c) ==
    /\ At(c, "mkdir")
    /\ busy' = TRUE
    /\ Goto(c, "write_job")
    /\ UNCHANGED <<lock, owner, jobFile, cancelFile, restartFile, state, context,
                   locals, worker, ghosts>>

MakeGuard(c) ==
    /\ At(c, "mkdir")
    /\ IF busy
         THEN /\ outcome' = [outcome EXCEPT ![c] = "refused"]
              /\ Goto(c, "unlock")
         ELSE Goto(c, "write_job") /\ UNCHANGED outcome
    /\ busy' = TRUE
    /\ UNCHANGED <<lock, owner, jobFile, cancelFile, restartFile, state, context,
                   kind, phase, copy, request, polls, worker, ghosts>>

WriteJob(c) ==
    /\ At(c, "write_job")
    /\ jobFile' = [token |-> c, task |-> request[c].task, plan |-> request[c].plan,
                   generation |-> copy[c].generation]
    /\ Goto(c, "write_owner")
    /\ UNCHANGED <<lock, busy, owner, cancelFile, restartFile, state, context,
                   locals, worker, ghosts>>

\* Writing into busy/ fails with ENOENT when the directory has gone.
WriteOwner(c) ==
    /\ At(c, "write_owner")
    /\ owner' = IF busy THEN [token |-> c, worker |-> FALSE] ELSE owner
    /\ Goto(c, IF busy THEN "rm_cancel" ELSE "rollback")
    /\ UNCHANGED <<lock, busy, jobFile, cancelFile, restartFile, state, context,
                   locals, worker, ghosts>>

RemoveCancel(c) ==
    /\ At(c, "rm_cancel")
    /\ cancelFile' = None
    /\ Goto(c, "write_state")
    /\ UNCHANGED <<lock, busy, owner, jobFile, restartFile, state, context,
                   locals, worker, ghosts>>

\* Mutant: last_result is not reset when the next job starts.
WriteStarting_KeepsResult(c) ==
    /\ At(c, "write_state")
    /\ state' = [copy[c] EXCEPT !.status = "starting", !.job = c,
                                !.project = Project[request[c].task]]
    /\ Goto(c, "spawn")
    /\ UNCHANGED <<lock, busy, owner, jobFile, cancelFile, restartFile, context,
                   locals, worker, ghosts>>

WriteStarting(c) ==
    /\ At(c, "write_state")
    /\ state' = [copy[c] EXCEPT !.status = "starting", !.job = c, !.last = None,
                                !.project = Project[request[c].task]]
    /\ Goto(c, "spawn")
    /\ UNCHANGED <<lock, busy, owner, jobFile, cancelFile, restartFile, context,
                   locals, worker, ghosts>>

Spawn(c) ==
    /\ At(c, "spawn")
    /\ wpc' = [wpc EXCEPT ![c] = "job"]
    /\ Goto(c, "write_pid")
    /\ UNCHANGED <<shared, locals, wjob, wstate, wpolls, aborted, ghosts>>

\* A file operation inside mutation() fails, or the spawn itself.  A start that
\* has made the guard, but has no child yet, is rolled back; any other operation
\* just ends, with what it has done so far, and finally releases the lock.
OperationFails(c) ==
    /\ \/ /\ pc[c] \in {"write_job", "write_owner", "rm_cancel", "write_state", "spawn"}
          /\ Goto(c, "rollback")
          /\ UNCHANGED outcome
       \/ /\ \/ pc[c] \in ClearPcs \cup {"write_cancel", "read", "mkdir", "rm_guard",
                                        "write_failed"}
             \/ At(c, "look") /\ phase[c] \in {"stop", "clear"}
          /\ Goto(c, "unlock")
          /\ outcome' = [outcome EXCEPT ![c] = "failed"]
    /\ UNCHANGED <<shared, kind, phase, copy, request, polls, worker, ghosts>>

\* The second owner.json names the child; with the child spawned, a failure
\* (the guard has gone) is reported without a rollback.
WriteWorkerPid(c) ==
    /\ At(c, "write_pid")
    /\ owner' = IF busy THEN [token |-> c, worker |-> TRUE] ELSE owner
    /\ outcome' = [outcome EXCEPT ![c] = IF busy THEN @ ELSE "failed"]
    /\ Goto(c, "unlock")
    /\ UNCHANGED <<lock, busy, jobFile, cancelFile, restartFile, state, context,
                   kind, phase, copy, request, polls, worker, ghosts>>

\* The rollback removes busy/ with what is in it.
RemoveOwner(c) ==
    /\ At(c, "rollback")
    /\ owner' = NoOwner
    /\ Goto(c, "rm_guard")
    /\ UNCHANGED <<lock, busy, jobFile, cancelFile, restartFile, state, context,
                   locals, worker, ghosts>>

RemoveGuard(c) ==
    /\ At(c, "rm_guard")
    /\ busy' = FALSE
    /\ Goto(c, "write_failed")
    /\ UNCHANGED <<lock, owner, jobFile, cancelFile, restartFile, state, context,
                   locals, worker, ghosts>>

WriteFailed(c) ==
    /\ At(c, "write_failed")
    /\ state' = [copy[c] EXCEPT !.status = "failed"]
    /\ outcome' = [outcome EXCEPT ![c] = "failed"]
    /\ Goto(c, "unlock")
    /\ UNCHANGED <<lock, busy, owner, jobFile, cancelFile, restartFile, context,
                   kind, phase, copy, request, polls, worker, ghosts>>

-----------------------------------------------------------------------------
(* The worker process, src/session-worker.mjs                              *)

WGoto(c, label) == wpc' = [wpc EXCEPT ![c] = label]

\* Proof of ownership, part one: job.json and state.json name this job.
WorkerReadsJob(c) ==
    /\ wpc[c] = "job"
    /\ wjob' = [wjob EXCEPT ![c] = jobFile]
    /\ WGoto(c, IF jobFile.token = c THEN "state" ELSE "release")
    /\ UNCHANGED <<shared, pc, locals, wstate, wpolls, aborted, ghosts>>

WorkerReadsState(c) ==
    /\ wpc[c] = "state"
    /\ wstate' = [wstate EXCEPT ![c] = state]
    /\ WGoto(c, IF state.job = c THEN "own" ELSE "release")
    /\ UNCHANGED <<shared, pc, locals, wjob, wpolls, aborted, ghosts>>

\* Part two: wait until owner.json names this pid; a missing file is an error.
WorkerReadsOwner(c) ==
    /\ wpc[c] = "own"
    /\ \/ /\ owner = [token |-> c, worker |-> TRUE]
          /\ WGoto(c, "mark")
          /\ UNCHANGED wpolls
       \/ /\ owner \notin {NoOwner, [token |-> c, worker |-> TRUE]}
          /\ wpolls[c] < MaxOwnerPolls
          /\ wpolls' = [wpolls EXCEPT ![c] = @ + 1]
          /\ UNCHANGED wpc
       \/ /\ \/ owner = NoOwner
             \/ owner # [token |-> c, worker |-> TRUE] /\ wpolls[c] >= MaxOwnerPolls
          /\ WGoto(c, "rescue")
          /\ UNCHANGED wpolls
    /\ UNCHANGED <<shared, pc, locals, wjob, wstate, aborted, ghosts>>

WorkerMarksRunning(c) ==
    /\ wpc[c] = "mark"
    /\ state' = [wstate[c] EXCEPT !.status = "running"]
    /\ tested' = tested \cup {Project[wjob[c].task]}
    /\ WGoto(c, "poll")
    /\ UNCHANGED <<lock, busy, owner, jobFile, cancelFile, restartFile, context,
                   pc, locals, wjob, wstate, wpolls, aborted, stopped, crashes>>

\* Mutant: the interval is never set, cancel.json is read once before the run.
WorkerPolls_Once(c) ==
    /\ wpc[c] = "poll"
    /\ aborted' = [aborted EXCEPT ![c] = @ \/ cancelFile = c]
    /\ WGoto(c, "run")
    /\ UNCHANGED <<shared, pc, locals, wjob, wstate, wpolls, ghosts>>

\* poll(): once before the run, then every 200 ms during it.
WorkerPolls(c) ==
    /\ wpc[c] \in {"poll", "run"}
    /\ aborted' = [aborted EXCEPT ![c] = @ \/ cancelFile = c]
    /\ WGoto(c, "run")
    /\ UNCHANGED <<shared, pc, locals, wjob, wstate, wpolls, ghosts>>

\* createPi writes the conversation under context/; campaigns keep none.
WorkerConverses(c) ==
    /\ wpc[c] = "run"
    /\ wjob[c].plan \notin Campaigns
    /\ context' = context \cup {wjob[c].generation}
    /\ UNCHANGED <<lock, busy, owner, jobFile, cancelFile, restartFile, state,
                   pc, locals, worker, ghosts>>

WorkerFinishes(c) ==
    /\ wpc[c] = "run"
    /\ \E verdict \in RunStatuses(c) :
          state' = [wstate[c] EXCEPT !.status = verdict, !.last = c]
    /\ WGoto(c, "release")
    /\ UNCHANGED <<lock, busy, owner, jobFile, cancelFile, restartFile, context,
                   pc, locals, wjob, wstate, wpolls, aborted, ghosts>>

\* loadConfig, the run or the campaign throws.
WorkerThrows(c) ==
    /\ wpc[c] = "run"
    /\ WGoto(c, "rescue")
    /\ UNCHANGED <<shared, pc, locals, wjob, wstate, wpolls, aborted, ghosts>>

WorkerRescues(c) ==
    /\ wpc[c] = "rescue"
    /\ state' = [wstate[c] EXCEPT !.status = IF aborted[c] THEN "cancelled" ELSE "failed"]
    /\ WGoto(c, "release")
    /\ UNCHANGED <<lock, busy, owner, jobFile, cancelFile, restartFile, context,
                   pc, locals, wjob, wstate, wpolls, aborted, ghosts>>

\* finally: only the owner removes busy/, file first, then directory.
WorkerReleases(c) ==
    /\ wpc[c] = "release"
    /\ WGoto(c, IF owner.token = c THEN "unlink" ELSE "exit")
    /\ UNCHANGED <<shared, pc, locals, wjob, wstate, wpolls, aborted, ghosts>>

WorkerUnlinks(c) ==
    /\ wpc[c] = "unlink"
    /\ owner' = NoOwner
    /\ WGoto(c, "rmdir")
    /\ UNCHANGED <<lock, busy, jobFile, cancelFile, restartFile, state, context,
                   pc, locals, wjob, wstate, wpolls, aborted, ghosts>>

WorkerRemovesGuard(c) ==
    /\ wpc[c] = "rmdir"
    /\ RemoveEmptyGuard
    /\ WGoto(c, "exit")
    /\ UNCHANGED <<lock, owner, jobFile, cancelFile, restartFile, state, context,
                   pc, locals, wjob, wstate, wpolls, aborted, ghosts>>

-----------------------------------------------------------------------------
(* Crashes.  A killed command leaves mutation.lock/ behind, a killed       *)
(* worker leaves busy/ behind.                                             *)

CommandDies(c) ==
    /\ Running(c)
    /\ crashes < MaxCrashes
    /\ crashes' = crashes + 1
    /\ Goto(c, "crashed")
    /\ UNCHANGED <<shared, locals, worker, stopped, tested>>

WorkerDies(c) ==
    /\ wpc[c] \in WorkerLive
    /\ crashes < MaxCrashes
    /\ crashes' = crashes + 1
    /\ WGoto(c, "dead")
    /\ UNCHANGED <<shared, pc, locals, wjob, wstate, wpolls, aborted, stopped, tested>>

-----------------------------------------------------------------------------
Launch(c) == LaunchFresh(c) \/ LaunchRestart(c) \/ LaunchInspect(c)

ClearStep(c) == \/ ClearRead(c) \/ ClearContext(c) \/ ClearOwner(c)
                \/ ClearBusy(c) \/ ClearCancel(c) \/ ClearState(c)

StartStep(c) == \/ StartRead(c) \/ MakeGuard(c) \/ WriteJob(c) \/ WriteOwner(c)
                \/ RemoveCancel(c) \/ WriteStarting(c) \/ Spawn(c) \/ WriteWorkerPid(c)
                \/ RemoveOwner(c) \/ RemoveGuard(c) \/ WriteFailed(c)

CommandStep(c) == \/ Lock(c) \/ Unlock(c) \/ Look(c) \/ Probe(c) \/ WriteCancel(c)
                  \/ Stash(c) \/ Unstash(c) \/ ClearStep(c) \/ StartStep(c)

\* What a worker does of its own accord, the length of the run left open.
WorkerStep(c) == \/ WorkerReadsJob(c) \/ WorkerReadsState(c) \/ WorkerReadsOwner(c)
                 \/ WorkerMarksRunning(c) \/ WorkerPolls(c) \/ WorkerRescues(c)
                 \/ WorkerReleases(c) \/ WorkerUnlinks(c) \/ WorkerRemovesGuard(c)

RunEnds(c) == WorkerFinishes(c) \/ WorkerThrows(c)

Next == \E c \in Commands :
    \/ Launch(c) \/ CommandStep(c) \/ OperationFails(c)
    \/ WorkerStep(c) \/ WorkerConverses(c) \/ RunEnds(c)
    \/ CommandDies(c) \/ WorkerDies(c)

Spec == Init /\ [][Next]_vars

\* A process that is not killed keeps executing; an aborted run ends, since the
\* abort signal tears down its model session and its test processes.  Nothing
\* bounds a run that is not aborted, and nobody has to launch a command.
Fairness == \A c \in Commands :
    /\ WF_vars(CommandStep(c))
    /\ WF_vars(WorkerStep(c))
    /\ WF_vars(aborted[c] /\ RunEnds(c))

FairSpec == Spec /\ Fairness

\* The same system on a disk that can fill up: the second owner.json, the one
\* that names the worker's pid, is not written although the worker was spawned.
OwnerWriteFails(c) ==
    /\ At(c, "write_pid")
    /\ outcome' = [outcome EXCEPT ![c] = "failed"]
    /\ Goto(c, "unlock")
    /\ UNCHANGED <<shared, kind, phase, copy, request, polls, worker, ghosts>>

FaultNext == Next \/ \E c \in Commands : OwnerWriteFails(c)
FaultSpec == Init /\ [][FaultNext]_vars

-----------------------------------------------------------------------------
(* Properties.                                                             *)

\* A job past its proof of ownership and not yet reporting its result.
Active(c) == wpc[c] \in {"mark", "poll", "run"}

FilesOK ==
    /\ lock \in Token /\ busy \in BOOLEAN /\ owner \in Owner /\ jobFile \in Job
    /\ cancelFile \in Token /\ restartFile \in Token /\ state \in State
    /\ context \subseteq Nat

CommandsOK ==
    /\ pc \in [Commands -> CommandPcs]
    /\ kind \in [Commands -> Kinds]
    /\ phase \in [Commands -> Phases]
    /\ outcome \in [Commands -> Outcomes]
    /\ copy \in [Commands -> State]
    /\ request \in [Commands -> Request]
    /\ polls \in [Commands -> 0 .. MaxPolls]

WorkersOK ==
    /\ wpc \in [Commands -> WorkerPcs]
    /\ wjob \in [Commands -> Job]
    /\ wstate \in [Commands -> State]
    /\ wpolls \in [Commands -> 0 .. MaxOwnerPolls]
    /\ aborted \in [Commands -> BOOLEAN]

\* Every variable keeps to the values the files and processes can hold.
TypeOK ==
    /\ FilesOK /\ CommandsOK /\ WorkersOK
    /\ \A c \in Commands :
         /\ pc[c] = "unstash" => restartFile # None
         /\ wpc[c] \in {"state", "own", "mark"} => wjob[c] # NoJob
    /\ stopped \subseteq Token /\ tested \subseteq Projects
    /\ crashes \in 0 .. MaxCrashes

\* docs/sessions.md: one session runs one job at a time.  The guard is a
\* directory, an owner file inside it and a pid probe, each changed by
\* different processes at different times; no interleaving of starts, clears,
\* restarts, timeouts and kills makes two workers active at once.
OneActiveJob == \A c, d \in Commands : Active(c) /\ Active(d) => c = d

\* While a job is active, state.json is about that job: no command and no older
\* worker overwrites it with a copy it read earlier (each of them writes the
\* whole file back from such a copy).
StateIsTheActiveJobs ==
    \A c \in Commands : wpc[c] \in {"poll", "run"} =>
        state.job = c /\ state.status = "running"

\* A last_result path that is published belongs to the job that is published
\* with it; a client that waited for its job never reads the previous result.
ResultIsTheJobs == state.last # None /\ state.job # None => state.last = state.job

\* The conversation on disk is the current generation's: after a clear nothing
\* an earlier job said is left, and no late worker adds to it.
ConversationIsCurrent == context \subseteq {state.generation}

\* Every job that was let through to run tests the same project, whatever the
\* starts, failed starts and clears in between wrote to state.json.
OneProject == \A p, q \in tested : p = q

\* cancel.json outlives the job it was written for; a worker aborts only when a
\* stop was requested while state.json named its own job.
OnlyStoppedJobsAbort == \A c \in Commands : aborted[c] => c \in stopped

\* clearSession bumps the generation "so a stale worker can never resume": no
\* step, whatever copy of state.json it writes back, takes a generation back.
GenerationNeverDecreases == [][state'.generation >= state.generation]_vars

\* "Ownership is proven twice before any state is touched" (session-worker.mjs):
\* a worker writes state.json only while the guard is its own.
OnlyTheOwnerWritesState ==
    [][\A c \in Commands :
         wpc[c] \in {"mark", "run", "rescue"} /\ wpc'[c] # wpc[c] /\ state' # state
            => owner.token = c]_vars

\* "A stale worker can never delete a live job's guard" (session-worker.mjs): no
\* worker removes the busy/ directory a start has just made for the next job.
GuardIsNotStolen ==
    [][\A c, d \in Commands :
         wpc[c] = "rmdir" /\ wpc'[c] = "exit" /\ pc[d] \in {"write_job", "write_owner"}
            => busy' = busy]_vars

\* "Use session clear before a new run" is the recovery inspect advises when it
\* finds the owner dead: a clear with no other command around gets the lock.
ClearRecovers == \A c \in Commands :
    /\ At(c, "lock") /\ phase[c] = "clear"
    /\ owner # NoOwner /\ ~Alive(owner)
    /\ \A d \in Commands \ {c} : ~Running(d)
    => lock = None

\* A stop that found the job busy is honoured: the worker leaves, unless it is
\* killed; the abort is a file the worker polls and never a signal.
StopIsHonoured == \A c \in Commands :
    (cancelFile = c /\ wpc[c] = "run") ~> wpc[c] \in {"exit", "dead"}

\* Every command returns: restart waits a bounded time for the worker, and no
\* command ever waits for the lock.
CommandsReturn == \A c \in Commands : Running(c) ~> ~Running(c)

-----------------------------------------------------------------------------
(* A session implements SessionAbs.                                        *)

\* A job runs from the moment state.json says so until it writes how it ended.
Runs(c) == \/ wpc[c] \in {"poll", "run"}
           \/ wpc[c] = "rescue" /\ state.status = "running"

RunningJobs == {c \in Commands : Runs(c)}

Promise == INSTANCE SessionAbs WITH Jobs <- Commands, running <- RunningJobs

\* The operations of docs/sessions.md as those see them who read state.json: every
\* write of it, from whatever copy and by whatever process, changes in place what
\* its operation is meant to change; a job begins when no other runs, is cancelled
\* only if it was stopped, and clears come between jobs.
KeepsItsPromise == Promise!Spec
=============================================================================
