----------------------------- MODULE SessionInv -----------------------------
(***************************************************************************)
(* The inductive invariant behind the safety properties of Session: who    *)
(* holds mutation.lock/, what busy/owner.json says at each program point,  *)
(* and which copies of state.json are up to date.  It names no code of its *)
(* own.                                                                    *)
(***************************************************************************)
EXTENDS Session

\* Inside mutation().
HoldsLock(c) == \/ pc[c] \in StartPcs \cup ClearPcs \cup {"write_cancel", "unlock"}
                \/ pc[c] \in {"look", "probe"} /\ phase[c] \in {"stop", "clear"}

\* A worker that has not let go of the guard: it is spawned after owner.json
\* is written and unlinks it last.
Holding(c) == wpc[c] \in {"job", "state", "own", "mark", "poll", "run", "rescue",
                          "release", "unlink"}

LockInv == \A c \in Commands :
    /\ HoldsLock(c) => lock = c
    /\ pc[c] \in StartPcs => phase[c] = "start"
    /\ pc[c] = "ready" => phase[c] = "inspect"

\* owner.json lives in busy/; without a worker pid it belongs to a start that
\* holds the lock or died with it.
OwnerInv ==
    /\ owner.token # None => busy
    /\ owner.worker => owner.token # None
    /\ \A c \in Commands : owner.token = c =>
         IF owner.worker THEN wpc[c] # "none"
         ELSE lock = c /\ pc[c] \in {"rm_cancel", "write_state", "spawn", "write_pid",
                                     "rollback", "crashed"}

\* What owner.json says while a start is under way.
StartInv == \A c \in Commands :
    /\ pc[c] \in {"write_job", "write_owner", "rm_guard", "write_failed"} =>
         owner.token = None
    /\ pc[c] \in {"rm_cancel", "write_state", "spawn"} => owner.token = c
    /\ pc[c] \in {"write_pid", "rollback"} => owner.token \in {c, None}

\* A clear that got past the busy check has no live worker to fear.
ClearInv == \A c \in Commands :
    /\ pc[c] \in {"clear_read", "rm_context", "rm_owner"} =>
         \/ owner.token = None
         \/ owner.worker /\ wpc[owner.token] \in {"exit", "dead"}
    /\ pc[c] \in {"rm_busy", "clear_cancel", "clear_state"} => owner.token = None

\* A worker exists from the spawn on, and the guard is its own until it unlinks it.
WorkerInv == \A c \in Commands :
    /\ wpc[c] # "none" => \/ pc[c] \in {"write_pid", "done", "crashed"}
                          \/ pc[c] = "unlock" /\ phase[c] = "start"
    /\ pc[c] = "write_pid" => wpc[c] # "none"
    /\ Holding(c) => owner.token = c

GuardInv == LockInv /\ OwnerInv /\ StartInv /\ ClearInv /\ WorkerInv

\* state.json is about the job that holds the guard ...
JobInv == \A c \in Commands :
    /\ pc[c] = "spawn" \/ Holding(c) => state.job = c
    /\ wpc[c] \in {"own", "mark", "poll", "run", "rescue"} => wstate[c].job = c
    /\ wpc[c] \in {"poll", "run"} => state.status = "running"

\* ... and every copy of it about to be written back has its generation, as has
\* the conversation.
GenerationInv ==
    /\ context \subseteq {state.generation}
    /\ \A c \in Commands :
         /\ pc[c] \in (StartPcs \cup ClearPcs) \ {"read", "clear_read"} =>
              copy[c].generation = state.generation
         /\ pc[c] \in {"rm_owner", "rm_busy", "clear_cancel", "clear_state"} => context = {}
         /\ pc[c] \in {"write_owner", "rm_cancel", "write_state", "spawn"} =>
              jobFile.token = c /\ jobFile.generation = state.generation
         /\ wpc[c] = "job" => jobFile.token = c /\ jobFile.generation = state.generation
         /\ wpc[c] \in {"state", "own", "mark", "poll", "run"} =>
              wjob[c].generation = state.generation
         /\ wpc[c] \in {"own", "mark", "poll", "run", "rescue"} =>
              wstate[c].generation = state.generation

\* The whole of it, the strengthening that every step preserves.
SessionInvariant == GuardInv /\ JobInv /\ GenerationInv

\* A state file that names a result and a job names the result of that job, and
\* so does whatever was read from it.
OwnResult(s) == s.last # None /\ s.job # None => s.last = s.job

ResultInv == OwnResult(state) /\ \A c \in Commands : OwnResult(copy[c]) /\ OwnResult(wstate[c])

\* The project of a start that goes on is the session's, or the session's first.
BoundPcs == {"mkdir", "write_job", "write_owner", "rm_cancel", "write_state", "spawn",
             "rollback", "rm_guard", "write_failed"}

\* Once a project was tested, state.json names it, and so does every copy about to
\* be written back; the project of a job is bound before its worker exists.
ProjectInv ==
    /\ \A p \in tested : state.project = p
    /\ \A c \in Commands :
         LET mine == Project[request[c].task]
         IN  /\ pc[c] \in (BoundPcs \ {"spawn", "rollback", "rm_guard", "write_failed"})
                          \cup (ClearPcs \ {"clear_read"}) =>
                  copy[c].project = state.project
             /\ pc[c] \in BoundPcs =>
                  /\ copy[c].project \in {None, mine}
                  /\ \A p \in tested : copy[c].project = p
             /\ pc[c] = "spawn" => state.project = mine
             /\ pc[c] \in {"write_owner", "rm_cancel", "write_state", "spawn"} =>
                  jobFile.task = request[c].task
             /\ wpc[c] = "job" => Project[jobFile.task] = state.project
             /\ wpc[c] \in {"state", "own", "mark", "poll", "run"} =>
                  Project[wjob[c].task] = state.project
             /\ wpc[c] \in {"own", "mark", "poll", "run", "rescue"} =>
                  wstate[c].project = state.project

\* Copies are written back in place.  A start's copy may only miss the result of the
\* job before, which may end until the guard is made; a clear's and a worker's copy
\* is what state.json says, but for the status a worker wrote itself.
MissesAtMostTheResult(c) ==
    copy[c].job = state.job /\ copy[c].last \in {None, state.last}

\* What c's copy is worth to the command ...
CommandCopy(c) ==
    /\ pc[c] \in {"mkdir", "write_job", "write_owner", "rm_cancel", "write_state"} =>
         MissesAtMostTheResult(c)
    /\ pc[c] = "spawn" => state.status = "starting" /\ state.last = None
    /\ pc[c] \in {"rollback", "rm_guard", "write_failed"} =>
         \/ MissesAtMostTheResult(c) /\ copy[c].project = state.project
         \/ state.status = "starting" /\ state.project = Project[request[c].task]
    /\ pc[c] \in ClearPcs \ {"clear_read"} => copy[c] = state
    /\ (pc[c] = "write_cancel" \/ (pc[c] = "probe" /\ phase[c] = "stop")) =>
         copy[c].job = state.job

\* ... and to the worker.
WorkerCopy(c) ==
    /\ wpc[c] \in {"job", "state", "own", "mark"} => state.status = "starting"
    /\ wpc[c] \in {"own", "mark"} => state = wstate[c]
    /\ wpc[c] \in {"poll", "run"} => state = [wstate[c] EXCEPT !.status = "running"]
    /\ wpc[c] = "rescue" =>
         /\ state.status \in {"starting", "running"}
         /\ state = [wstate[c] EXCEPT !.status = state.status]
    /\ wpc[c] \in {"job", "state", "own", "mark", "poll", "run", "rescue"} =>
         state.last = None

CopyInv == \A c \in Commands : CommandCopy(c) /\ WorkerCopy(c)
=============================================================================
