------------------------------ MODULE Terminal ------------------------------
(***************************************************************************)
(* The interactive terminal: runTerminal (terminal.mjs) and the agent it   *)
(* drives (terminal-agent.mjs).  Both run on one event loop, so an action  *)
(* is the code between two awaits, or the handler of one key or signal.    *)
(* Keys and signals may come at any await.  The user submits jobs; each    *)
(* has a controller of its own, and nothing but the flag `busy` keeps two  *)
(* of them from using the one agent, its chat session and its directory.   *)
(***************************************************************************)
EXTENDS Integers

CONSTANTS MaxJobs,   \* jobs the user may start (bound of the model)
          MaxTurns   \* model turns per prompt: 12 in the code

ASSUME TerminalAssumption == MaxJobs \in Nat /\ MaxTurns \in Nat

Jobs == 1..MaxJobs
NoJob == 0

Kinds == {"chat", "run", "report", "doctor", "clear"}

\* The awaits a job may be at: chatSession before mkdtemp, createPi, the
\* clear() after it failed, session.prompt, the inspection of a task, runTask
\* or regress, report or diagnose, and the removal of a directory by /clear.
Awaits == {"opening", "creating", "undoing", "talking", "loading", "testing",
           "asking", "removing"}

VARIABLES
  main,        \* runTerminal: "open", "clearing" (its finally), then over
  closing,     \* the flag
  awaited,     \* the work runTerminal waits for once it is closed
  busy, controller, work,   \* busy, activeController, activeWork
  editor,      \* whether the editor holds text
  job,         \* what each job is, its await, and its two signals
  session,     \* this.session
  runtimeDir,  \* this.runtimeDir, named after the job that made it
  dirs,        \* the runtime directories on disk
  turns,       \* this.turns
  asked,       \* history: jobs that were running when the user said stop
  stuck        \* history: directories fs.rm once failed to remove

keys == <<closing, awaited, editor>>
gate == <<busy, controller, work>>
agent == <<session, runtimeDir, dirs, stuck, turns>>
vars == <<main, keys, gate, job, agent, asked>>

Init ==
  /\ main = "open" /\ closing = FALSE /\ awaited = NoJob
  /\ busy = FALSE /\ controller = NoJob /\ work = NoJob
  /\ editor = FALSE
  /\ job = [j \in Jobs |-> [kind |-> "chat", at |-> "unborn",
                            aborted |-> FALSE, told |-> FALSE]]
  /\ session = FALSE /\ runtimeDir = NoJob /\ dirs = {} /\ stuck = {}
  /\ turns = 0
  /\ asked = {}

Running(j) == job[j].at \in Awaits

\* session.prompt is under way, and the listener that calls session.abort()
\* is registered.
Prompting(j) == job[j].kind = "chat" /\ job[j].at \in {"talking", "loading", "testing"}

\* The signal a tool or a command sees: that of the model's session in a
\* chat, that of the controller otherwise.
Stopped(j) == IF job[j].kind = "chat" THEN job[j].told ELSE job[j].aborted

\* Nothing runs between the end of the awaited work and tui.stop().
Drained == closing /\ \A j \in Jobs : awaited = j => job[j].at = "ended"
Interactive == main = "open" /\ ~Drained

-----------------------------------------------------------------------------
(***************************************************************************)
(* Keys, signals and submitted lines                                       *)
(***************************************************************************)

\* cancel(): the active controller, if there is one, and with it the prompt
\* that listens.
Abort ==
  /\ job' = IF controller = NoJob THEN job
            ELSE [job EXCEPT ![controller].aborted = TRUE,
                             ![controller].told = @ \/ Prompting(controller)]
  /\ asked' = asked \cup {j \in Jobs : Running(j)}

Cancel == Abort /\ UNCHANGED <<closing, awaited>>

Close_WithoutCancel ==  \* Mutant: waits for the work without stopping it
  /\ closing' = TRUE /\ awaited' = IF closing THEN awaited ELSE work
  /\ UNCHANGED <<job, asked>>

\* close(): what is awaited is the work there is now.
Close ==
  /\ IF closing THEN UNCHANGED <<closing, awaited, job, asked>>
     ELSE closing' = TRUE /\ awaited' = work /\ Abort

Type ==
  /\ Interactive /\ ~editor
  /\ editor' = TRUE
  /\ UNCHANGED <<main, closing, awaited, gate, job, agent, asked>>

CtrlC ==
  /\ Interactive
  /\ \/ busy /\ Cancel /\ UNCHANGED editor
     \/ ~busy /\ editor /\ editor' = FALSE /\ UNCHANGED <<closing, awaited, job, asked>>
     \/ ~busy /\ ~editor /\ Close /\ UNCHANGED editor
  /\ UNCHANGED <<main, gate, agent>>

CtrlD ==
  /\ Interactive /\ ~editor
  /\ Close
  /\ UNCHANGED <<main, editor, gate, agent>>

Escape ==
  /\ Interactive /\ busy
  /\ Cancel
  /\ UNCHANGED <<main, editor, gate, agent>>

\* SIGINT, then SIGTERM or SIGHUP.
Interrupt ==
  /\ Interactive
  /\ IF busy THEN Cancel ELSE Close
  /\ UNCHANGED <<main, editor, gate, agent>>

Terminate ==
  /\ Interactive
  /\ Close
  /\ UNCHANGED <<main, editor, gate, agent>>

\* /exit, /cancel, and a line that only gets an answer: /help, the model
\* commands, an unknown command, one without the argument it needs.
SubmitExit ==
  /\ Interactive /\ editor
  /\ editor' = FALSE
  /\ Close
  /\ UNCHANGED <<main, gate, agent>>

SubmitCancel ==
  /\ Interactive /\ editor
  /\ editor' = FALSE
  /\ IF busy THEN Cancel ELSE UNCHANGED <<closing, awaited, job, asked>>
  /\ UNCHANGED <<main, gate, agent>>

SubmitOther ==
  /\ Interactive /\ editor
  /\ editor' = FALSE
  /\ UNCHANGED <<main, closing, awaited, gate, job, agent, asked>>

\* The first await of a job, and what its agent call does before it.
FirstAwait(kind) ==
  CASE kind = "chat"  -> IF session THEN "talking" ELSE "opening"
    [] kind = "run"   -> "loading"
    [] kind = "clear" -> "removing"
    [] OTHER          -> "asking"

MayStart_Always == TRUE  \* Mutant: no busy gate

\* While a job runs, the line goes back into the editor: nothing changes.
MayStart == ~busy

Submit(kind, j) ==
  /\ Interactive /\ editor
  /\ job[j].at = "unborn" /\ \A i \in 1..(j - 1) : job[i].at # "unborn"
  /\ MayStart
  /\ editor' = FALSE
  /\ busy' = TRUE /\ controller' = j
  /\ work' = IF work = NoJob THEN j ELSE work
  /\ job' = [job EXCEPT ![j].kind = kind, ![j].at = FirstAwait(kind)]
  /\ turns' = IF kind = "chat" THEN 0 ELSE turns
  /\ session' = (session /\ kind # "clear")
  /\ UNCHANGED <<main, closing, awaited, runtimeDir, dirs, stuck, asked>>

-----------------------------------------------------------------------------
(***************************************************************************)
(* The jobs                                                                *)
(***************************************************************************)

\* execute's finally block, and that of activeWork.
Finish(j) ==
  /\ job' = [job EXCEPT ![j].at = "ended"]
  /\ busy' = FALSE /\ controller' = NoJob
  /\ work' = IF work = j THEN NoJob ELSE work

Move(j, await) ==
  /\ job' = [job EXCEPT ![j].at = await]
  /\ UNCHANGED gate

\* chatSession up to createPi.
OpenSession(j) ==
  /\ job[j].at = "opening"
  /\ \/ Move(j, "creating") /\ runtimeDir' = j /\ dirs' = dirs \cup {j}
     \/ Finish(j) /\ UNCHANGED <<runtimeDir, dirs>>
  /\ UNCHANGED <<main, keys, session, stuck, turns, asked>>

CreateSession_Deaf(j) ==  \* Mutant: throwIfAborted is missing
  /\ job[j].at = "creating"
  /\ \/ session' = TRUE /\ Move(j, "talking")
     \/ session' = FALSE /\ Move(j, "undoing")
  /\ UNCHANGED <<main, keys, runtimeDir, dirs, stuck, turns, asked>>

CreateSession_NoClear(j) ==  \* Mutant: a failure does not clear
  /\ job[j].at = "creating"
  /\ \/ /\ session' = TRUE
        /\ IF job[j].aborted THEN Finish(j) ELSE Move(j, "talking")
     \/ session' = FALSE /\ Finish(j)
  /\ UNCHANGED <<main, keys, runtimeDir, dirs, stuck, turns, asked>>

\* createPi has returned or thrown; prompt() goes on, unless it was aborted.
CreateSession(j) ==
  /\ job[j].at = "creating"
  /\ \/ /\ session' = TRUE
        /\ IF job[j].aborted THEN Finish(j) ELSE Move(j, "talking")
     \/ session' = FALSE /\ Move(j, "undoing")
  /\ UNCHANGED <<main, keys, runtimeDir, dirs, stuck, turns, asked>>

\* clear(), past the removal of the runtime directory.
RemoveDir ==
  \/ runtimeDir = NoJob /\ UNCHANGED <<runtimeDir, dirs, stuck>>
  \/ runtimeDir' = NoJob /\ dirs' = dirs \ {runtimeDir} /\ UNCHANGED stuck
  \/ runtimeDir # NoJob /\ stuck' = stuck \cup {runtimeDir} /\ UNCHANGED <<runtimeDir, dirs>>

Cleared(j) ==
  /\ job[j].at \in {"undoing", "removing"}
  /\ RemoveDir /\ Finish(j)
  /\ UNCHANGED <<main, keys, session, turns, asked>>

\* beforeModelRequest: the budget of model turns per prompt.
TurnsLeft == turns < MaxTurns

\* The model answers, or calls a tool: one that only reads, or a test run.
Turn(j) ==
  /\ job[j].at = "talking" /\ ~job[j].told
  /\ TurnsLeft
  /\ turns' = turns + 1
  /\ \E await \in {"talking", "loading"} : Move(j, await)
  /\ UNCHANGED <<main, keys, session, runtimeDir, dirs, stuck, asked>>

\* It has nothing more to say, fails, or is out of turns, or was aborted.
PromptEnds(j) ==
  /\ job[j].at = "talking"
  /\ Finish(j)
  /\ UNCHANGED <<main, keys, agent, asked>>

\* Where a test run returns to: the model, or execute.
Back(j) == IF job[j].kind = "chat" THEN Move(j, "talking") ELSE Finish(j)

\* run() and regression() up to the pipeline: the task may not be valid, and
\* the signal is checked.
Load(j) ==
  /\ job[j].at = "loading"
  /\ \/ ~Stopped(j) /\ Move(j, "testing")
     \/ Back(j)
  /\ UNCHANGED <<main, keys, agent, asked>>

TestsEnd(j) ==
  /\ job[j].at = "testing"
  /\ Back(j)
  /\ UNCHANGED <<main, keys, agent, asked>>

\* report() or diagnose() has returned or thrown.
Answered(j) ==
  /\ job[j].at = "asking"
  /\ Finish(j)
  /\ UNCHANGED <<main, keys, agent, asked>>

\* tui.stop(), the handlers are taken down, and clear() begins.
Leave ==
  /\ main = "open" /\ Drained
  /\ main' = "clearing"
  /\ session' = FALSE
  /\ UNCHANGED <<keys, gate, job, runtimeDir, dirs, stuck, turns, asked>>

FinalClear ==
  /\ main = "clearing"
  /\ main' = "exited"
  /\ RemoveDir
  /\ UNCHANGED <<keys, gate, job, session, turns, asked>>

\* A signal kills the process now that nothing handles it.
Killed ==
  /\ main = "clearing"
  /\ main' = "killed"
  /\ UNCHANGED <<keys, gate, job, agent, asked>>

\* The steps of a job that end by themselves; testing does, see RunTask.
Step(j) == \/ OpenSession(j) \/ CreateSession(j) \/ Cleared(j)
           \/ Load(j) \/ TestsEnd(j) \/ Answered(j)

User == \/ Type \/ CtrlC \/ CtrlD \/ Escape \/ Interrupt \/ Terminate
        \/ SubmitExit \/ SubmitCancel \/ SubmitOther
        \/ \E kind \in Kinds, j \in Jobs : Submit(kind, j)

Next == \/ User \/ Leave \/ FinalClear \/ Killed
        \/ \E j \in Jobs : Step(j) \/ Turn(j) \/ PromptEnds(j)

Spec == Init /\ [][Next]_vars

\* Files and test runs come to an end; a model may never answer, but a
\* prompt whose session was told to abort returns.
Fairness ==
  /\ WF_vars(Leave) /\ WF_vars(FinalClear)
  /\ \A j \in Jobs : WF_vars(Step(j)) /\ WF_vars(job[j].told /\ PromptEnds(j))

FairSpec == Spec /\ Fairness

-----------------------------------------------------------------------------
Places == Awaits \cup {"unborn", "ended"}
JobType == [kind : Kinds, at : Places, aborted : BOOLEAN, told : BOOLEAN]

\* Every variable has its type.
TypeOK ==
  /\ main \in {"open", "clearing", "exited", "killed"}
  /\ closing \in BOOLEAN /\ busy \in BOOLEAN /\ editor \in BOOLEAN /\ session \in BOOLEAN
  /\ awaited \in Jobs \cup {NoJob} /\ controller \in Jobs \cup {NoJob}
  /\ work \in Jobs \cup {NoJob} /\ runtimeDir \in Jobs \cup {NoJob}
  /\ job \in [Jobs -> JobType]
  /\ dirs \subseteq Jobs /\ stuck \subseteq Jobs /\ asked \subseteq Jobs
  /\ turns \in 0..MaxTurns

\* "exactly one job runs at a time and cancellation always reaches the
\* active controller" (terminal.mjs): whatever runs is what busy, the
\* controller and the awaited work stand for, exactly the jobs that the user
\* wanted to stop are aborted, and none runs when the terminal clears up.
OneJobAtATime ==
  /\ \A j \in Jobs : /\ Running(j) => busy /\ controller = j /\ work = j
                     /\ job[j].aborted <=> j \in asked
                     /\ Running(j) => main = "open" /\ (closing => awaited = j)
  /\ busy <=> \E j \in Jobs : Running(j)

Starts(j) == \/ job[j].at # "testing" /\ job'[j].at = "testing"
             \/ job[j].at = "talking" /\ turns' > turns

\* Once the user said stop, a job asks the model for no further turn and
\* starts no test run, whichever await the stop found it at.
StoppedJobsStayQuiet == [][\A j \in asked : ~Starts(j)]_vars

\* When the terminal has exited, the model's session is disposed, and every
\* runtime directory it ever made is gone, except those fs.rm failed on.
NothingLeftBehind == main = "exited" => ~session /\ dirs \subseteq stuck

\* Whoever closes the terminal gets out of it, whatever is running.
ExitIsHonoured == closing ~> main \in {"exited", "killed"}
=============================================================================
