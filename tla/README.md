# askJEV Agent: a TLA+ verification project

This directory holds TLA+ models of the askJEV test agent, the TLC runs that
model-check them, and theorems about them that TLAPS checks. Paths such as
`sessions.mjs:84` are lines of the repository; `sessions.mjs`,
`session-worker.mjs` and the other `.mjs` files are in `src/src/`, and
`public_api_proxy.py` is in `src/deploy/spark/`.

1. [The system](#1-the-system) - inventory of the components
2. [The modules](#2-the-modules) - which module models what, and how
3. [The runs](#3-the-runs) - what TLC checks, bounds, fairness
4. [The theorems](#4-the-theorems) - what is proved and along which argument
5. [Disagreements](#5-disagreements-between-code-and-documentation)
6. [What is not modelled](#6-what-is-not-modelled)
7. [The plan](#7-the-plan)

## 1. The system

askJEV is a command-line test agent. It gives a language model five tools with
which it plans, ranks, selects, runs and reports JavaScript or browser tests of
a target project; the tests are run by Node or Chrome child processes. Long
runs live in *sessions*: a directory, and a detached worker process. Ranking is
done by a scoring service, and models may be reached through a public HTTP
proxy that limits who may use the GPU and when.

| Component | State | Operations | Hard because |
|---|---|---|---|
| Sessions (`sessions.mjs`) and their worker (`session-worker.mjs`) | one directory per session: `state.json`, `job.json`, `cancel.json`, `restart-task.json`, `context/`, the guard `busy/` with `owner.json`, the lock `mutation.lock/` | create, start (run, campaign), stop, clear, restart, inspect; the worker's proof of ownership, run, result, release | any number of processes, no server between them; whole files are rewritten from copies; kills; pid reuse; bounded waits |
| Public API proxy (`public_api_proxy.py`) | two gates of tokens, a counter of waiters each, leases, buckets of timestamps, an operator's maintenance file | authenticate, maintenance check, rate limit, wait for a slot, recheck, forward, stream, release | cancellation at every await, a queue of futures that are woken before they run, a check that is stale after the wait |
| Run pipeline (`runner.mjs`) | workflow phase, attempts, repairs, turns, abort reason, report | the five tools and their gates, the turn hook, the timers, the final status | the model calls tools in any order; timer, cancellation and completion race for one reason |
| Campaign (`campaign.mjs`) | rounds, budgets, findings, stop reason, `result.json` and `coding-handoff.json` | rounds, stagnation, reproduction, save | late cancellations; two files saved one after the other |
| Scoring, selection (`scoring.mjs`, `selection.mjs`) | one request and its retry | ask, retry, fall back, normalise, order, select, validate | an answer that crosses a cancellation, ties and missing values |
| Test execution (`execution.mjs`) | one child process | run, time out, abort, cap the output, classify | four ways to end that race |
| Replay, regression, feedback (`replay.mjs`, `runner.mjs`, `handoff.mjs`) | the files of a run, its deadline, the executions so far | three gates, the loop over the tests, the result, the feedback | a deadline and a cancellation that race the end of a test; edits between two reads |
| Terminal (`terminal.mjs`, `terminal-agent.mjs`) | the busy flag, the active controller and work, the chat session and its directory | submit a line, cancel, close, the jobs, clear | keys and signals come at every await, and only the flag keeps two jobs apart |
| Skill installer (`install.mjs`) | versions on disk, a lock directory | install, switch | a crash while the lock is held |
| The rest: snapshots and validation, baseline, provenance, browser driver, model client, command line, tunnel, deployment scripts | none that lasts | | sequential, or I/O |

How they interact: the command line calls the session functions, which spawn
the worker; the worker calls the run pipeline or the campaign with an
`AbortSignal`, and learns of a stop only by polling `cancel.json`. A campaign
calls the run pipeline once per round, the pipeline calls scoring, selection
and execution from its tools, and reaches models through the model client,
possibly by way of the proxy. The terminal drives the same pipeline, replay and
regression in its own process, next to a chat session of its own. Sessions, and the files in them, are the only
state shared between processes; the gates are the only state shared between
requests.

What makes each of them correct:

- **Sessions.** One job at a time; `state.json` is about that job while it
  runs, although start, failed start, clear and the worker each write it back
  whole from an older copy; a result is never another job's; a cleared
  conversation stays cleared; a stop ends the job it was meant for and no
  other; every command returns; what an interrupted process leaves behind can
  be cleared.
- **Proxy.** No slot is lost, shared or returned twice, wherever a request
  fails or is cancelled; no slot is idle while somebody waits; nobody waits
  beyond the bound; no request reaches the model in maintenance; no window of
  a minute holds more requests of a client than the limit, and none is refused
  below it; whoever waits is answered.
- **Run pipeline.** No case is reported that was not executed, a failed case is
  not rewritten, budgets hold, and the status follows from what happened first.
- **Campaign.** The stop reason is the reason; what is saved is consistent
  after a crash; findings are not lost.
- **Scoring, selection.** No case has a score that the accepted answer does not
  give it; a run goes on without scores only if its task says so, and never
  because it was cancelled; what is selected is what the policy says, in the
  order it says, ties and gaps included.
- **Execution, replay, regression.** No test of an aborted run goes on
  unkilled, whenever the abort comes; "completed" means that everything was
  executed and nothing cut short; every replay ends. A coding agent hears of a
  success only if there was one.
- **Terminal.** One job at a time, and it is the one a key or signal stops;
  after a stop it asks the model for nothing and starts no test run; closing it
  ends it, and leaves neither a session nor a directory behind.
- **Installer.** An interrupted installation can be repeated.

## 2. The modules

    SessionAbs                                  Admission
        ^ implemented by                            ^ implemented by
    Session <- SessionInv <- MCSession          Proxy <- MCProxy
                          <- SessionProofs            <- ProxyProofs

    RateLimiter <- MCRateLimiter                RunTask  <- RunTaskProofs
                <- RateLimiterProofs            Campaign <- CampaignProofs
                                                Terminal <- TerminalProofs
    Selection <- Scoring <- Replay <- MCReplay
              <- SelectionProofs   <- ReplayProofs (extends SelectionProofs too)

(`A <- B`: B extends A.) Mutated definitions (`X_Something`, commented
"Mutant") stand beside the definition they vary. Nothing uses them: replacing
the original by one shows that the property which guards it is not vacuous.

### Session, SessionAbs

One session directory, the command processes that operate on it, and the
workers they spawn. An element `c` of `Commands` is a process; as a process
starts one job at most, `c` is also the job's token, the launcher's pid and the
worker. **An action is one file operation**, the unit at which processes
interleave. `atomicJSON` writes a temporary file and renames it, so a JSON
write is one step and a reader sees a whole file. A recursive `fs.rm` is two,
the unlink of the file and the removal of the directory.

| Variable | Code |
|---|---|
| `lock`, `busy`, `owner`, `jobFile`, `cancelFile`, `restartFile`, `state`, `context` | `mutation.lock/`, `busy/`, `busy/owner.json`, `job.json`, `cancel.json`, `restart-task.json`, `state.json`, the generations of `context/` |
| `pc`, `kind`, `phase`, `outcome` | where a command is, which subcommand it is, which operation of it, and what it answered |
| `copy`, `request`, `polls` | its last read of `state.json`, what it submits, the turns of its wait loop |
| `wpc`, `wjob`, `wstate`, `wpolls`, `aborted` | the worker, its `job` and `state` variables, its re-reads of the owner file, its `AbortController` |
| `stopped`, `tested`, `crashes` | history: jobs a stop was asked for, projects tested, kills |

| Actions | Code |
|---|---|
| `LaunchFresh`, `LaunchRestart`, `LaunchInspect` | the dispatch to a subcommand; `restartSession` up to its first operation (`sessions.mjs:172-177`) |
| `Lock`, `Unlock` | `mutation` (79-86), and the next operation of a restart |
| `Look`, `Probe` with `StopSees`, `WaitSees`, `RecheckSees`, `ClearSees`, `InspectSees` | `inspectSession` (58-74): the read of `state.json`, then that of `owner.json` with the probe of the pid in it, and what its five callers do with the answer |
| `WriteCancel` | `stopSession` (131-143) |
| `ClearRead` ... `ClearState` | `clearSession` past the busy check (155-163), one action per file operation |
| `Stash`, `Unstash` | the hand-over through `restart-task.json` (181-186) |
| `StartRead` ... `WriteWorkerPid` | `startSession` (97-130) |
| `RemoveOwner`, `RemoveGuard`, `WriteFailed` | its catch block, when there is no child |
| `OperationFails` | a read, a write, a removal or the spawn throws inside `mutation`: a start with a guard rolls back, anything else releases the lock with what it has done so far |
| `WorkerReadsJob` ... `WorkerRemovesGuard` | `session-worker.mjs`, from the proof of ownership to the `finally` block |
| `CommandDies`, `WorkerDies` | SIGKILL or power loss of one process |
| `OwnerWriteFails` (only in `FaultSpec`) | the second `owner.json` is not written although the worker was spawned |

Data is reduced to what properties tell apart. A task document is the command
that read it, a project is a model value, `last_result` is the job it belongs
to, and the conversation is the set of generations that wrote to it.

`SessionAbs` is what those who read `state.json` are promised, without processes,
locks, guards, owner files or copies: a register that every operation changes in
place. A job is *submitted* when none runs, *begins* when none runs, *finishes*
with its own result or *fails* without one, and is "cancelled" only if somebody
asked to *stop* it; it may *die* without a word. The conversation is *forgotten*
when no job runs, and only then is the session *cleared*. A start that fails is
*withdrawn*. That is where the promise is weaker than one would like: see the
last race of section 5. The refinement mapping (`Promise`, at the end of
`Session`) takes the two files as they are, and as running the jobs whose worker
has marked `state.json` and not yet said how it ended.

### Proxy, Admission

`Proxy` models the handler of one request (`public_api_proxy.py:403-497` with
the classes 203-281) and both gates. The proxy is one asyncio event loop, so
**an action is the stretch between two awaits that suspend**. Only the
maintenance file is read by another thread. `pc[r]` names the await at which a
handler is suspended: `check`/`recheck` while the thread reads the file,
`checked`/`rechecked` when its answer is there and the task has not run yet,
`body`, `queued`/`woken` in `asyncio.Queue.get`, `sending`, `streaming`,
`closing`.

What happens inside `asyncio.Queue` is what makes the gate hard, and it is
modelled as CPython has it, from how the gate uses it:

- `get` takes a token at once if there is one, whoever waits (`Acquire`);
  otherwise it appends a future to `getters` and suspends.
- `put_nowait` puts the token back and wakes the first getter that is not
  cancelled, dropping the cancelled ones before it (`WakeNext`). The getter
  that is woken runs *later* (`Resume`), and may find the token gone, in which
  case it waits again, at the end of the queue.
- a cancelled getter leaves the queue, and passes the wake-up on if it had been
  woken and there still is a token (`UnwindWaiting`).

`Cancel` may hit any suspended handler. `Unwind` is what the CancelledError then
does: nothing before the gate, `finally` of `acquire` in the queue,
`except BaseException` (493-495) before there is a response, and the nested
`finally` blocks of `LeasedStreamingResponse` (241-249) after. `Toggle` is the
operator, or the clock passing the deadline in the maintenance file. `sawOpen` is
history: who held a slot at some moment without maintenance.

`Admission` is what the gates promise to their callers, without queue, tokens or
futures: a request *waits* or is *refused* only when each slot of its tier is
leased; it is refused only when the places to wait are taken as well; it is
*granted* a slot nobody has; it may *give up*; it *returns* its slot. The
refinement mapping (`Gate`, at the end of `Proxy`) takes leases, the requests at
`queued` or `woken`, and those that were answered "queue is full".

### RateLimiter

`SlidingWindowRateLimiter` (178-200), with a clock of ticks. `allow` is one
step, as nothing is awaited while its lock is held. `granted` is the history of
all grants, which the code forgets as it pops its buckets. `Proxy` uses only
the verdict, as a choice of `FirstCheck`: no property of the gates depends on
which requests the limiter lets through.

### RunTask

One run of the pipeline: `runTask` (`runner.mjs:99-302`) with its five tools.
Node is one event loop, so **an action is the code between two awaits**. The
SDK that runs the model's tool calls is external. `runner.mjs` does not say
whether the calls of one message run one after the other, and has no lock that
would make them; so the model starts them in order and lets them overlap, and
`overlapped` remembers that two were under way at once. With overlap, two
`runTests` read the same number of attempts before their awaits and a case may
be executed more often than its budget (by one for each further call of the
message, `OverrunsAreBounded`); hence the properties about attempts and
evidence are stated for runs in which it did not happen, and `ScoredOnce` and
`FailureIsExplained` for all.

| Variable | Code |
|---|---|
| `stage` | which await `runTask` is at, from the snapshot to the files of the result |
| `reason` | the reason of the run's `AbortController`; the first one stays |
| `read`, `plan`, `prepared`, `selection` | the gates of the workflow and what they guard |
| `tests`, `executions` | the bytes of each test, and per case the class and the bytes of each execution |
| `analysed`, `confirmed`, `finished` | the accepted report |
| `baseline`, `turns`, `errors`, `status`, `assessment` | as in the code |
| `pc`, `rest`, `item`, `code` | per tool call: its await, the cases its loop has to do, what it is executing |
| `intact` | the snapshot still has its hashes |

| Actions | Code |
|---|---|
| `Baseline`, `Gate`, `Throws` | `runTask` up to the prompt, and its catch block |
| `Request`, `Answer`, `Stop`, `RequestAborted`, `Answered`, `Ended` | the turn hook (247-251), the messages of the model, the abort of its session, the return of the prompt |
| `Begin`, `Refuse` | `ensureActive()` and the checks at the head of a tool |
| `ReadProject`, `AskJEV` ... `Select`, `WriteTests`, `WriteNext`, `RunTests`, `ExecutionEnds`, `Recorded`, `FinishReport`, `Breaks` | the five tools, split at their awaits, and an execution, a save or a verification that throws |
| `Verify`, `Conclude` | the last verification, status and assessment (274-302) |
| `Cancel`, `TimerFires`, `SourceChanges` | the world around the run |

A case, the bytes of a test and the classification of an execution are what the
properties can tell apart; what a test says, a score is, or an analysis explains
is left out.

### Campaign

`runCampaign` (`campaign.mjs:78-195`). `pc` names the await it is at, and `save`
is a small subroutine of two actions, the writes of `result.json` and
`coding-handoff.json`; `after` is where it returns to. A run and a replay are one
step each, with any outcome that `RunTask` and `replay.mjs` may give. A test is
its fingerprint. `Abort` (a cancellation or the timer), `SourceChanges` and `Dies`
may come between any two steps, and `Fails` is an exception at any await.

| Variable | Code |
|---|---|
| `rounds`, `findings`, `turns`, `stop`, `status`, `assessment` | `result.rounds`, `result.findings` and so on |
| `seen`, `stagnant` | the fingerprints, the count of rounds without a new one |
| `resultFile`, `handoffFile` | what the two files hold |
| `reason`, `intact` | the `AbortController`, the hashes |
| `tried`, `tainted` | history: rounds whose failures were replayed to the end; whether anything was executed on a changed source |

### Terminal

`runTerminal` (`terminal.mjs:59-195`) and the `TerminalAgent` it drives
(`terminal-agent.mjs:46-171`), in one process and on one event loop: **an action
is the code between two awaits, or one key or signal**, and keys and signals may
come at any await, also after the terminal was told to close, as long as it
waits for its work.

| Variable | Code |
|---|---|
| `busy`, `controller`, `work`, `closing` | `busy`, `activeController`, `activeWork`, `closing`; a controller or a promise is the job it belongs to |
| `main`, `awaited` | which await of `runTerminal` it is at; the work that `await activeWork` has taken hold of |
| `editor` | whether the editor holds text, which decides what ctrl+c and ctrl+d mean |
| `job` | per submitted job its kind, its await, whether its signal is aborted, and whether its model session was *told* to abort |
| `session`, `runtimeDir`, `turns` | the fields of the agent |
| `dirs` | the runtime directories on disk |
| `asked`, `stuck` | history: the jobs running when the user said stop; the directories `fs.rm` failed on |

| Actions | Code |
|---|---|
| `CtrlC`, `CtrlD`, `Escape`, `Interrupt`, `Terminate` | the input listener (166-176), the signal handlers (179-181) |
| `Type`, `SubmitExit`, `SubmitCancel`, `SubmitOther`, `Submit` | the editor, `onSubmit` and `execute` up to its first await |
| `OpenSession`, `CreateSession`, `Cleared` | `chatSession` with its catch block, `clear()` |
| `Turn`, `PromptEnds`, `Load`, `TestsEnd`, `Answered` | a prompt with its turn budget and one tool call per turn; `run`, `regression`; `report` and `diagnose` |
| `Leave`, `FinalClear`, `Killed` | the `finally` block of `runTerminal`, and a signal that comes in the last `clear()`, when nothing handles it any more |

### Selection, Scoring, Replay

`Selection` has no state. It is the way from an answer of the scoring backend to
the cases that are executed: `NormalizeScores`, `OrderItems` and `SelectItems` with
the comparators of the code (`Earlier`, `RanksBefore`). `Sorted(S, before)` is the
list of `S` in which each element is before those that follow it, which is what
`Array.prototype.sort` returns for a comparator that is a strict order; that these
comparators are is a lemma. Mode "range" cuts the list after the sort, the model
the set before it: a filter keeps the order. `IsExact` says the same without
sorting: who is selected, by counting the cases ahead of it, and in which order,
by pairs. Probabilities are multiples of `1/Scale`.

`Scoring` is the request: `postDecision` with its retry, `scoreWithPolicy` with its
fallback, and the selection that follows. The backend may answer anything in
`Responses`, refuse, be busy or not answer; a cancellation may come meanwhile, and
does not prevent an answer that crosses it.

`Replay` goes on from the scores. It models `replay` (`replay.mjs:27-76`) and
`regress` (`runner.mjs:315-352`), which execute saved tests one by one with
`executeTest` (`execution.mjs:48-100`), and `recordFeedback` (`handoff.mjs:45-60`).
A regression takes the tests in the order in which they were written, which is the
model's choice, so any order of them.

| Variable | Code |
|---|---|
| `task`, `request`, `attempt`, `cancelled`, `raw`, `scores`, `selection` | of the scoring request; a replay replaces `task.selection` and reuses `scores` |
| `op`, `at` | replay or regression, and the await it is at |
| `saved`, `modified` | `tests.json`, and which test files no longer have its bytes |
| `source`, `snap` | the version of the project, and the one copied |
| `queue`, `executions` | the cases still to execute; class and `stop_reason` of those that were |
| `child` | how the child process ended, and its `stop_reason` |
| `signal`, `deadline` | the two signals that make `runSignal` |
| `baseline`, `result`, `feedback` | as in the code |

| Actions | Code |
|---|---|
| `BeginReplay`, `Snapshot`, `CopyTests` | the three gates and the selection (36-57) |
| `BeginRegress`, `Baselined` | `regress` up to its loop |
| `NextTest`, `Spawn`, `Close` | the loop, and `executeTest` up to its listeners and from the close event |
| `ChildExits`, `TestTimeout`, `OutputLimit`, `Cancel`, `DeadlinePasses` | what may end a test; a kill may come after the exit and before its event |
| `Conclude`, `Save` | `verifySnapshot` with the result and its file; the files after it, up to the report |
| `RecordFeedback` | `coding-feedback.json`; it reads the result's file, and so may come before the last one is saved |
| `SourceChanges`, `TestChanges`, `Breaks` | edits of the project and the saved tests, and whatever throws, the last saves included |

The project may be edited only where something will read it again, as an edit
elsewhere has no effect. `executeBrowser` is called in the same places and has
the same answers. Tests are compared with their hashes when they are copied;
their copies, in the directory of the replay, are not compared again.

## 3. The runs

| Run | What it asks | Distinct states |
|---|---|---|
| `session_safety` | Two jobs, the second perhaps a restart, and a stop, clear or restart with a new task, with one process killed anywhere: the safety properties, and that the session implements `SessionAbs` | 2.3 million |
| `session_liveness` | A job and one command of any kind, one kill, pid reuse: a stop ends the job, commands return | 159 thousand |
| `proxy` | Four users, one slot, two places to wait, so that one may be refused: the gate implements `Admission`, slots conserved, waiters counted, no idle slot, nobody stranded, maintenance honoured | 88 thousand |
| `rate_limiter` | Two clients, two grants in three ticks, seven ticks: the window holds, a refusal is due | 164 thousand |
| `run_task` | Two cases, two contents of a test, two attempts, four messages of up to two tool calls in any order, with the timer, a cancellation, failures and a changed source at any await: what the result says is earned, and the run ends | 1.4 million |
| `campaign` | Three rounds with their replays, a kill, an abort, a failure and a changed source anywhere: the verdict and the two files | 1.6 million |
| `terminal` | Three jobs of any kind, two model turns, every key and signal at every await: one job at a time, a stop is heard, closing works and leaves nothing | 102 thousand |
| `replay` | Three cases, one of them baseline, 37 answers, six selections; then a replay, or a regression of any of the tests, with a signal, the deadline, an edit of the source and of a test, and a failure at any await | 529 thousand |
| `session_stale_lock`, `session_guard_stolen`, `session_disk_full`, `proxy_overtaken` | Each refutes one sentence of the documentation, see section 5 | |

The properties, and why they could fail:

- `OneActiveJob` - the guard is a directory, a file in it and a pid probe, each
  written at another moment by another process.
- `StateIsTheActiveJobs`, `KeepsItsPromise`, `ConversationIsCurrent`,
  `OneProject`, `ResultIsTheJobs` - what five writers of one file, each with a
  copy of its own, must not do to each other.
- `OnlyTheOwnerWritesState` - "Ownership is proven twice before any state is
  touched" (`session-worker.mjs`).
- `StopIsHonoured`, `CommandsReturn` - a stop is only a file; restart waits a
  bounded time.
- `SlotsAreConserved`, `WaitersAreCounted` - at every await, a cancellation.
- `NoIdleSlot`, `NobodyIsStranded` - a wake-up that reaches a cancelled waiter, or
  one whose slot was taken, must not be lost. `NobodyIsStranded` says that as long
  as anybody waits or holds a slot, some handler can take a step of its own.
  The handlers have finitely many steps before they are all answered
  (`RequestStepsRunOut`). So where handlers run, everybody is answered in the
  end. Stating it without fairness lets the run use symmetry and four requests.
- `MaintenanceHonoured` - the first check is stale after the wait.
- `WindowHolds`, `RefusalIsDue` - together they fix the boundary of the window
  to the tick: one tick less breaks the first, one tick more the second.
- `CompletedIsEarned`, `CleanBill`, `ConfirmedByEvidence` - status, assessment and
  a confirmed defect are derived at the end from state that tools, timers and
  cancellations wrote in any order; the tests may have been rewritten since.
- `OnlyBrokenTestsAreRepeated` - the rule that keeps the
  model from repeating a test until it passes is spread over the checks of two
  tools, each before an await.
- `ReportIsFinal` - calls of the same message come after the report.
- `ScoredOnce`, `RunEnds` - overlapping calls; an abort for
  any of five reasons; a model that never answers.
- `CompletedIsWhole` - after an abort the loop of a campaign skips the replay
  and goes on; only the stop reason that is put back at the end (188) prevents
  a false "completed".
- `CleanIsClean`, `StagnationIsReal` - a verdict over all rounds.
- `EvidenceIsSaved`, `NothingIsForgotten` - two writes, and a kill between them.
- `TypeOK` of the campaign - the turns of all rounds together stay in the budget.
- `OneJobAtATime` - "exactly one job runs at a time and cancellation always reaches
  the active controller" (`terminal.mjs:53-54`), by a flag that is set at one
  await and cleared at others; the work that closing waits for is the one that
  runs.
- `StoppedJobsStayQuiet` - a stop may find a job before its listener is there,
  between two tool calls, or while the task is being read.
- `NothingLeftBehind` - a session that fails while it is made, is cleared by the
  user, or is there when the terminal closes.
- `ExitIsHonoured` - whatever the model does.
- `SelectionIsExact` - four modes, ties, and cases without a score.
- `OnlyRealScores` - "no score is ever fabricated to fill the gap"
  (`scoring.mjs:90-91`), through retries, faulty rows and a cancellation that the
  fallback must not swallow: a case has a score only if the accepted answer has
  a row for it that is a distribution, sums to one, and has the choice for its
  mode; and the fallback scores nothing.
- `NoTestOutlivesTheStop`, `CompletedReplayIsWhole` - an abort between the head of
  the loop and the listener; a kill after the exit; a deadline in the last test.
- `FeedbackIsDeserved` - the feedback is computed from a result computed from
  executions, each with conditions of its own; a test that was never executed
  must not count as fixed.
- `ReplayEnds` - tests that do not end, without any cancellation.

**Bounds.** Every bound is a constant. `MaxPolls` (50 in the code) and
`MaxOwnerPolls` (100) become 0 to 3: a loop that polls twice has every
transition of one that polls more often, with one between two polls and one at
the end, and no other step reads the counters. Four processes at most, since
interference needs a job, its successor and one command that touches both; one
kill, since a killed process takes no further steps and what it leaves behind is
one lock or one guard. The gates have 7 and 1 slots and 64 and 8 places in the
code; with four requests for one slot and two places one holds, two wait, one of
them perhaps cancelled in front of the other, and one is refused; the theorems
are about any number of slots. The runs have one tier, because two tiers share
nothing but the maintenance file and the event loop; the theorems are about any
number of them. The clock goes through two
windows and one tick. A run has two cases and two contents of a test, so that a
test can be repaired and one case can hold up the other; two attempts, one of
them a repair; two calls to a message, of which the second may come after the
report or overlap the first; and four messages, as many as it takes to come to
an accepted report, so that the shortest way that ends well, and each way that
gets lost, is there. A campaign has three rounds, one more than it takes to
stagnate, one test, and two turns in all, so that the budget may end it at any
head of the loop. The terminal has three jobs, so that one can follow a cancelled
one and precede one that fails, and two model turns (12 in the code), the second
being the last. Three cases on a scale of two make a tie, a gap and both ends of
a range; the case with the last id is the baseline case and the cases are
prepared in another order than that of their ids, so that each comparison
decides something. The answers are those that make a difference for a case (a
sure violation, a tie, an "unknown", none) and one for each check of
`normalizeScores`. The retry is as in the code: one. The theorems hold for any
values.
`CHECK_DEADLOCK FALSE` is in the session configurations because a session is
finished when every command has run, and in those of the run, the campaign, the terminal and
the replay because these end; the proxy and the limiter never stop.
Symmetry is used only where processes, requests or clients are given the same
role, and never in a run with a liveness property.

**Fairness.** Sessions: a process that is not killed keeps executing, and a run
whose signal was aborted ends, because the abort tears down its model session
and its test processes. A run that is not aborted may last for ever, a run may
throw or not, and nobody has to launch a command. Proxy: a task that can run is
run, the upstream answers within its timeout (900 s) or the transport fails,
and a client reads its response or goes away. That a client sends its body is
not assumed: the body is read before the gate, and a client that never sends
it holds no slot. Neither are cancellations. Run: the code between two awaits
is run; a tool call waits only for something with a timeout of its own or that
the abort ends (a child process, the scoring service); and the timer fires. That
the model answers is not assumed, nor is a cancellation. Terminal: operations on
files and the probes of `/doctor` end by themselves, a test run ends by its own
timers (`RunEnds`), and a prompt whose session was told to abort returns. A prompt
that was not told may last for ever, and no key is ever pressed by assumption.
Replay: the code runs, an exchange with the backend ends by its timeout of 20 s,
and the timer of a test fires. That a test ends by itself is not assumed.

## 4. The theorems

Each proof module extends the model and concludes with its theorems; all hold
for every value of the constants that satisfies the named assumptions in the
module that declares them (types of the parameters; at least one place to wait;
finitely many requests; each tier has finitely many slots, and at least one; a
run has finitely many cases, `budget.max_cases` in the code).

**SessionProofs.** `SessionInvariant` is inductive (`InvariantHolds`). The
argument: whoever is inside `mutation()` is named by `lock` (`LockInv`);
`owner.json` without a worker pid belongs to a start that holds the lock or died
with it (`OwnerInv`, `StartInv`); a clear that got past the busy check sees an
owner whose worker has gone, and no other can come as long as it holds the lock
(`ClearInv`); a worker before its release is the one the owner file names
(`WorkerInv`). Two active workers would both be named by one file, which is
`MutualExclusion`. On top of that, every copy of `state.json` that is going to be
written back is recent enough (`JobInv`, `GenerationInv`), which gives
`NoLostUpdate`, `ClearedForGood`, `GenerationsGrow` (which is also an immediate
consequence of the refinement below) and `OwnershipBeforeState`.
`OneActiveJob` by itself is not inductive: it says nothing of a clear about to
remove the guard. All this is about `Spec`; under `FaultSpec` it is false
(section 5). What holds under `FaultSpec` as well is `NoStrayAborts`: a worker
aborts only on a `cancel.json` with its own token in it, which only a stop that
saw this job can have written (`CancelInv`).

Three theorems are about progress, without fairness. `CommandStepsRunOut` and
`WorkerStepsRunOut` give each process a measure that its own steps lower and that
those of others never raise, kills included: a command or a worker waits for its
turn to run and for a bounded number of polls, never for another process, and all
that may go on for ever is the run of a worker. `StopIsNotLost` says that neither
a stop that is written nor the abort it raises goes away before the job is over;
whoever comes to the cancel file between a stop and the end of its job is a
stop itself, or refused.

Three more invariants lie on top of it. `ProjectInv` follows the project of a job
from the check in `startSession` through `job.json` to the worker, next to
`state.project` in every copy that may come back; it gives `BoundToOneProject`.
`ResultInv` says that the file and all copies name a result of their own job or
none, and gives `ResultOfTheJob`. `CopyInv` says what each copy is worth at the
moment it is written back: a clear's copy *is* `state.json`, a worker's is but for
the status it wrote itself, and a start's, which was read before the guard was
made, may miss the result of the job before and nothing else. With it every step
is a step of `SessionAbs` or changes nothing there: `SessionImplementsPromise`.

**ProxyProofs.** `ProxyInvariant` is inductive. It adds two facts to the
promises. `QueuedOnce`: whoever is in `getters` is waiting there, and is there
once; without it a wake-up could bring a handler back that has ended.
`SawOpenWithSlot`: a request with a slot that finds no maintenance now, or found
none when it looked, held the slot at a moment without maintenance; the answer
of the reading thread may be old when it is used, but not older than the slot.
The proof has lemmas for the queue (`WakeEffect`, `LeaveEffect`, `JoinEffect`),
for taking and returning a slot, and for the counter, and then one per kind of
handler step. `AdmissionImplemented` proves `Spec => Gate!Spec` from it: no
token means that each slot is somebody's, and the counter is the number of
those that wait. `WakeupInvariant`, an invariant of its own, counts: as long as a
waiter of a tier has not been woken, at least as many have been as there are tokens
to take. A cancelled waiter passes its wake-up on, a newcomer that takes the token
of a woken one leaves fewer tokens, and who was woken in vain has found none. It gives `NoSlotIdles`, and with it
`SomebodyAlwaysMoves`: as long as anybody is at the gate, the condition under which
one of the handlers there takes a step of its own holds. That is
`NobodyIsStranded` but for the word ENABLED, which stays with TLC. The other half
of an argument that everybody is answered is `RequestStepsRunOut`. A handler that
was woken in vain goes back to the end of the queue, so its own steps are not
bounded; but it was woken by a release, and each release is one request that
ends, and the handler that wakes pays in the measure for the way of the one it
wakes: at most 25 steps for each request, all of them together.

**RateLimiterProofs.** `WindowHolds` is about a history the code does not keep,
and is not inductive. `BucketsAreRecent` is: a bucket is the newest grants of
its client, and each one it has dropped has left the window. `RefusalsAreDue`
follows from it step by step: a call that refuses has popped nothing more, its
bucket is full, so the oldest timestamp in it is that of the newest grant but
`Limit - 1`, and it is still in the window.

**RunTaskProofs.** `RunInv` is inductive and gives every property of `run_task`
but its liveness. The argument: a call that gets past `ensureActive()` while no
other is under way is the only one until it ends (`CallsInv`). `plan` only moves
forward, and belongs to the one call that took it from "none", which is why the
backend is asked once (`ScoringInv`). What a case has been executed with is what
is saved, unless its last execution was a test_error (`EvidenceInv`); a case that
a call is about to execute or rewrite is *open*, that is, was never executed or
had a test_error, and has attempts to spare: this has to be carried through the
loops of `writeTests` and `runTests`, across their awaits. An accepted report is
about executed cases, and no call is under way, so that the later ones can only
be refused (`ReportInv`); and a run that comes to its end without a report has
an error or a reason (`StatusInv`).

`OnlySelectedCasesExecute` and `OverrunsAreBounded` also hold if calls overlap.
The first follows what the loop of `runTests` has still to do, which is selected
when it starts and only shrinks, while `Select` finds the selection still empty.
For the second, each call in the middle of an execution is counted with the
executions its case has had (`OverrunInv`): only a call that finds attempts left
starts one, and then at most the other calls of the message are at it too.
`RunsKeepTheirContract` says what a run hands over, term by term as the step
`RunReturns` of `Campaign` takes it: `VerdictInv` ties the verdict to the state
the run ended in, after which nothing changes (`DoneIsDone`). So the outcomes
enumerated for a campaign include all that a run without overlap can have.
`RunStepsRunOut` counts the steps of a run. A message costs at most the steps of
its calls, a call two for each case and some at either end, an abort and a change
of the source one each: at most
`MaxTurns * (MaxCalls * (2 * Cardinality(Cases) + 4) + 3) + 8`.

**CampaignProofs.** One invariant per promise, over `TypeInv`, which says what
holds at each await; `Point` is the await to which a `save` returns, so that the
two writes are no case of their own. `SavedInv` has what the result file holds at
each point, and that between the writes it is the memory's image. `WholeInv` says
up to which round all are completed and replayed, at each point: at the head of
the loop all are, unless there was an abort, which is exactly what the final
stop reason is there for. `CleanInv` ties a clean record to a round without
findings. `StagnantInv` says that `seen` is the union of what the earlier rounds
executed, and that the last `stagnant` rounds were stale. All six properties of
the run follow. `CampaignStepsRunOut`: a round is at most 20 steps, its writes
included, and what comes before and after the rounds 13.

**TerminalProofs.** The inductive invariant says for each job what its await
implies: a running job is the one that `busy`, `controller` and `work` stand for
(which is `OneJobOnly`); one at an await of the prompt has a session; an aborted
one that is prompting was told. `CleanExit` needs that each directory on disk is
`runtimeDir`, or one that could not be removed, and `StoppedMeansQuiet` follows
for each step from the invariant before it: every way to a turn or a test run
passes a check of a signal that a stop has set. `JobsRunOut` bounds a job by its
model turns, its tool calls between them and the awaits at either end
(`3 * MaxTurns + 4` steps). `ExitsRunOut` adds the way through the closing: once
`closing` is set no job is born, the one that is awaited is the only one left,
and the keys and signals that may still come do not lengthen its way.

**SelectionProofs.** Nothing here needs induction over lists. A strict order on a
finite set has a sorted list because the *place* of an element can be given at
once: one more than the number of elements ahead of it (`AheadGrows`,
`PlacesCount`, `SortExists`). So `Sorted` is not an empty choice, every case is in
the list exactly once (`OnceOrNever`), and the first `n` of it are those with fewer
than `n` ahead. `SelectionsAreExact` says that what `SelectItems` returns is what
`IsExact` demands, for every mode, policy, set of cases and scores.

**ReplayProofs.** `Inv` ties a child to what ended it, each recorded execution to
the abort that may have cut it short, and the result to the moment at which it
was concluded, after which nothing it was derived from changes. It gives
`NoTestSurvives` and `OnlyDeservedFeedback`. `SelectionInv` carries
`SelectionsAreExact` from the answer to the end of a replay, which selects again
from the same scores (`SelectionStaysExact`). `QueueInv` and `WholeInv` say of the
loop that what was executed and what is queued are together the selection, or the
saved tests; the loop ends with an empty queue, or with an abort that the result
remembers; hence `CompletedMeansWhole`: a completed replay has executed everything,
and nothing in it was cut short. `ScoresInv`, an invariant of its own, says that
the scores are those of the accepted answer or none at all; with a little
arithmetic over the three probabilities (`Majority`) it gives `ScoresAreReal`.
`ReplayStepsRunOut` counts a request for scores, which ends after its retries, and
an operation: five steps for each case of the queue, which is no longer than there
are cases (`SelectionsAreShort`), and eleven more for what surrounds the loop and for what
the user, the deadline and the editor may do once.

Only model-checked are the liveness properties, and of `NobodyIsStranded` the half
that speaks of ENABLED; neither is in reach of the provers. What is proved for each
of them is the half that needs no fairness: `CommandsReturn`, `StopIsHonoured`,
`RunEnds`, `ExitIsHonoured` and `ReplayEnds` cannot fail by going in a circle, for
there is none, and a stop or an exit is not lost on the way. That the next step
can always be taken, and a run that was aborted ends, is what TLC adds. No theorem bounds
processes, jobs, kills, clocks, messages or rounds. Finite are the requests and
slots of the proxy, as they are counted, and the cases of a run, as they come in
one document.

## 5. Disagreements between code and documentation

Each is a run with one property, the sentence of the documentation, that TLC
refutes; PROJECT.json quotes the sentences.

- `session_stale_lock`: a command killed inside `mutation()` leaves
  `mutation.lock/`, and the clear that inspect and `docs/sessions.md` recommend
  is refused for ever.
- `session_guard_stolen`: the worker's recursive removal of `busy/` can take away
  the empty `busy/` of the job that replaces it.
- `session_disk_full`: if the second `owner.json` is not written, the live
  worker counts as dead, and two jobs may run.
- `proxy_overtaken`: `FifoGate` is documented as FIFO, but a request that comes
  to the gate after a slot came back, and before the waiter it woke has run,
  takes the slot, and the waiter goes to the end of the queue. `Admission`
  therefore promises nothing of the order.

Another comment differs from the code without harm: `orderItems` says "Missing
scores sort last." (`scoring.mjs:51`), but a missing score counts as -1 (57) and
sorts first, as `tests/scoring.test.mjs:27` expects; `InOrder` follows the tests.
A replay that was cancelled or ran out of time, and in which everything that was
executed passed, has the assessment "no_confirmed_findings" next to its status
"cancelled" or "partial" (`replay.mjs:67`), where a regression would be
"inconclusive"; no document says which is meant.

Three more races were met while modelling. Two are listed as hazards without a
property, because no later step depends on them. `inspect` reads `state.json`
and the owner file one after the other (`sessions.mjs:66`), and while the worker
releases its guard may show a job that is neither busy nor finished. Two
restarts at once share `restart-task.json` (`sessions.mjs:183`), and one may
submit the task of the other with limits of its own. The third concerns a start
that fails. `startSession` reads `state.json` (`sessions.mjs:108`) before it
makes the guard (110); in between the job before may end, write its status and
result and release the guard. If one of the file operations that follow fails, the
catch block writes the copy back with the status "failed" (126), and that result
and status are gone from `state.json`, though not from disk. A start that
succeeds overwrites the same fields anyway. No document promises more, so
`SessionAbs` says as much and no less: `Withdraw` may lose a result, and the run
and `CopyInv` show that it loses nothing else.

## 6. What is not modelled

Two loops over files are one step each: the copy of the tests of a replay
(`Replay.CopyTests`) and the comparison of the snapshot with its hashes, at the
end of a run (`RunTask.Verify`) and of a replay. Each file is read once in them,
so an edit of a file that was read already is one after the loop, and an edit of
one that was not is one before it: nothing can be seen between two files that
the single step does not show.

Of sessions: `sessionLogs` and `listSessions`, which only read; `createSession`,
which is the initial state; SIGINT and SIGTERM to a worker, which nothing in
the application sends; the contents of run results. Reads and writes that fail
after the worker took over are modelled as `WorkerThrows` where the code
catches them. Of the proxy: start-up and the validation of settings, the
comparison of keys, what a body or a header contains, the server's shutdown; the
timing of asyncio beyond the order of steps, that is, a task that is ready may
run after any other that is ready. `asyncio.Queue` and task cancellation are
external and modelled as described above. Of the run: the text that tools and
model exchange, redaction, statistics, the five files of the result (written
when nothing else runs), and a kill of the process, after which nothing is
resumed. Of the campaign: the coverage of requirement lines, the context handed
to the next round, and how a fingerprint is computed. Of the terminal: what is
drawn and said, the events of the model, history and autocompletion, the result
`/report` remembers, and two tool calls in one message of the chat. Of scoring:
the text of the request, and `scoreQuality`, a diagnostic nothing reads. Of
execution: how the class of a failed test is read from its output (`RunTask`
tells an assertion failure from a broken test, `Replay` does not have to).

Whole components that are left out: the skill installer, whose one hazard is that
`.install-lock` is left behind by a killed `npm` (`install.mjs:26`), so that every
later installation fails: a lock that nobody removes, as that of a session in
`session_stale_lock`; the browser driver, which talks to Chrome and returns what
`executeTest` returns; the model client, an adapter to the SDK; the command line,
the tunnel, and the deployment, packaging and benchmark scripts, which run one
step after the other and keep nothing.

## 7. The plan

Done: `Session`, `SessionAbs`, `SessionInv`, `SessionProofs`; `Proxy`, `Admission`,
`ProxyProofs`; `RateLimiter`, `RateLimiterProofs`; `RunTask`, `RunTaskProofs`;
`Campaign`, `CampaignProofs`; `Terminal`, `TerminalProofs`; `Selection`,
`SelectionProofs`, `Scoring`, `Replay`, `ReplayProofs`. Every safety property of a
passing run is the statement of a theorem, with the exception of section 4, and
every component has a bound on its steps. What a run promises a campaign is
`RunsKeepTheirContract`.

Left, where it would pay: the installer, two of them with the lock and a crash.
