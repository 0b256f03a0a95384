--------------------------- MODULE TerminalProofs ---------------------------
(***************************************************************************)
(* Proofs about Terminal: for any number of jobs, whichever keys and       *)
(* signals come at whichever await, one job runs at a time, a stopped one  *)
(* does nothing more, and nothing is left behind.                          *)
(***************************************************************************)
EXTENDS Terminal, TLAPS

-----------------------------------------------------------------------------
(***************************************************************************)
(* Types                                                                   *)
(***************************************************************************)

LEMMA NoJobIsNew == NoJob \notin Jobs
  BY TerminalAssumption DEF NoJob, Jobs

LEMMA MovedType ==
  ASSUME NEW J \in [Jobs -> JobType], NEW j \in Jobs, NEW a \in Places
  PROVE  [J EXCEPT ![j].at = a] \in [Jobs -> JobType]
  BY DEF JobType

LEMMA BornType ==
  ASSUME NEW J \in [Jobs -> JobType], NEW j \in Jobs, NEW a \in Places, NEW k \in Kinds
  PROVE  [J EXCEPT ![j].kind = k, ![j].at = a] \in [Jobs -> JobType]
  BY DEF JobType

LEMMA AbortedType ==
  ASSUME NEW J \in [Jobs -> JobType], NEW j \in Jobs, NEW t \in BOOLEAN
  PROVE  [J EXCEPT ![j].aborted = TRUE, ![j].told = t] \in [Jobs -> JobType]
  BY DEF JobType

LEMMA AbortTypes ==
  ASSUME TypeOK, Abort
  PROVE  job' \in [Jobs -> JobType] /\ asked' \subseteq Jobs
<1>1. CASE controller = NoJob
  BY <1>1 DEF TypeOK, Abort
<1>2. CASE controller # NoJob
  <2> DEFINE t == job[controller].told \/ Prompting(controller)
  <2>1. controller \in Jobs /\ job \in [Jobs -> JobType]
    BY <1>2 DEF TypeOK
  <2>2. t \in BOOLEAN
    OBVIOUS
  <2>3. job' = [job EXCEPT ![controller].aborted = TRUE, ![controller].told = t]
    BY <1>2, <2>1, Zenon DEF Abort
  <2> HIDE DEF t
  <2>4. job' \in [Jobs -> JobType]
    BY <2>1, <2>2, <2>3, AbortedType, Zenon
  <2>5. QED BY <2>4 DEF TypeOK, Abort
<1>3. QED BY <1>1, <1>2

LEMMA CloseTypes ==
  ASSUME TypeOK, Close
  PROVE  /\ job' \in [Jobs -> JobType] /\ asked' \subseteq Jobs
         /\ closing' \in BOOLEAN /\ awaited' \in Jobs \cup {NoJob}
  BY AbortTypes DEF TypeOK, Close

LEMMA UserTypes ==
  ASSUME TypeOK, User
  PROVE  TypeOK'
<1>1. CASE Type
  BY <1>1 DEF TypeOK, Type, gate, agent
<1>2. CASE CtrlC
  BY <1>2, AbortTypes, CloseTypes DEF TypeOK, CtrlC, Cancel, gate, agent
<1>3. CASE CtrlD
  BY <1>3, CloseTypes DEF TypeOK, CtrlD, gate, agent
<1>4. CASE Escape
  BY <1>4, AbortTypes DEF TypeOK, Escape, Cancel, gate, agent
<1>5. CASE Interrupt
  BY <1>5, AbortTypes, CloseTypes DEF TypeOK, Interrupt, Cancel, gate, agent
<1>6. CASE Terminate
  BY <1>6, CloseTypes DEF TypeOK, Terminate, gate, agent
<1>7. CASE SubmitExit
  BY <1>7, CloseTypes DEF TypeOK, SubmitExit, gate, agent
<1>8. CASE SubmitCancel
  BY <1>8, AbortTypes DEF TypeOK, SubmitCancel, Cancel, gate, agent
<1>9. CASE SubmitOther
  BY <1>9 DEF TypeOK, SubmitOther, gate, agent
<1>10. ASSUME NEW kind \in Kinds, NEW j \in Jobs, Submit(kind, j)
       PROVE  TypeOK'
  <2>1. FirstAwait(kind) \in Places
    BY DEF FirstAwait, Places, Awaits
  <2>2. job' \in [Jobs -> JobType]
    BY <1>10, <2>1, BornType DEF TypeOK, Submit
  <2>3. turns' \in 0..MaxTurns
    BY <1>10, TerminalAssumption DEF TypeOK, Submit
  <2>4. session' \in BOOLEAN
    BY <1>10 DEF TypeOK, Submit
  <2>5. QED
    BY <1>10, <2>2, <2>3, <2>4 DEF TypeOK, Submit
<1>11. QED
  BY <1>1, <1>2, <1>3, <1>4, <1>5, <1>6, <1>7, <1>8, <1>9, <1>10 DEF User

LEMMA JobTypes ==
  ASSUME TypeOK, NEW j \in Jobs, Step(j) \/ Turn(j) \/ PromptEnds(j)
  PROVE  TypeOK'
<1>1. ASSUME NEW a, Move(j, a), a \in Places
      PROVE  job' \in [Jobs -> JobType]
  BY <1>1, MovedType DEF TypeOK, Move
<1>2. ASSUME Finish(j)
      PROVE  /\ job' \in [Jobs -> JobType] /\ busy' \in BOOLEAN
             /\ controller' \in Jobs \cup {NoJob} /\ work' \in Jobs \cup {NoJob}
  BY <1>2, MovedType DEF TypeOK, Finish, Places
<1>3. ASSUME Move(j, "talking") \/ Move(j, "creating") \/ Move(j, "undoing") \/ Move(j, "loading")
             \/ Move(j, "testing") \/ Finish(j)
      PROVE  /\ job' \in [Jobs -> JobType] /\ busy' \in BOOLEAN
             /\ controller' \in Jobs \cup {NoJob} /\ work' \in Jobs \cup {NoJob}
  <2>1. {"talking", "creating", "undoing", "loading", "testing"} \subseteq Places
    BY DEF Places, Awaits
  <2>2. QED
    BY <1>1, <1>2, <1>3, <2>1 DEF TypeOK, Move, gate
<1>4. CASE OpenSession(j)
  BY <1>3, <1>4 DEF TypeOK, OpenSession, keys
<1>5. CASE CreateSession(j)
  BY <1>3, <1>5 DEF TypeOK, CreateSession, keys
<1>6. CASE Cleared(j)
  BY <1>3, <1>6 DEF TypeOK, Cleared, RemoveDir, keys
<1>7. CASE Turn(j)
  <2>1. turns' \in 0..MaxTurns
    BY <1>7, TerminalAssumption DEF TypeOK, Turn, TurnsLeft
  <2>2. QED BY <1>3, <1>7, <2>1 DEF TypeOK, Turn, keys
<1>8. CASE PromptEnds(j)
  BY <1>3, <1>8 DEF TypeOK, PromptEnds, keys, agent
<1>9. CASE Load(j)
  BY <1>3, <1>9 DEF TypeOK, Load, Back, keys, agent
<1>10. CASE TestsEnd(j)
  BY <1>3, <1>10 DEF TypeOK, TestsEnd, Back, keys, agent
<1>11. CASE Answered(j)
  BY <1>3, <1>11 DEF TypeOK, Answered, keys, agent
<1>12. QED
  BY <1>4, <1>5, <1>6, <1>7, <1>8, <1>9, <1>10, <1>11 DEF Step

\* Every variable keeps to its type, the turns of a prompt to their budget.
THEOREM TypeCorrect == Spec => []TypeOK
<1>1. Init => TypeOK
  <2> SUFFICES ASSUME Init PROVE TypeOK
    OBVIOUS
  <2>1. job \in [Jobs -> JobType]
    BY DEF Init, JobType, Kinds, Places
  <2>2. turns \in 0..MaxTurns
    BY TerminalAssumption DEF Init
  <2>3. QED BY <2>1, <2>2 DEF Init, TypeOK
<1>2. TypeOK /\ [Next]_vars => TypeOK'
  <2> SUFFICES ASSUME TypeOK, [Next]_vars
               PROVE  TypeOK'
    OBVIOUS
  <2>1. CASE Leave
    BY <2>1 DEF TypeOK, Leave, keys, gate
  <2>2. CASE FinalClear
    BY <2>2 DEF TypeOK, FinalClear, RemoveDir, keys, gate, NoJob
  <2>3. CASE Killed
    BY <2>3 DEF TypeOK, Killed, keys, gate, agent
  <2>4. CASE UNCHANGED vars
    BY <2>4 DEF TypeOK, vars, keys, gate, agent
  <2>5. QED
    BY <2>1, <2>2, <2>3, <2>4, UserTypes, JobTypes DEF Next
<1>3. QED
  BY <1>1, <1>2, PTL DEF Spec

-----------------------------------------------------------------------------
(***************************************************************************)
(* One job at a time                                                       *)
(***************************************************************************)

\* The flag, the controller and the awaited work stand for a job that runs.
GateInv ==
  /\ controller # NoJob => Running(controller)
  /\ work # NoJob => Running(work)
  /\ awaited # NoJob => job[awaited].at # "unborn"
  /\ \A j \in Jobs : job[j].at = "unborn" => ~job[j].aborted

\* Which await goes with which kind of job, with a session or none, and that
\* a prompt hears of its abort.
KindInv == \A j \in Jobs :
  /\ job[j].at \in {"opening", "creating", "undoing", "talking"} => job[j].kind = "chat"
  /\ job[j].at \in {"opening", "creating", "undoing", "removing"} => ~session
  /\ Prompting(j) => session /\ (job[j].aborted => job[j].told)

\* A runtime directory without a session is stuck, or about to be removed.
DirInv ==
  /\ dirs \subseteq stuck \cup {runtimeDir}
  /\ \/ session \/ runtimeDir \in stuck \cup {NoJob} \/ main # "open"
     \/ \E j \in Jobs : job[j].at \in {"creating", "undoing", "removing"}
  /\ main # "open" => ~session
  /\ main = "exited" => dirs \subseteq stuck

Inv == OneJobAtATime /\ GateInv /\ KindInv /\ DirInv

\* A key or a signal that aborts: the one running job is the controller's.
LEMMA AbortKeeps ==
  ASSUME TypeOK, TypeOK', Inv, main = "open", Abort,
         \/ closing' = closing /\ awaited' = awaited
         \/ ~closing /\ closing' = TRUE /\ awaited' = work,
         UNCHANGED <<main, gate, agent>>
  PROVE  Inv'
<1> USE NoJobIsNew DEF Awaits, gate, agent
<1>1. CASE controller = NoJob
  <2>1. job' = job /\ asked' = asked
    BY <1>1 DEF Abort, Inv, OneJobAtATime, TypeOK, Running
  <2>2. OneJobAtATime' /\ GateInv'
    BY <2>1 DEF Inv, OneJobAtATime, GateInv, Running, TypeOK
  <2>3. KindInv' /\ DirInv'
    BY <2>1 DEF Inv, KindInv, DirInv, Prompting
  <2>4. QED BY <2>2, <2>3 DEF Inv
<1>2. CASE controller # NoJob
  <2>1. controller \in Jobs /\ Running(controller)
    BY <1>2 DEF TypeOK, Inv, GateInv
  <2>2. \A j \in Jobs : job'[j].at = job[j].at /\ job'[j].kind = job[j].kind
    BY <1>2, <2>1 DEF Abort, TypeOK, JobType
  <2>3. \A j \in Jobs : j # controller => job'[j] = job[j]
    BY <1>2, <2>1 DEF Abort, TypeOK, JobType
  <2>4. job'[controller].aborted /\ (Prompting(controller) => job'[controller].told)
    BY <1>2, <2>1 DEF Abort, TypeOK, JobType
  <2>5. asked' = asked \cup {controller}
    BY <2>1 DEF Abort, Inv, OneJobAtATime
  <2>6. OneJobAtATime'
    BY <2>1, <2>2, <2>3, <2>4, <2>5 DEF Inv, OneJobAtATime, Running, TypeOK
  <2>7. GateInv'
    BY <2>1, <2>2, <2>3 DEF Inv, GateInv, Running, TypeOK
  <2>8. KindInv'
    BY <2>1, <2>2, <2>3, <2>4 DEF Inv, KindInv, Prompting
  <2>9. DirInv'
    BY <2>2 DEF Inv, DirInv
  <2>10. QED BY <2>6, <2>7, <2>8, <2>9 DEF Inv
<1>3. QED BY <1>1, <1>2

\* Nothing that the invariant speaks of has changed.
LEMMA QuietKeeps ==
  ASSUME Inv, UNCHANGED <<main, closing, awaited, gate, job, agent, asked>>
  PROVE  Inv'
  BY DEF Inv, OneJobAtATime, GateInv, KindInv, DirInv, Running, Prompting, gate, agent

LEMMA CancelKeeps ==
  ASSUME TypeOK, TypeOK', Inv, main = "open", Cancel, UNCHANGED <<main, gate, agent>>
  PROVE  Inv'
  BY AbortKeeps DEF Cancel

LEMMA CloseKeeps ==
  ASSUME TypeOK, TypeOK', Inv, main = "open", Close, UNCHANGED <<main, gate, agent>>
  PROVE  Inv'
  BY AbortKeeps, QuietKeeps DEF Close

\* A line that starts a job.
LEMMA SubmitKeeps ==
  ASSUME TypeOK, TypeOK', Inv, NEW kind \in Kinds, NEW j \in Jobs, Submit(kind, j)
  PROVE  Inv'
<1> USE NoJobIsNew DEF Awaits
<1>1. /\ main = "open" /\ ~busy /\ job[j].at = "unborn"
      /\ \A i \in Jobs : ~Running(i)
      /\ controller = NoJob /\ work = NoJob /\ ~closing
  <2>1. ~busy /\ main = "open" /\ job[j].at = "unborn" /\ ~Drained
    BY DEF Submit, MayStart, Interactive
  <2>2. \A i \in Jobs : ~Running(i)
    BY <2>1 DEF Inv, OneJobAtATime
  <2>3. controller = NoJob /\ work = NoJob
    BY <2>2 DEF Inv, GateInv, TypeOK
  <2>4. ~closing
    BY <2>1, <2>2 DEF Drained, Inv, GateInv, TypeOK, JobType, Places, Running
  <2>5. QED BY <2>1, <2>2, <2>3, <2>4
<1>2. /\ busy' /\ controller' = j /\ work' = j
      /\ UNCHANGED <<main, closing, awaited, runtimeDir, dirs, stuck, asked>>
      /\ session' = (session /\ kind # "clear")
  BY <1>1 DEF Submit
<1>3. /\ job'[j].kind = kind /\ job'[j].at = FirstAwait(kind)
      /\ job'[j].aborted = job[j].aborted
      /\ \A i \in Jobs : i # j => job'[i] = job[i]
  BY DEF Submit, TypeOK, JobType
<1>4. FirstAwait(kind) \in Awaits
  BY DEF FirstAwait
<1>5. OneJobAtATime'
  BY <1>1, <1>2, <1>3, <1>4 DEF Inv, OneJobAtATime, Running, TypeOK
<1>6. GateInv'
  BY <1>1, <1>2, <1>3, <1>4 DEF Inv, GateInv, Running, TypeOK
<1>7. KindInv'
  <2>1. \A i \in Jobs : i # j => job'[i].at \notin Awaits
    BY <1>1, <1>3 DEF Running
  <2>2. ~job'[j].aborted
    BY <1>1, <1>3 DEF Inv, GateInv
  <2>3. QED
    BY <1>2, <1>3, <2>1, <2>2 DEF KindInv, Prompting, FirstAwait, Kinds
<1>8. DirInv'
  BY <1>1, <1>2, <1>3 DEF Inv, DirInv, FirstAwait, Running
<1>9. QED BY <1>5, <1>6, <1>7, <1>8 DEF Inv

\* A step of the job that runs: it goes on to another await, or ends.
LEMMA JobKeeps ==
  ASSUME TypeOK, TypeOK', Inv, NEW j \in Jobs, Step(j) \/ Turn(j) \/ PromptEnds(j)
  PROVE  Inv'
<1> USE NoJobIsNew
<1>1. Running(j)
  BY DEF Step, OpenSession, CreateSession, Cleared, Load, TestsEnd, Answered, Turn, PromptEnds,
     Running, Awaits
<1>2. /\ main = "open" /\ busy /\ controller = j /\ work = j
      /\ closing => awaited = j
      /\ \A i \in Jobs : i # j => ~Running(i)
  BY <1>1 DEF Inv, OneJobAtATime
<1>3. UNCHANGED <<main, closing, awaited, asked>>
  BY DEF Step, OpenSession, CreateSession, Cleared, Load, TestsEnd, Answered, Turn, PromptEnds, keys
<1>4. Finish(j) \/ \E a \in Awaits : Move(j, a)
  BY DEF Step, OpenSession, CreateSession, Cleared, Load, TestsEnd, Answered, Turn, PromptEnds,
     Back, Awaits
<1>5. /\ job'[j].kind = job[j].kind /\ job'[j].aborted = job[j].aborted
      /\ job'[j].told = job[j].told
      /\ \A i \in Jobs : i # j => job'[i] = job[i]
  BY <1>4 DEF Finish, Move, TypeOK, JobType
<1>6. \/ job'[j].at = "ended" /\ ~busy' /\ controller' = NoJob /\ work' = NoJob
      \/ job'[j].at \in Awaits /\ UNCHANGED gate
  BY <1>2, <1>4 DEF Finish, Move, TypeOK, JobType
<1>7. OneJobAtATime'
  BY <1>1, <1>2, <1>3, <1>5, <1>6 DEF Inv, OneJobAtATime, Running, TypeOK, gate, Awaits
<1>8. GateInv'
  BY <1>1, <1>2, <1>3, <1>5, <1>6 DEF Inv, GateInv, Running, TypeOK, gate, Awaits
<1>9. KindInv'
  <2>1. \A i \in Jobs : i # j => job'[i].at \notin Awaits
    BY <1>2, <1>5 DEF Running
  <2>2. CASE OpenSession(j)
    BY <2>1, <2>2, <1>5, <1>6 DEF OpenSession, Move, Finish, Inv, KindInv, Prompting, Awaits, TypeOK, JobType
  <2>3. CASE CreateSession(j)
    BY <2>1, <2>3, <1>5, <1>6 DEF CreateSession, Move, Finish, Inv, KindInv, Prompting, Awaits, TypeOK, JobType
  <2>4. CASE Cleared(j)
    BY <2>1, <2>4, <1>5 DEF Cleared, Finish, Inv, KindInv, Prompting, Awaits, TypeOK, JobType
  <2>5. CASE Turn(j)
    BY <2>1, <2>5, <1>5 DEF Turn, Move, Inv, KindInv, Prompting, Awaits, TypeOK, JobType
  <2>6. CASE PromptEnds(j)
    BY <2>1, <2>6, <1>5 DEF PromptEnds, Finish, Inv, KindInv, Prompting, Awaits, TypeOK, JobType
  <2>7. CASE Load(j)
    BY <2>1, <2>7, <1>5 DEF Load, Back, Move, Finish, agent, Inv, KindInv, Prompting, Awaits, TypeOK, JobType
  <2>8. CASE TestsEnd(j)
    BY <2>1, <2>8, <1>5 DEF TestsEnd, Back, Move, Finish, agent, Inv, KindInv, Prompting, Awaits, TypeOK, JobType
  <2>9. CASE Answered(j)
    BY <2>1, <2>9, <1>5 DEF Answered, Finish, agent, Inv, KindInv, Prompting, Awaits, TypeOK, JobType
  <2>10. QED
    BY <2>2, <2>3, <2>4, <2>5, <2>6, <2>7, <2>8, <2>9 DEF Step
<1>10. DirInv'
  <2>1. \A i \in Jobs : i # j => job[i].at \notin Awaits
    BY <1>2 DEF Running
  <2>2. CASE OpenSession(j)
    BY <2>1, <2>2, <1>2, <1>3, <1>5 DEF OpenSession, Move, Finish, Inv, KindInv, DirInv, Awaits, TypeOK, JobType
  <2>3. CASE CreateSession(j)
    BY <2>1, <2>3, <1>2, <1>3, <1>5 DEF CreateSession, Move, Finish, Inv, DirInv, TypeOK, JobType
  <2>4. CASE Cleared(j)
    BY <2>1, <2>4, <1>2, <1>3 DEF Cleared, RemoveDir, Inv, DirInv, TypeOK
  <2>5. CASE Turn(j)
    BY <2>5, <1>1, <1>2 DEF Turn, Inv, KindInv, DirInv, Prompting, TypeOK
  <2>6. CASE PromptEnds(j) \/ Load(j) \/ TestsEnd(j) \/ Answered(j)
    <3>1. UNCHANGED agent
      BY <2>6 DEF PromptEnds, Load, TestsEnd, Answered
    <3>2. job[j].at \notin {"creating", "undoing", "removing"}
      BY <2>6 DEF PromptEnds, Load, TestsEnd, Answered
    <3>3. session \/ runtimeDir \in stuck \cup {NoJob}
      BY <1>2, <2>1, <3>2 DEF Inv, DirInv, Awaits
    <3>4. QED BY <3>1, <3>3, <1>2, <1>3 DEF Inv, DirInv, agent
  <2>7. QED
    BY <2>2, <2>3, <2>4, <2>5, <2>6 DEF Step
<1>11. QED BY <1>7, <1>8, <1>9, <1>10 DEF Inv

\* runTerminal's finally block: no job runs any more.
LEMMA LeaveKeeps ==
  ASSUME TypeOK, TypeOK', Inv, Leave \/ FinalClear \/ Killed
  PROVE  Inv'
<1> USE NoJobIsNew DEF keys, gate
<1>1. \A j \in Jobs : ~Running(j)
  BY DEF Leave, Drained, FinalClear, Killed, Inv, OneJobAtATime, Running, Awaits
<1>2. UNCHANGED <<closing, awaited, gate, job, asked>> /\ main' # "open"
  BY DEF Leave, FinalClear, Killed
<1>3. OneJobAtATime' /\ GateInv'
  BY <1>1, <1>2 DEF Inv, OneJobAtATime, GateInv, Running
<1>4. KindInv'
  BY <1>1, <1>2 DEF KindInv, Prompting, Running, Awaits
<1>5. DirInv'
  <2>1. CASE Leave
    BY <2>1 DEF Leave, Inv, DirInv
  <2>2. CASE FinalClear
    BY <2>2 DEF FinalClear, RemoveDir, Inv, DirInv, TypeOK
  <2>3. CASE Killed
    BY <2>3 DEF Killed, agent, Inv, DirInv
  <2>4. QED BY <2>1, <2>2, <2>3
<1>6. QED BY <1>3, <1>4, <1>5 DEF Inv

LEMMA UserKeeps ==
  ASSUME TypeOK, TypeOK', Inv, User
  PROVE  Inv'
<1>1. CASE Type \/ SubmitOther
  BY <1>1, QuietKeeps DEF Type, SubmitOther
<1>2. CASE CtrlC
  BY <1>2, CancelKeeps, CloseKeeps, QuietKeeps DEF CtrlC, Interactive
<1>3. CASE CtrlD \/ Terminate \/ SubmitExit
  BY <1>3, CloseKeeps DEF CtrlD, Terminate, SubmitExit, Interactive
<1>4. CASE Escape
  BY <1>4, CancelKeeps DEF Escape, Interactive
<1>5. CASE Interrupt
  BY <1>5, CancelKeeps, CloseKeeps DEF Interrupt, Interactive
<1>6. CASE SubmitCancel
  BY <1>6, CancelKeeps, QuietKeeps DEF SubmitCancel, Interactive
<1>7. ASSUME NEW kind \in Kinds, NEW j \in Jobs, Submit(kind, j)
      PROVE  Inv'
  BY <1>7, SubmitKeeps
<1>8. QED
  BY <1>1, <1>2, <1>3, <1>4, <1>5, <1>6, <1>7 DEF User

\* The inductive invariant.
THEOREM InvariantHolds == Spec => []Inv
<1>1. Init => Inv
  BY NoJobIsNew DEF Init, Inv, OneJobAtATime, GateInv, KindInv, DirInv, Running, Prompting, Awaits
<1>2. TypeOK /\ TypeOK' /\ Inv /\ [Next]_vars => Inv'
  <2> SUFFICES ASSUME TypeOK, TypeOK', Inv, [Next]_vars
               PROVE  Inv'
    OBVIOUS
  <2>1. CASE UNCHANGED vars
    BY <2>1, QuietKeeps DEF vars, keys
  <2>2. QED
    BY <2>1, UserKeeps, JobKeeps, LeaveKeeps DEF Next
<1>3. QED
  BY <1>1, <1>2, TypeCorrect, PTL DEF Spec

\* "exactly one job runs at a time and cancellation always reaches the active
\* controller" (terminal.mjs), whichever keys, lines and signals come when.
THEOREM OneJobOnly == Spec => []OneJobAtATime
<1>1. Inv => OneJobAtATime
  BY DEF Inv
<1>2. QED BY <1>1, InvariantHolds, PTL

\* clear() at the end leaves no session, and no directory fs.rm did not refuse.
THEOREM CleanExit == Spec => []NothingLeftBehind
<1>1. Inv => NothingLeftBehind
  BY DEF Inv, DirInv, NothingLeftBehind
<1>2. QED BY <1>1, InvariantHolds, PTL

\* No key and no signal starts a test run or asks for a model turn.
LEMMA UserStartsNothing ==
  ASSUME TypeOK, User, NEW j \in Jobs
  PROVE  ~Starts(j)
<1>1. ASSUME UNCHANGED turns, UNCHANGED job \/ Abort
      PROVE  ~Starts(j)
  <2>1. job'[j].at = job[j].at
    BY <1>1 DEF Abort, TypeOK, JobType
  <2>2. QED BY <1>1, <2>1 DEF Starts, TypeOK
<1>2. ASSUME NEW kind \in Kinds, NEW i \in Jobs, Submit(kind, i)
      PROVE  ~Starts(j)
  <2>1. FirstAwait(kind) # "testing"
    BY DEF FirstAwait
  <2>2. job'[j].at \in {job[j].at, FirstAwait(kind)}
    BY <1>2 DEF Submit, TypeOK, JobType
  <2>3. turns' = 0 \/ turns' = turns
    BY <1>2 DEF Submit
  <2>4. QED BY <2>1, <2>2, <2>3 DEF Starts, TypeOK
<1>3. QED
  BY <1>1, <1>2 DEF User, Type, CtrlC, CtrlD, Escape, Interrupt, Terminate, SubmitExit,
     SubmitCancel, SubmitOther, Cancel, Close, agent

\* Neither does a step of a job, or of another one, that was aborted.
LEMMA JobStartsNothing ==
  ASSUME TypeOK, Inv, NEW j \in Jobs, job[j].aborted,
         NEW i \in Jobs, Step(i) \/ Turn(i) \/ PromptEnds(i)
  PROVE  ~Starts(j)
<1>1. CASE i # j
  <2>1. Running(i) /\ ~Running(j)
    BY <1>1 DEF Inv, OneJobAtATime, Step, OpenSession, CreateSession, Cleared, Load, TestsEnd,
       Answered, Turn, PromptEnds, Running, Awaits
  <2>2. job'[j] = job[j]
    BY <1>1 DEF Step, OpenSession, CreateSession, Cleared, Load, TestsEnd, Answered, Turn,
       PromptEnds, Back, Finish, Move, TypeOK, JobType
  <2>3. QED BY <2>1, <2>2 DEF Starts, Running, Awaits
<1>2. CASE i = j
  <2>1. Prompting(j) => job[j].told
    BY DEF Inv, KindInv
  <2>2. ~Turn(j)
    BY <2>1 DEF Turn, Prompting, Inv, KindInv
  <2>3. turns' = turns
    BY <1>2, <2>2 DEF Step, OpenSession, CreateSession, Cleared, Load, TestsEnd, Answered,
       PromptEnds, agent
  <2>4. CASE Load(j)
    BY <2>1, <2>3, <2>4 DEF Load, Stopped, Prompting, Back, Finish, Move, Starts, TypeOK, JobType
  <2>5. CASE ~Load(j)
    BY <1>2, <2>2, <2>3, <2>5 DEF Step, OpenSession, CreateSession, Cleared, TestsEnd, Answered,
       PromptEnds, Back, Finish, Move, Starts, TypeOK, JobType
  <2>6. QED BY <2>4, <2>5
<1>3. QED BY <1>1, <1>2

\* A job the user stopped, at whichever await, asks for no further model turn
\* and starts no test run.
THEOREM StoppedMeansQuiet == Spec => StoppedJobsStayQuiet
<1>1. TypeOK /\ TypeOK' /\ Inv /\ [Next]_vars => [\A j \in asked : ~Starts(j)]_vars
  <2> SUFFICES ASSUME TypeOK, TypeOK', Inv, Next, NEW j \in asked
               PROVE  ~Starts(j)
    BY DEF vars, keys, gate, agent, Starts
  <2>1. j \in Jobs /\ job[j].aborted
    BY DEF TypeOK, Inv, OneJobAtATime
  <2>2. CASE User
    BY <2>1, <2>2, UserStartsNothing
  <2>3. CASE Leave \/ FinalClear \/ Killed
    BY <2>3 DEF Leave, FinalClear, Killed, gate, agent, Starts, TypeOK
  <2>4. ASSUME NEW i \in Jobs, Step(i) \/ Turn(i) \/ PromptEnds(i)
        PROVE  ~Starts(j)
    BY <2>1, <2>4, JobStartsNothing
  <2>5. QED BY <2>2, <2>3, <2>4 DEF Next
<1>2. QED
  BY <1>1, TypeCorrect, InvariantHolds, PTL DEF Spec, StoppedJobsStayQuiet

-----------------------------------------------------------------------------
(***************************************************************************)
(* A job and an exit take only so many steps                               *)
(***************************************************************************)

\* A turn of the model may load and run tests before the next one.
Budget == 3 * (MaxTurns - turns)

\* The steps a job can still take, from the await it is at.
JobLeft(j) ==
  CASE job[j].at = "unborn"   -> 3 * MaxTurns + 4
    [] job[j].at = "opening"  -> Budget + 3
    [] job[j].at = "creating" -> Budget + 2
    [] job[j].at = "talking"  -> Budget + 1
    [] job[j].at = "loading"  -> IF job[j].kind = "chat" THEN Budget + 3 ELSE 2
    [] job[j].at = "testing"  -> IF job[j].kind = "chat" THEN Budget + 2 ELSE 1
    [] job[j].at \in {"undoing", "asking", "removing"} -> 1
    [] job[j].at = "ended"    -> 0

\* Every step of a job uses one up, and no key, no signal and no other job
\* gives it any: a job ends after 3 * MaxTurns + 4 steps at the most.
JobStepsRunOut ==
  [][\A j \in Jobs :
       /\ JobLeft(j) \in Nat /\ JobLeft(j)' \in Nat
       /\ JobLeft(j)' <= JobLeft(j)
       /\ Step(j) \/ Turn(j) \/ PromptEnds(j) => JobLeft(j)' < JobLeft(j)]_vars

\* The steps of the program once the terminal is closed: those of the job it
\* waits for, and its own.
ExitLeft ==
  CASE main = "open"     -> 2 + (IF awaited = NoJob THEN 0 ELSE JobLeft(awaited))
    [] main = "clearing" -> 1
    [] main \in {"exited", "killed"} -> 0

\* After that, whatever is pressed or submitted adds no step, and every step of
\* the program brings the exit nearer: no job can start that is not awaited.
ExitStepsRunOut ==
  [][closing =>
       /\ ExitLeft \in Nat /\ ExitLeft' \in Nat
       /\ ExitLeft' <= ExitLeft
       /\ ~User => ExitLeft' < ExitLeft]_vars

LEMMA BudgetIsCounted == TypeOK => Budget \in Nat /\ Budget <= 3 * MaxTurns
  BY TerminalAssumption DEF TypeOK, Budget

LEMMA JobIsCounted ==
  ASSUME TypeOK, NEW j \in Jobs
  PROVE  /\ JobLeft(j) \in Nat
         /\ job[j].at \in Awaits => JobLeft(j) <= 3 * MaxTurns + 3
<1>1. job[j].at \in Places
  BY DEF TypeOK, JobType
<1>2. QED
  BY <1>1, BudgetIsCounted, TerminalAssumption DEF JobLeft, Places, Awaits

LEMMA ExitIsCounted == TypeOK => ExitLeft \in Nat
<1> SUFFICES ASSUME TypeOK PROVE ExitLeft \in Nat OBVIOUS
<1>1. awaited # NoJob => JobLeft(awaited) \in Nat
  BY JobIsCounted DEF TypeOK
<1>2. QED
  BY <1>1 DEF ExitLeft, TypeOK

\* A job that is where it was has as many steps left, unless it is in a turn.
LEMMA SamePlace ==
  ASSUME NEW j \in Jobs, job'[j].at = job[j].at, job'[j].kind = job[j].kind,
         turns' = turns \/ ~Running(j)
  PROVE  JobLeft(j)' = JobLeft(j)
  BY DEF JobLeft, Budget, Running, Awaits

\* Keys and signals move no job, and a line may start one.
LEMMA UserMovesNoJob ==
  ASSUME TypeOK, User
  PROVE  \/ /\ turns' = turns /\ main' = main
            /\ \A j \in Jobs : job'[j].at = job[j].at /\ job'[j].kind = job[j].kind
         \/ \E kind \in Kinds, j \in Jobs : Submit(kind, j)
<1>1. ASSUME UNCHANGED job \/ Abort
      PROVE  \A j \in Jobs : job'[j].at = job[j].at /\ job'[j].kind = job[j].kind
  BY <1>1 DEF Abort, TypeOK, JobType
<1>2. QED
  BY <1>1 DEF User, Type, CtrlC, CtrlD, Escape, Interrupt, Terminate, SubmitExit, SubmitCancel,
     SubmitOther, Cancel, Close, agent

LEMMA SubmitPays ==
  ASSUME TypeOK, TypeOK', Inv, NEW kind \in Kinds, NEW i \in Jobs, Submit(kind, i), NEW j \in Jobs
  PROVE  JobLeft(j)' <= JobLeft(j)
<1>1. JobLeft(j) \in Nat
  BY JobIsCounted
<1>2. CASE i = j
  <2>1. job[j].at = "unborn" /\ job'[j].at = FirstAwait(kind) /\ job'[j].kind = kind
    BY <1>2 DEF Submit, TypeOK, JobType
  <2>2. Budget' \in Nat /\ Budget' <= 3 * MaxTurns
    <3>1. PICK t \in 0..MaxTurns : turns' = t
      BY DEF TypeOK
    <3>2. 3 * (MaxTurns - t) \in Nat /\ 3 * (MaxTurns - t) <= 3 * MaxTurns
      BY TerminalAssumption
    <3>3. Budget' = 3 * (MaxTurns - t)
      BY <3>1 DEF Budget
    <3>4. QED
      BY <3>2, <3>3
  <2>3. JobLeft(j) = 3 * MaxTurns + 4
    BY <2>1 DEF JobLeft
  <2>4. JobLeft(j)' <= 3 * MaxTurns + 4
    BY <2>1, <2>2, TerminalAssumption DEF FirstAwait, JobLeft, Kinds
  <2>5. QED
    BY <2>3, <2>4
<1>3. CASE i # j
  <2>1. job'[j] = job[j]
    BY <1>3 DEF Submit, TypeOK, JobType
  <2>2. ~Running(j)
    BY DEF Submit, MayStart, Inv, OneJobAtATime
  <2>3. QED
    BY <1>1, <2>1, <2>2, SamePlace
<1>4. QED
  BY <1>2, <1>3

\* A step of a job brings it nearer to its end and moves no other.
LEMMA JobPays ==
  ASSUME TypeOK, TypeOK', Inv, NEW i \in Jobs, Step(i) \/ Turn(i) \/ PromptEnds(i)
  PROVE  /\ JobLeft(i)' < JobLeft(i)
         /\ \A j \in Jobs \ {i} : JobLeft(j)' = JobLeft(j)
         /\ Running(i) /\ UNCHANGED <<main, keys>>
<1>1. Running(i) /\ UNCHANGED <<main, keys>>
  BY DEF Step, OpenSession, CreateSession, Cleared, Load, TestsEnd, Answered, Turn, PromptEnds,
     Running, Awaits
<1>2. ASSUME NEW j \in Jobs \ {i} PROVE JobLeft(j)' = JobLeft(j)
  <2>1. ~Running(j)
    BY <1>1 DEF Inv, OneJobAtATime
  <2>2. job'[j] = job[j]
    BY DEF Step, OpenSession, CreateSession, Cleared, Load, TestsEnd, Answered, Turn, PromptEnds,
       Back, Finish, Move, TypeOK, JobType
  <2>3. QED
    BY <2>1, <2>2, SamePlace
<1>3. JobLeft(i)' < JobLeft(i)
  <2>1. /\ Budget \in Nat /\ job'[i].kind = job[i].kind
        /\ Turn(i) \/ turns' = turns
    <3>1. job'[i].kind = job[i].kind
      BY DEF Step, OpenSession, CreateSession, Cleared, Load, TestsEnd, Answered, Turn, PromptEnds,
         Back, Finish, Move, TypeOK, JobType
    <3>2. QED
      BY <3>1, BudgetIsCounted DEF Step, OpenSession, CreateSession, Cleared, Load, TestsEnd,
         Answered, PromptEnds, agent
  <2>2. turns' = turns => Budget' = Budget
    BY DEF Budget
  <2>3. ASSUME Finish(i) PROVE JobLeft(i)' < JobLeft(i)
    <3>1. JobLeft(i)' = 0
      BY <2>3 DEF Finish, TypeOK, JobType, JobLeft
    <3>2. JobLeft(i) > 0
      BY <1>1, <2>1 DEF Running, Awaits, JobLeft
    <3>3. QED
      BY <3>1, <3>2
  <2>4. ASSUME NEW a, Move(i, a) PROVE job'[i].at = a
    BY <2>4 DEF Move, TypeOK, JobType
  <2>5. CASE Turn(i)
    <3>1. /\ job[i].at = "talking" /\ job[i].kind = "chat"
          /\ job'[i].at \in {"talking", "loading"} /\ turns' = turns + 1 /\ turns < MaxTurns
      BY <2>4, <2>5 DEF Turn, TurnsLeft, Inv, KindInv
    <3>2. Budget' = Budget - 3
      BY <3>1, TerminalAssumption DEF Budget, TypeOK
    <3>3. JobLeft(i) = Budget + 1 /\ JobLeft(i)' \in {Budget' + 1, Budget' + 3}
      BY <2>1, <3>1 DEF JobLeft
    <3>4. QED
      BY <2>1, <3>2, <3>3
  <2>6. ASSUME turns' = turns,
               \/ job[i].at = "opening" /\ job'[i].at = "creating"
               \/ job[i].at = "creating" /\ job'[i].at \in {"talking", "undoing"}
               \/ job[i].at = "loading" /\ job'[i].at = "testing"
               \/ /\ job[i].at \in {"loading", "testing"} /\ job[i].kind = "chat"
                  /\ job'[i].at = "talking"
        PROVE  JobLeft(i)' < JobLeft(i)
    <3>1. PICK b \in Nat : Budget = b /\ Budget' = b
      BY <2>1, <2>2, <2>6
    <3>2. QED
      BY <2>1, <2>6, <3>1 DEF JobLeft
  <2>7. CASE OpenSession(i)
    BY <2>1, <2>3, <2>4, <2>6, <2>7 DEF OpenSession
  <2>8. CASE CreateSession(i)
    BY <2>1, <2>3, <2>4, <2>6, <2>8 DEF CreateSession
  <2>9. CASE Load(i)
    BY <2>1, <2>3, <2>4, <2>6, <2>9 DEF Load, Back, agent
  <2>10. CASE TestsEnd(i)
    BY <2>1, <2>3, <2>4, <2>6, <2>10 DEF TestsEnd, Back, agent
  <2>11. CASE Cleared(i) \/ Answered(i) \/ PromptEnds(i)
    BY <2>3, <2>11 DEF Cleared, Answered, PromptEnds
  <2>12. QED
    BY <2>5, <2>7, <2>8, <2>9, <2>10, <2>11 DEF Step
<1>4. QED
  BY <1>1, <1>2, <1>3

\* However a model answers and whenever somebody interferes, a job has only so
\* many steps.
THEOREM JobsRunOut == Spec => JobStepsRunOut
<1>1. TypeOK => \A j \in Jobs : JobLeft(j) \in Nat
  BY JobIsCounted
<1>2. TypeOK' => (\A j \in Jobs : JobLeft(j) \in Nat)'
  BY <1>1, PTL
<1>3. ASSUME TypeOK, TypeOK', Inv, Next, NEW j \in Jobs
      PROVE  /\ JobLeft(j)' <= JobLeft(j)
             /\ Step(j) \/ Turn(j) \/ PromptEnds(j) => JobLeft(j)' < JobLeft(j)
  <2>1. JobLeft(j) \in Nat /\ JobLeft(j)' \in Nat
    BY <1>1, <1>2, <1>3
  <2>2. ASSUME JobLeft(j)' = JobLeft(j) PROVE JobLeft(j)' <= JobLeft(j)
    BY <2>1, <2>2
  <2>3. CASE Step(j) \/ Turn(j) \/ PromptEnds(j)
    <3>1. JobLeft(j)' < JobLeft(j)
      BY <1>3, <2>3, JobPays
    <3>2. QED
      BY <2>1, <3>1
  <2>4. CASE ~(Step(j) \/ Turn(j) \/ PromptEnds(j))
    <3>1. ASSUME NEW i \in Jobs, Step(i) \/ Turn(i) \/ PromptEnds(i)
          PROVE  JobLeft(j)' = JobLeft(j)
      BY <1>3, <2>4, <3>1, JobPays
    <3>2. CASE Leave \/ FinalClear \/ Killed
      <4>1. UNCHANGED <<job, turns>>
        BY <3>2 DEF Leave, FinalClear, Killed, agent
      <4>2. QED
        BY <2>2, <2>4, <4>1, SamePlace
    <3>3. CASE User
      <4>1. CASE \E kind \in Kinds, i \in Jobs : Submit(kind, i)
        BY <1>3, <2>4, <4>1, SubmitPays
      <4>2. CASE /\ turns' = turns
                 /\ \A i \in Jobs : job'[i].at = job[i].at /\ job'[i].kind = job[i].kind
        BY <2>2, <2>4, <4>2, SamePlace
      <4>3. QED
        BY <1>3, <3>3, <4>1, <4>2, UserMovesNoJob
    <3>4. QED
      BY <1>3, <2>2, <2>4, <3>1, <3>2, <3>3 DEF Next
  <2>5. QED
    BY <2>3, <2>4
<1>4. TypeOK /\ TypeOK' /\ Inv /\ [Next]_vars =>
        [\A j \in Jobs :
           /\ JobLeft(j) \in Nat /\ JobLeft(j)' \in Nat
           /\ JobLeft(j)' <= JobLeft(j)
           /\ Step(j) \/ Turn(j) \/ PromptEnds(j) => JobLeft(j)' < JobLeft(j)]_vars
  BY <1>1, <1>2, <1>3
<1>5. QED
  BY <1>4, TypeCorrect, InvariantHolds, PTL DEF Spec, JobStepsRunOut

\* Once the terminal is closed, no line starts a job.
LEMMA NoJobAfterExit ==
  ASSUME TypeOK, Inv, closing, NEW kind \in Kinds, NEW j \in Jobs
  PROVE  ~Submit(kind, j)
<1> SUFFICES ASSUME Submit(kind, j) PROVE FALSE
  OBVIOUS
<1>1. main = "open" /\ ~Drained /\ ~busy
  BY DEF Submit, MayStart, Interactive
<1>2. PICK i \in Jobs : awaited = i /\ job[i].at # "ended"
  BY <1>1 DEF Drained
<1>3. Running(i)
  BY <1>2, NoJobIsNew DEF Inv, GateInv, TypeOK, JobType, Places, Running
<1>4. QED
  BY <1>1, <1>3 DEF Inv, OneJobAtATime

LEMMA ExitPays ==
  ASSUME TypeOK, TypeOK', Inv, closing, Next, ExitLeft \in Nat,
         \A j \in Jobs : JobLeft(j)' \in Nat
  PROVE  /\ ExitLeft' <= ExitLeft
         /\ ~User => ExitLeft' < ExitLeft
<1>1. CASE User
  <2>1. /\ turns' = turns /\ main' = main
        /\ \A j \in Jobs : job'[j].at = job[j].at /\ job'[j].kind = job[j].kind
    BY <1>1, UserMovesNoJob, NoJobAfterExit
  <2>2. awaited' = awaited
    BY <1>1, NoJobAfterExit DEF User, Type, CtrlC, CtrlD, Escape, Interrupt, Terminate, SubmitExit,
       SubmitCancel, SubmitOther, Cancel, Close
  <2>3. awaited # NoJob => JobLeft(awaited)' = JobLeft(awaited)
    BY <2>1, <2>2 DEF TypeOK, JobLeft, Budget
  <2>4. ExitLeft' = ExitLeft
    BY <2>1, <2>2, <2>3 DEF ExitLeft
  <2>5. QED
    BY <1>1, <2>4
<1>2. CASE Leave \/ FinalClear \/ Killed
  <2>1. \/ main = "open" /\ main' = "clearing"
        \/ main = "clearing" /\ main' \in {"exited", "killed"}
    BY <1>2 DEF Leave, FinalClear, Killed
  <2>2. main = "open" => ExitLeft >= 2
    BY JobIsCounted DEF ExitLeft, TypeOK
  <2>3. main' = "clearing" => ExitLeft' = 1
    BY DEF ExitLeft
  <2>4. main = "clearing" => ExitLeft = 1
    BY DEF ExitLeft
  <2>5. main' \in {"exited", "killed"} => ExitLeft' = 0
    BY DEF ExitLeft
  <2>6. QED
    BY <2>1, <2>2, <2>3, <2>4, <2>5
<1>3. ASSUME NEW i \in Jobs, Step(i) \/ Turn(i) \/ PromptEnds(i)
      PROVE  ExitLeft' < ExitLeft /\ ExitLeft' <= ExitLeft
  <2>1. Running(i) /\ UNCHANGED <<main, closing, awaited>> /\ JobLeft(i)' < JobLeft(i)
    BY <1>3, JobPays DEF keys
  <2>2. main = "open" /\ awaited = i /\ i # NoJob
    BY <2>1, NoJobIsNew DEF Inv, OneJobAtATime
  <2>3. ExitLeft = 2 + JobLeft(i) /\ ExitLeft' = 2 + JobLeft(i)'
    BY <2>1, <2>2 DEF ExitLeft
  <2>4. JobLeft(i) \in Nat /\ JobLeft(i)' \in Nat
    BY JobIsCounted
  <2>5. QED
    BY <2>1, <2>3, <2>4
<1>4. QED
  BY <1>1, <1>2, <1>3 DEF Next

\* Once the terminal is closed its end comes nearer with every step of the
\* program, and nothing the user still does puts it off.
THEOREM ExitsRunOut == Spec => ExitStepsRunOut
<1>1. TypeOK => ExitLeft \in Nat /\ \A j \in Jobs : JobLeft(j) \in Nat
  BY ExitIsCounted, JobIsCounted
<1>2. TypeOK' => (ExitLeft \in Nat /\ \A j \in Jobs : JobLeft(j) \in Nat)'
  BY <1>1, PTL
<1>3. TypeOK /\ TypeOK' /\ Inv /\ [Next]_vars =>
        [closing =>
           /\ ExitLeft \in Nat /\ ExitLeft' \in Nat
           /\ ExitLeft' <= ExitLeft
           /\ ~User => ExitLeft' < ExitLeft]_vars
  BY <1>1, <1>2, ExitPays
<1>4. QED
  BY <1>3, TypeCorrect, InvariantHolds, PTL DEF Spec, ExitStepsRunOut
=============================================================================
