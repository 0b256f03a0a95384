----------------------------- MODULE SessionAbs -----------------------------
(***************************************************************************)
(* What a session (src/sessions.mjs, src/session-worker.mjs) promises to   *)
(* those who read its state.json: it is a register about one job at a      *)
(* time, changed in place and never from an old copy, and the conversation *)
(* belongs to one generation of it.  Locks, guards, owner files, copies    *)
(* and polling are how sessions keep the promise, and are left out.        *)
(***************************************************************************)
EXTENDS Naturals

CONSTANTS Jobs, Projects, None, Verdicts

VARIABLES
    state,    \* what state.json says
    context,  \* the generations whose jobs wrote to the conversation
    running,  \* the jobs that run now
    stopped   \* the jobs somebody asked to stop

Init ==
    /\ state = [status |-> "idle", job |-> None, generation |-> 1,
                project |-> None, last |-> None]
    /\ context = {} /\ running = {} /\ stopped = {}

\* A job is published, without a result; a session keeps its project.
Submit(j) ==
    /\ running = {}
    /\ \E p \in Projects :
         /\ state.project \in {None, p}
         /\ state' = [state EXCEPT !.status = "starting", !.job = j, !.project = p,
                                   !.last = None]
    /\ UNCHANGED <<context, running, stopped>>

\* A start that fails takes its job back, if it had published it, and may forget
\* a result that was published while it was under way, but no more than that.
Withdraw ==
    /\ running = {}
    /\ \E s \in [status : {"failed"}, job : Jobs \cup {None},
                 generation : {state.generation}, project : {None, state.project},
                 last : Jobs \cup {None}] :
         /\ \/ state.status = "starting"
            \/ s.job = state.job /\ s.project = state.project /\ s.last \in {None, state.last}
         /\ state' = s
    /\ UNCHANGED <<context, running, stopped>>

\* The job that was published begins to run, when no other does.
Begin(j) ==
    /\ running = {}
    /\ state.job = j /\ state.status = "starting"
    /\ state' = [state EXCEPT !.status = "running"]
    /\ running' = {j}
    /\ UNCHANGED <<context, stopped>>

Converse(j) ==
    /\ j \in running
    /\ context' = context \cup {state.generation}
    /\ UNCHANGED <<state, running, stopped>>

\* Only a job somebody asked to stop is cancelled.
Ends(j, statuses) ==
    statuses \cup (IF j \in stopped THEN {"cancelled"} ELSE {})

\* A job ends with a result, and nothing else of the session changes ...
Finish(j) ==
    /\ j \in running
    /\ \E verdict \in Ends(j, Verdicts) :
         state' = [state EXCEPT !.status = verdict, !.last = j]
    /\ running' = {}
    /\ UNCHANGED <<context, stopped>>

\* ... or without one, maybe before it ran ...
Fail(j) ==
    /\ state.job = j
    /\ \/ j \in running
       \/ running = {} /\ state.status = "starting"
    /\ \E verdict \in Ends(j, {"failed"}) : state' = [state EXCEPT !.status = verdict]
    /\ running' = {}
    /\ UNCHANGED <<context, stopped>>

\* ... or it is killed, and nobody says so.
Die(j) ==
    /\ j \in running
    /\ running' = {}
    /\ UNCHANGED <<state, context, stopped>>

\* A stop is for the job that is published.
Stop ==
    /\ stopped' = stopped \cup {state.job}
    /\ UNCHANGED <<state, context, running>>

\* The conversation is dropped when no job runs, and only then is the session new.
Forget ==
    /\ running = {}
    /\ context' = {}
    /\ UNCHANGED <<state, running, stopped>>

Clear ==
    /\ running = {} /\ context = {}
    /\ state' = [state EXCEPT !.generation = @ + 1, !.status = "idle", !.job = None]
    /\ UNCHANGED <<context, running, stopped>>

Next == \/ Withdraw \/ Stop \/ Forget \/ Clear
        \/ \E j \in Jobs : Submit(j) \/ Begin(j) \/ Converse(j) \/ Finish(j) \/ Fail(j) \/ Die(j)

Spec == Init /\ [][Next]_<<state, context, running, stopped>>
=============================================================================
