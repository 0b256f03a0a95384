------------------------------- MODULE Proxy -------------------------------
(***************************************************************************)
(* The public API proxy (deploy/spark/public_api_proxy.py): the handler of *)
(* one HTTP request, from its arrival to the end of its response, and the  *)
(* two admission gates, one per tier, that the requests share.             *)
(*                                                                         *)
(* The proxy is one asyncio event loop: a handler runs without a break     *)
(* from one await that suspends it to the next, so an action is one such   *)
(* stretch.  Only the maintenance file is read elsewhere, by a thread.     *)
(* A gate is an asyncio.Queue of tokens; what the queue does with the      *)
(* futures of its waiting getters is modelled as CPython has it.           *)
(***************************************************************************)
EXTENDS Naturals, FiniteSets, SequencesExt

CONSTANTS
    Requests,    \* HTTP requests, each with a task of its own
    Tiers,       \* ApiTier
    Tier,        \* Tier[r]: what the key of r authenticates it as
    Limited,     \* the tiers the rate limiter applies to
    Slots,       \* Slots[t]: the tokens of the gate of t (7 user, 1 official)
    MaxPending,  \* MaxPending[t]: the gate's max_pending (64 user, 8 official)
    None

ASSUME TierType == Tier \in [Requests -> Tiers] /\ Limited \subseteq Tiers
AllSlots == UNION {Slots[t] : t \in Tiers}

ASSUME SlotsType == Slots \in [Tiers -> SUBSET AllSlots] /\ None \notin AllSlots
ASSUME Capacity == \A t \in Tiers : IsFiniteSet(Slots[t]) /\ Slots[t] # {}
ASSUME PendingType == MaxPending \in [Tiers -> Nat \ {0}]
ASSUME RequestsFinite == IsFiniteSet(Requests)

VARIABLES
    pc,          \* where the handler of each request is suspended
    cancelling,  \* cancelling[r]: a CancelledError awaits the task of r
    seen,        \* seen[r]: what the maintenance thread answered r last
    held,        \* held[r]: the token of the unreleased QueueLease of r, or None
    outcome,
    tokens,      \* tokens[t]: FifoGate._tokens
    getters,     \* getters[t]: the requests whose get() waits, in queue order
    pending,     \* pending[t]: FifoGate._pending
    maintenance, \* what _maintenance_active would answer now
    sawOpen      \* history: requests that held a slot while maintenance was off

handler == <<pc, cancelling, seen, held, outcome>>
gates == <<tokens, getters, pending>>
vars == <<handler, gates, maintenance, sawOpen>>

Waiting == {"queued", "woken"}
BeforeTheGate == {"check", "checked", "body"}
WithSlot == {"recheck", "rechecked", "sending", "streaming", "closing"}
Suspended == BeforeTheGate \cup Waiting \cup WithSlot

Outcomes == {"open", "rejected", "maintenance", "rate_limited", "queue_full",
             "upstream_error", "answered", "cancelled"}

Init ==
    /\ pc = [r \in Requests |-> "new"]
    /\ cancelling = [r \in Requests |-> FALSE]
    /\ seen = [r \in Requests |-> FALSE]
    /\ held = [r \in Requests |-> None]
    /\ outcome = [r \in Requests |-> "open"]
    /\ tokens = Slots
    /\ getters = [t \in Tiers |-> <<>>]
    /\ pending = [t \in Tiers |-> 0]
    /\ maintenance \in BOOLEAN
    /\ sawOpen = {}

At(r, here) == pc[r] = here /\ ~cancelling[r]
Goto(r, there) == pc' = [pc EXCEPT ![r] = there]

Finish(r, why) ==
    /\ Goto(r, "done")
    /\ outcome' = [outcome EXCEPT ![r] = why]

-----------------------------------------------------------------------------
(* The asyncio.Queue of a gate.                                            *)

\* _wakeup_next: cancelled getters are dropped up to the first live one, which
\* is scheduled to run.  next is what the step does to pc otherwise.
WakeNext(t, next) ==
    LET waiters == getters[t]
        live == {i \in DOMAIN waiters : ~cancelling[waiters[i]]}
    IN  \/ /\ live = {}
           /\ getters' = [getters EXCEPT ![t] = <<>>]
           /\ pc' = next
        \/ \E i \in live :
             /\ \A j \in live : i <= j
             /\ getters' = [getters EXCEPT ![t] = SubSeq(waiters, i + 1, Len(waiters))]
             /\ pc' = [next EXCEPT ![waiters[i]] = "woken"]

\* get_nowait: the lease of r is made, and its handler goes on to the second
\* maintenance check.
Take(r) ==
    \E s \in tokens[Tier[r]] :
      /\ tokens' = [tokens EXCEPT ![Tier[r]] = @ \ {s}]
      /\ held' = [held EXCEPT ![r] = s]
      /\ sawOpen' = IF maintenance THEN sawOpen ELSE sawOpen \cup {r}
      /\ Goto(r, "recheck")

\* Mutant: the token goes back, and nobody is woken for it.
Release_Quiet(r, why) ==
    /\ tokens' = [tokens EXCEPT ![Tier[r]] = @ \cup {held[r]}]
    /\ held' = [held EXCEPT ![r] = None]
    /\ Finish(r, why)
    /\ UNCHANGED getters

\* QueueLease.release and FifoGate.release, by a handler that is then done.
Release(r, why) ==
    /\ tokens' = [tokens EXCEPT ![Tier[r]] = @ \cup {held[r]}]
    /\ held' = [held EXCEPT ![r] = None]
    /\ outcome' = [outcome EXCEPT ![r] = why]
    /\ WakeNext(Tier[r], [pc EXCEPT ![r] = "done"])

-----------------------------------------------------------------------------
(* The handler.                                                            *)

\* Route and key: 404, 401, or on to the first maintenance check.
Arrive(r) ==
    /\ pc[r] = "new"
    /\ \/ Finish(r, "rejected")
       \/ Goto(r, "check") /\ UNCHANGED outcome
    /\ UNCHANGED <<cancelling, seen, held, gates, maintenance, sawOpen>>

\* The thread that asyncio.to_thread starts reads the maintenance file.
ReadMaintenance(r) ==
    /\ \/ At(r, "check") /\ Goto(r, "checked")
       \/ At(r, "recheck") /\ Goto(r, "rechecked")
    /\ seen' = [seen EXCEPT ![r] = maintenance]
    /\ UNCHANGED <<cancelling, held, outcome, gates, maintenance, sawOpen>>

\* The first check and, for users, the sliding window, whose verdict
\* RateLimiter models.
FirstCheck(r) ==
    /\ At(r, "checked")
    /\ \/ seen[r] /\ Finish(r, "maintenance")
       \/ ~seen[r] /\ Tier[r] \in Limited /\ Finish(r, "rate_limited")
       \/ ~seen[r] /\ Goto(r, "body") /\ UNCHANGED outcome
    /\ UNCHANGED <<cancelling, seen, held, gates, maintenance, sawOpen>>

\* The client sends too much, or a body that is no request, or disconnects.
RejectBody(r) ==
    /\ At(r, "body")
    /\ Finish(r, "rejected")
    /\ UNCHANGED <<cancelling, seen, held, gates, maintenance, sawOpen>>

\* Mutant: the waiters are counted but never refused.
Acquire_Unbounded(r) ==
    LET t == Tier[r]
    IN  /\ At(r, "body")
        /\ \/ /\ tokens[t] # {}
              /\ Take(r)
              /\ UNCHANGED <<outcome, getters, pending>>
           \/ /\ tokens[t] = {}
              /\ pending' = [pending EXCEPT ![t] = @ + 1]
              /\ getters' = [getters EXCEPT ![t] = Append(@, r)]
              /\ Goto(r, "queued")
              /\ UNCHANGED <<held, outcome, tokens, sawOpen>>
        /\ UNCHANGED <<cancelling, seen, maintenance>>

\* The body is read; FifoGate.acquire up to its first suspension.  A token that
\* is there is taken at once, whoever waits.
Acquire(r) ==
    LET t == Tier[r]
    IN  /\ At(r, "body")
        /\ \/ /\ tokens[t] # {}
              /\ Take(r)
              /\ UNCHANGED <<outcome, getters, pending>>
           \/ /\ tokens[t] = {} /\ pending[t] >= MaxPending[t]
              /\ Finish(r, "queue_full")
              /\ UNCHANGED <<held, tokens, getters, pending, sawOpen>>
           \/ /\ tokens[t] = {} /\ pending[t] < MaxPending[t]
              /\ pending' = [pending EXCEPT ![t] = @ + 1]
              /\ getters' = [getters EXCEPT ![t] = Append(@, r)]
              /\ Goto(r, "queued")
              /\ UNCHANGED <<held, outcome, tokens, sawOpen>>
        /\ UNCHANGED <<cancelling, seen, maintenance>>

\* The loop in get(): a woken getter takes a token, or finds that another
\* request took it and waits again, now at the end of the queue.
Resume(r) ==
    LET t == Tier[r]
    IN  /\ At(r, "woken")
        /\ \/ /\ tokens[t] # {}
              /\ Take(r)
              /\ pending' = [pending EXCEPT ![t] = @ - 1]
              /\ UNCHANGED getters
           \/ /\ tokens[t] = {}
              /\ getters' = [getters EXCEPT ![t] = Append(@, r)]
              /\ Goto(r, "queued")
              /\ UNCHANGED <<held, tokens, pending, sawOpen>>
        /\ UNCHANGED <<cancelling, seen, outcome, maintenance>>

\* Mutant: the answer of the first check is good enough.
Recheck_Trusted(r) ==
    /\ At(r, "recheck")
    /\ Goto(r, "sending")
    /\ UNCHANGED <<cancelling, seen, held, outcome, gates, maintenance, sawOpen>>

\* The second check, with the slot: 503 gives it back.
Recheck(r) ==
    /\ At(r, "rechecked")
    /\ \/ seen[r] /\ Release(r, "maintenance")
       \/ ~seen[r] /\ Goto(r, "sending") /\ UNCHANGED <<held, outcome, tokens, getters>>
    /\ UNCHANGED <<cancelling, seen, pending, maintenance, sawOpen>>

\* client.send returns a response, or a timeout or another transport error.
Upstream(r) ==
    /\ At(r, "sending")
    /\ \/ Goto(r, "streaming") /\ UNCHANGED <<held, outcome, tokens, getters>>
       \/ Release(r, "upstream_error")
    /\ UNCHANGED <<cancelling, seen, pending, maintenance, sawOpen>>

\* The streaming ends, at the end of the body or on an error of either side.
StreamEnds(r) ==
    /\ At(r, "streaming")
    /\ Goto(r, "closing")
    /\ UNCHANGED <<cancelling, seen, held, outcome, gates, maintenance, sawOpen>>

\* aclose() of the upstream response returns or raises; the slot goes back.
Close(r) ==
    /\ At(r, "closing")
    /\ Release(r, "answered")
    /\ UNCHANGED <<cancelling, seen, pending, maintenance, sawOpen>>

-----------------------------------------------------------------------------
(* Cancellation of a request's task, where it is suspended.                *)

\* Task.cancel: a future that is pending is cancelled with it, which WakeNext
\* sees; the task itself runs later.
Cancel(r) ==
    /\ pc[r] \in Suspended
    /\ ~cancelling[r]
    /\ cancelling' = [cancelling EXCEPT ![r] = TRUE]
    /\ UNCHANGED <<pc, seen, held, outcome, gates, maintenance, sawOpen>>

\* The CancelledError before the gate leaves nothing to undo.
UnwindBeforeTheGate(r) ==
    /\ pc[r] \in BeforeTheGate
    /\ Finish(r, "cancelled")
    /\ UNCHANGED <<held, gates>>

\* remove(): a getter that a wake-up dropped is not there any more.
LeaveQueue(r, t) ==
    \/ \E i \in DOMAIN getters[t] :
         /\ getters[t][i] = r
         /\ getters' = [getters EXCEPT ![t] = RemoveAt(@, i)]
    \/ /\ \A i \in DOMAIN getters[t] : getters[t][i] # r
       /\ UNCHANGED getters

\* Mutant: the counter goes down after get(), not in a finally.
UnwindWaiting_StaysCounted(r) ==
    LET t == Tier[r]
    IN  /\ \/ /\ pc[r] = "queued"
              /\ LeaveQueue(r, t)
              /\ Goto(r, "done")
           \/ /\ pc[r] = "woken" /\ tokens[t] = {}
              /\ Goto(r, "done")
              /\ UNCHANGED getters
           \/ /\ pc[r] = "woken" /\ tokens[t] # {}
              /\ WakeNext(t, [pc EXCEPT ![r] = "done"])
        /\ outcome' = [outcome EXCEPT ![r] = "cancelled"]
        /\ UNCHANGED <<held, tokens, pending>>

\* In get(): the getter leaves the queue.  One that had been woken passes that
\* on if there is a token; then acquire's finally counts the waiter out.
UnwindWaiting(r) ==
    LET t == Tier[r]
    IN  /\ \/ /\ pc[r] = "queued"
              /\ LeaveQueue(r, t)
              /\ Goto(r, "done")
           \/ /\ pc[r] = "woken" /\ tokens[t] = {}
              /\ Goto(r, "done")
              /\ UNCHANGED getters
           \/ /\ pc[r] = "woken" /\ tokens[t] # {}
              /\ WakeNext(t, [pc EXCEPT ![r] = "done"])
        /\ pending' = [pending EXCEPT ![t] = @ - 1]
        /\ outcome' = [outcome EXCEPT ![r] = "cancelled"]
        /\ UNCHANGED <<held, tokens>>

\* Mutant: the handler has no clause for a cancellation.
UnwindWithSlot_Leaks(r) ==
    /\ \/ /\ pc[r] \in {"recheck", "rechecked", "sending"}
          /\ Finish(r, "cancelled")
          /\ UNCHANGED <<held, tokens, getters>>
       \/ /\ pc[r] = "closing"
          /\ Release(r, "cancelled")
       \/ /\ pc[r] = "streaming"
          /\ Goto(r, "closing")
          /\ UNCHANGED <<held, outcome, tokens, getters>>
    /\ UNCHANGED pending

\* except BaseException, before there is a response, and the finally blocks of
\* LeasedStreamingResponse after that: the response is closed first.
UnwindWithSlot(r) ==
    /\ \/ /\ pc[r] \in WithSlot \ {"streaming"}
          /\ Release(r, "cancelled")
       \/ /\ pc[r] = "streaming"
          /\ Goto(r, "closing")
          /\ UNCHANGED <<held, outcome, tokens, getters>>
    /\ UNCHANGED pending

Unwind(r) ==
    /\ cancelling[r]
    /\ cancelling' = [cancelling EXCEPT ![r] = FALSE]
    /\ \/ UnwindBeforeTheGate(r)
       \/ UnwindWaiting(r)
       \/ UnwindWithSlot(r)
    /\ UNCHANGED <<seen, maintenance, sawOpen>>

-----------------------------------------------------------------------------
\* The operator writes or removes the maintenance file, or its deadline passes.
Toggle ==
    /\ maintenance' = ~maintenance
    /\ sawOpen' = IF maintenance
                    THEN sawOpen \cup {r \in Requests : held[r] # None}
                    ELSE sawOpen
    /\ UNCHANGED <<handler, gates>>

\* What a client decides: to come, to send a body the proxy can use, or not to.
Client(r) == Arrive(r) \/ RejectBody(r) \/ Acquire(r)

Handle(r) ==
    \/ ReadMaintenance(r) \/ FirstCheck(r) \/ Resume(r) \/ Recheck(r)
    \/ Upstream(r) \/ StreamEnds(r) \/ Close(r) \/ Unwind(r)

Next ==
    \/ \E r \in Requests : Client(r) \/ Handle(r) \/ Cancel(r)
    \/ Toggle

Spec == Init /\ [][Next]_vars

-----------------------------------------------------------------------------
(* What the proxy promises.                                                *)

Waiters(t) == {r \in Requests : Tier[r] = t /\ pc[r] \in Waiting}

\* The values the gates, the handlers and the maintenance gate can have.
TypeOK ==
    /\ pc \in [Requests -> {"new", "done"} \cup Suspended]
    /\ cancelling \in [Requests -> BOOLEAN]
    /\ seen \in [Requests -> BOOLEAN]
    /\ held \in [Requests -> AllSlots \cup {None}]
    /\ outcome \in [Requests -> Outcomes]
    /\ tokens \in [Tiers -> SUBSET AllSlots]
    /\ getters \in [Tiers -> Seq(Requests)]
    /\ pending \in [Tiers -> Nat]
    /\ maintenance \in BOOLEAN
    /\ sawOpen \subseteq Requests

\* A slot is free or held by exactly one request of its tier that is still
\* being served: no failure, disconnection or cancellation loses one
\* (lines 487-495 and 241-249) or returns it twice (lines 212-217).
SlotsAreConserved ==
    /\ \A r \in Requests : held[r] # None <=> pc[r] \in WithSlot
    /\ \A r \in Requests :
         held[r] # None => held[r] \in Slots[Tier[r]] \ tokens[Tier[r]]
    /\ \A r, q \in Requests :
         held[r] = held[q] /\ held[r] # None /\ Tier[r] = Tier[q] => r = q
    /\ \A t \in Tiers :
         /\ tokens[t] \subseteq Slots[t]
         /\ \A s \in Slots[t] \ tokens[t] :
              \E r \in Requests : Tier[r] = t /\ held[r] = s

\* FifoGate._pending is the number of requests that wait, although it changes
\* at every entry, wake-up and cancellation (lines 268-276).
WaitersAreCounted == \A t \in Tiers : pending[t] = Cardinality(Waiters(t))

\* While somebody waits who has not been woken, each free slot is on its way
\* to a request that has been: no wake-up is lost when the request that got
\* it is cancelled or finds its slot taken.
NoIdleSlot ==
    \A t \in Tiers :
      (\E r \in Waiters(t) : At(r, "queued"))
        => Cardinality(tokens[t]) <= Cardinality({r \in Waiters(t) : pc[r] = "woken"})

\* A request reaches the model only if maintenance was off at some moment
\* after it got its slot, however long it queued (lines 468-473).
MaintenanceHonoured ==
    \A r \in Requests : pc[r] \in {"sending", "streaming", "closing"} => r \in sawOpen

\* Whoever is in a queue waits at the gate of t, and is there once.
Proper(queue, t, at) ==
    \A i \in 1..Len(queue) :
      /\ Tier[queue[i]] = t /\ at[queue[i]] = "queued"
      /\ \A j \in 1..Len(queue) : queue[i] = queue[j] => i = j

QueuedOnce == \A t \in Tiers : Proper(getters[t], t, pc)

\* What the second check knows: a request that holds a slot and finds no
\* maintenance now, or found none when it looked, held it while there was none.
SawOpenWithSlot ==
    \A r \in Requests :
      \/ held[r] # None /\ ~maintenance
      \/ pc[r] = "rechecked" /\ ~seen[r]
      => r \in sawOpen

\* The inductive invariant: the promises above, and what they rest on.
ProxyInvariant ==
    /\ TypeOK
    /\ SlotsAreConserved
    /\ WaitersAreCounted
    /\ QueuedOnce
    /\ MaintenanceHonoured
    /\ SawOpenWithSlot

\* A request that waits unwoken, and has not been cancelled, is in the queue of
\* its gate: a wake-up drops nobody it does not wake.
LiveAreQueued ==
    \A r \in Requests :
      At(r, "queued") => \E i \in 1..Len(getters[Tier[r]]) : getters[Tier[r]][i] = r

\* What NoIdleSlot rests on.
WakeupInvariant == LiveAreQueued /\ NoIdleSlot

\* The handlers that have something to do: all but those that wait for a
\* wake-up or for their client.
HasAMove(r) ==
    \/ pc[r] \in {"check", "checked", "woken"} \cup WithSlot
    \/ pc[r] \in {"body", "queued"} /\ cancelling[r]

AtTheGate(t) == {r \in Requests : Tier[r] = t /\ pc[r] \in Waiting \cup WithSlot}

\* Of the requests that wait at a gate or hold a slot of it, one can always go on.
SomebodyMoves ==
    \A t \in Tiers : AtTheGate(t) # {} => \E r \in AtTheGate(t) : HasAMove(r)

\* Whoever waits or holds a slot never depends on a request that is still to
\* come, or on the other tier: as long as somebody got to a gate and has not been
\* answered, a handler there can go on (lines 264-281 and 468-497).  Each handler
\* takes finitely many steps, so nobody waits for ever.
NobodyIsStranded ==
    SomebodyMoves /\ \A r \in Requests : HasAMove(r) => ENABLED Handle(r)

\* "Wait in FIFO order for a slot" (line 265): a request that comes to the gate
\* does not get a slot before one that waits there already.
FifoOrder ==
    [][\A r, q \in Requests :
         /\ At(r, "body") /\ held'[r] # None
         /\ Tier[q] = Tier[r] /\ pc[q] \in Waiting
         => cancelling[q]]_vars

\* The gates as their callers see them.
Gate == INSTANCE Admission WITH
          lease <- held,
          waiting <- {r \in Requests : pc[r] \in Waiting},
          refused <- {r \in Requests : outcome[r] = "queue_full"}

\* Both gates together are an admission control as Admission describes it:
\* who waits had no slot to take, who is refused had no place to wait.
ImplementsAdmission == Gate!Spec
=============================================================================
