----------------------------- MODULE Admission -----------------------------
(***************************************************************************)
(* What FifoGate (deploy/spark/public_api_proxy.py, lines 252-281) promises *)
(* to the requests of each tier: as many of them run at once as the tier   *)
(* has slots, a bounded number waits, and a request waits or is refused    *)
(* only when every slot of its tier is in use.  Nothing is said about the  *)
(* order in which those that wait are served.                              *)
(***************************************************************************)
EXTENDS Naturals, FiniteSets

CONSTANTS Requests, Tiers, Tier, Slots, MaxPending, None

VARIABLES
    lease,    \* lease[r]: the slot r runs in, or None
    waiting,  \* the requests that wait for a slot
    refused   \* the requests that were turned away

Full(t) == \A s \in Slots[t] : \E r \in Requests : Tier[r] = t /\ lease[r] = s

Queue(t) == {r \in waiting : Tier[r] = t}

Init ==
    /\ lease = [r \in Requests |-> None]
    /\ waiting = {}
    /\ refused = {}

Wait(r) ==
    /\ r \notin waiting
    /\ Full(Tier[r])
    /\ Cardinality(Queue(Tier[r])) < MaxPending[Tier[r]]
    /\ waiting' = waiting \cup {r}
    /\ UNCHANGED <<lease, refused>>

Refuse(r) ==
    /\ r \notin waiting
    /\ Full(Tier[r])
    /\ Cardinality(Queue(Tier[r])) >= MaxPending[Tier[r]]
    /\ refused' = refused \cup {r}
    /\ UNCHANGED <<lease, waiting>>

\* A request that waits, or has just come, gets a slot nobody has.
Grant(r) ==
    /\ lease[r] = None
    /\ \E s \in Slots[Tier[r]] :
         /\ \A q \in Requests : Tier[q] = Tier[r] => lease[q] # s
         /\ lease' = [lease EXCEPT ![r] = s]
    /\ waiting' = waiting \ {r}
    /\ UNCHANGED refused

GiveUp(r) ==
    /\ r \in waiting
    /\ waiting' = waiting \ {r}
    /\ UNCHANGED <<lease, refused>>

Return(r) ==
    /\ lease[r] # None
    /\ lease' = [lease EXCEPT ![r] = None]
    /\ UNCHANGED <<waiting, refused>>

Next == \E r \in Requests : Wait(r) \/ Refuse(r) \/ Grant(r) \/ GiveUp(r) \/ Return(r)

Spec == Init /\ [][Next]_<<lease, waiting, refused>>
=============================================================================
