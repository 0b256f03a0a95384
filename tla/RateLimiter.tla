---------------------------- MODULE RateLimiter ----------------------------
(***************************************************************************)
(* SlidingWindowRateLimiter (deploy/spark/public_api_proxy.py, lines       *)
(* 178-200), which decides whether a user's request may go on to the gate. *)
(*                                                                         *)
(* allow() is one step: nothing is awaited while its lock is held, so no   *)
(* call ever finds the lock taken.  Time is time.monotonic() in ticks.     *)
(***************************************************************************)
EXTENDS Naturals, Sequences

CONSTANTS
    Clients,  \* what _client_id returns
    Limit,    \* grants in one window (60 by default)
    Window,   \* its length in ticks (60 seconds)
    MaxTime   \* bound: ticks of the clock

ASSUME LimitType == Limit \in Nat \ {0}
ASSUME WindowType == Window \in Nat \ {0}
ASSUME TimeType == MaxTime \in Nat

VARIABLES
    now,
    buckets,  \* buckets[c]: the timestamps kept for c, oldest first
    granted,  \* history: the time of every grant to c
    answer    \* answer[c]: what the last allow(c) returned

vars == <<now, buckets, granted, answer>>

Init ==
    /\ now = 0
    /\ buckets = [c \in Clients |-> <<>>]
    /\ granted = [c \in Clients |-> <<>>]
    /\ answer = [c \in Clients |-> TRUE]

\* Mutant: a timestamp goes out one tick before its minute is over.
Stale_Early(time) == time + Window <= now + 1

\* Mutant: a timestamp stays until its minute has been over for a tick.
Stale_Late(time) == time + Window < now

\* The timestamps that have left the window.
Stale(time) == time + Window <= now

\* The while loop pops stale timestamps as long as the first one is: k of them.
Popped(bucket, k) ==
    /\ \A i \in 1..k : Stale(bucket[i])
    /\ k < Len(bucket) => ~Stale(bucket[k + 1])

\* The call is granted if what is left of the bucket has room.
Decide(c, bucket) ==
    /\ IF Len(bucket) >= Limit
         THEN /\ answer' = [answer EXCEPT ![c] = FALSE]
              /\ buckets' = [buckets EXCEPT ![c] = bucket]
              /\ UNCHANGED granted
         ELSE /\ answer' = [answer EXCEPT ![c] = TRUE]
              /\ buckets' = [buckets EXCEPT ![c] = Append(bucket, now)]
              /\ granted' = [granted EXCEPT ![c] = Append(@, now)]
    /\ UNCHANGED now

\* allow(client_id).
Allow(c) ==
    \E k \in 0..Len(buckets[c]) :
      /\ Popped(buckets[c], k)
      /\ Decide(c, SubSeq(buckets[c], k + 1, Len(buckets[c])))

Tick ==
    /\ now < MaxTime
    /\ now' = now + 1
    /\ UNCHANGED <<buckets, granted, answer>>

Next == Tick \/ \E c \in Clients : Allow(c)

Spec == Init /\ [][Next]_vars

-----------------------------------------------------------------------------
\* The clock, the buckets, their histories and the answers.
TypeOK ==
    /\ now \in Nat
    /\ buckets \in [Clients -> Seq(0..now)]
    /\ granted \in [Clients -> Seq(Nat)]
    /\ answer \in [Clients -> BOOLEAN]

\* No window of Window ticks, wherever it starts, holds more than Limit grants
\* to one client: of any Limit + 1 consecutive grants the last comes a whole
\* window after the first.  The code only keeps what is left of the past after
\* each call (lines 194-199); the history keeps all of it.
WindowHolds ==
    \A c \in Clients : \A i \in 1..Len(granted[c]) :
      i + Limit <= Len(granted[c]) => granted[c][i] + Window <= granted[c][i + Limit]

\* Nobody is refused without cause: a call that returns False finds Limit
\* grants in the window that ends now (lines 197-198).
RefusalIsDue ==
    [][\A c \in Clients :
         Allow(c) /\ ~answer'[c]
           => /\ Len(granted[c]) >= Limit
              /\ granted[c][Len(granted[c]) - Limit + 1] + Window > now]_vars

\* What a bucket is: the newest grants of its client; those that are in it no
\* more have left the window.
BucketsAreRecent ==
    \A c \in Clients :
      LET gone == Len(granted[c]) - Len(buckets[c])
      IN  /\ Len(buckets[c]) <= Limit /\ gone \in Nat
          /\ \A i \in 1..Len(buckets[c]) : buckets[c][i] = granted[c][gone + i]
          /\ \A i \in 1..gone : granted[c][i] + Window <= now
=============================================================================
