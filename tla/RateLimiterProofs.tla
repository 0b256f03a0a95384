------------------------- MODULE RateLimiterProofs -------------------------
(***************************************************************************)
(* Theorems about RateLimiter, for any set of clients, limit, window and   *)
(* length of time.                                                         *)
(***************************************************************************)
EXTENDS RateLimiter, SequenceTheorems, TLAPS

USE LimitType, WindowType, TimeType

\* What BucketsAreRecent says of one client's history g and bucket b at a time.
Recent(g, b, time) ==
    LET gone == Len(g) - Len(b)
    IN  /\ Len(b) <= Limit /\ gone \in Nat
        /\ \A i \in 1..Len(b) : b[i] = g[gone + i]
        /\ \A i \in 1..gone : g[i] + Window <= time

\* What WindowHolds says of it.
Spaced(g) ==
    \A i \in 1..Len(g) : i + Limit <= Len(g) => g[i] + Window <= g[i + Limit]

Inv == TypeOK /\ BucketsAreRecent /\ WindowHolds

\* What the loop leaves of a bucket when it pops k timestamps.
LEMMA Rest ==
    ASSUME NEW S, NEW b \in Seq(S), NEW k \in 0..Len(b)
    PROVE  LET rest == SubSeq(b, k + 1, Len(b))
           IN  /\ rest \in Seq(S)
               /\ Len(rest) = Len(b) - k
               /\ \A i \in 1..Len(rest) : rest[i] = b[k + i]
<1>1. \A i \in (k + 1)..Len(b) : b[i] \in S
  BY ElementOfSeq
<1>2. k + 1 \in Int /\ Len(b) \in Int
  OBVIOUS
<1> QED
  BY <1>1, <1>2, SubSeqProperties

\* Types survive a call of allow.
LEMMA AllowTypes == ASSUME TypeOK, NEW c \in Clients, Allow(c) PROVE TypeOK'
<1> USE DEF TypeOK
<1>1. PICK k \in 0..Len(buckets[c]) :
        Decide(c, SubSeq(buckets[c], k + 1, Len(buckets[c])))
  BY DEF Allow
<1> DEFINE rest == SubSeq(buckets[c], k + 1, Len(buckets[c]))
<1>2. rest \in Seq(0..now)
  BY Rest
<1>3. Append(rest, now) \in Seq(0..now) /\ Append(granted[c], now) \in Seq(Nat)
  BY <1>2, AppendProperties
<1> HIDE DEF rest
<1> QED
  BY <1>1, <1>2, <1>3 DEF rest, Decide

\* Types survive every step; a bucket has no timestamp from the future.
LEMMA TypeStep == TypeOK /\ [Next]_vars => TypeOK'
<1> SUFFICES ASSUME TypeOK, [Next]_vars PROVE TypeOK'
  OBVIOUS
<1>1. CASE Tick
  <2>1. Seq(0..now) \subseteq Seq(0..now')
    BY <1>1, SeqMonotonic DEF Tick, TypeOK
  <2> QED
    BY <1>1, <2>1 DEF Tick, TypeOK
<1>2. CASE \E c \in Clients : Allow(c)
  BY <1>2, AllowTypes
<1>3. CASE UNCHANGED vars
  BY <1>3 DEF vars, TypeOK
<1> QED
  BY <1>1, <1>2, <1>3 DEF Next

\* The clock, the buckets and the histories are always well typed.
THEOREM TypeCorrect == Spec => []TypeOK
<1>1. Init => TypeOK
  BY DEF Init, TypeOK
<1> QED
  BY <1>1, TypeStep, PTL DEF Spec
-----------------------------------------------------------------------------
(* The window.                                                             *)

\* What the loop pops had left the window: what remains is still the newest
\* part of the history, and whatever is gone from it is stale.
LEMMA PruneKeepsRecent ==
    ASSUME now \in Nat, NEW g \in Seq(Nat), NEW b \in Seq(Nat), Recent(g, b, now),
           NEW k \in 0..Len(b), Popped(b, k)
    PROVE  Recent(g, SubSeq(b, k + 1, Len(b)), now)
<1> DEFINE rest == SubSeq(b, k + 1, Len(b))
           gone == Len(g) - Len(b)
<1>1. /\ rest \in Seq(Nat) /\ Len(rest) = Len(b) - k
      /\ \A i \in 1..Len(rest) : rest[i] = b[k + i]
  BY Rest
<1> HIDE DEF rest
<1>2. Len(g) - Len(rest) = gone + k
  BY <1>1
<1>3. ASSUME NEW i \in 1..Len(rest) PROVE rest[i] = g[gone + k + i]
  <2>1. k + i \in 1..Len(b) /\ gone + (k + i) = gone + k + i
    BY <1>1 DEF Recent
  <2>2. b[k + i] = g[gone + (k + i)]
    BY <2>1 DEF Recent
  <2> QED
    BY <1>1, <2>1, <2>2
<1>4. ASSUME NEW i \in 1..(gone + k) PROVE g[i] + Window <= now
  <2>1. CASE i <= gone
    BY <2>1 DEF Recent
  <2>2. CASE ~(i <= gone)
    <3>1. i - gone \in 1..k /\ i - gone \in 1..Len(b)
      BY <2>2 DEF Recent
    <3>2. b[i - gone] = g[i] /\ b[i - gone] + Window <= now
      BY <3>1 DEF Recent, Popped, Stale
    <3> QED
      BY <3>2
  <2> QED
    BY <2>1, <2>2
<1>5. Recent(g, rest, now)
  BY <1>1, <1>2, <1>3, <1>4 DEF Recent
<1> QED
  BY <1>5 DEF rest

\* A grant into a bucket with room comes a window after the one Limit before it.
LEMMA GrantKeepsWindow ==
    ASSUME now \in Nat, NEW g \in Seq(Nat), NEW b \in Seq(Nat),
           Recent(g, b, now), Spaced(g), Len(b) < Limit
    PROVE  Recent(Append(g, now), Append(b, now), now) /\ Spaced(Append(g, now))
<1> DEFINE g2 == Append(g, now)
           b2 == Append(b, now)
           gone == Len(g) - Len(b)
<1>1. /\ g2 \in Seq(Nat) /\ Len(g2) = Len(g) + 1 /\ g2[Len(g) + 1] = now
      /\ \A i \in 1..Len(g) : g2[i] = g[i]
  BY AppendProperties
<1>2. /\ b2 \in Seq(Nat) /\ Len(b2) = Len(b) + 1 /\ b2[Len(b) + 1] = now
      /\ \A i \in 1..Len(b) : b2[i] = b[i]
  BY AppendProperties
<1> HIDE DEF g2, b2
<1>3. Recent(g2, b2, now)
  <2>1. Len(g2) - Len(b2) = gone /\ gone \in Nat
    BY <1>1, <1>2 DEF Recent
  <2>2. ASSUME NEW i \in 1..Len(b2) PROVE b2[i] = g2[gone + i]
    <3>1. CASE i = Len(b) + 1
      BY <1>1, <1>2, <2>1, <3>1
    <3>2. CASE i \in 1..Len(b)
      <4>1. b[i] = g[gone + i]
        BY <3>2 DEF Recent
      <4>2. gone + i \in 1..Len(g)
        BY <2>1, <3>2
      <4> QED
        BY <1>1, <1>2, <3>2, <4>1, <4>2
    <3> QED
      BY <1>2, <3>1, <3>2
  <2>3. ASSUME NEW i \in 1..gone PROVE g2[i] + Window <= now
    <3>1. g[i] + Window <= now
      BY DEF Recent
    <3>2. i \in 1..Len(g)
      BY <2>1
    <3> QED
      BY <1>1, <3>1, <3>2
  <2>4. Len(b2) <= Limit
    BY <1>2, LenProperties
  <2> QED
    BY <2>1, <2>2, <2>3, <2>4 DEF Recent
<1>4. Spaced(g2)
  <2> SUFFICES ASSUME NEW i \in 1..Len(g2), i + Limit <= Len(g2)
               PROVE  g2[i] + Window <= g2[i + Limit]
    BY DEF Spaced
  <2>1. CASE i + Limit <= Len(g)
    <3>1. i \in 1..Len(g) /\ i + Limit \in 1..Len(g)
      BY <1>1, <2>1
    <3>2. g[i] + Window <= g[i + Limit]
      BY <2>1, <3>1 DEF Spaced
    <3> QED
      BY <1>1, <3>1, <3>2
  <2>2. CASE i + Limit = Len(g) + 1
    <3>1. i \in 1..gone /\ i \in 1..Len(g)
      BY <1>1, <2>2
    <3>2. g[i] + Window <= now
      BY <3>1 DEF Recent
    <3> QED
      BY <1>1, <2>2, <3>1, <3>2
  <2>3. Len(g) \in Nat /\ Len(g2) = Len(g) + 1
    BY <1>1, LenProperties
  <2>4. i + Limit \in Nat /\ i + Limit <= Len(g) + 1
    BY <2>3
  <2>5. \A m, n \in Nat : m <= n + 1 => m <= n \/ m = n + 1
    OBVIOUS
  <2> QED
    BY <2>1, <2>2, <2>3, <2>4, <2>5
<1> QED
  BY <1>3, <1>4 DEF g2, b2

\* A call of allow keeps the invariant.
LEMMA AllowStep == ASSUME Inv, NEW c \in Clients, Allow(c)
                  PROVE  BucketsAreRecent' /\ WindowHolds'
<1> DEFINE Good(d) == Recent(granted[d], buckets[d], now) /\ Spaced(granted[d])
<1>1. \A d \in Clients : Good(d)
  BY DEF Inv, BucketsAreRecent, WindowHolds, Recent, Spaced
<1>2. PICK k \in 0..Len(buckets[c]) :
        Popped(buckets[c], k) /\ Decide(c, SubSeq(buckets[c], k + 1, Len(buckets[c])))
  BY DEF Allow
<1> DEFINE rest == SubSeq(buckets[c], k + 1, Len(buckets[c]))
<1>3. now \in Nat /\ granted[c] \in Seq(Nat) /\ buckets[c] \in Seq(Nat)
  BY SeqMonotonic DEF Inv, TypeOK
<1>4. rest \in Seq(Nat) /\ Recent(granted[c], rest, now)
  BY <1>1, <1>2, <1>3, Rest, PruneKeepsRecent
<1>5. Decide(c, rest) /\ Spaced(granted[c])
  BY <1>1, <1>2
<1> HIDE DEF rest
<1>6. /\ now' = now
      /\ \A d \in Clients \ {c} : granted'[d] = granted[d] /\ buckets'[d] = buckets[d]
  BY <1>5 DEF Decide, Inv, TypeOK
<1>7. Good(c)'
  <2>1. CASE Len(rest) >= Limit
    <3>1. granted'[c] = granted[c] /\ buckets'[c] = rest
      BY <1>5, <2>1 DEF Decide, Inv, TypeOK
    <3> QED
      BY <1>4, <1>5, <1>6, <3>1
  <2>2. CASE Len(rest) < Limit
    <3>1. granted'[c] = Append(granted[c], now) /\ buckets'[c] = Append(rest, now)
      BY <1>5, <2>2, <1>4, LenProperties DEF Decide, Inv, TypeOK
    <3> QED
      BY <1>3, <1>4, <1>5, <1>6, <2>2, <3>1, GrantKeepsWindow
  <2> QED
    BY <1>4, <2>1, <2>2, LenProperties
<1>8. \A d \in Clients : Good(d)'
  BY <1>1, <1>6, <1>7
<1> QED
  BY <1>8 DEF BucketsAreRecent, WindowHolds, Recent, Spaced

\* The invariant: types, what the buckets are, and what the histories satisfy.
LEMMA InvStep == Inv /\ [Next]_vars => Inv'
<1> SUFFICES ASSUME Inv, [Next]_vars PROVE Inv'
  OBVIOUS
<1>1. TypeOK'
  BY TypeStep DEF Inv
<1>2. CASE Tick
  <2>1. ASSUME NEW c \in Clients, NEW i \in 1..(Len(granted[c]) - Len(buckets[c]))
        PROVE  granted[c][i] + Window <= now'
    <3>1. granted[c] \in Seq(Nat) /\ buckets[c] \in Seq(0..now) /\ now \in Nat
      BY DEF Inv, TypeOK
    <3>2. i \in 1..Len(granted[c]) /\ granted[c][i] \in Nat
      BY <3>1, LenProperties, ElementOfSeq
    <3>3. granted[c][i] + Window <= now
      BY DEF Inv, BucketsAreRecent
    <3> QED
      BY <1>2, <3>1, <3>2, <3>3 DEF Tick
  <2> QED
    BY <1>1, <1>2, <2>1 DEF Tick, Inv, BucketsAreRecent, WindowHolds
<1>3. CASE \E c \in Clients : Allow(c)
  BY <1>1, <1>3, AllowStep DEF Inv
<1>4. CASE UNCHANGED vars
  BY <1>1, <1>4 DEF vars, Inv, BucketsAreRecent, WindowHolds
<1> QED
  BY <1>2, <1>3, <1>4 DEF Next

\* Init leaves nothing granted.
LEMMA InitInv == Init => Inv
  BY DEF Init, Inv, TypeOK, BucketsAreRecent, WindowHolds

\* A bucket is the newest part of its client's history, and nothing that is
\* missing from it still counts.
THEOREM BucketsAreExact == Spec => []BucketsAreRecent
<1>1. Inv => BucketsAreRecent
  BY DEF Inv
<1> QED
  BY <1>1, InitInv, InvStep, PTL DEF Spec

\* No window anywhere in time holds more than Limit grants to one client.
THEOREM LimitIsKept == Spec => []WindowHolds
<1>1. Inv => WindowHolds
  BY DEF Inv
<1> QED
  BY <1>1, InitInv, InvStep, PTL DEF Spec
-----------------------------------------------------------------------------
(* Refusals.                                                               *)

\* A call that refuses has popped nothing: the bucket was full before it, and
\* its first timestamp, the Limit-th newest grant, is still in the window.
LEMMA RefusalHasCause ==
    ASSUME Inv, NEW c \in Clients, Allow(c), ~answer'[c]
    PROVE  /\ Len(granted[c]) >= Limit
           /\ granted[c][Len(granted[c]) - Limit + 1] + Window > now
<1>1. PICK k \in 0..Len(buckets[c]) :
        Popped(buckets[c], k) /\ Decide(c, SubSeq(buckets[c], k + 1, Len(buckets[c])))
  BY DEF Allow
<1> DEFINE rest == SubSeq(buckets[c], k + 1, Len(buckets[c]))
<1>2. now \in Nat /\ granted[c] \in Seq(Nat) /\ buckets[c] \in Seq(Nat)
  BY SeqMonotonic DEF Inv, TypeOK
<1>3. Len(rest) = Len(buckets[c]) - k
  BY <1>2, Rest
<1>4. Decide(c, rest)
  BY <1>1
<1> HIDE DEF rest
<1>5. Len(rest) >= Limit
  <2>1. CASE ~(Len(rest) >= Limit)
    <3>1. answer' = [answer EXCEPT ![c] = TRUE]
      BY <1>4, <2>1 DEF Decide
    <3> QED
      BY <3>1 DEF Inv, TypeOK
  <2> QED
    BY <2>1
<1>6. Len(buckets[c]) <= Limit /\ Len(granted[c]) - Len(buckets[c]) \in Nat
  BY DEF Inv, BucketsAreRecent
<1>7. k = 0 /\ Len(buckets[c]) = Limit
  BY <1>2, <1>3, <1>5, <1>6, LenProperties
<1>8. ~Stale(buckets[c][1])
  BY <1>1, <1>7 DEF Popped
<1>9. buckets[c][1] = granted[c][Len(granted[c]) - Limit + 1]
  <2>1. 1 \in 1..Len(buckets[c])
    BY <1>7
  <2>2. buckets[c][1] = granted[c][Len(granted[c]) - Len(buckets[c]) + 1]
    BY <2>1 DEF Inv, BucketsAreRecent
  <2> QED
    BY <1>7, <2>2
<1>10. buckets[c][1] \in Nat
  BY <1>2, <1>7, ElementOfSeq
<1>11. Len(granted[c]) >= Limit
  BY <1>2, <1>6, <1>7, LenProperties
<1> QED
  BY <1>2, <1>8, <1>9, <1>10, <1>11 DEF Stale

\* Nobody is refused who has not had Limit grants in the window that ends now.
THEOREM RefusalsAreDue == Spec => RefusalIsDue
<1>1. Inv /\ [Next]_vars
        => [\A c \in Clients :
              Allow(c) /\ ~answer'[c]
                => /\ Len(granted[c]) >= Limit
                   /\ granted[c][Len(granted[c]) - Limit + 1] + Window > now]_vars
  BY RefusalHasCause
<1> QED
  BY <1>1, InitInv, InvStep, PTL DEF Spec, RefusalIsDue
=============================================================================
