---------------------------- MODULE ProxyProofs ----------------------------
(***************************************************************************)
(* Theorems about Proxy, for any number of requests, tiers, slots and      *)
(* places to wait.                                                         *)
(***************************************************************************)
EXTENDS Proxy, FiniteSetTheorems, SequenceTheorems, TLAPS

Pcs == {"new", "done"} \cup Suspended

-----------------------------------------------------------------------------
(* The queue of a gate.                                                    *)

\* What is left of a queue behind its element k.
LEMMA Behind ==
    ASSUME NEW S, NEW q \in Seq(S), NEW k \in 0..Len(q)
    PROVE  LET rest == SubSeq(q, k + 1, Len(q))
           IN  /\ rest \in Seq(S)
               /\ Len(rest) = Len(q) - k
               /\ \A i \in 1..Len(rest) : rest[i] = q[k + i]
<1>1. \A i \in (k + 1)..Len(q) : q[i] \in S
  BY ElementOfSeq
<1>2. k + 1 \in Int /\ Len(q) \in Int
  OBVIOUS
<1> QED
  BY <1>1, <1>2, SubSeqProperties

\* A queue without its element i.
LEMMA Removed ==
    ASSUME NEW S, NEW q \in Seq(S), NEW i \in 1..Len(q)
    PROVE  /\ RemoveAt(q, i) \in Seq(S)
           /\ Len(RemoveAt(q, i)) = Len(q) - 1
           /\ \A j \in 1..(Len(q) - 1) :
                RemoveAt(q, i)[j] = q[IF j < i THEN j ELSE j + 1]
<1> DEFINE before == SubSeq(q, 1, i - 1)
           after == SubSeq(q, i + 1, Len(q))
<1>0. Len(q) \in Nat /\ i \in Nat
  BY LenProperties
<1>1. /\ before \in Seq(S) /\ Len(before) = i - 1
      /\ \A j \in 1..(i - 1) : before[j] = q[j]
  <2>1. \A j \in 1..(i - 1) : q[j] \in S
    BY <1>0, ElementOfSeq
  <2>2. 1 \in Int /\ i - 1 \in Int
    BY <1>0
  <2> QED
    BY <1>0, <2>1, <2>2, SubSeqProperties
<1>2. /\ after \in Seq(S) /\ Len(after) = Len(q) - i
      /\ \A j \in 1..Len(after) : after[j] = q[i + j]
  BY <1>0, Behind
<1>3. RemoveAt(q, i) = before \o after
  BY DEF RemoveAt
<1> HIDE DEF before, after
<1>4. /\ before \o after \in Seq(S)
      /\ Len(before \o after) = Len(before) + Len(after)
      /\ \A j \in 1..(Len(before) + Len(after)) :
           (before \o after)[j] = IF j <= Len(before) THEN before[j] ELSE after[j - Len(before)]
  <2>1. before \in Seq(S) /\ after \in Seq(S)
    BY <1>1, <1>2
  <2> QED
    BY <2>1, ConcatProperties
<1>5. ASSUME NEW j \in 1..(Len(q) - 1)
      PROVE  (before \o after)[j] = q[IF j < i THEN j ELSE j + 1]
  <2>1. CASE j < i
    BY <1>0, <1>1, <1>4, <2>1
  <2>2. CASE ~(j < i)
    <3>1. j - (i - 1) \in 1..Len(after) /\ i + (j - (i - 1)) = j + 1
      BY <1>0, <1>2, <2>2
    <3>2. (before \o after)[j] = after[j - (i - 1)]
      BY <1>0, <1>1, <1>2, <1>4, <2>2
    <3>3. after[j - (i - 1)] = q[i + (j - (i - 1))]
      BY <1>2, <3>1
    <3> QED
      BY <2>2, <3>1, <3>2, <3>3
  <2> QED
    BY <2>1, <2>2
<1>6. Len(before \o after) = Len(q) - 1
  BY <1>0, <1>1, <1>2, <1>4
<1>7. before \o after \in Seq(S)
  BY <1>4
<1> QED
  BY <1>3, <1>5, <1>6, <1>7

\* A queue whose members stay queued.
LEMMA ProperKept ==
    ASSUME NEW q \in Seq(Requests), NEW t, NEW p, NEW p2, Proper(q, t, p),
           \A x \in Requests : p[x] = "queued" => p2[x] = "queued"
    PROVE  Proper(q, t, p2)
<1>1. \A i \in 1..Len(q) : q[i] \in Requests
  BY ElementOfSeq
<1> QED
  BY <1>1 DEF Proper

\* Whoever a step neither queues nor takes out stays where it is.
LEMMA QueueKept ==
    ASSUME TypeOK, QueuedOnce, UNCHANGED getters,
           \A q \in Requests : pc[q] = "queued" => pc'[q] = "queued"
    PROVE  QueuedOnce'
<1> SUFFICES ASSUME NEW t \in Tiers PROVE Proper(getters'[t], t, pc')
  BY DEF QueuedOnce
<1>1. getters[t] \in Seq(Requests) /\ Proper(getters[t], t, pc)
  BY DEF TypeOK, QueuedOnce
<1> QED
  BY <1>1, ProperKept

\* The part of a queue behind its element i, which is taken out.
LEMMA ProperBehind ==
    ASSUME NEW q \in Seq(Requests), NEW t, NEW p, NEW p2, Proper(q, t, p),
           NEW i \in 1..Len(q), NEW r, p[r] # "queued",
           \A x \in Requests \ {q[i], r} : p2[x] = p[x]
    PROVE  /\ SubSeq(q, i + 1, Len(q)) \in Seq(Requests)
           /\ Proper(SubSeq(q, i + 1, Len(q)), t, p2)
<1> DEFINE rest == SubSeq(q, i + 1, Len(q))
<1>1. Len(q) \in Nat /\ i \in Nat /\ i \in 0..Len(q)
  BY LenProperties
<1>2. /\ rest \in Seq(Requests) /\ Len(rest) = Len(q) - i
      /\ \A j \in 1..Len(rest) : rest[j] = q[i + j]
  BY <1>1, Behind
<1> HIDE DEF rest
<1>3. ASSUME NEW j \in 1..Len(rest)
      PROVE  j \in Nat /\ i + j \in 1..Len(q) /\ i + j # i
  BY <1>1, <1>2
<1>4. ASSUME NEW j \in 1..Len(rest)
      PROVE  Tier[rest[j]] = t /\ p2[rest[j]] = "queued"
  <2>1. rest[j] = q[i + j] /\ q[i + j] \in Requests
    BY <1>2, <1>3, ElementOfSeq
  <2>2. q[i + j] # q[i] /\ q[i + j] # r /\ p[q[i + j]] = "queued" /\ Tier[q[i + j]] = t
    BY <1>3 DEF Proper
  <2> QED
    BY <2>1, <2>2
<1>5. ASSUME NEW j \in 1..Len(rest), NEW k \in 1..Len(rest), rest[j] = rest[k]
      PROVE  j = k
  <2>1. i + j \in 1..Len(q) /\ i + k \in 1..Len(q) /\ q[i + j] = q[i + k]
    BY <1>2, <1>3, <1>5
  <2>2. i + j = i + k
    BY <2>1 DEF Proper
  <2> QED
    BY <1>1, <1>3, <2>2
<1> QED
  BY <1>2, <1>4, <1>5 DEF Proper, rest

\* A queue one member of which goes.
LEMMA ProperRemoved ==
    ASSUME NEW q \in Seq(Requests), NEW t, NEW p, NEW p2, Proper(q, t, p),
           NEW i \in 1..Len(q), \A x \in Requests \ {q[i]} : p2[x] = p[x]
    PROVE  RemoveAt(q, i) \in Seq(Requests) /\ Proper(RemoveAt(q, i), t, p2)
<1> DEFINE rest == RemoveAt(q, i)
           old(j) == IF j < i THEN j ELSE j + 1
<1>1. /\ rest \in Seq(Requests) /\ Len(rest) = Len(q) - 1
      /\ \A j \in 1..(Len(q) - 1) : rest[j] = q[old(j)]
  BY Removed
<1>2. Len(q) \in Nat /\ i \in Nat
  BY LenProperties
<1> HIDE DEF rest
<1>3. ASSUME NEW j \in 1..Len(rest)
      PROVE  j \in Nat /\ old(j) \in 1..Len(q) /\ old(j) # i /\ rest[j] = q[old(j)]
  BY <1>1, <1>2
<1>4. ASSUME NEW j \in 1..Len(rest), NEW k \in 1..Len(rest), old(j) = old(k)
      PROVE  j = k
  BY <1>3, <1>4
<1> HIDE DEF old
<1>5. ASSUME NEW j \in 1..Len(rest)
      PROVE  Tier[rest[j]] = t /\ p2[rest[j]] = "queued"
  <2>1. q[old(j)] \in Requests /\ q[old(j)] # q[i]
    BY <1>2, <1>3, ElementOfSeq DEF Proper
  <2> QED
    BY <1>3, <2>1 DEF Proper
<1>6. ASSUME NEW j \in 1..Len(rest), NEW k \in 1..Len(rest), rest[j] = rest[k]
      PROVE  j = k
  <2>1. old(j) = old(k)
    BY <1>3, <1>6 DEF Proper
  <2> QED
    BY <1>4, <2>1
<1> QED
  BY <1>1, <1>5, <1>6 DEF Proper, rest

\* A queue a request joins that is in no queue.
LEMMA ProperJoined ==
    ASSUME NEW q \in Seq(Requests), NEW t, NEW p, NEW p2, Proper(q, t, p),
           NEW r \in Requests, Tier[r] = t, p[r] # "queued", p2[r] = "queued",
           \A x \in Requests \ {r} : p2[x] = p[x]
    PROVE  Append(q, r) \in Seq(Requests) /\ Proper(Append(q, r), t, p2)
<1> DEFINE longer == Append(q, r)
<1>1. /\ longer \in Seq(Requests) /\ Len(longer) = Len(q) + 1
      /\ longer[Len(q) + 1] = r /\ \A j \in 1..Len(q) : longer[j] = q[j]
  BY AppendProperties
<1>2. Len(q) \in Nat
  BY LenProperties
<1> HIDE DEF longer
<1>3. ASSUME NEW j \in 1..Len(longer) PROVE j = Len(q) + 1 \/ j \in 1..Len(q)
  BY <1>1, <1>2
<1>4. ASSUME NEW j \in 1..Len(q)
      PROVE  /\ longer[j] = q[j] /\ q[j] \in Requests /\ q[j] # r
             /\ Tier[q[j]] = t /\ p2[q[j]] = "queued"
  BY <1>1, ElementOfSeq DEF Proper
<1>5. ASSUME NEW j \in 1..Len(longer)
      PROVE  Tier[longer[j]] = t /\ p2[longer[j]] = "queued"
  BY <1>1, <1>3, <1>4
<1>6. ASSUME NEW j \in 1..Len(longer), NEW k \in 1..Len(longer), longer[j] = longer[k]
      PROVE  j = k
  BY <1>1, <1>3, <1>4, <1>6 DEF Proper
<1> QED
  BY <1>1, <1>5, <1>6 DEF Proper, longer

\* A wake-up takes one live getter, and the cancelled ones before it, from the
\* queue and changes the program counter of no other request.
LEMMA WakeEffect ==
    ASSUME TypeOK, QueuedOnce, NEW t \in Tiers, NEW r \in Requests,
           pc[r] # "queued", WakeNext(t, [pc EXCEPT ![r] = "done"])
    PROVE  /\ pc' \in [Requests -> Pcs] /\ pc'[r] = "done"
           /\ \A q \in Requests \ {r} :
                pc'[q] = pc[q] \/ (pc[q] = "queued" /\ pc'[q] = "woken")
           /\ getters' \in [Tiers -> Seq(Requests)]
           /\ QueuedOnce'
<1>1. /\ getters[t] \in Seq(Requests) /\ getters \in [Tiers -> Seq(Requests)]
      /\ pc \in [Requests -> Pcs]
      /\ \A u \in Tiers : Proper(getters[u], u, pc)
  BY DEF TypeOK, QueuedOnce, Pcs
<1>2. CASE pc' = [pc EXCEPT ![r] = "done"] /\ getters' = [getters EXCEPT ![t] = <<>>]
  <2>1. getters' \in [Tiers -> Seq(Requests)] /\ pc' \in [Requests -> Pcs]
    BY <1>1, <1>2, EmptySeq DEF Pcs
  <2>2. ASSUME NEW u \in Tiers \ {t} PROVE Proper(getters'[u], u, pc')
    <3>1. \A j \in 1..Len(getters[u]) : getters[u][j] \in Requests
      BY <1>1, ElementOfSeq
    <3>2. getters'[u] = getters[u] /\ \A q \in Requests \ {r} : pc'[q] = pc[q]
      BY <1>1, <1>2
    <3> QED
      BY <1>1, <3>1, <3>2 DEF Proper
  <2>3. Proper(getters'[t], t, pc')
    BY <1>1, <1>2 DEF Proper
  <2> QED
    BY <1>1, <1>2, <2>1, <2>2, <2>3 DEF QueuedOnce
<1>3. ASSUME NEW i \in DOMAIN getters[t],
             getters' = [getters EXCEPT ![t] = SubSeq(getters[t], i + 1, Len(getters[t]))],
             pc' = [[pc EXCEPT ![r] = "done"] EXCEPT ![getters[t][i]] = "woken"]
      PROVE  /\ pc' \in [Requests -> Pcs] /\ pc'[r] = "done"
             /\ \A q \in Requests \ {r} :
                  pc'[q] = pc[q] \/ (pc[q] = "queued" /\ pc'[q] = "woken")
             /\ getters' \in [Tiers -> Seq(Requests)]
             /\ QueuedOnce'
  <2> DEFINE w == getters[t][i]
  <2>1. i \in 1..Len(getters[t])
    BY <1>1, LenProperties
  <2>2. w \in Requests /\ pc[w] = "queued" /\ Tier[w] = t /\ w # r
    BY <1>1, <2>1, ElementOfSeq DEF Proper
  <2> HIDE DEF w
  <2>3. /\ pc' \in [Requests -> Pcs] /\ pc'[r] = "done" /\ pc'[w] = "woken"
        /\ \A q \in Requests \ {r, w} : pc'[q] = pc[q]
    BY <1>1, <1>3, <2>2 DEF Pcs, Suspended, Waiting, w
  <2>4. /\ SubSeq(getters[t], i + 1, Len(getters[t])) \in Seq(Requests)
        /\ Proper(SubSeq(getters[t], i + 1, Len(getters[t])), t, pc')
    BY <1>1, <2>1, <2>3, ProperBehind DEF w
  <2>5. /\ getters' \in [Tiers -> Seq(Requests)]
        /\ getters'[t] = SubSeq(getters[t], i + 1, Len(getters[t]))
        /\ \A u \in Tiers \ {t} : getters'[u] = getters[u]
    BY <1>1, <1>3, <2>4
  <2>6. ASSUME NEW u \in Tiers \ {t} PROVE Proper(getters'[u], u, pc')
    <3>1. \A j \in 1..Len(getters[u]) : getters[u][j] \in Requests
      BY <1>1, ElementOfSeq
    <3>2. \A j \in 1..Len(getters[u]) : getters[u][j] # w /\ getters[u][j] # r
      BY <1>1, <2>2 DEF Proper
    <3>3. \A j \in 1..Len(getters[u]) : pc'[getters[u][j]] = pc[getters[u][j]]
      BY <2>3, <3>1, <3>2
    <3>4. Proper(getters[u], u, pc) /\ getters'[u] = getters[u]
      BY <1>1, <2>5
    <3> QED
      BY <3>3, <3>4 DEF Proper
  <2> QED
    BY <2>2, <2>3, <2>4, <2>5, <2>6 DEF QueuedOnce
<1> QED
  BY <1>2, <1>3 DEF WakeNext

\* A waiter that gives up leaves the others where they are.
LEMMA LeaveEffect ==
    ASSUME TypeOK, QueuedOnce, NEW r \in Requests,
           LeaveQueue(r, Tier[r]), pc' = [pc EXCEPT ![r] = "done"]
    PROVE  getters' \in [Tiers -> Seq(Requests)] /\ QueuedOnce'
<1>1. /\ Tier[r] \in Tiers /\ getters \in [Tiers -> Seq(Requests)]
      /\ \A t \in Tiers : Proper(getters[t], t, pc)
      /\ \A x \in Requests \ {r} : pc'[x] = pc[x]
  BY TierType DEF TypeOK, QueuedOnce
<1>2. ASSUME NEW t \in Tiers, getters'[t] = getters[t],
             \A i \in 1..Len(getters[t]) : getters[t][i] # r
      PROVE  Proper(getters'[t], t, pc')
  <2>1. \A i \in 1..Len(getters[t]) : getters[t][i] \in Requests
    BY <1>1, ElementOfSeq
  <2> QED
    BY <1>1, <1>2, <2>1 DEF Proper
<1>3. ASSUME NEW t \in Tiers, t # Tier[r]
      PROVE  \A i \in 1..Len(getters[t]) : getters[t][i] # r
  BY <1>1, <1>3 DEF Proper
<1>4. CASE /\ UNCHANGED getters
           /\ \A i \in DOMAIN getters[Tier[r]] : getters[Tier[r]][i] # r
  <2>1. \A i \in 1..Len(getters[Tier[r]]) : getters[Tier[r]][i] # r
    BY <1>1, <1>4, LenProperties
  <2>2. \A t \in Tiers : Proper(getters'[t], t, pc')
    BY <1>2, <1>3, <1>4, <2>1
  <2> QED
    BY <1>1, <1>4, <2>2 DEF QueuedOnce
<1>5. ASSUME NEW i \in DOMAIN getters[Tier[r]], getters[Tier[r]][i] = r,
             getters' = [getters EXCEPT ![Tier[r]] = RemoveAt(@, i)]
      PROVE  getters' \in [Tiers -> Seq(Requests)] /\ QueuedOnce'
  <2>1. i \in 1..Len(getters[Tier[r]])
    BY <1>1, LenProperties
  <2>2. /\ RemoveAt(getters[Tier[r]], i) \in Seq(Requests)
        /\ Proper(RemoveAt(getters[Tier[r]], i), Tier[r], pc')
    <3> DEFINE q == getters[Tier[r]]
               p2 == pc'
    <3>1. q \in Seq(Requests) /\ Proper(q, Tier[r], pc) /\ i \in 1..Len(q)
      BY <1>1, <2>1
    <3>2. \A x \in Requests \ {q[i]} : p2[x] = pc[x]
      BY <1>1, <1>5
    <3> HIDE DEF q, p2
    <3>3. RemoveAt(q, i) \in Seq(Requests) /\ Proper(RemoveAt(q, i), Tier[r], p2)
      BY <3>1, <3>2, ProperRemoved
    <3> QED
      BY <3>3 DEF q, p2
  <2>3. /\ getters' \in [Tiers -> Seq(Requests)]
        /\ getters'[Tier[r]] = RemoveAt(getters[Tier[r]], i)
        /\ \A t \in Tiers \ {Tier[r]} : getters'[t] = getters[t]
    BY <1>1, <1>5, <2>2
  <2>4. \A t \in Tiers : Proper(getters'[t], t, pc')
    BY <1>2, <1>3, <2>2, <2>3
  <2> QED
    BY <2>3, <2>4 DEF QueuedOnce
<1> QED
  BY <1>4, <1>5 DEF LeaveQueue

\* A request that begins to wait, or waits again, is behind all others.
LEMMA JoinEffect ==
    ASSUME TypeOK, QueuedOnce, NEW r \in Requests, pc[r] # "queued",
           getters' = [getters EXCEPT ![Tier[r]] = Append(@, r)],
           pc' = [pc EXCEPT ![r] = "queued"]
    PROVE  getters' \in [Tiers -> Seq(Requests)] /\ QueuedOnce'
<1>1. /\ Tier[r] \in Tiers /\ getters \in [Tiers -> Seq(Requests)]
      /\ \A t \in Tiers : Proper(getters[t], t, pc)
      /\ pc'[r] = "queued" /\ \A x \in Requests \ {r} : pc'[x] = pc[x]
  BY TierType DEF TypeOK, QueuedOnce
<1>2. /\ Append(getters[Tier[r]], r) \in Seq(Requests)
      /\ Proper(Append(getters[Tier[r]], r), Tier[r], pc')
  <2> DEFINE q == getters[Tier[r]]
             p2 == pc'
  <2>1. q \in Seq(Requests) /\ Proper(q, Tier[r], pc)
    BY <1>1
  <2>2. p2[r] = "queued" /\ \A x \in Requests \ {r} : p2[x] = pc[x]
    BY <1>1
  <2> HIDE DEF q, p2
  <2>3. Append(q, r) \in Seq(Requests) /\ Proper(Append(q, r), Tier[r], p2)
    BY <2>1, <2>2, ProperJoined
  <2> QED
    BY <2>3 DEF q, p2
<1>3. /\ getters' \in [Tiers -> Seq(Requests)]
      /\ getters'[Tier[r]] = Append(getters[Tier[r]], r)
      /\ \A t \in Tiers \ {Tier[r]} : getters'[t] = getters[t]
  BY <1>1, <1>2
<1>4. \A t \in Tiers \ {Tier[r]} : Proper(getters'[t], t, pc')
  <2>1. ASSUME NEW t \in Tiers, t # Tier[r] PROVE Proper(getters[t], t, pc')
    <3>1. getters[t] \in Seq(Requests) /\ Proper(getters[t], t, pc)
      BY <1>1
    <3>2. \A x \in Requests : pc[x] = "queued" => pc'[x] = "queued"
      BY <1>1
    <3> QED
      BY <3>1, <3>2, ProperKept
  <2> QED
    BY <1>3, <2>1
<1>5. \A t \in Tiers : Proper(getters'[t], t, pc')
  BY <1>2, <1>3, <1>4
<1> QED
  BY <1>3, <1>5 DEF QueuedOnce

-----------------------------------------------------------------------------
(* The slots, the waiters and the maintenance gate.                        *)

USE TierType, SlotsType, PendingType
    DEF Waiting, BeforeTheGate, WithSlot, Suspended

\* A step of r does no more to another request than wake it.
OthersWake(r) ==
    \A q \in Requests \ {r} : pc'[q] = pc[q] \/ (pc[q] = "queued" /\ pc'[q] = "woken")

\* A step that neither takes a slot nor returns one.
LEMMA SlotsKept ==
    ASSUME SlotsAreConserved, UNCHANGED <<held, tokens>>,
           \A q \in Requests : pc'[q] \in WithSlot <=> pc[q] \in WithSlot
    PROVE  SlotsAreConserved'
BY DEF SlotsAreConserved

\* A slot that is taken was nobody's.
LEMMA SlotTaken ==
    ASSUME TypeOK, SlotsAreConserved, NEW r \in Requests, pc[r] \notin WithSlot, Take(r)
    PROVE  /\ tokens' \in [Tiers -> SUBSET AllSlots]
           /\ held' \in [Requests -> AllSlots \cup {None}]
           /\ SlotsAreConserved'
<1>1. PICK s \in tokens[Tier[r]] :
        /\ tokens' = [tokens EXCEPT ![Tier[r]] = @ \ {s}]
        /\ held' = [held EXCEPT ![r] = s]
        /\ pc' = [pc EXCEPT ![r] = "recheck"]
  BY DEF Take, Goto
<1>2. s \in Slots[Tier[r]] /\ s # None /\ held[r] = None /\ s \in AllSlots
  BY DEF SlotsAreConserved, TypeOK
<1>3. /\ tokens' \in [Tiers -> SUBSET AllSlots]
      /\ held' \in [Requests -> AllSlots \cup {None}]
      /\ held'[r] = s /\ \A q \in Requests \ {r} : held'[q] = held[q]
      /\ tokens'[Tier[r]] = tokens[Tier[r]] \ {s}
      /\ \A t \in Tiers \ {Tier[r]} : tokens'[t] = tokens[t]
      /\ pc'[r] = "recheck" /\ \A q \in Requests \ {r} : pc'[q] = pc[q]
  BY <1>1, <1>2 DEF TypeOK
<1>4. \A q \in Requests : held'[q] # None <=> pc'[q] \in WithSlot
  BY <1>2, <1>3 DEF SlotsAreConserved
<1>5. \A q \in Requests :
        held'[q] # None => held'[q] \in Slots[Tier[q]] \ tokens'[Tier[q]]
  BY <1>2, <1>3 DEF SlotsAreConserved
<1>6. \A q \in Requests \ {r} : ~(held'[q] = s /\ Tier[q] = Tier[r])
  BY <1>2, <1>3 DEF SlotsAreConserved
<1>7. \A p, q \in Requests :
        held'[p] = held'[q] /\ held'[p] # None /\ Tier[p] = Tier[q] => p = q
  BY <1>3, <1>6 DEF SlotsAreConserved
<1>8. ASSUME NEW t \in Tiers
      PROVE  /\ tokens'[t] \subseteq Slots[t]
             /\ \A x \in Slots[t] \ tokens'[t] :
                  \E q \in Requests : Tier[q] = t /\ held'[q] = x
  <2>1. ASSUME NEW x \in Slots[t] \ tokens[t]
        PROVE  \E q \in Requests : Tier[q] = t /\ held'[q] = x
    <3>1. PICK q \in Requests : Tier[q] = t /\ held[q] = x
      BY DEF SlotsAreConserved
    <3>2. q # r
      BY <1>2, <3>1
    <3> QED
      BY <1>3, <3>1, <3>2
  <2> QED
    BY <1>3, <2>1 DEF SlotsAreConserved
<1> QED
  BY <1>3, <1>4, <1>5, <1>7, <1>8 DEF SlotsAreConserved

\* A slot that is returned is free again, and everybody else keeps theirs.
LEMMA SlotReturned ==
    ASSUME TypeOK, SlotsAreConserved, NEW r \in Requests, pc[r] \in WithSlot,
           tokens' = [tokens EXCEPT ![Tier[r]] = @ \cup {held[r]}],
           held' = [held EXCEPT ![r] = None],
           pc'[r] = "done", OthersWake(r)
    PROVE  /\ tokens' \in [Tiers -> SUBSET AllSlots]
           /\ held' \in [Requests -> AllSlots \cup {None}]
           /\ SlotsAreConserved'
<1>1. /\ held[r] # None /\ held[r] \in Slots[Tier[r]] \ tokens[Tier[r]]
      /\ held[r] \in AllSlots
  BY DEF SlotsAreConserved, TypeOK
<1>2. /\ tokens' \in [Tiers -> SUBSET AllSlots]
      /\ held' \in [Requests -> AllSlots \cup {None}]
      /\ held'[r] = None /\ \A q \in Requests \ {r} : held'[q] = held[q]
      /\ tokens'[Tier[r]] = tokens[Tier[r]] \cup {held[r]}
      /\ \A t \in Tiers \ {Tier[r]} : tokens'[t] = tokens[t]
  BY <1>1 DEF TypeOK
<1>3. \A q \in Requests : held'[q] # None <=> pc'[q] \in WithSlot
  BY <1>2 DEF SlotsAreConserved, OthersWake
<1>4. \A q \in Requests :
        held'[q] # None => held'[q] \in Slots[Tier[q]] \ tokens'[Tier[q]]
  BY <1>1, <1>2 DEF SlotsAreConserved
<1>5. \A p, q \in Requests :
        held'[p] = held'[q] /\ held'[p] # None /\ Tier[p] = Tier[q] => p = q
  BY <1>2 DEF SlotsAreConserved
<1>6. ASSUME NEW t \in Tiers
      PROVE  /\ tokens'[t] \subseteq Slots[t]
             /\ \A x \in Slots[t] \ tokens'[t] :
                  \E q \in Requests : Tier[q] = t /\ held'[q] = x
  <2>1. ASSUME NEW x \in Slots[t] \ tokens'[t]
        PROVE  \E q \in Requests : Tier[q] = t /\ held'[q] = x
    <3>1. x \in Slots[t] \ tokens[t]
      BY <1>2
    <3>2. PICK q \in Requests : Tier[q] = t /\ held[q] = x
      BY <3>1 DEF SlotsAreConserved
    <3>3. q # r
      BY <1>2, <2>1, <3>2
    <3> QED
      BY <1>2, <3>2, <3>3
  <2> QED
    BY <1>1, <1>2, <2>1 DEF SlotsAreConserved
<1> QED
  BY <1>2, <1>3, <1>4, <1>5, <1>6 DEF SlotsAreConserved

\* The requests that wait are finitely many.
LEMMA WaitersFinite == \A t \in Tiers : IsFiniteSet(Waiters(t))
  BY RequestsFinite, FS_Subset DEF Waiters

\* Nobody begins or ends to wait.
LEMMA CountKept ==
    ASSUME WaitersAreCounted, UNCHANGED pending,
           \A q \in Requests : pc'[q] \in Waiting <=> pc[q] \in Waiting
    PROVE  WaitersAreCounted'
<1>1. \A t \in Tiers : Waiters(t)' = Waiters(t)
  BY DEF Waiters
<1> QED
  BY <1>1 DEF WaitersAreCounted

\* One request begins to wait.
LEMMA CountJoins ==
    ASSUME TypeOK, WaitersAreCounted, NEW r \in Requests,
           pc[r] \notin Waiting, pc' = [pc EXCEPT ![r] = "queued"],
           pending' = [pending EXCEPT ![Tier[r]] = @ + 1]
    PROVE  pending' \in [Tiers -> Nat] /\ WaitersAreCounted'
<1>1. Waiters(Tier[r])' = Waiters(Tier[r]) \cup {r} /\ r \notin Waiters(Tier[r])
  BY DEF Waiters, TypeOK
<1>2. \A t \in Tiers \ {Tier[r]} : Waiters(t)' = Waiters(t)
  BY DEF Waiters, TypeOK
<1>3. Cardinality(Waiters(Tier[r])') = Cardinality(Waiters(Tier[r])) + 1
  BY <1>1, WaitersFinite, FS_AddElement
<1> QED
  BY <1>2, <1>3 DEF WaitersAreCounted, TypeOK

\* One request ends to wait, whatever it wakes.
LEMMA CountLeaves ==
    ASSUME TypeOK, WaitersAreCounted, NEW r \in Requests,
           pc[r] \in Waiting, pc'[r] \notin Waiting, OthersWake(r),
           pending' = [pending EXCEPT ![Tier[r]] = @ - 1]
    PROVE  pending' \in [Tiers -> Nat] /\ WaitersAreCounted'
<1>1. Waiters(Tier[r])' = Waiters(Tier[r]) \ {r} /\ r \in Waiters(Tier[r])
  BY DEF Waiters, TypeOK, OthersWake
<1>2. \A t \in Tiers \ {Tier[r]} : Waiters(t)' = Waiters(t)
  BY DEF Waiters, TypeOK, OthersWake
<1>3. /\ Cardinality(Waiters(Tier[r])') = Cardinality(Waiters(Tier[r])) - 1
      /\ Cardinality(Waiters(Tier[r])) \in Nat /\ Cardinality(Waiters(Tier[r])') \in Nat
  BY <1>1, WaitersFinite, FS_RemoveElement, FS_CardinalityType
<1> QED
  BY <1>2, <1>3 DEF WaitersAreCounted, TypeOK

\* A step of r in which nothing is learnt of the maintenance file.
LEMMA SawKept ==
    ASSUME TypeOK, MaintenanceHonoured, SawOpenWithSlot, NEW r \in Requests,
           UNCHANGED <<seen, maintenance, sawOpen>>, OthersWake(r),
           \A q \in Requests : held'[q] = held[q] \/ held'[q] = None,
           pc'[r] # "rechecked",
           pc'[r] \in {"sending", "streaming", "closing"} => r \in sawOpen
    PROVE  MaintenanceHonoured' /\ SawOpenWithSlot'
BY DEF TypeOK, MaintenanceHonoured, SawOpenWithSlot, OthersWake

-----------------------------------------------------------------------------
(* The inductive invariant, by the handler step that is taken.             *)

\* A handler goes on, keeping what it holds and waiting neither before nor after.
LEMMA MoveStep ==
    ASSUME ProxyInvariant, NEW r \in Requests, NEW there \in Pcs \ {"rechecked"},
           pc' = [pc EXCEPT ![r] = there],
           pc[r] \notin Waiting, there \notin Waiting,
           there \in WithSlot <=> pc[r] \in WithSlot,
           there \in {"sending", "streaming", "closing"} => r \in sawOpen,
           UNCHANGED <<seen, held, gates, maintenance, sawOpen>>,
           cancelling' \in [Requests -> BOOLEAN], outcome' \in [Requests -> Outcomes]
    PROVE  ProxyInvariant'
<1>1. pc' \in [Requests -> Pcs] /\ pc'[r] = there /\ \A q \in Requests \ {r} : pc'[q] = pc[q]
  BY DEF ProxyInvariant, TypeOK, Pcs
<1>2. TypeOK'
  BY <1>1 DEF ProxyInvariant, TypeOK, Pcs, gates
<1>3. SlotsAreConserved'
  BY <1>1, SlotsKept DEF ProxyInvariant, gates
<1>4. WaitersAreCounted'
  BY <1>1, CountKept DEF ProxyInvariant, gates
<1>5. QueuedOnce'
  BY <1>1, QueueKept DEF ProxyInvariant, gates
<1>6. MaintenanceHonoured' /\ SawOpenWithSlot'
  BY <1>1, SawKept DEF ProxyInvariant, OthersWake
<1> QED
  BY <1>2, <1>3, <1>4, <1>5, <1>6 DEF ProxyInvariant

\* A handler ends and returns its slot.
LEMMA ReleaseStep ==
    ASSUME ProxyInvariant, NEW r \in Requests, NEW why \in Outcomes,
           pc[r] \in WithSlot, Release(r, why),
           UNCHANGED <<seen, pending, maintenance, sawOpen>>,
           cancelling' \in [Requests -> BOOLEAN]
    PROVE  ProxyInvariant' /\ OthersWake(r) /\ pc'[r] = "done"
<1>1. WakeNext(Tier[r], [pc EXCEPT ![r] = "done"]) /\ Tier[r] \in Tiers
  BY DEF Release
<1>2. /\ pc' \in [Requests -> Pcs] /\ pc'[r] = "done" /\ OthersWake(r)
      /\ getters' \in [Tiers -> Seq(Requests)] /\ QueuedOnce'
  BY <1>1, WakeEffect DEF ProxyInvariant, OthersWake
<1>3. /\ tokens' \in [Tiers -> SUBSET AllSlots]
      /\ held' \in [Requests -> AllSlots \cup {None}]
      /\ SlotsAreConserved'
  BY <1>2, SlotReturned DEF ProxyInvariant, Release
<1>4. TypeOK'
  BY <1>2, <1>3 DEF ProxyInvariant, TypeOK, Release, Pcs
<1>5. WaitersAreCounted'
  BY <1>2, CountKept DEF ProxyInvariant, OthersWake
<1>6. \A q \in Requests : held'[q] = held[q] \/ held'[q] = None
  BY DEF Release, ProxyInvariant, TypeOK
<1>7. MaintenanceHonoured' /\ SawOpenWithSlot'
  BY <1>2, <1>6, SawKept DEF ProxyInvariant
<1> QED
  BY <1>2, <1>3, <1>4, <1>5, <1>7 DEF ProxyInvariant

\* A handler takes a slot, coming from the gate's door or from its queue.
LEMMA TakeStep ==
    ASSUME ProxyInvariant, NEW r \in Requests, ~cancelling[r],
           \/ pc[r] = "body" /\ UNCHANGED pending
           \/ pc[r] = "woken" /\ pending' = [pending EXCEPT ![Tier[r]] = @ - 1],
           Take(r), UNCHANGED <<cancelling, seen, outcome, getters, maintenance>>
    PROVE  ProxyInvariant'
<1>1. /\ pc' = [pc EXCEPT ![r] = "recheck"] /\ pc' \in [Requests -> Pcs]
      /\ pc'[r] = "recheck" /\ \A q \in Requests \ {r} : pc'[q] = pc[q]
  BY DEF Take, Goto, ProxyInvariant, TypeOK, Pcs
<1>2. /\ tokens' \in [Tiers -> SUBSET AllSlots]
      /\ held' \in [Requests -> AllSlots \cup {None}]
      /\ SlotsAreConserved'
  BY SlotTaken DEF ProxyInvariant
<1>3. pending' \in [Tiers -> Nat] /\ WaitersAreCounted'
  <2>1. CASE pc[r] = "body" /\ UNCHANGED pending
    BY <1>1, <2>1, CountKept DEF ProxyInvariant, TypeOK
  <2>2. CASE pc[r] = "woken" /\ pending' = [pending EXCEPT ![Tier[r]] = @ - 1]
    BY <1>1, <2>2, CountLeaves DEF ProxyInvariant, OthersWake
  <2> QED
    BY <2>1, <2>2
<1>4. sawOpen' = (IF maintenance THEN sawOpen ELSE sawOpen \cup {r})
  BY DEF Take
<1>5. TypeOK'
  BY <1>1, <1>2, <1>3, <1>4 DEF ProxyInvariant, TypeOK, Pcs
<1>6. QueuedOnce'
  BY <1>1, QueueKept DEF ProxyInvariant
<1>7. \A q \in Requests \ {r} : held'[q] = held[q]
  BY DEF Take, ProxyInvariant, TypeOK
<1>8. MaintenanceHonoured' /\ SawOpenWithSlot'
  BY <1>1, <1>4, <1>7 DEF ProxyInvariant, MaintenanceHonoured, SawOpenWithSlot
<1> QED
  BY <1>2, <1>3, <1>5, <1>6, <1>8 DEF ProxyInvariant

\* A handler begins to wait, or waits again.
LEMMA JoinStep ==
    ASSUME ProxyInvariant, NEW r \in Requests,
           \/ pc[r] = "body" /\ pending' = [pending EXCEPT ![Tier[r]] = @ + 1]
           \/ pc[r] = "woken" /\ UNCHANGED pending,
           pc' = [pc EXCEPT ![r] = "queued"],
           getters' = [getters EXCEPT ![Tier[r]] = Append(@, r)],
           UNCHANGED <<cancelling, seen, held, outcome, tokens, maintenance, sawOpen>>
    PROVE  ProxyInvariant'
<1>1. /\ pc' \in [Requests -> Pcs]
      /\ pc'[r] = "queued" /\ \A q \in Requests \ {r} : pc'[q] = pc[q]
  BY DEF ProxyInvariant, TypeOK, Pcs
<1>2. getters' \in [Tiers -> Seq(Requests)] /\ QueuedOnce'
  BY JoinEffect DEF ProxyInvariant
<1>3. pending' \in [Tiers -> Nat] /\ WaitersAreCounted'
  <2>1. CASE pc[r] = "body" /\ pending' = [pending EXCEPT ![Tier[r]] = @ + 1]
    BY <2>1, CountJoins DEF ProxyInvariant
  <2>2. CASE pc[r] = "woken" /\ UNCHANGED pending
    BY <1>1, <2>2, CountKept DEF ProxyInvariant, TypeOK
  <2> QED
    BY <2>1, <2>2
<1>4. TypeOK'
  BY <1>1, <1>2, <1>3 DEF ProxyInvariant, TypeOK, Pcs
<1>5. SlotsAreConserved'
  BY <1>1, SlotsKept DEF ProxyInvariant
<1>6. MaintenanceHonoured' /\ SawOpenWithSlot'
  BY <1>1, SawKept DEF ProxyInvariant, OthersWake
<1> QED
  BY <1>2, <1>3, <1>4, <1>5, <1>6 DEF ProxyInvariant

\* A waiter that is cancelled.
LEMMA UnwindWaitingStep ==
    ASSUME ProxyInvariant, NEW r \in Requests, UnwindWaiting(r),
           UNCHANGED <<seen, maintenance, sawOpen>>,
           cancelling' \in [Requests -> BOOLEAN]
    PROVE  ProxyInvariant' /\ OthersWake(r) /\ pc'[r] = "done"
<1>1. /\ pc' \in [Requests -> Pcs] /\ pc'[r] = "done" /\ OthersWake(r)
      /\ getters' \in [Tiers -> Seq(Requests)] /\ QueuedOnce'
  <2>1. CASE pc[r] = "queued" /\ LeaveQueue(r, Tier[r]) /\ Goto(r, "done")
    BY <2>1, LeaveEffect DEF ProxyInvariant, TypeOK, Goto, Pcs, OthersWake
  <2>2. CASE pc[r] = "woken" /\ Goto(r, "done") /\ UNCHANGED getters
    BY <2>2, QueueKept DEF ProxyInvariant, TypeOK, Goto, Pcs, OthersWake
  <2>3. CASE pc[r] = "woken" /\ WakeNext(Tier[r], [pc EXCEPT ![r] = "done"])
    BY <2>3, WakeEffect DEF ProxyInvariant, OthersWake
  <2> QED
    BY <2>1, <2>2, <2>3 DEF UnwindWaiting
<1>2. /\ pc[r] \in Waiting /\ pending' = [pending EXCEPT ![Tier[r]] = @ - 1]
      /\ outcome' = [outcome EXCEPT ![r] = "cancelled"] /\ UNCHANGED <<held, tokens>>
  BY DEF UnwindWaiting
<1>3. pending' \in [Tiers -> Nat] /\ WaitersAreCounted'
  BY <1>1, <1>2, CountLeaves DEF ProxyInvariant
<1>4. TypeOK'
  BY <1>1, <1>2, <1>3 DEF ProxyInvariant, TypeOK, Pcs, Outcomes
<1>5. SlotsAreConserved'
  BY <1>1, <1>2, SlotsKept DEF ProxyInvariant, OthersWake
<1>6. MaintenanceHonoured' /\ SawOpenWithSlot'
  BY <1>1, <1>2, SawKept DEF ProxyInvariant
<1> QED
  BY <1>1, <1>3, <1>4, <1>5, <1>6 DEF ProxyInvariant

\* The maintenance file is read for a request.
LEMMA ReadStep ==
    ASSUME ProxyInvariant, NEW r \in Requests, ReadMaintenance(r) PROVE ProxyInvariant'
<1>1. PICK there \in {"checked", "rechecked"} :
        /\ pc' = [pc EXCEPT ![r] = there]
        /\ pc[r] = IF there = "checked" THEN "check" ELSE "recheck"
  BY DEF ReadMaintenance, At, Goto
<1>2. /\ seen' = [seen EXCEPT ![r] = maintenance]
      /\ UNCHANGED <<cancelling, held, outcome, tokens, getters, pending, maintenance, sawOpen>>
  BY DEF ReadMaintenance, gates
<1>3. pc' \in [Requests -> Pcs] /\ pc'[r] = there /\ \A q \in Requests \ {r} : pc'[q] = pc[q]
  BY <1>1 DEF ProxyInvariant, TypeOK, Pcs
<1>4. TypeOK'
  BY <1>2, <1>3 DEF ProxyInvariant, TypeOK, Pcs
<1>5. \A q \in Requests : /\ pc'[q] \in WithSlot <=> pc[q] \in WithSlot
                          /\ pc'[q] \in Waiting <=> pc[q] \in Waiting
                          /\ pc[q] = "queued" => pc'[q] = "queued"
  BY <1>1, <1>3
<1>6. SlotsAreConserved' /\ WaitersAreCounted' /\ QueuedOnce'
  BY <1>2, <1>5, SlotsKept, CountKept, QueueKept DEF ProxyInvariant
<1>7. MaintenanceHonoured'
  BY <1>1, <1>2, <1>3 DEF ProxyInvariant, MaintenanceHonoured
<1>8. SawOpenWithSlot'
  <2>1. pc[r] = "recheck" => held[r] # None
    BY DEF ProxyInvariant, SlotsAreConserved
  <2>2. seen'[r] = maintenance /\ \A q \in Requests \ {r} : seen'[q] = seen[q]
    BY <1>2 DEF ProxyInvariant, TypeOK
  <2> QED
    BY <1>1, <1>2, <1>3, <2>1, <2>2 DEF ProxyInvariant, SawOpenWithSlot
<1> QED
  BY <1>4, <1>6, <1>7, <1>8 DEF ProxyInvariant

\* Nothing but the maintenance file changes.
LEMMA ToggleStep == ASSUME ProxyInvariant, Toggle PROVE ProxyInvariant'
<1>1. UNCHANGED <<pc, cancelling, seen, held, outcome, tokens, getters, pending>>
  BY DEF Toggle, handler, gates
<1>2. TypeOK'
  BY <1>1 DEF ProxyInvariant, TypeOK, Toggle
<1>3. SlotsAreConserved' /\ WaitersAreCounted' /\ QueuedOnce'
  BY <1>1, SlotsKept, CountKept, QueueKept DEF ProxyInvariant
<1>4. sawOpen \subseteq sawOpen'
      /\ \A r \in Requests : held[r] # None /\ ~maintenance' => r \in sawOpen'
  BY DEF Toggle, ProxyInvariant, TypeOK
<1>5. MaintenanceHonoured' /\ SawOpenWithSlot'
  BY <1>1, <1>4 DEF ProxyInvariant, MaintenanceHonoured, SawOpenWithSlot
<1> QED
  BY <1>2, <1>3, <1>5 DEF ProxyInvariant

\* What is still to be told about the outcome of a request is one of Outcomes.
LEMMA OutcomeType ==
    ASSUME TypeOK, NEW r \in Requests, NEW why \in Outcomes
    PROVE  [outcome EXCEPT ![r] = why] \in [Requests -> Outcomes]
BY DEF TypeOK

\* The steps in which a client takes part.
LEMMA ClientStep ==
    ASSUME ProxyInvariant, NEW r \in Requests, Client(r) PROVE ProxyInvariant'
<1>0. TypeOK
  BY DEF ProxyInvariant
<1>1. CASE Arrive(r)
  <2>1. PICK there \in {"done", "check"} : pc' = [pc EXCEPT ![r] = there]
    BY <1>1 DEF Arrive, Finish, Goto
  <2>2. outcome' \in [Requests -> Outcomes]
    BY <1>0, <1>1, OutcomeType DEF Arrive, Finish, Outcomes, TypeOK
  <2> QED
    BY <1>0, <1>1, <2>1, <2>2, MoveStep DEF Arrive, Pcs, TypeOK
<1>2. CASE RejectBody(r)
  <2>1. outcome' \in [Requests -> Outcomes]
    BY <1>0, <1>2, OutcomeType DEF RejectBody, Finish, Outcomes
  <2>2. PICK there \in {"done"} : pc' = [pc EXCEPT ![r] = there]
    BY <1>2 DEF RejectBody, Finish, Goto
  <2> QED
    BY <1>0, <1>2, <2>1, <2>2, MoveStep DEF RejectBody, At, Pcs, TypeOK
<1>3. CASE Acquire(r)
  <2>1. pc[r] = "body" /\ ~cancelling[r] /\ UNCHANGED <<cancelling, seen, maintenance>>
    BY <1>3 DEF Acquire, At
  <2>2. CASE Take(r) /\ UNCHANGED <<outcome, getters, pending>>
    BY <2>1, <2>2, TakeStep
  <2>3. CASE Finish(r, "queue_full")
             /\ UNCHANGED <<held, tokens, getters, pending, sawOpen>>
    <3>1. outcome' \in [Requests -> Outcomes]
      BY <1>0, <2>3, OutcomeType DEF Finish, Outcomes
    <3>2. PICK there \in {"done"} : pc' = [pc EXCEPT ![r] = there]
      BY <2>3 DEF Finish, Goto
    <3> QED
      BY <1>0, <2>1, <2>3, <3>1, <3>2, MoveStep DEF Pcs, TypeOK, gates
  <2>4. CASE /\ pending' = [pending EXCEPT ![Tier[r]] = @ + 1]
             /\ getters' = [getters EXCEPT ![Tier[r]] = Append(@, r)]
             /\ Goto(r, "queued")
             /\ UNCHANGED <<held, outcome, tokens, sawOpen>>
    BY <2>1, <2>4, JoinStep DEF Goto
  <2> QED
    BY <1>3, <2>2, <2>3, <2>4 DEF Acquire
<1> QED
  BY <1>1, <1>2, <1>3 DEF Client

\* The steps of a handler.
LEMMA HandleStep ==
    ASSUME ProxyInvariant, NEW r \in Requests, Handle(r) PROVE ProxyInvariant'
<1>0. TypeOK
  BY DEF ProxyInvariant
<1>1. CASE ReadMaintenance(r)
  BY <1>1, ReadStep
<1>2. CASE FirstCheck(r)
  <2>1. PICK there \in {"done", "body"} : pc' = [pc EXCEPT ![r] = there]
    BY <1>2 DEF FirstCheck, Finish, Goto
  <2>2. outcome' \in [Requests -> Outcomes]
    BY <1>0, <1>2, OutcomeType DEF FirstCheck, Finish, Outcomes, TypeOK
  <2> QED
    BY <1>0, <1>2, <2>1, <2>2, MoveStep DEF FirstCheck, At, Pcs, TypeOK
<1>3. CASE Resume(r)
  <2>1. pc[r] = "woken" /\ ~cancelling[r]
        /\ UNCHANGED <<cancelling, seen, outcome, maintenance>>
    BY <1>3 DEF Resume, At
  <2>2. CASE Take(r) /\ pending' = [pending EXCEPT ![Tier[r]] = @ - 1]
             /\ UNCHANGED getters
    BY <2>1, <2>2, TakeStep
  <2>3. CASE /\ getters' = [getters EXCEPT ![Tier[r]] = Append(@, r)]
             /\ Goto(r, "queued")
             /\ UNCHANGED <<held, tokens, pending, sawOpen>>
    BY <2>1, <2>3, JoinStep DEF Goto
  <2> QED
    BY <1>3, <2>2, <2>3 DEF Resume
<1>4. CASE Recheck(r)
  <2>1. pc[r] = "rechecked" /\ UNCHANGED <<cancelling, seen, pending, maintenance, sawOpen>>
    BY <1>4 DEF Recheck, At
  <2>2. CASE Release(r, "maintenance")
    BY <1>0, <2>1, <2>2, ReleaseStep DEF TypeOK, Outcomes
  <2>3. CASE ~seen[r] /\ Goto(r, "sending") /\ UNCHANGED <<held, outcome, tokens, getters>>
    <3>1. r \in sawOpen
      BY <2>1, <2>3 DEF ProxyInvariant, SawOpenWithSlot
    <3>2. PICK there \in {"sending"} : pc' = [pc EXCEPT ![r] = there]
      BY <2>3 DEF Goto
    <3> QED
      BY <1>0, <2>1, <2>3, <3>1, <3>2, MoveStep DEF Pcs, TypeOK, gates
  <2> QED
    BY <1>4, <2>2, <2>3 DEF Recheck
<1>5. CASE Upstream(r)
  <2>1. pc[r] = "sending" /\ UNCHANGED <<cancelling, seen, pending, maintenance, sawOpen>>
    BY <1>5 DEF Upstream, At
  <2>2. CASE Release(r, "upstream_error")
    BY <1>0, <2>1, <2>2, ReleaseStep DEF TypeOK, Outcomes
  <2>3. CASE Goto(r, "streaming") /\ UNCHANGED <<held, outcome, tokens, getters>>
    <3>1. r \in sawOpen
      BY <2>1 DEF ProxyInvariant, MaintenanceHonoured
    <3>2. PICK there \in {"streaming"} : pc' = [pc EXCEPT ![r] = there]
      BY <2>3 DEF Goto
    <3> QED
      BY <1>0, <2>1, <2>3, <3>1, <3>2, MoveStep DEF Pcs, TypeOK, gates
  <2> QED
    BY <1>5, <2>2, <2>3 DEF Upstream
<1>6. CASE StreamEnds(r)
  <2>1. r \in sawOpen
    BY <1>6 DEF StreamEnds, At, ProxyInvariant, MaintenanceHonoured
  <2>2. PICK there \in {"closing"} : pc' = [pc EXCEPT ![r] = there]
    BY <1>6 DEF StreamEnds, Goto
  <2> QED
    BY <1>0, <1>6, <2>1, <2>2, MoveStep DEF StreamEnds, At, Pcs, TypeOK
<1>7. CASE Close(r)
  BY <1>0, <1>7, ReleaseStep DEF Close, At, TypeOK, Outcomes
<1>8. CASE Unwind(r)
  <2>1. /\ cancelling' \in [Requests -> BOOLEAN] /\ UNCHANGED <<seen, maintenance, sawOpen>>
    BY <1>0, <1>8 DEF Unwind, TypeOK
  <2>2. CASE UnwindBeforeTheGate(r)
    <3>1. outcome' \in [Requests -> Outcomes]
      BY <1>0, <2>2, OutcomeType DEF UnwindBeforeTheGate, Finish, Outcomes
    <3>2. PICK there \in {"done"} : pc' = [pc EXCEPT ![r] = there]
      BY <2>2 DEF UnwindBeforeTheGate, Finish, Goto
    <3> QED
      BY <2>1, <2>2, <3>1, <3>2, MoveStep DEF UnwindBeforeTheGate, Pcs
  <2>3. CASE UnwindWaiting(r)
    BY <2>1, <2>3, UnwindWaitingStep
  <2>4. CASE UnwindWithSlot(r)
    <3>1. CASE pc[r] \in WithSlot /\ Release(r, "cancelled") /\ UNCHANGED pending
      BY <2>1, <3>1, ReleaseStep DEF Outcomes
    <3>2. CASE /\ pc[r] = "streaming" /\ Goto(r, "closing")
               /\ UNCHANGED <<held, outcome, tokens, getters, pending>>
      <4>1. r \in sawOpen
        BY <3>2 DEF ProxyInvariant, MaintenanceHonoured
      <4>2. PICK there \in {"closing"} : pc' = [pc EXCEPT ![r] = there]
        BY <3>2 DEF Goto
      <4> QED
        BY <1>0, <2>1, <3>2, <4>1, <4>2, MoveStep DEF Pcs, TypeOK, gates
    <3> QED
      BY <2>4, <3>1, <3>2 DEF UnwindWithSlot
  <2> QED
    BY <1>8, <2>2, <2>3, <2>4 DEF Unwind
<1> QED
  BY <1>1, <1>2, <1>3, <1>4, <1>5, <1>6, <1>7, <1>8 DEF Handle

\* A request to cancel changes nothing but the flag.
LEMMA StillStep ==
    ASSUME ProxyInvariant, UNCHANGED <<pc, seen, held, outcome, gates, maintenance, sawOpen>>,
           cancelling' \in [Requests -> BOOLEAN]
    PROVE  ProxyInvariant'
<1>1. TypeOK'
  BY DEF ProxyInvariant, TypeOK, gates
<1>2. SlotsAreConserved' /\ WaitersAreCounted' /\ QueuedOnce'
  BY SlotsKept, CountKept, QueueKept DEF ProxyInvariant, gates
<1>3. MaintenanceHonoured' /\ SawOpenWithSlot'
  BY DEF ProxyInvariant, MaintenanceHonoured, SawOpenWithSlot
<1> QED
  BY <1>1, <1>2, <1>3 DEF ProxyInvariant

\* The invariant is inductive.
LEMMA InvariantStep == ProxyInvariant /\ [Next]_vars => ProxyInvariant'
<1> SUFFICES ASSUME ProxyInvariant, [Next]_vars PROVE ProxyInvariant'
  OBVIOUS
<1>1. ASSUME NEW r \in Requests, Cancel(r) PROVE ProxyInvariant'
  BY <1>1, StillStep DEF Cancel, ProxyInvariant, TypeOK
<1>2. CASE UNCHANGED vars
  BY <1>2, StillStep DEF vars, handler, ProxyInvariant, TypeOK
<1> QED
  BY <1>1, <1>2, ClientStep, HandleStep, ToggleStep DEF Next

\* It holds at the start.
LEMMA InitialInvariant == Init => ProxyInvariant
<1> SUFFICES ASSUME Init PROVE ProxyInvariant
  OBVIOUS
<1>1. TypeOK
  BY EmptySeq DEF Init, TypeOK, Outcomes
<1>2. SlotsAreConserved
  BY DEF Init, SlotsAreConserved
<1>3. WaitersAreCounted
  <2>1. \A t \in Tiers : Waiters(t) = {}
    BY DEF Init, Waiters
  <2> QED
    BY <2>1, FS_EmptySet DEF Init, WaitersAreCounted
<1>4. QueuedOnce
  BY DEF Init, QueuedOnce, Proper
<1>5. MaintenanceHonoured /\ SawOpenWithSlot
  BY DEF Init, MaintenanceHonoured, SawOpenWithSlot
<1> QED
  BY <1>1, <1>2, <1>3, <1>4, <1>5 DEF ProxyInvariant

-----------------------------------------------------------------------------
(* The gates implement Admission.                                          *)

\* A handler that is not done has said nothing yet.
OpenUntilDone == \A r \in Requests : pc[r] # "done" => outcome[r] = "open"

\* What a step of r does to the queue and to the refusals, as Admission sees them.
Waits == {r \in Requests : pc[r] \in Waiting}
TurnedAway == {r \in Requests : outcome[r] = "queue_full"}

\* No slot to take means that every slot is somebody's.
LEMMA NoTokenIsFull ==
    ASSUME ProxyInvariant, NEW t \in Tiers, tokens[t] = {} PROVE Gate!Full(t)
BY DEF ProxyInvariant, SlotsAreConserved, Gate!Full

\* The counter is what Admission counts.
LEMMA PendingIsQueue ==
    ASSUME ProxyInvariant, NEW t \in Tiers PROVE pending[t] = Gate!Cardinality(Gate!Queue(t))
<1>1. Gate!Queue(t) = Waiters(t)
  BY DEF Gate!Queue, Waiters
<1>2. Gate!Cardinality(Waiters(t)) = Cardinality(Waiters(t))
  BY DEF Cardinality, Gate!Cardinality
<1> QED
  BY <1>1, <1>2 DEF ProxyInvariant, WaitersAreCounted

\* A step that Admission does not see.
LEMMA StutterStep ==
    ASSUME UNCHANGED held,
           \A q \in Requests : pc'[q] \in Waiting <=> pc[q] \in Waiting,
           \A q \in Requests : outcome'[q] = "queue_full" <=> outcome[q] = "queue_full"
    PROVE  UNCHANGED <<held, Waits, TurnedAway>>
BY DEF Waits, TurnedAway

\* A handler that neither waits nor is refused goes on.
LEMMA HandlerStutters ==
    ASSUME TypeOK, OpenUntilDone, NEW r \in Requests, NEW there \in Pcs \ Waiting,
           pc[r] \notin Waiting \cup {"done"}, pc' = [pc EXCEPT ![r] = there],
           UNCHANGED held,
           \/ UNCHANGED outcome /\ there # "done"
           \/ \E why \in Outcomes \ {"queue_full"} :
                outcome' = [outcome EXCEPT ![r] = why] /\ there = "done"
    PROVE  UNCHANGED <<held, Waits, TurnedAway>> /\ OpenUntilDone'
<1>1. pc'[r] = there /\ \A q \in Requests \ {r} : pc'[q] = pc[q]
  BY DEF TypeOK
<1>2. \A q \in Requests \ {r} : outcome'[q] = outcome[q]
  BY DEF TypeOK
<1>3. outcome[r] = "open" /\ outcome'[r] # "queue_full"
      /\ (there # "done" => outcome'[r] = "open")
  BY DEF OpenUntilDone, TypeOK
<1> QED
  BY <1>1, <1>2, <1>3, StutterStep DEF OpenUntilDone

\* A slot that is taken is granted.
LEMMA TakeGrants ==
    ASSUME ProxyInvariant, OpenUntilDone, NEW r \in Requests, pc[r] \in {"body", "woken"},
           Take(r), UNCHANGED outcome
    PROVE  Gate!Grant(r) /\ OpenUntilDone'
<1>1. PICK s \in tokens[Tier[r]] :
        held' = [held EXCEPT ![r] = s] /\ pc' = [pc EXCEPT ![r] = "recheck"]
  BY DEF Take, Goto
<1>2. held[r] = None /\ s \in Slots[Tier[r]]
      /\ \A q \in Requests : Tier[q] = Tier[r] => held[q] # s
  <2>1. Tier[r] \in Tiers /\ tokens[Tier[r]] \subseteq Slots[Tier[r]]
    BY DEF ProxyInvariant, SlotsAreConserved
  <2>2. s \in Slots[Tier[r]] /\ s \in AllSlots /\ s # None
    BY <2>1
  <2>3. held[r] = None
    BY DEF ProxyInvariant, SlotsAreConserved
  <2>4. ASSUME NEW q \in Requests, Tier[q] = Tier[r], held[q] = s PROVE FALSE
    <3>1. held[q] \in Slots[Tier[q]] \ tokens[Tier[q]]
      BY <2>2, <2>4 DEF ProxyInvariant, SlotsAreConserved
    <3> QED
      BY <2>4, <3>1
  <2> QED
    BY <2>2, <2>3, <2>4
<1>3. pc'[r] = "recheck" /\ \A q \in Requests \ {r} : pc'[q] = pc[q]
  BY <1>1 DEF ProxyInvariant, TypeOK
<1>4. Waits' = Waits \ {r} /\ TurnedAway' = TurnedAway
  BY <1>3 DEF Waits, TurnedAway
<1>5. OpenUntilDone'
  BY <1>3 DEF OpenUntilDone
<1> QED
  BY <1>1, <1>2, <1>4, <1>5 DEF Gate!Grant, Waits, TurnedAway

\* A slot that is released is returned.
LEMMA ReleaseReturns ==
    ASSUME ProxyInvariant, OpenUntilDone, NEW r \in Requests, pc[r] \in WithSlot,
           NEW why \in Outcomes \ {"queue_full"}, Release(r, why),
           OthersWake(r), pc'[r] = "done"
    PROVE  Gate!Return(r) /\ OpenUntilDone'
<1>1. held[r] # None /\ held' = [held EXCEPT ![r] = None]
      /\ outcome' = [outcome EXCEPT ![r] = why]
  BY DEF Release, ProxyInvariant, SlotsAreConserved
<1>2. outcome[r] = "open" /\ outcome'[r] = why
      /\ \A q \in Requests \ {r} : outcome'[q] = outcome[q]
  BY <1>1 DEF ProxyInvariant, TypeOK, OpenUntilDone
<1>3. Waits' = Waits
  BY DEF Waits, OthersWake
<1>4. TurnedAway' = TurnedAway
  BY <1>2 DEF TurnedAway
<1>5. OpenUntilDone'
  BY <1>2 DEF OpenUntilDone, OthersWake
<1> QED
  BY <1>1, <1>3, <1>4, <1>5 DEF Gate!Return, Waits, TurnedAway

\* A waiter that is cancelled gives up.
LEMMA UnwindGivesUp ==
    ASSUME ProxyInvariant, OpenUntilDone, NEW r \in Requests, UnwindWaiting(r),
           OthersWake(r), pc'[r] = "done"
    PROVE  Gate!GiveUp(r) /\ OpenUntilDone'
<1>1. pc[r] \in Waiting /\ outcome' = [outcome EXCEPT ![r] = "cancelled"] /\ UNCHANGED held
  BY DEF UnwindWaiting
<1>2. outcome[r] = "open" /\ outcome'[r] = "cancelled"
      /\ \A q \in Requests \ {r} : outcome'[q] = outcome[q]
  BY <1>1 DEF ProxyInvariant, TypeOK, OpenUntilDone
<1>3. Waits' = Waits \ {r} /\ r \in Waits
  BY <1>1 DEF Waits, OthersWake
<1>4. TurnedAway' = TurnedAway
  BY <1>2 DEF TurnedAway
<1>5. OpenUntilDone'
  BY <1>2 DEF OpenUntilDone, OthersWake
<1> QED
  BY <1>1, <1>3, <1>4, <1>5 DEF Gate!GiveUp, Waits, TurnedAway
\* What a client does is a step of Admission, or none.
LEMMA ClientRefines ==
    ASSUME ProxyInvariant, OpenUntilDone, NEW r \in Requests, Client(r)
    PROVE  (Gate!Next \/ UNCHANGED <<held, Waits, TurnedAway>>) /\ OpenUntilDone'
<1>0. TypeOK
  BY DEF ProxyInvariant
<1>1. CASE Arrive(r)
  <2>1. PICK there \in {"done", "check"} :
          /\ pc' = [pc EXCEPT ![r] = there]
          /\ \/ UNCHANGED outcome /\ there # "done"
             \/ outcome' = [outcome EXCEPT ![r] = "rejected"] /\ there = "done"
    BY <1>1 DEF Arrive, Finish, Goto
  <2>2. \/ UNCHANGED outcome /\ there # "done"
        \/ \E why \in Outcomes \ {"queue_full"} :
             outcome' = [outcome EXCEPT ![r] = why] /\ there = "done"
    BY <2>1 DEF Outcomes
  <2> QED
    BY <1>0, <1>1, <2>1, <2>2, HandlerStutters DEF Arrive, Pcs
<1>2. CASE RejectBody(r)
  <2>1. PICK there \in {"done"} : pc' = [pc EXCEPT ![r] = there]
    BY <1>2 DEF RejectBody, Finish, Goto
  <2>2. \E why \in Outcomes \ {"queue_full"} : outcome' = [outcome EXCEPT ![r] = why]
    BY <1>2 DEF RejectBody, Finish, Outcomes
  <2> QED
    BY <1>0, <1>2, <2>1, <2>2, HandlerStutters DEF RejectBody, At, Pcs
<1>3. CASE Acquire(r)
  <2>0. pc[r] = "body" /\ Tier[r] \in Tiers /\ r \notin Waits
    BY <1>3 DEF Acquire, At, Waits
  <2>1. CASE Take(r) /\ UNCHANGED <<outcome, getters, pending>>
    BY <2>0, <2>1, TakeGrants DEF Gate!Next
  <2>2. CASE /\ tokens[Tier[r]] = {} /\ pending[Tier[r]] >= MaxPending[Tier[r]]
             /\ Finish(r, "queue_full") /\ UNCHANGED held
    <3>1. Waits' = Waits
      BY <1>0, <2>0, <2>2 DEF Finish, Goto, Waits, TypeOK
    <3>2. TurnedAway' = TurnedAway \cup {r} /\ OpenUntilDone'
      BY <1>0, <2>0, <2>2 DEF Finish, Goto, TurnedAway, TypeOK, OpenUntilDone
    <3>3. Gate!Full(Tier[r]) /\ pending[Tier[r]] = Gate!Cardinality(Gate!Queue(Tier[r]))
      BY <2>0, <2>2, NoTokenIsFull, PendingIsQueue
    <3>4. Gate!Refuse(r)
      BY <2>0, <2>2, <3>1, <3>2, <3>3 DEF Gate!Refuse, Waits, TurnedAway
    <3> QED
      BY <3>2, <3>4 DEF Gate!Next
  <2>3. CASE /\ tokens[Tier[r]] = {} /\ pending[Tier[r]] < MaxPending[Tier[r]]
             /\ Goto(r, "queued") /\ UNCHANGED <<held, outcome>>
    <3>1. Waits' = Waits \cup {r}
      BY <1>0, <2>0, <2>3 DEF Goto, Waits, TypeOK
    <3>2. TurnedAway' = TurnedAway /\ OpenUntilDone'
      BY <1>0, <2>0, <2>3 DEF Goto, TurnedAway, TypeOK, OpenUntilDone
    <3>3. Gate!Full(Tier[r]) /\ pending[Tier[r]] = Gate!Cardinality(Gate!Queue(Tier[r]))
      BY <2>0, <2>3, NoTokenIsFull, PendingIsQueue
    <3>4. Gate!Wait(r)
      BY <2>0, <2>3, <3>1, <3>2, <3>3 DEF Gate!Wait, Waits, TurnedAway
    <3> QED
      BY <3>2, <3>4 DEF Gate!Next
  <2> QED
    BY <1>3, <2>1, <2>2, <2>3 DEF Acquire
<1> QED
  BY <1>1, <1>2, <1>3 DEF Client

\* What a handler does is a step of Admission, or none.
LEMMA HandleRefines ==
    ASSUME ProxyInvariant, OpenUntilDone, NEW r \in Requests, Handle(r)
    PROVE  (Gate!Next \/ UNCHANGED <<held, Waits, TurnedAway>>) /\ OpenUntilDone'
<1>0. TypeOK
  BY DEF ProxyInvariant
<1>1. CASE ReadMaintenance(r)
  <2>1. PICK there \in {"checked", "rechecked"} : pc' = [pc EXCEPT ![r] = there]
    BY <1>1 DEF ReadMaintenance, Goto
  <2>2. pc[r] \notin Waiting \cup {"done"} /\ UNCHANGED <<held, outcome>>
    BY <1>1 DEF ReadMaintenance, At
  <2> QED
    BY <1>0, <2>1, <2>2, HandlerStutters DEF Pcs
<1>2. CASE FirstCheck(r)
  <2>1. PICK there \in {"done", "body"} :
          /\ pc' = [pc EXCEPT ![r] = there]
          /\ \/ UNCHANGED outcome /\ there # "done"
             \/ /\ there = "done"
                /\ \/ outcome' = [outcome EXCEPT ![r] = "maintenance"]
                   \/ outcome' = [outcome EXCEPT ![r] = "rate_limited"]
    BY <1>2 DEF FirstCheck, Finish, Goto
  <2>2. \/ UNCHANGED outcome /\ there # "done"
        \/ \E why \in Outcomes \ {"queue_full"} :
             outcome' = [outcome EXCEPT ![r] = why] /\ there = "done"
    BY <2>1 DEF Outcomes
  <2> QED
    BY <1>0, <1>2, <2>1, <2>2, HandlerStutters DEF FirstCheck, At, Pcs
<1>3. CASE Resume(r)
  <2>1. pc[r] = "woken" /\ UNCHANGED outcome
    BY <1>3 DEF Resume, At
  <2>2. CASE Take(r)
    BY <2>1, <2>2, TakeGrants DEF Gate!Next
  <2>3. CASE Goto(r, "queued") /\ UNCHANGED held
    <3>1. pc'[r] = "queued" /\ \A q \in Requests \ {r} : pc'[q] = pc[q]
      BY <1>0, <2>3 DEF Goto, TypeOK
    <3> QED
      BY <2>1, <2>3, <3>1, StutterStep DEF OpenUntilDone
  <2> QED
    BY <1>3, <2>2, <2>3 DEF Resume
<1>4. ASSUME pc[r] \in WithSlot, UNCHANGED <<seen, pending, maintenance, sawOpen>>,
             cancelling' \in [Requests -> BOOLEAN],
             NEW why \in Outcomes \ {"queue_full"}, Release(r, why)
      PROVE  Gate!Next /\ OpenUntilDone'
  <2>1. OthersWake(r) /\ pc'[r] = "done"
    BY <1>4, ReleaseStep
  <2> QED
    BY <1>4, <2>1, ReleaseReturns DEF Gate!Next
<1>5. ASSUME pc[r] \in WithSlot, NEW there \in WithSlot, Goto(r, there),
             UNCHANGED <<held, outcome>>
      PROVE  UNCHANGED <<held, Waits, TurnedAway>> /\ OpenUntilDone'
  <2>1. there \in Pcs \ Waiting /\ there # "done" /\ pc[r] \notin Waiting \cup {"done"}
    BY <1>5 DEF Pcs
  <2> QED
    BY <1>0, <1>5, <2>1, HandlerStutters DEF Goto
<1>6. "maintenance" \in Outcomes \ {"queue_full"} /\ "upstream_error" \in Outcomes \ {"queue_full"}
      /\ "answered" \in Outcomes \ {"queue_full"} /\ "cancelled" \in Outcomes \ {"queue_full"}
  BY DEF Outcomes
<1>7. CASE Recheck(r)
  BY <1>0, <1>4, <1>5, <1>6, <1>7 DEF Recheck, At, TypeOK
<1>8. CASE Upstream(r)
  BY <1>0, <1>4, <1>5, <1>6, <1>8 DEF Upstream, At, TypeOK
<1>9. CASE StreamEnds(r)
  BY <1>5, <1>9 DEF StreamEnds, At
<1>10. CASE Close(r)
  BY <1>0, <1>4, <1>6, <1>10 DEF Close, At, TypeOK
<1>11. CASE Unwind(r)
  <2>1. /\ cancelling' \in [Requests -> BOOLEAN] /\ UNCHANGED <<seen, maintenance, sawOpen>>
    BY <1>0, <1>11 DEF Unwind, TypeOK
  <2>2. CASE UnwindBeforeTheGate(r)
    <3>1. PICK there \in {"done"} : pc' = [pc EXCEPT ![r] = there]
      BY <2>2 DEF UnwindBeforeTheGate, Finish, Goto
    <3>2. \E why \in Outcomes \ {"queue_full"} : outcome' = [outcome EXCEPT ![r] = why]
      BY <2>2, <1>6 DEF UnwindBeforeTheGate, Finish
    <3> QED
      BY <1>0, <2>2, <3>1, <3>2, HandlerStutters DEF UnwindBeforeTheGate, Pcs
  <2>3. CASE UnwindWaiting(r)
    <3>1. OthersWake(r) /\ pc'[r] = "done"
      BY <2>1, <2>3, UnwindWaitingStep
    <3> QED
      BY <2>3, <3>1, UnwindGivesUp DEF Gate!Next
  <2>4. CASE UnwindWithSlot(r)
    BY <1>4, <1>5, <1>6, <2>1, <2>4 DEF UnwindWithSlot
  <2> QED
    BY <1>11, <2>2, <2>3, <2>4 DEF Unwind
<1> QED
  BY <1>1, <1>2, <1>3, <1>7, <1>8, <1>9, <1>10, <1>11 DEF Handle

\* Every step of the proxy is one of Admission, or none.
LEMMA StepRefines ==
    ProxyInvariant /\ OpenUntilDone /\ [Next]_vars
      => [Gate!Next]_<<held, Waits, TurnedAway>> /\ OpenUntilDone'
<1> SUFFICES ASSUME ProxyInvariant, OpenUntilDone, [Next]_vars
             PROVE  [Gate!Next]_<<held, Waits, TurnedAway>> /\ OpenUntilDone'
  OBVIOUS
<1>1. CASE UNCHANGED <<pc, held, outcome>>
  BY <1>1, StutterStep DEF OpenUntilDone
<1>2. ASSUME NEW r \in Requests, Cancel(r) PROVE UNCHANGED <<pc, held, outcome>>
  BY <1>2 DEF Cancel
<1>3. Toggle \/ UNCHANGED vars => UNCHANGED <<pc, held, outcome>>
  BY DEF Toggle, vars, handler
<1> QED
  BY <1>1, <1>2, <1>3, ClientRefines, HandleRefines DEF Next

-----------------------------------------------------------------------------
(* No wake-up is lost.                                                     *)

\* The requests a wake-up is on its way to, and those a free slot concerns.
Woken(t) == {r \in Requests : Tier[r] = t /\ pc[r] = "woken"}
Unwoken(t) == {r \in Requests : Tier[r] = t /\ At(r, "queued")}
Covered(t) == Unwoken(t) # {} => Cardinality(tokens[t]) <= Cardinality(Woken(t))

AllCovered == \A t \in Tiers : Covered(t)

\* NoIdleSlot, tier by tier.
LEMMA IdleIsCovered == NoIdleSlot <=> AllCovered
<1>1. ASSUME NEW t \in Tiers
      PROVE  /\ {r \in Waiters(t) : pc[r] = "woken"} = Woken(t)
             /\ (\E r \in Waiters(t) : At(r, "queued")) <=> Unwoken(t) # {}
  BY DEF Waiters, Woken, Unwoken, At
<1> QED
  BY <1>1 DEF NoIdleSlot, AllCovered, Covered

\* A step after which each tier is covered, and everybody live is queued.
LEMMA WakeupKept ==
    ASSUME LiveAreQueued', \A t \in Tiers : Covered(t)' PROVE WakeupInvariant'
<1>1. AllCovered'
  BY DEF AllCovered
<1>2. AllCovered' => NoIdleSlot'
  BY IdleIsCovered, PTL
<1> QED
  BY <1>1, <1>2 DEF WakeupInvariant

\* What there is to count is finite.
LEMMA Countable ==
    ASSUME ProxyInvariant, NEW t \in Tiers
    PROVE  /\ IsFiniteSet(tokens[t]) /\ Cardinality(tokens[t]) \in Nat
           /\ IsFiniteSet(Woken(t)) /\ Cardinality(Woken(t)) \in Nat
<1>1. tokens[t] \in SUBSET Slots[t] /\ IsFiniteSet(Slots[t])
  BY Capacity DEF ProxyInvariant, SlotsAreConserved
<1>2. Woken(t) \in SUBSET Requests /\ IsFiniteSet(Requests)
  BY RequestsFinite DEF Woken
<1> QED
  BY <1>1, <1>2, FS_Subset, FS_CardinalityType

\* A step after which the same requests have been woken, no slot is free that
\* was not, and nobody waits unwoken who did not.
LEMMA CoverKept ==
    ASSUME ProxyInvariant, NEW t \in Tiers, Covered(t),
           tokens'[t] \subseteq tokens[t], Woken(t)' = Woken(t),
           Unwoken(t)' \subseteq Unwoken(t)
    PROVE  Covered(t)'
<1>1. Cardinality(tokens'[t]) <= Cardinality(tokens[t]) /\ Cardinality(tokens'[t]) \in Nat
  BY Countable, FS_Subset, FS_CardinalityType
<1> QED
  BY <1>1, Countable DEF Covered

\* While no slot is free there is nothing to cover.
LEMMA NothingToCover ==
    ASSUME ProxyInvariant, NEW t \in Tiers, tokens'[t] = {}, IsFiniteSet(Woken(t)')
    PROVE  Covered(t)'
<1>1. Cardinality(tokens'[t]) = 0 /\ Cardinality(Woken(t)') \in Nat
  BY FS_EmptySet, FS_CardinalityType
<1> QED
  BY <1>1 DEF Covered

\* The woken requests are finitely many, after a step as before it.
LEMMA WokenFiniteNext == \A t \in Tiers : IsFiniteSet(Woken(t)')
  BY RequestsFinite, FS_Subset DEF Woken

\* A step that leaves the gates alone and wakes nobody.
LEMMA GatesStill ==
    ASSUME ProxyInvariant, WakeupInvariant, UNCHANGED <<tokens, getters>>,
           \A q \in Requests : At(q, "queued")' => At(q, "queued"),
           \A q \in Requests : pc'[q] = "woken" <=> pc[q] = "woken"
    PROVE  WakeupInvariant'
<1>1. LiveAreQueued'
  BY DEF WakeupInvariant, LiveAreQueued
<1>2. ASSUME NEW t \in Tiers PROVE Covered(t)'
  <2>1. Woken(t)' = Woken(t) /\ Unwoken(t)' \subseteq Unwoken(t)
    BY DEF Woken, Unwoken
  <2> QED
    BY <2>1, CoverKept, IdleIsCovered DEF WakeupInvariant, AllCovered
<1> QED
  BY <1>1, <1>2, WakeupKept

\* A slot that is taken was free, or on its way to the request that takes it.
LEMMA TakeCovers ==
    ASSUME ProxyInvariant, WakeupInvariant, NEW r \in Requests,
           pc[r] \in {"body", "woken"}, Take(r), UNCHANGED <<cancelling, getters>>
    PROVE  WakeupInvariant'
<1>1. PICK s \in tokens[Tier[r]] :
        /\ tokens' = [tokens EXCEPT ![Tier[r]] = @ \ {s}]
        /\ pc' = [pc EXCEPT ![r] = "recheck"]
  BY DEF Take, Goto
<1>2. /\ tokens'[Tier[r]] = tokens[Tier[r]] \ {s} /\ Tier[r] \in Tiers
      /\ \A t \in Tiers \ {Tier[r]} : tokens'[t] = tokens[t]
      /\ pc'[r] = "recheck" /\ \A q \in Requests \ {r} : pc'[q] = pc[q]
  BY <1>1 DEF ProxyInvariant, TypeOK
<1>3. LiveAreQueued'
  BY <1>2 DEF WakeupInvariant, LiveAreQueued, At
<1>4. ASSUME NEW t \in Tiers PROVE Covered(t) /\ Unwoken(t)' = Unwoken(t)
  BY <1>2, IdleIsCovered DEF WakeupInvariant, AllCovered, Unwoken, At
<1>5. ASSUME NEW t \in Tiers, t # Tier[r] \/ pc[r] = "body" PROVE Covered(t)'
  <2>1. Woken(t)' = Woken(t)
    BY <1>2, <1>5 DEF Woken
  <2> QED
    BY <1>2, <1>4, <2>1, CoverKept
<1>6. CASE pc[r] = "woken"
  <2> DEFINE t == Tier[r]
  <2>1. Woken(t)' = Woken(t) \ {r} /\ r \in Woken(t)
    BY <1>2, <1>6 DEF Woken
  <2>2. /\ Cardinality(Woken(t)') = Cardinality(Woken(t)) - 1
        /\ Cardinality(tokens'[t]) = Cardinality(tokens[t]) - 1
    <3>1. IsFiniteSet(Woken(t)) /\ IsFiniteSet(tokens[t]) /\ s \in tokens[t]
      BY <1>1, <1>2, Countable
    <3>2. Cardinality(Woken(t) \ {r}) = Cardinality(Woken(t)) - 1
      BY <2>1, <3>1, FS_RemoveElement
    <3>3. Cardinality(tokens[t] \ {s}) = Cardinality(tokens[t]) - 1
      BY <3>1, FS_RemoveElement
    <3> QED
      BY <1>2, <2>1, <3>2, <3>3
  <2>3. Covered(t)'
    BY <1>2, <1>4, <2>2, Countable DEF Covered
  <2> QED
    BY <1>3, <1>5, <2>3, WakeupKept
<1> QED
  BY <1>3, <1>5, <1>6, WakeupKept

\* Whoever begins to wait finds no slot, and its place is at the end.
LEMMA JoinCovers ==
    ASSUME ProxyInvariant, WakeupInvariant, NEW r \in Requests, tokens[Tier[r]] = {},
           pc' = [pc EXCEPT ![r] = "queued"],
           getters' = [getters EXCEPT ![Tier[r]] = Append(@, r)],
           UNCHANGED <<cancelling, tokens>>
    PROVE  WakeupInvariant'
<1> DEFINE queue == getters[Tier[r]]
<1>1. /\ Tier[r] \in Tiers /\ queue \in Seq(Requests)
      /\ getters'[Tier[r]] = Append(queue, r)
      /\ \A t \in Tiers \ {Tier[r]} : getters'[t] = getters[t]
      /\ pc'[r] = "queued" /\ \A q \in Requests \ {r} : pc'[q] = pc[q]
  BY DEF ProxyInvariant, TypeOK
<1>2. /\ Len(Append(queue, r)) = Len(queue) + 1 /\ Len(queue) \in Nat
      /\ Append(queue, r)[Len(queue) + 1] = r
      /\ \A i \in 1..Len(queue) : Append(queue, r)[i] = queue[i]
  BY <1>1, AppendProperties, LenProperties
<1>3. ASSUME NEW q \in Requests, At(q, "queued")'
      PROVE  \E i \in 1..Len(getters'[Tier[q]]) : getters'[Tier[q]][i] = q
  <2>1. CASE q = r
    BY <1>1, <1>2, <2>1
  <2>2. CASE q # r
    <3>1. \E i \in 1..Len(getters[Tier[q]]) : getters[Tier[q]][i] = q
      BY <1>1, <1>3, <2>2 DEF WakeupInvariant, LiveAreQueued, At
    <3> QED
      BY <1>1, <1>2, <3>1
  <2> QED
    BY <2>1, <2>2
<1>4. ASSUME NEW t \in Tiers PROVE Covered(t)'
  <2>1. CASE t = Tier[r]
    BY <2>1, NothingToCover, WokenFiniteNext
  <2>2. CASE t # Tier[r]
    <3>1. Woken(t)' = Woken(t) /\ Unwoken(t)' = Unwoken(t)
      BY <1>1, <2>2 DEF Woken, Unwoken, At
    <3> QED
      BY <3>1, CoverKept, IdleIsCovered DEF WakeupInvariant, AllCovered
  <2> QED
    BY <2>1, <2>2
<1> QED
  BY <1>3, <1>4, WakeupKept DEF LiveAreQueued

\* What a wake-up at the gate of t leaves behind: either everybody live there was
\* woken already, or one request more has been.
LEMMA WakeCovers ==
    ASSUME ProxyInvariant, WakeupInvariant, NEW t \in Tiers, NEW r \in Requests,
           pc[r] # "queued", WakeNext(t, [pc EXCEPT ![r] = "done"]),
           \A q \in Requests \ {r} : cancelling'[q] = cancelling[q]
    PROVE  /\ LiveAreQueued'
           /\ pc'[r] = "done"
           /\ \/ /\ Unwoken(t)' = {}
                 /\ \A q \in Requests \ {r} : pc'[q] = pc[q]
              \/ \E w \in Requests \ {r} :
                   /\ Tier[w] = t /\ pc[w] = "queued" /\ pc'[w] = "woken"
                   /\ \A q \in Requests \ {r, w} : pc'[q] = pc[q]
<1> DEFINE queue == getters[t]
<1>1. /\ queue \in Seq(Requests) /\ Len(queue) \in Nat /\ DOMAIN queue = 1..Len(queue)
      /\ Proper(queue, t, pc) /\ pc \in [Requests -> Pcs]
  BY LenProperties DEF ProxyInvariant, TypeOK, QueuedOnce, Pcs
<1>2. ASSUME NEW q \in Requests, At(q, "queued")
      PROVE  \E j \in 1..Len(getters[Tier[q]]) : getters[Tier[q]][j] = q
  BY <1>2 DEF WakeupInvariant, LiveAreQueued
<1>3. CASE /\ \A i \in DOMAIN queue : cancelling[queue[i]]
           /\ getters' = [getters EXCEPT ![t] = <<>>]
           /\ pc' = [pc EXCEPT ![r] = "done"]
  <2>1. pc'[r] = "done" /\ \A q \in Requests \ {r} : pc'[q] = pc[q]
    BY <1>1, <1>3
  <2>2. ASSUME NEW q \in Requests, At(q, "queued")' PROVE At(q, "queued") /\ Tier[q] # t
    <3>1. At(q, "queued") /\ ~cancelling[q]
      BY <2>1, <2>2 DEF At
    <3>2. PICK j \in 1..Len(getters[Tier[q]]) : getters[Tier[q]][j] = q
      BY <1>2, <3>1
    <3>3. ASSUME Tier[q] = t PROVE FALSE
      <4>1. j \in DOMAIN queue /\ queue[j] = q
        BY <1>1, <3>2, <3>3
      <4> QED
        BY <1>3, <3>1, <4>1
    <3> QED
      BY <3>1, <3>3
  <2>3. \A u \in Tiers \ {t} : getters'[u] = getters[u]
    BY <1>3 DEF ProxyInvariant, TypeOK
  <2>4. LiveAreQueued'
    BY <1>2, <2>2, <2>3 DEF LiveAreQueued
  <2>5. Unwoken(t)' = {}
    BY <2>2 DEF Unwoken
  <2> QED
    BY <2>1, <2>4, <2>5
<1>4. ASSUME NEW i \in DOMAIN queue, ~cancelling[queue[i]],
             \A j \in DOMAIN queue : ~cancelling[queue[j]] => i <= j,
             getters' = [getters EXCEPT ![t] = SubSeq(queue, i + 1, Len(queue))],
             pc' = [[pc EXCEPT ![r] = "done"] EXCEPT ![queue[i]] = "woken"]
      PROVE  /\ LiveAreQueued' /\ pc'[r] = "done"
             /\ \E w \in Requests \ {r} :
                  /\ Tier[w] = t /\ pc[w] = "queued" /\ pc'[w] = "woken"
                  /\ \A q \in Requests \ {r, w} : pc'[q] = pc[q]
  <2> DEFINE w == queue[i]
             rest == SubSeq(queue, i + 1, Len(queue))
  <2>1. w \in Requests \ {r} /\ Tier[w] = t /\ pc[w] = "queued"
    BY <1>1, <1>4, ElementOfSeq DEF Proper
  <2>2. pc'[r] = "done" /\ pc'[w] = "woken" /\ \A q \in Requests \ {r, w} : pc'[q] = pc[q]
    BY <1>1, <1>4, <2>1
  <2>3. Len(rest) = Len(queue) - i /\ \A j \in 1..Len(rest) : rest[j] = queue[i + j]
    <3>1. i \in 0..Len(queue) /\ queue \in Seq(Requests)
      BY <1>1, <1>4
    <3>2. \A q \in Seq(Requests) : \A k \in 0..Len(q) :
            LET tail == SubSeq(q, k + 1, Len(q))
            IN  Len(tail) = Len(q) - k /\ \A j \in 1..Len(tail) : tail[j] = q[k + j]
      BY Behind
    <3> HIDE DEF queue
    <3> QED
      BY <3>1, <3>2
  <2>4. getters'[t] = rest /\ \A u \in Tiers \ {t} : getters'[u] = getters[u]
    BY <1>4 DEF ProxyInvariant, TypeOK
  <2>5. ASSUME NEW q \in Requests, At(q, "queued")'
        PROVE  \E j \in 1..Len(getters'[Tier[q]]) : getters'[Tier[q]][j] = q
    <3>1. At(q, "queued") /\ ~cancelling[q] /\ q # w
      BY <2>2, <2>5 DEF At
    <3>2. PICK k \in 1..Len(getters[Tier[q]]) : getters[Tier[q]][k] = q
      BY <1>2, <3>1
    <3>3. CASE Tier[q] = t
      <4>1. k \in 1..Len(queue) /\ queue[k] = q
        BY <3>2, <3>3
      <4>2. i <= k /\ k # i
        BY <1>1, <1>4, <3>1, <4>1
      <4> HIDE DEF w, queue
      <4>3. k - i \in 1..Len(rest) /\ i + (k - i) = k
        BY <1>1, <1>4, <2>3, <4>1, <4>2
      <4> HIDE DEF rest
      <4>4. rest[k - i] = q
        BY <2>3, <4>1, <4>3
      <4> QED
        BY <2>4, <3>3, <4>3, <4>4
    <3> QED
      BY <2>4, <3>2, <3>3
  <2> QED
    BY <2>1, <2>2, <2>5 DEF LiveAreQueued
<1> QED
  BY <1>3, <1>4 DEF WakeNext

\* A slot that comes back is on its way to somebody, if anybody can use it.
LEMMA ReleaseCovers ==
    ASSUME ProxyInvariant, WakeupInvariant, NEW r \in Requests, NEW why,
           pc[r] \in WithSlot, Release(r, why),
           \A q \in Requests \ {r} : cancelling'[q] = cancelling[q]
    PROVE  WakeupInvariant'
<1> DEFINE t == Tier[r]
<1>1. /\ WakeNext(t, [pc EXCEPT ![r] = "done"]) /\ t \in Tiers
      /\ tokens'[t] = tokens[t] \cup {held[r]}
      /\ \A u \in Tiers \ {t} : tokens'[u] = tokens[u]
  BY DEF Release, ProxyInvariant, TypeOK
<1>2. /\ LiveAreQueued' /\ pc'[r] = "done"
      /\ \/ /\ Unwoken(t)' = {}
            /\ \A q \in Requests \ {r} : pc'[q] = pc[q]
         \/ \E w \in Requests \ {r} :
              /\ Tier[w] = t /\ pc[w] = "queued" /\ pc'[w] = "woken"
              /\ \A q \in Requests \ {r, w} : pc'[q] = pc[q]
  BY <1>1, WakeCovers
<1>3. \A u \in Tiers : Covered(u)
  BY IdleIsCovered DEF WakeupInvariant, AllCovered
<1>4. ASSUME NEW u \in Tiers, u # t PROVE Covered(u)'
  <2>1. Woken(u)' = Woken(u) /\ Unwoken(u)' = Unwoken(u)
    BY <1>2, <1>4 DEF Woken, Unwoken, At
  <2> QED
    BY <1>1, <1>3, <1>4, <2>1, CoverKept
<1>5. Covered(t)'
  <2>1. CASE Unwoken(t)' = {}
    BY <2>1 DEF Covered
  <2>2. ASSUME NEW w \in Requests \ {r}, Tier[w] = t, pc[w] = "queued", pc'[w] = "woken",
               \A q \in Requests \ {r, w} : pc'[q] = pc[q]
        PROVE  Covered(t)'
    <3>1. Woken(t)' = Woken(t) \cup {w} /\ w \notin Woken(t)
      BY <1>2, <2>2 DEF Woken
    <3>2. Cardinality(Woken(t)') = Cardinality(Woken(t)) + 1
      BY <1>1, <3>1, Countable, FS_AddElement
    <3>3. Cardinality(tokens'[t]) <= Cardinality(tokens[t]) + 1
      <4>1. IsFiniteSet(tokens[t]) /\ Cardinality(tokens[t]) \in Nat
        BY <1>1, Countable
      <4>2. Cardinality(tokens[t] \cup {held[r]}) <= Cardinality(tokens[t]) + 1
        <5> DEFINE free == tokens[t]
                   back == held[r]
        <5>1. IsFiniteSet(free) /\ Cardinality(free) \in Nat
          BY <4>1
        <5> HIDE DEF free, back
        <5>2. Cardinality(free \cup {back}) <= Cardinality(free) + 1
          <6>1. CASE back \in free
            <7>1. free \cup {back} = free
              BY <6>1
            <7> QED
              BY <5>1, <7>1
          <6>2. CASE back \notin free
            <7>1. Cardinality(free \cup {back}) = Cardinality(free) + 1
              BY <5>1, <6>2, FS_AddElement
            <7> QED
              BY <5>1, <7>1
          <6> QED
            BY <6>1, <6>2
        <5> QED
          BY <5>2 DEF free, back
      <4> QED
        BY <1>1, <4>2
    <3>4. Cardinality(tokens'[t]) \in Nat
      <4>1. IsFiniteSet(tokens[t] \cup {held[r]})
        BY <1>1, Countable, FS_AddElement
      <4> QED
        BY <1>1, <4>1, FS_CardinalityType
    <3>5. ASSUME Unwoken(t)' # {} PROVE Cardinality(tokens[t]) <= Cardinality(Woken(t))
      <4>1. Unwoken(t)' \subseteq Unwoken(t)
        BY <1>2, <2>2 DEF Unwoken, At
      <4> QED
        BY <1>1, <1>3, <3>5, <4>1 DEF Covered
    <3> QED
      BY <1>1, <3>2, <3>3, <3>4, <3>5, Countable DEF Covered
  <2> QED
    BY <1>2, <2>1, <2>2
<1> QED
  BY <1>2, <1>4, <1>5, WakeupKept

\* A waiter that gives up leaves the others in the queue, and passes a wake-up on.
LEMMA UnwindWaitingCovers ==
    ASSUME ProxyInvariant, WakeupInvariant, NEW r \in Requests, cancelling[r],
           UnwindWaiting(r), \A q \in Requests \ {r} : cancelling'[q] = cancelling[q]
    PROVE  WakeupInvariant'
<1> DEFINE t == Tier[r]
<1>1. t \in Tiers /\ UNCHANGED tokens /\ \A u \in Tiers : Covered(u)
  BY IdleIsCovered DEF UnwindWaiting, WakeupInvariant, AllCovered
<1>2. CASE pc[r] = "queued" /\ LeaveQueue(r, t) /\ Goto(r, "done")
  <2>1. pc'[r] = "done" /\ \A q \in Requests \ {r} : pc'[q] = pc[q]
    BY <1>2 DEF Goto, ProxyInvariant, TypeOK
  <2>2. ASSUME NEW q \in Requests, At(q, "queued")'
        PROVE  /\ q # r /\ At(q, "queued")
               /\ \E j \in 1..Len(getters[Tier[q]]) : getters[Tier[q]][j] = q
    BY <2>1, <2>2 DEF At, WakeupInvariant, LiveAreQueued
  <2>3. ASSUME NEW q \in Requests, At(q, "queued")'
        PROVE  \E j \in 1..Len(getters'[Tier[q]]) : getters'[Tier[q]][j] = q
    <3>1. CASE UNCHANGED getters
      BY <2>2, <2>3, <3>1
    <3>2. ASSUME NEW i \in DOMAIN getters[t], getters[t][i] = r,
                 getters' = [getters EXCEPT ![t] = RemoveAt(@, i)]
          PROVE  \E j \in 1..Len(getters'[Tier[q]]) : getters'[Tier[q]][j] = q
      <4> DEFINE queue == getters[t]
      <4>1. /\ queue \in Seq(Requests) /\ Len(queue) \in Nat /\ i \in 1..Len(queue)
            /\ getters'[t] = RemoveAt(queue, i)
            /\ \A u \in Tiers \ {t} : getters'[u] = getters[u]
        BY <3>2, LenProperties DEF ProxyInvariant, TypeOK
      <4>2. PICK k \in 1..Len(getters[Tier[q]]) : getters[Tier[q]][k] = q
        BY <2>2, <2>3
      <4>3. CASE Tier[q] = t
        <5>1. k \in 1..Len(queue) /\ queue[k] = q /\ k # i
          BY <2>2, <2>3, <3>2, <4>2, <4>3
        <5> HIDE DEF queue
        <5>2. /\ Len(RemoveAt(queue, i)) = Len(queue) - 1
              /\ \A j \in 1..(Len(queue) - 1) :
                   RemoveAt(queue, i)[j] = queue[IF j < i THEN j ELSE j + 1]
          BY <4>1, Removed
        <5>3. \E j \in 1..(Len(queue) - 1) : k = IF j < i THEN j ELSE j + 1
          <6>1. CASE k < i
            BY <4>1, <5>1, <6>1
          <6>2. CASE k > i
            <7>1. k - 1 \in 1..(Len(queue) - 1) /\ ~(k - 1 < i) /\ (k - 1) + 1 = k
              BY <4>1, <5>1, <6>2
            <7> QED
              BY <7>1
          <6> QED
            BY <4>1, <5>1, <6>1, <6>2
        <5>4. PICK j \in 1..(Len(queue) - 1) : k = IF j < i THEN j ELSE j + 1
          BY <5>3
        <5>5. RemoveAt(queue, i)[j] = q
          BY <5>1, <5>2, <5>4
        <5> QED
          BY <4>1, <4>3, <5>2, <5>5
      <4> QED
        BY <4>1, <4>2, <4>3
    <3> QED
      BY <1>2, <3>1, <3>2 DEF LeaveQueue
  <2>4. ASSUME NEW u \in Tiers PROVE Covered(u)'
    <3>1. Woken(u)' = Woken(u) /\ Unwoken(u)' \subseteq Unwoken(u)
      BY <1>2, <2>1, <2>2 DEF Woken, Unwoken
    <3> QED
      BY <1>1, <3>1, CoverKept
  <2> QED
    BY <2>3, <2>4, WakeupKept DEF LiveAreQueued
<1>3. CASE pc[r] = "woken" /\ tokens[t] = {} /\ Goto(r, "done") /\ UNCHANGED getters
  <2>1. pc'[r] = "done" /\ \A q \in Requests \ {r} : pc'[q] = pc[q]
    BY <1>3 DEF Goto, ProxyInvariant, TypeOK
  <2>2. LiveAreQueued'
    BY <1>3, <2>1 DEF WakeupInvariant, LiveAreQueued, At
  <2>3. ASSUME NEW u \in Tiers, u # t PROVE Covered(u)'
    <3>1. Woken(u)' = Woken(u) /\ Unwoken(u)' = Unwoken(u)
      BY <2>1, <2>3 DEF Woken, Unwoken, At
    <3> QED
      BY <1>1, <3>1, CoverKept
  <2>4. Covered(t)'
    BY <1>1, <1>3, NothingToCover, WokenFiniteNext
  <2> QED
    BY <2>2, <2>3, <2>4, WakeupKept
<1>4. CASE pc[r] = "woken" /\ WakeNext(t, [pc EXCEPT ![r] = "done"])
  <2>1. /\ LiveAreQueued' /\ pc'[r] = "done"
        /\ \/ /\ Unwoken(t)' = {}
              /\ \A q \in Requests \ {r} : pc'[q] = pc[q]
           \/ \E w \in Requests \ {r} :
                /\ Tier[w] = t /\ pc[w] = "queued" /\ pc'[w] = "woken"
                /\ \A q \in Requests \ {r, w} : pc'[q] = pc[q]
    BY <1>1, <1>4, WakeCovers
  <2>2. ASSUME NEW u \in Tiers, u # t PROVE Covered(u)'
    <3>1. Woken(u)' = Woken(u) /\ Unwoken(u)' = Unwoken(u)
      BY <2>1, <2>2 DEF Woken, Unwoken, At
    <3> QED
      BY <1>1, <3>1, CoverKept
  <2>3. CASE Unwoken(t)' = {}
    BY <2>1, <2>2, <2>3, WakeupKept DEF Covered
  <2>4. ASSUME NEW w \in Requests \ {r}, Tier[w] = t, pc[w] = "queued", pc'[w] = "woken",
               \A q \in Requests \ {r, w} : pc'[q] = pc[q]
        PROVE  Covered(t)'
    <3>1. Woken(t)' = (Woken(t) \ {r}) \cup {w} /\ r \in Woken(t) /\ w \notin Woken(t) \ {r}
      BY <1>4, <2>1, <2>4 DEF Woken
    <3>2. Cardinality(Woken(t)') = Cardinality(Woken(t))
      <4>1. IsFiniteSet(Woken(t)) /\ Cardinality(Woken(t)) \in Nat
        BY <1>1, Countable
      <4>2. /\ IsFiniteSet(Woken(t) \ {r})
            /\ Cardinality(Woken(t) \ {r}) = Cardinality(Woken(t)) - 1
        BY <3>1, <4>1, FS_RemoveElement
      <4>3. Cardinality((Woken(t) \ {r}) \cup {w}) = Cardinality(Woken(t) \ {r}) + 1
        BY <3>1, <4>2, FS_AddElement
      <4> QED
        BY <3>1, <4>1, <4>2, <4>3
    <3>3. Unwoken(t)' \subseteq Unwoken(t)
      BY <2>1, <2>4 DEF Unwoken, At
    <3> QED
      BY <1>1, <3>2, <3>3 DEF Covered
  <2> QED
    BY <2>1, <2>2, <2>3, <2>4, WakeupKept
<1> QED
  BY <1>2, <1>3, <1>4 DEF UnwindWaiting

\* What a client does loses no wake-up.
LEMMA ClientCovers ==
    ASSUME ProxyInvariant, WakeupInvariant, NEW r \in Requests, Client(r)
    PROVE  WakeupInvariant'
<1>0. TypeOK
  BY DEF ProxyInvariant
<1>1. ASSUME NEW there \in {"done", "check"}, pc[r] \in {"new", "body"},
             pc' = [pc EXCEPT ![r] = there],
             UNCHANGED <<cancelling, tokens, getters>>
      PROVE  WakeupInvariant'
  BY <1>0, <1>1, GatesStill DEF At, TypeOK
<1>2. Arrive(r) \/ RejectBody(r) => WakeupInvariant'
  BY <1>1 DEF Arrive, RejectBody, Finish, Goto, At, gates
<1>3. CASE Acquire(r)
  <2>1. pc[r] = "body" /\ UNCHANGED cancelling
    BY <1>3 DEF Acquire, At
  <2>2. CASE Take(r) /\ UNCHANGED getters
    BY <2>1, <2>2, TakeCovers
  <2>3. CASE Finish(r, "queue_full") /\ UNCHANGED <<tokens, getters>>
    BY <1>1, <2>1, <2>3 DEF Finish, Goto
  <2>4. CASE /\ tokens[Tier[r]] = {} /\ Goto(r, "queued") /\ UNCHANGED tokens
             /\ getters' = [getters EXCEPT ![Tier[r]] = Append(@, r)]
    BY <2>1, <2>4, JoinCovers DEF Goto
  <2> QED
    BY <1>3, <2>2, <2>3, <2>4 DEF Acquire
<1> QED
  BY <1>2, <1>3 DEF Client

\* What a handler does loses no wake-up.
LEMMA HandleCovers ==
    ASSUME ProxyInvariant, WakeupInvariant, NEW r \in Requests, Handle(r)
    PROVE  WakeupInvariant'
<1>0. TypeOK
  BY DEF ProxyInvariant
<1>1. ASSUME NEW there \in Pcs \ Waiting, pc[r] \notin Waiting,
             pc' = [pc EXCEPT ![r] = there], UNCHANGED <<tokens, getters>>,
             \A q \in Requests \ {r} : cancelling'[q] = cancelling[q]
      PROVE  WakeupInvariant'
  BY <1>0, <1>1, GatesStill DEF At, TypeOK
<1>2. CASE ReadMaintenance(r)
  BY <1>1, <1>2 DEF ReadMaintenance, Goto, At, gates, Pcs
<1>3. CASE FirstCheck(r)
  BY <1>1, <1>3 DEF FirstCheck, Finish, Goto, At, gates, Pcs
<1>4. CASE Resume(r)
  <2>1. pc[r] = "woken" /\ UNCHANGED cancelling
    BY <1>4 DEF Resume, At
  <2>2. CASE Take(r) /\ UNCHANGED getters
    BY <2>1, <2>2, TakeCovers
  <2>3. CASE /\ tokens[Tier[r]] = {} /\ Goto(r, "queued") /\ UNCHANGED tokens
             /\ getters' = [getters EXCEPT ![Tier[r]] = Append(@, r)]
    BY <2>1, <2>3, JoinCovers DEF Goto
  <2> QED
    BY <1>4, <2>2, <2>3 DEF Resume
<1>5. CASE Recheck(r)
  <2>1. pc[r] = "rechecked" /\ UNCHANGED cancelling
    BY <1>5 DEF Recheck, At
  <2>2. CASE Release(r, "maintenance")
    BY <2>1, <2>2, ReleaseCovers
  <2>3. CASE Goto(r, "sending") /\ UNCHANGED <<tokens, getters>>
    BY <1>1, <2>1, <2>3 DEF Goto, Pcs
  <2> QED
    BY <1>5, <2>2, <2>3 DEF Recheck
<1>6. CASE Upstream(r)
  <2>1. pc[r] = "sending" /\ UNCHANGED cancelling
    BY <1>6 DEF Upstream, At
  <2>2. CASE Release(r, "upstream_error")
    BY <2>1, <2>2, ReleaseCovers
  <2>3. CASE Goto(r, "streaming") /\ UNCHANGED <<tokens, getters>>
    BY <1>1, <2>1, <2>3 DEF Goto, Pcs
  <2> QED
    BY <1>6, <2>2, <2>3 DEF Upstream
<1>7. CASE StreamEnds(r)
  BY <1>1, <1>7 DEF StreamEnds, Goto, At, gates, Pcs
<1>8. CASE Close(r)
  BY <1>8, ReleaseCovers DEF Close, At
<1>9. CASE Unwind(r)
  <2>1. cancelling[r] /\ \A q \in Requests \ {r} : cancelling'[q] = cancelling[q]
    BY <1>0, <1>9 DEF Unwind, TypeOK
  <2>2. CASE UnwindBeforeTheGate(r)
    BY <1>1, <2>1, <2>2 DEF UnwindBeforeTheGate, Finish, Goto, gates, Pcs
  <2>3. CASE UnwindWaiting(r)
    BY <2>1, <2>3, UnwindWaitingCovers
  <2>4. CASE UnwindWithSlot(r)
    <3>1. CASE pc[r] \in WithSlot /\ Release(r, "cancelled")
      BY <2>1, <3>1, ReleaseCovers
    <3>2. CASE pc[r] = "streaming" /\ Goto(r, "closing") /\ UNCHANGED <<tokens, getters>>
      BY <1>1, <2>1, <3>2 DEF Goto, Pcs
    <3> QED
      BY <2>4, <3>1, <3>2 DEF UnwindWithSlot
  <2> QED
    BY <1>9, <2>2, <2>3, <2>4 DEF Unwind
<1> QED
  BY <1>2, <1>3, <1>4, <1>5, <1>6, <1>7, <1>8, <1>9 DEF Handle

\* No step loses a wake-up.
LEMMA WakeupStep == ProxyInvariant /\ WakeupInvariant /\ [Next]_vars => WakeupInvariant'
<1> SUFFICES ASSUME ProxyInvariant, WakeupInvariant, [Next]_vars PROVE WakeupInvariant'
  OBVIOUS
<1>1. ASSUME NEW r \in Requests, Cancel(r) PROVE WakeupInvariant'
  <2>1. UNCHANGED <<pc, tokens, getters>> /\ \A q \in Requests : cancelling[q] => cancelling'[q]
    BY <1>1 DEF Cancel, gates, ProxyInvariant, TypeOK
  <2> QED
    BY <2>1, GatesStill DEF At
<1>2. CASE Toggle \/ UNCHANGED vars
  BY <1>2, GatesStill DEF Toggle, vars, handler, gates, At
<1> QED
  BY <1>1, <1>2, ClientCovers, HandleCovers DEF Next

\* At the start nobody waits.
LEMMA InitialWakeup == Init => WakeupInvariant
  BY DEF Init, WakeupInvariant, LiveAreQueued, NoIdleSlot, Waiters, At

-----------------------------------------------------------------------------
(* The theorems.                                                           *)

\* The inductive invariant holds in every reachable state.
THEOREM InvariantHolds == Spec => []ProxyInvariant
BY InitialInvariant, InvariantStep, PTL DEF Spec

\* Gates, handlers and counters keep to their types; no counter goes below zero.
THEOREM TypeCorrect == Spec => []TypeOK
<1>1. ProxyInvariant => TypeOK
  BY DEF ProxyInvariant
<1> QED
  BY <1>1, InvariantHolds, PTL

\* No slot is ever lost, shared, or returned twice.
THEOREM SlotsConserved == Spec => []SlotsAreConserved
<1>1. ProxyInvariant => SlotsAreConserved
  BY DEF ProxyInvariant
<1> QED
  BY <1>1, InvariantHolds, PTL

\* The counter of waiters is the number of waiters.
THEOREM WaitersCounted == Spec => []WaitersAreCounted
<1>1. ProxyInvariant => WaitersAreCounted
  BY DEF ProxyInvariant
<1> QED
  BY <1>1, InvariantHolds, PTL

\* No request reaches the model through maintenance that outlasts its wait.
THEOREM MaintenanceIsHonoured == Spec => []MaintenanceHonoured
<1>1. ProxyInvariant => MaintenanceHonoured
  BY DEF ProxyInvariant
<1> QED
  BY <1>1, InvariantHolds, PTL

\* The gates do what Admission promises: a request waits only when every slot of
\* its tier is in use, and is refused only when the places to wait are taken too.
THEOREM AdmissionImplemented == Spec => ImplementsAdmission
<1>1. Init => Gate!Init /\ OpenUntilDone
  BY DEF Init, Gate!Init, OpenUntilDone
<1>2. Spec => []OpenUntilDone
  BY <1>1, StepRefines, InvariantHolds, PTL DEF Spec
<1>3. ProxyInvariant /\ OpenUntilDone /\ [Next]_vars => [Gate!Next]_<<held, Waits, TurnedAway>>
  BY StepRefines
<1>4. Spec => [][Gate!Next]_<<held, Waits, TurnedAway>>
  BY <1>2, <1>3, InvariantHolds, PTL DEF Spec
<1> QED
  BY <1>1, <1>4, PTL DEF Spec, ImplementsAdmission, Gate!Spec, Waits, TurnedAway

\* No wake-up is ever lost: while a request waits that has neither been woken nor
\* cancelled, there are at least as many requests on their way to a slot as
\* there are free slots.
THEOREM NoSlotIdles == Spec => []NoIdleSlot
<1>1. Spec => []WakeupInvariant
  BY InitialWakeup, WakeupStep, InvariantHolds, PTL DEF Spec
<1>2. WakeupInvariant => NoIdleSlot
  BY DEF WakeupInvariant
<1> QED
  BY <1>1, <1>2, PTL

\* Of the requests that wait at a gate or hold a slot of it one always has
\* something to do, whoever else comes: what NobodyIsStranded says but for ENABLED.
THEOREM SomebodyAlwaysMoves == Spec => []SomebodyMoves
<1>1. ASSUME ProxyInvariant, WakeupInvariant PROVE SomebodyMoves
  <2> SUFFICES ASSUME NEW t \in Tiers, NEW r \in AtTheGate(t),
                      \A q \in AtTheGate(t) : ~HasAMove(q)
               PROVE  FALSE
    BY DEF SomebodyMoves
  <2>1. \A q \in AtTheGate(t) : At(q, "queued")
    BY <1>1 DEF AtTheGate, HasAMove, At, ProxyInvariant, TypeOK
  <2>2. r \in Unwoken(t) /\ Woken(t) = {}
    BY <2>1 DEF AtTheGate, Unwoken, Woken, At
  <2>3. tokens[t] = {}
    <3>1. Cardinality(tokens[t]) <= Cardinality(Woken(t))
      BY <1>1, <2>2, IdleIsCovered DEF WakeupInvariant, AllCovered, Covered
    <3>2. IsFiniteSet(tokens[t]) /\ Cardinality(tokens[t]) \in Nat
      BY <1>1, Countable
    <3>3. Cardinality(tokens[t]) = 0
      BY <2>2, <3>1, <3>2, FS_EmptySet
    <3> QED
      BY <3>2, <3>3, FS_EmptySet
  <2>4. PICK s \in Slots[t] : TRUE
    BY Capacity
  <2>5. PICK q \in Requests : Tier[q] = t /\ held[q] = s
    BY <1>1, <2>3, <2>4 DEF ProxyInvariant, SlotsAreConserved
  <2>6. s # None
    BY <2>4
  <2>7. pc[q] \in WithSlot
    BY <1>1, <2>5, <2>6 DEF ProxyInvariant, SlotsAreConserved
  <2> QED
    BY <2>1, <2>5, <2>7 DEF AtTheGate, At
<1>2. Spec => []WakeupInvariant
  BY InitialWakeup, WakeupStep, InvariantHolds, PTL DEF Spec
<1> QED
  BY <1>1, <1>2, InvariantHolds, PTL

-----------------------------------------------------------------------------
(* The steps of the requests run out.                                      *)

\* How far from its end a handler is suspended.
Distance(place) ==
    CASE place = "new" -> 12
      [] place = "check" -> 11
      [] place = "checked" -> 10
      [] place = "body" -> 9
      [] place = "woken" -> 8
      [] place = "queued" -> 7
      [] place = "recheck" -> 6
      [] place = "rechecked" -> 5
      [] place = "sending" -> 4
      [] place = "streaming" -> 3
      [] place = "closing" -> 2
      [] OTHER -> 0

\* A request may also be cancelled, once at each distance.
Rank(r) == IF pc[r] = "done" THEN 0
           ELSE 2 * Distance(pc[r]) + (IF cancelling[r] THEN 0 ELSE 1)

\* The steps all requests have left together: a pair for each of a request.
Budget == {m \in Requests \X (1..25) : m[2] <= Rank(m[1])}
StepsLeft == Cardinality(Budget)

\* Every step but that of the maintenance file uses a step up.  A wake-up sends a
\* waiter on, who may find its slot taken and queue again; the handler that wakes
\* it pays for that with what it had left itself.
StepsRunOut ==
    [][/\ StepsLeft \in Nat
       /\ StepsLeft' \in Nat
       /\ StepsLeft' < StepsLeft]_<<handler, gates>>

LEMMA RankType == ASSUME TypeOK, NEW r \in Requests PROVE Rank(r) \in 0..25
<1>1. pc[r] \in {"new", "done"} \cup Suspended /\ cancelling[r] \in BOOLEAN
  BY DEF TypeOK
<1>2. Distance(pc[r]) \in 0..12
  BY <1>1 DEF Distance
<1> QED
  BY <1>2 DEF Rank

LEMMA BudgetFinite == IsFiniteSet(Budget) /\ StepsLeft \in Nat
<1>1. IsFiniteSet(1..25)
  <2>1. 1 \in Int /\ 25 \in Int
    OBVIOUS
  <2> QED
    BY <2>1, FS_Interval
<1>2. IsFiniteSet(Requests \X (1..25))
  BY <1>1, RequestsFinite, FS_Product
<1> QED
  BY <1>2, FS_Subset, FS_CardinalityType DEF Budget, StepsLeft

\* A set without one of its elements is smaller; ...
LEMMA OneLess ==
    ASSUME NEW S, IsFiniteSet(S), NEW x \in S, NEW T, T \subseteq S \ {x}
    PROVE  Cardinality(T) < Cardinality(S)
<1>1. /\ IsFiniteSet(S \ {x}) /\ Cardinality(S \ {x}) = Cardinality(S) - 1
      /\ Cardinality(S) \in Nat
  BY FS_RemoveElement, FS_CardinalityType
<1>2. Cardinality(T) <= Cardinality(S \ {x}) /\ Cardinality(T) \in Nat
  BY <1>1, FS_Subset, FS_CardinalityType
<1> QED
  BY <1>1, <1>2

\* ... so is one that lost three and gained two.
LEMMA TwoForThree ==
    ASSUME NEW S, IsFiniteSet(S), NEW a \in S, NEW b \in S, NEW c \in S,
           a # b, a # c, b # c, NEW d, NEW e, NEW T,
           T \subseteq (S \ {a, b, c}) \cup {d, e}
    PROVE  Cardinality(T) < Cardinality(S)
<1> DEFINE S1 == S \ {a}
           S2 == S1 \ {b}
           S3 == S2 \ {c}
           S4 == S3 \cup {d}
           S5 == S4 \cup {e}
<1>1. IsFiniteSet(S1) /\ Cardinality(S1) = Cardinality(S) - 1 /\ Cardinality(S) \in Nat
  BY FS_RemoveElement, FS_CardinalityType
<1>2. IsFiniteSet(S2) /\ Cardinality(S2) = Cardinality(S1) - 1
  <2>1. b \in S1
    OBVIOUS
  <2> QED
    BY <1>1, <2>1, FS_RemoveElement
<1>3. IsFiniteSet(S3) /\ Cardinality(S3) = Cardinality(S2) - 1 /\ Cardinality(S3) \in Nat
  <2>1. c \in S2
    OBVIOUS
  <2> QED
    BY <1>2, <2>1, FS_RemoveElement, FS_CardinalityType
<1>4. /\ IsFiniteSet(S4) /\ Cardinality(S4) <= Cardinality(S3) + 1
      /\ Cardinality(S4) \in Nat
  <2>1. IsFiniteSet(S4) /\ (Cardinality(S4) = Cardinality(S3)
                            \/ Cardinality(S4) = Cardinality(S3) + 1)
    BY <1>3, FS_AddElement
  <2> QED
    BY <1>3, <2>1
<1>5. /\ IsFiniteSet(S5) /\ Cardinality(S5) <= Cardinality(S4) + 1
      /\ Cardinality(S5) \in Nat
  <2>1. IsFiniteSet(S5) /\ (Cardinality(S5) = Cardinality(S4)
                            \/ Cardinality(S5) = Cardinality(S4) + 1)
    BY <1>4, FS_AddElement
  <2> QED
    BY <1>4, <2>1
<1>6. Cardinality(T) <= Cardinality(S5) /\ Cardinality(T) \in Nat
  <2>1. T \in SUBSET S5
    OBVIOUS
  <2> QED
    BY <1>5, <2>1, FS_Subset, FS_CardinalityType
<1> HIDE DEF S1, S2, S3, S4, S5
<1> QED
  BY <1>1, <1>2, <1>3, <1>4, <1>5, <1>6

\* What a step of r does to the budget.
Pays(r) == Rank(r)' < Rank(r) /\ \A q \in Requests \ {r} : Rank(q)' = Rank(q)

PaysForAnother(r) ==
    /\ Rank(r)' = 0 /\ Rank(r) >= 3
    /\ \E w \in Requests \ {r} :
         /\ Rank(w)' = Rank(w) + 2
         /\ \A q \in Requests \ {r, w} : Rank(q)' = Rank(q)

LEMMA PaidFor ==
    ASSUME TypeOK, NEW r \in Requests, Pays(r) \/ PaysForAnother(r),
           \A q \in Requests : Rank(q)' \in 0..25
    PROVE  StepsLeft' < StepsLeft
<1>0. IsFiniteSet(Budget) /\ \A q \in Requests : Rank(q) \in 0..25
  BY BudgetFinite, RankType
<1>1. CASE Pays(r)
  <2> DEFINE x == <<r, Rank(r)>>
  <2>1. x \in Budget
    BY <1>0, <1>1 DEF Pays, Budget
  <2>2. Budget' \subseteq Budget \ {x}
    <3> SUFFICES ASSUME NEW m \in Budget' PROVE m \in Budget \ {x}
      OBVIOUS
    <3>1. m \in Requests \X (1..25) /\ m[2] <= Rank(m[1])'
      BY DEF Budget
    <3>2. CASE m[1] = r
      BY <1>0, <1>1, <3>1, <3>2 DEF Pays, Budget
    <3>3. CASE m[1] # r
      BY <1>0, <1>1, <3>1, <3>3 DEF Pays, Budget
    <3> QED
      BY <3>2, <3>3
  <2> HIDE DEF x
  <2> QED
    BY <1>0, <2>1, <2>2, OneLess DEF StepsLeft
<1>2. CASE PaysForAnother(r)
  <2>1. PICK w \in Requests \ {r} :
          /\ Rank(w)' = Rank(w) + 2
          /\ \A q \in Requests \ {r, w} : Rank(q)' = Rank(q)
    BY <1>2 DEF PaysForAnother
  <2> DEFINE a == <<r, 1>>
             b == <<r, 2>>
             c == <<r, 3>>
             d == <<w, Rank(w) + 1>>
             e == <<w, Rank(w) + 2>>
  <2>2. a \in Budget /\ b \in Budget /\ c \in Budget /\ a # b /\ a # c /\ b # c
    BY <1>0, <1>2 DEF PaysForAnother, Budget
  <2>3. Budget' \subseteq (Budget \ {a, b, c}) \cup {d, e}
    <3> SUFFICES ASSUME NEW m \in Budget' PROVE m \in (Budget \ {a, b, c}) \cup {d, e}
      OBVIOUS
    <3>1. m \in Requests \X (1..25) /\ m[2] <= Rank(m[1])'
      BY DEF Budget
    <3>2. m[1] # r
      BY <1>2, <3>1 DEF PaysForAnother
    <3>3. CASE m[1] = w
      <4>1. m[2] <= Rank(w) + 2 /\ m = <<w, m[2]>> /\ m[2] \in Nat
        BY <2>1, <3>1, <3>3
      <4>2. CASE m[2] <= Rank(w)
        BY <3>1, <3>2, <3>3, <4>2 DEF Budget
      <4>3. CASE m[2] > Rank(w)
        <5>1. m[2] = Rank(w) + 1 \/ m[2] = Rank(w) + 2
          BY <1>0, <4>1, <4>3
        <5> QED
          BY <4>1, <5>1
      <4> QED
        BY <1>0, <4>1, <4>2, <4>3
    <3>4. CASE m[1] # w
      <4>1. Rank(m[1])' = Rank(m[1])
        BY <2>1, <3>1, <3>2, <3>4
      <4> QED
        BY <3>1, <3>2, <4>1 DEF Budget
    <3> QED
      BY <3>3, <3>4
  <2> HIDE DEF a, b, c, d, e
  <2> QED
    BY <1>0, <2>2, <2>3, TwoForThree DEF StepsLeft
<1> QED
  BY <1>1, <1>2

Nearer(here, there) ==
    /\ here # "done"
    /\ there = "done" \/ Distance(there) < Distance(here)
    /\ Distance(there) \in 0..12

\* A step that moves one handler alone, nearer to its end.
LEMMA MoveCounts ==
    ASSUME TypeOK, NEW r \in Requests, NEW there,
           pc' = [pc EXCEPT ![r] = there], Nearer(pc[r], there),
           \/ UNCHANGED cancelling
           \/ cancelling[r] /\ cancelling' = [cancelling EXCEPT ![r] = FALSE]
    PROVE  Pays(r)
<1>0. /\ cancelling[r] \in BOOLEAN
      /\ cancelling'[r] = cancelling[r] \/ (cancelling[r] /\ cancelling'[r] = FALSE)
      /\ \A q \in Requests \ {r} : cancelling'[q] = cancelling[q]
  BY DEF TypeOK
<1>1. pc'[r] = there /\ \A q \in Requests \ {r} : pc'[q] = pc[q]
  BY DEF TypeOK
<1>2. \A q \in Requests \ {r} : Rank(q)' = Rank(q)
  BY <1>0, <1>1 DEF Rank
<1>3. Distance(pc[r]) \in 2..12
  <2>1. pc[r] \in {"new"} \cup Suspended
    BY DEF TypeOK, Nearer
  <2> QED
    BY <2>1 DEF Distance
<1>4. CASE there = "done"
  BY <1>1, <1>2, <1>3, <1>4 DEF Pays, Rank, Nearer
<1>5. CASE there # "done" /\ Distance(there) < Distance(pc[r])
  <2>1. Rank(r)' = 2 * Distance(there) + (IF cancelling'[r] THEN 0 ELSE 1)
    BY <1>1, <1>5 DEF Rank
  <2>2. Rank(r) = 2 * Distance(pc[r]) + (IF cancelling[r] THEN 0 ELSE 1)
    BY DEF Rank, Nearer
  <2>3. Distance(there) \in 0..12
    BY DEF Nearer
  <2> QED
    BY <1>0, <1>2, <1>3, <1>5, <2>1, <2>2, <2>3 DEF Pays
<1> QED
  BY <1>4, <1>5 DEF Nearer

LEMMA WayOfAHandler ==
    /\ \A here \in {"new"} \cup Suspended : Nearer(here, "done")
    /\ Nearer("new", "check") /\ Nearer("check", "checked") /\ Nearer("checked", "body")
    /\ Nearer("body", "queued") /\ Nearer("body", "recheck")
    /\ Nearer("woken", "queued") /\ Nearer("woken", "recheck")
    /\ Nearer("recheck", "rechecked") /\ Nearer("rechecked", "sending")
    /\ Nearer("sending", "streaming") /\ Nearer("streaming", "closing")
  BY DEF Nearer, Distance

\* A slot or a wake-up that is passed on.
LEMMA WakeCounts ==
    ASSUME ProxyInvariant, WakeupInvariant, NEW t \in Tiers, NEW r \in Requests,
           pc[r] \in WithSlot \cup {"woken"}, WakeNext(t, [pc EXCEPT ![r] = "done"]),
           \A q \in Requests \ {r} : cancelling'[q] = cancelling[q]
    PROVE  Pays(r) \/ PaysForAnother(r)
<1>1. /\ pc'[r] = "done"
      /\ \/ \A q \in Requests \ {r} : pc'[q] = pc[q]
         \/ \E w \in Requests \ {r} :
              /\ pc[w] = "queued" /\ pc'[w] = "woken"
              /\ \A q \in Requests \ {r, w} : pc'[q] = pc[q]
  BY WakeCovers
<1>2. Rank(r)' = 0 /\ Rank(r) >= 3
  <2>1. Rank(r)' = 0
    BY <1>1 DEF Rank
  <2>2. Distance(pc[r]) \in 2..12 /\ pc[r] # "done"
    BY DEF Distance
  <2>3. Rank(r) >= 4
    BY <2>2 DEF Rank
  <2> QED
    BY <2>1, <2>3, RankType DEF ProxyInvariant
<1>3. CASE \A q \in Requests \ {r} : pc'[q] = pc[q]
  <2>1. \A q \in Requests \ {r} : Rank(q)' = Rank(q)
    BY <1>3 DEF Rank
  <2>2. Rank(r) \in 0..25
    BY RankType DEF ProxyInvariant
  <2> QED
    BY <1>2, <2>1, <2>2 DEF Pays
<1>4. ASSUME NEW w \in Requests \ {r}, pc[w] = "queued", pc'[w] = "woken",
             \A q \in Requests \ {r, w} : pc'[q] = pc[q]
      PROVE  PaysForAnother(r)
  <2>1. \A q \in Requests \ {r, w} : Rank(q)' = Rank(q)
    BY <1>4 DEF Rank
  <2>2. Rank(w)' = Rank(w) + 2
    BY <1>4 DEF Rank, Distance
  <2> QED
    BY <1>2, <2>1, <2>2 DEF PaysForAnother
<1> QED
  BY <1>1, <1>3, <1>4

\* A client's step, a cancellation.
LEMMA ClientCounts ==
    ASSUME TypeOK, NEW r \in Requests, Client(r) \/ Cancel(r)
    PROVE  Pays(r)
<1> USE DEF At, Goto, Finish
<1>1. CASE Cancel(r)
  <2>1. /\ pc' = pc /\ pc[r] \in Suspended /\ ~cancelling[r] /\ cancelling'[r]
        /\ \A q \in Requests \ {r} : cancelling'[q] = cancelling[q]
    BY <1>1 DEF Cancel, TypeOK
  <2>2. Distance(pc[r]) \in 2..12 /\ pc[r] # "done"
    BY <2>1 DEF Distance
  <2>3. \A q \in Requests \ {r} : Rank(q)' = Rank(q)
    BY <2>1 DEF Rank
  <2> QED
    BY <2>1, <2>2, <2>3 DEF Pays, Rank
<1>2. CASE Arrive(r)
  <2>1. \/ pc' = [pc EXCEPT ![r] = "done"]
        \/ pc' = [pc EXCEPT ![r] = "check"]
    BY <1>2 DEF Arrive
  <2>2. pc[r] = "new" /\ UNCHANGED cancelling
    BY <1>2 DEF Arrive
  <2> QED
    BY <2>1, <2>2, MoveCounts, WayOfAHandler
<1>3. CASE RejectBody(r)
  BY <1>3, MoveCounts, WayOfAHandler DEF RejectBody, Suspended, BeforeTheGate
<1>4. CASE Acquire(r)
  <2>1. \/ pc' = [pc EXCEPT ![r] = "recheck"]
        \/ pc' = [pc EXCEPT ![r] = "done"]
        \/ pc' = [pc EXCEPT ![r] = "queued"]
    BY <1>4 DEF Acquire, Take
  <2>2. pc[r] = "body" /\ ~cancelling[r] /\ UNCHANGED cancelling
    BY <1>4 DEF Acquire
  <2> QED
    BY <2>1, <2>2, MoveCounts, WayOfAHandler DEF Suspended, BeforeTheGate, WithSlot, Waiting
<1> QED
  BY <1>1, <1>2, <1>3, <1>4 DEF Client

\* A handler's step.
LEMMA HandleCounts ==
    ASSUME ProxyInvariant, WakeupInvariant, NEW r \in Requests, Handle(r)
    PROVE  Pays(r) \/ PaysForAnother(r)
<1> USE DEF At, Goto, Finish
<1>0. TypeOK /\ Tier[r] \in Tiers
  BY TierType DEF ProxyInvariant
<1>1. CASE ReadMaintenance(r)
  <2>1. \/ pc[r] = "check" /\ pc' = [pc EXCEPT ![r] = "checked"]
        \/ pc[r] = "recheck" /\ pc' = [pc EXCEPT ![r] = "rechecked"]
    BY <1>1 DEF ReadMaintenance
  <2>2. ~cancelling[r] /\ UNCHANGED cancelling
    BY <1>1 DEF ReadMaintenance
  <2> QED
    BY <1>0, <2>1, <2>2, MoveCounts, WayOfAHandler DEF Suspended, BeforeTheGate, WithSlot, Waiting
<1>2. CASE FirstCheck(r)
  <2>1. \/ pc' = [pc EXCEPT ![r] = "done"]
        \/ pc' = [pc EXCEPT ![r] = "body"]
    BY <1>2 DEF FirstCheck
  <2>2. pc[r] = "checked" /\ ~cancelling[r] /\ UNCHANGED cancelling
    BY <1>2 DEF FirstCheck
  <2> QED
    BY <1>0, <2>1, <2>2, MoveCounts, WayOfAHandler DEF Suspended, BeforeTheGate, WithSlot, Waiting
<1>3. CASE Resume(r)
  <2>1. \/ pc' = [pc EXCEPT ![r] = "recheck"]
        \/ pc' = [pc EXCEPT ![r] = "queued"]
    BY <1>3 DEF Resume, Take
  <2>2. pc[r] = "woken" /\ ~cancelling[r] /\ UNCHANGED cancelling
    BY <1>3 DEF Resume
  <2> QED
    BY <1>0, <2>1, <2>2, MoveCounts, WayOfAHandler DEF Suspended, BeforeTheGate, WithSlot, Waiting
<1>4. CASE Recheck(r) \/ Upstream(r) \/ StreamEnds(r) \/ Close(r)
  <2>1. UNCHANGED cancelling /\ ~cancelling[r]
    BY <1>4 DEF Recheck, Upstream, StreamEnds, Close
  <2>2. \/ pc[r] = "rechecked" /\ pc' = [pc EXCEPT ![r] = "sending"]
        \/ pc[r] = "sending" /\ pc' = [pc EXCEPT ![r] = "streaming"]
        \/ pc[r] = "streaming" /\ pc' = [pc EXCEPT ![r] = "closing"]
        \/ pc[r] \in WithSlot /\ WakeNext(Tier[r], [pc EXCEPT ![r] = "done"])
    BY <1>4 DEF Recheck, Upstream, StreamEnds, Close, Release
  <2>3. CASE pc[r] \in WithSlot /\ WakeNext(Tier[r], [pc EXCEPT ![r] = "done"])
    BY <1>0, <2>1, <2>3, WakeCounts
  <2>4. CASE \/ pc[r] = "rechecked" /\ pc' = [pc EXCEPT ![r] = "sending"]
             \/ pc[r] = "sending" /\ pc' = [pc EXCEPT ![r] = "streaming"]
             \/ pc[r] = "streaming" /\ pc' = [pc EXCEPT ![r] = "closing"]
    BY <1>0, <2>1, <2>4, MoveCounts, WayOfAHandler DEF Suspended, BeforeTheGate, WithSlot, Waiting
  <2> QED
    BY <2>2, <2>3, <2>4
<1>5. CASE Unwind(r)
  <2>1. /\ cancelling[r] /\ cancelling' = [cancelling EXCEPT ![r] = FALSE]
        /\ \A q \in Requests \ {r} : cancelling'[q] = cancelling[q]
    BY <1>0, <1>5 DEF Unwind, TypeOK
  <2>2. \/ pc[r] \in BeforeTheGate \cup Waiting /\ pc' = [pc EXCEPT ![r] = "done"]
        \/ pc[r] = "streaming" /\ pc' = [pc EXCEPT ![r] = "closing"]
        \/ /\ pc[r] \in WithSlot \cup {"woken"}
           /\ WakeNext(Tier[r], [pc EXCEPT ![r] = "done"])
    BY <1>5 DEF Unwind, UnwindBeforeTheGate, UnwindWaiting, UnwindWithSlot, Release
  <2>3. CASE /\ pc[r] \in WithSlot \cup {"woken"}
             /\ WakeNext(Tier[r], [pc EXCEPT ![r] = "done"])
    BY <1>0, <2>1, <2>3, WakeCounts
  <2>4. CASE pc[r] \in BeforeTheGate \cup Waiting /\ pc' = [pc EXCEPT ![r] = "done"]
    BY <1>0, <2>1, <2>4, MoveCounts, WayOfAHandler
    DEF Suspended, BeforeTheGate, WithSlot, Waiting
  <2>5. CASE pc[r] = "streaming" /\ pc' = [pc EXCEPT ![r] = "closing"]
    BY <1>0, <2>1, <2>5, MoveCounts, WayOfAHandler DEF Suspended, BeforeTheGate, WithSlot, Waiting
  <2> QED
    BY <2>2, <2>3, <2>4, <2>5
<1> QED
  BY <1>1, <1>2, <1>3, <1>4, <1>5 DEF Handle

\* The requests of a proxy, served, refused or cancelled, take at most 25 steps
\* each, however they wake one another and whatever the maintenance file says.
THEOREM RequestStepsRunOut == Spec => StepsRunOut
<1>1. TypeOK' => (\A r \in Requests : Rank(r) \in 0..25)'
  <2>1. TypeOK => \A r \in Requests : Rank(r) \in 0..25
    BY RankType
  <2> QED
    BY <2>1, PTL
<1>2. (StepsLeft \in Nat)'
  BY BudgetFinite, PTL
<1>3. ASSUME ProxyInvariant, ProxyInvariant', WakeupInvariant, [Next]_vars
      PROVE  UNCHANGED <<handler, gates>> \/ StepsLeft' < StepsLeft
  <2>1. TypeOK /\ \A q \in Requests : Rank(q)' \in 0..25
    BY <1>1, <1>3 DEF ProxyInvariant
  <2>2. CASE \E r \in Requests : Client(r) \/ Handle(r) \/ Cancel(r)
    BY <1>3, <2>1, <2>2, ClientCounts, HandleCounts, PaidFor
  <2>3. CASE Toggle \/ UNCHANGED vars
    BY <2>3 DEF Toggle, vars
  <2> QED
    BY <1>3, <2>2, <2>3 DEF Next
<1>4. ProxyInvariant /\ ProxyInvariant' /\ WakeupInvariant /\ [Next]_vars =>
        [/\ StepsLeft \in Nat /\ StepsLeft' \in Nat /\ StepsLeft' < StepsLeft]_<<handler, gates>>
  BY <1>2, <1>3, BudgetFinite
<1>5. Spec => []WakeupInvariant
  BY InitialWakeup, WakeupStep, InvariantHolds, PTL DEF Spec
<1> QED
  BY <1>4, <1>5, InvariantHolds, PTL DEF Spec, StepsRunOut
=============================================================================
