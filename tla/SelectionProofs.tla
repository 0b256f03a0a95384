-------------------------- MODULE SelectionProofs --------------------------
(***************************************************************************)
(* Proofs about Selection: a selection is exact for any cases, any scores  *)
(* and any policy.  The sort exists because the position of a case in it   *)
(* is the number of those before it, which is what the reference counts.   *)
(***************************************************************************)
EXTENDS Selection, FiniteSetTheorems, FunctionTheorems, SequenceTheorems, TLAPS

\* A comparator on the cases in S, as a set of pairs: it never finds two
\* of them equal, and is consistent.
TotalOrder(R, S) ==
  /\ \A a \in S : <<a, a>> \notin R
  /\ \A a, b, c \in S : <<a, b>> \in R /\ <<b, c>> \in R => <<a, c>> \in R
  /\ \A a, b \in S : a # b => <<a, b>> \in R \/ <<b, a>> \in R

\* s lists the cases in S in the order R.
Lists(s, S, R) ==
  /\ s \in SetToSeqs(S)
  /\ \A i, j \in DOMAIN s : i < j => <<s[i], s[j]>> \in R

Ahead(R, S, c) == {d \in S : <<d, c>> \in R}

-----------------------------------------------------------------------------
(***************************************************************************)
(* Lists and orders                                                        *)
(***************************************************************************)

\* A list of a finite set has all of its elements, each at one place.
LEMMA ListOfASet ==
  ASSUME NEW S, IsFiniteSet(S), NEW s \in SetToSeqs(S)
  PROVE  /\ s \in Seq(S) /\ Len(s) = Cardinality(S) /\ Len(s) \in Nat
         /\ DOMAIN s = 1..Len(s)
         /\ \A c \in S : \E i \in DOMAIN s : s[i] = c
         /\ \A i, j \in DOMAIN s : s[i] = s[j] => i = j
<1> DEFINE n == Cardinality(S)
<1>1. n \in Nat
  BY FS_CardinalityType
<1>2. s \in [1..n -> S] /\ \A i, j \in 1..n : i # j => s[i] # s[j]
  BY DEF SetToSeqs
<1> HIDE DEF n
<1>3. s \in Injection(1..n, S)
  BY <1>2, Fun_IsInj
<1>4. Cardinality(1..n) = n
  BY <1>1, FS_Interval
<1>5. s \in Surjection(1..n, S)
  BY <1>3, <1>4, FS_Injection DEF n
<1>6. \A c \in S : \E i \in 1..n : s[i] = c
  BY <1>5 DEF Surjection
<1>7. s \in Seq(S) /\ Len(s) = n
  BY <1>1, <1>2
<1> QED
  BY <1>1, <1>2, <1>6, <1>7 DEF n

\* Of two cases the later one has more cases ahead of it.
LEMMA AheadGrows ==
  ASSUME NEW S, IsFiniteSet(S), NEW R, TotalOrder(R, S),
         NEW a \in S, NEW b \in S, <<a, b>> \in R
  PROVE  /\ Cardinality(Ahead(R, S, a)) \in Nat /\ Cardinality(Ahead(R, S, b)) \in Nat
         /\ Cardinality(Ahead(R, S, a)) < Cardinality(Ahead(R, S, b))
<1>1. Ahead(R, S, a) \subseteq Ahead(R, S, b) /\ Ahead(R, S, b) \subseteq S
  BY DEF Ahead, TotalOrder
<1>2. a \in Ahead(R, S, b) /\ a \notin Ahead(R, S, a)
  BY DEF Ahead, TotalOrder
<1>3. IsFiniteSet(Ahead(R, S, a)) /\ IsFiniteSet(Ahead(R, S, b))
  BY <1>1, FS_Subset
<1>4. /\ Cardinality(Ahead(R, S, a)) <= Cardinality(Ahead(R, S, b))
      /\ Cardinality(Ahead(R, S, b)) # Cardinality(Ahead(R, S, a))
  BY <1>1, <1>2, <1>3, FS_Subset
<1>5. Cardinality(Ahead(R, S, a)) \in Nat /\ Cardinality(Ahead(R, S, b)) \in Nat
  BY <1>3, FS_CardinalityType
<1> QED
  BY <1>4, <1>5

\* A finite set can be sorted: each case goes behind those ahead of it.
LEMMA SortExists ==
  ASSUME NEW S, IsFiniteSet(S), NEW R, TotalOrder(R, S)
  PROVE  \E s : Lists(s, S, R)
<1> DEFINE n == Cardinality(S)
           place == [c \in S |-> Cardinality(Ahead(R, S, c)) + 1]
<1>1. n \in Nat
  BY FS_CardinalityType
<1>2. place \in [S -> 1..n]
  <2> SUFFICES ASSUME NEW c \in S PROVE Cardinality(Ahead(R, S, c)) + 1 \in 1..n
    OBVIOUS
  <2>1. Ahead(R, S, c) \subseteq S /\ c \notin Ahead(R, S, c)
    BY DEF Ahead, TotalOrder
  <2>2. /\ IsFiniteSet(Ahead(R, S, c))
        /\ Cardinality(Ahead(R, S, c)) <= n /\ Cardinality(Ahead(R, S, c)) # n
    BY <2>1, FS_Subset
  <2>3. Cardinality(Ahead(R, S, c)) \in Nat
    BY <2>2, FS_CardinalityType
  <2> HIDE DEF n
  <2> QED
    BY <1>1, <2>2, <2>3
<1>3. \A a, b \in S : <<a, b>> \in R => place[a] < place[b]
  BY AheadGrows
<1>4. \A a, b \in S : place[a] = place[b] => a = b
  <2> SUFFICES ASSUME NEW a \in S, NEW b \in S, a # b PROVE place[a] # place[b]
    OBVIOUS
  <2>1. place[a] < place[b] \/ place[b] < place[a]
    BY <1>3 DEF TotalOrder
  <2>2. place[a] \in 1..n /\ place[b] \in 1..n
    BY <1>2
  <2> HIDE DEF place, n
  <2> QED
    BY <1>1, <2>1, <2>2
<1> HIDE DEF place
<1>5. place \in Injection(S, 1..n)
  BY <1>2, <1>4, Fun_IsInj
<1>6. IsFiniteSet(1..n) /\ Cardinality(1..n) = n
  BY <1>1, FS_Interval
<1>7. place \in Surjection(S, 1..n)
  BY <1>5, <1>6, FS_Injection
<1> DEFINE s == [i \in 1..n |-> CHOOSE c \in S : place[c] = i]
<1>8. \A i \in 1..n : s[i] \in S /\ place[s[i]] = i
  BY <1>7 DEF Surjection
<1>9. s \in SetToSeqs(S)
  <2>1. s \in [1..n -> S]
    BY <1>8
  <2>2. \A i, j \in 1..n : i # j => s[i] # s[j]
    BY <1>8
  <2> HIDE DEF s
  <2> QED
    BY <2>1, <2>2 DEF SetToSeqs
<1>10. DOMAIN s = 1..n
  OBVIOUS
<1> HIDE DEF s
<1>11. ASSUME NEW i \in 1..n, NEW j \in 1..n, i < j PROVE <<s[i], s[j]>> \in R
  <2>1. s[i] # s[j] /\ ~(place[s[j]] < place[s[i]])
    BY <1>1, <1>8, <1>11
  <2> QED
    BY <1>3, <1>8, <2>1 DEF TotalOrder
<1> QED
  BY <1>9, <1>10, <1>11 DEF Lists

\* The place of a case in a sorted list says how many are ahead of it.
LEMMA PlacesCount ==
  ASSUME NEW S, IsFiniteSet(S), NEW R, TotalOrder(R, S), NEW s, Lists(s, S, R),
         NEW i \in DOMAIN s
  PROVE  Cardinality(Ahead(R, S, s[i])) = i - 1
<1> DEFINE f == [j \in 1..(i - 1) |-> s[j]]
           A == Ahead(R, S, s[i])
<1>1. /\ DOMAIN s = 1..Len(s) /\ Len(s) \in Nat
      /\ \A j \in DOMAIN s : s[j] \in S
      /\ \A c \in S : \E j \in DOMAIN s : s[j] = c
      /\ \A j, k \in DOMAIN s : s[j] = s[k] => j = k
  BY ListOfASet, ElementOfSeq DEF Lists
<1>2. i - 1 \in Nat /\ 1..(i - 1) \subseteq DOMAIN s
  BY <1>1
<1>3. f \in [1..(i - 1) -> A]
  <2> SUFFICES ASSUME NEW j \in 1..(i - 1) PROVE s[j] \in A
    OBVIOUS
  <2>1. j \in DOMAIN s /\ j < i
    BY <1>1, <1>2
  <2> QED
    BY <1>1, <2>1 DEF Lists, Ahead
<1>4. \A j, k \in 1..(i - 1) : f[j] = f[k] => j = k
  BY <1>1, <1>2
<1>5. ASSUME NEW c \in A PROVE \E j \in 1..(i - 1) : f[j] = c
  <2>1. PICK j \in DOMAIN s : s[j] = c
    BY <1>1 DEF Ahead
  <2>2. <<s[j], s[i]>> \in R /\ s[i] \in S /\ s[j] \in S
    BY <1>1, <2>1 DEF Ahead
  <2>3. ~(i < j) /\ i # j
    BY <2>2 DEF Lists, TotalOrder
  <2> QED
    BY <1>1, <2>1, <2>3
<1> HIDE DEF f, A
<1>6. f \in Bijection(1..(i - 1), A)
  BY <1>3, <1>4, <1>5, Fun_IsBij
<1> QED
  BY <1>2, <1>6, FS_CountingElements DEF ExistsBijection, A

\* A list without repetition has a case once or not at all.
LEMMA OnceOrNever ==
  ASSUME NEW s, NEW c, \A i, j \in DOMAIN s : s[i] = s[j] => i = j
  PROVE  Cardinality({i \in DOMAIN s : s[i] = c}) = IF \E i \in DOMAIN s : s[i] = c THEN 1 ELSE 0
<1>1. CASE \E i \in DOMAIN s : s[i] = c
  <2>1. PICK k \in DOMAIN s : s[k] = c
    BY <1>1
  <2>2. {i \in DOMAIN s : s[i] = c} = {k}
    BY <2>1
  <2> QED
    BY <1>1, <2>2, FS_Singleton
<1>2. CASE ~ \E i \in DOMAIN s : s[i] = c
  <2>1. {i \in DOMAIN s : s[i] = c} = {}
    BY <1>2
  <2> QED
    BY <1>2, <2>1, FS_EmptySet
<1> QED
  BY <1>1, <1>2

-----------------------------------------------------------------------------
(***************************************************************************)
(* The scores, and the two orders of the cases                             *)
(***************************************************************************)

\* What a record of a score is: a number if there is one, and null if not.
Normal(scores) ==
  \A c \in Cases : /\ Scored(scores, c) => scores[c].score \in Nat
                   /\ ~Scored(scores, c) => scores[c].score = Null

LEMMA NoScoresAreNormal == Normal(NoScores)
  BY DEF Normal, NoScores, Scored

LEMMA AnswersAreNormal ==
  ASSUME NEW answer, \A i \in DOMAIN answer : answer[i].p["supported"] \in Nat
  PROVE  Normal(NormalizeScores(answer))
<1> SUFFICES ASSUME NEW c \in Cases
             PROVE  LET r == NormalizeScores(answer)[c]
                    IN  IF r.status = "scored" THEN r.score \in Nat ELSE r.score = Null
  BY DEF Normal, Scored
<1>1. CASE \E i \in DOMAIN answer : answer[i].id = c
  <2> DEFINE i == CHOOSE i \in DOMAIN answer : answer[i].id = c
  <2>1. i \in DOMAIN answer
    BY <1>1
  <2>2. NormalizeScores(answer)[c] = Record(answer[i])
    BY <1>1 DEF NormalizeScores
  <2> HIDE DEF i
  <2> QED
    BY <2>1, <2>2 DEF Record
<1>2. CASE ~ \E i \in DOMAIN answer : answer[i].id = c
  BY <1>2 DEF NormalizeScores, NoScores
<1> QED
  BY <1>1, <1>2

\* There are finitely many cases, each in one place of the batch.
LEMMA FiniteCases ==
  /\ IsFiniteSet(Cases)
  /\ \A c \in Cases : Place(c) \in Nat
  /\ \A a, b \in Cases : Place(a) = Place(b) => a = b
<1>1. Batch \in [1..Len(Batch) -> Cases] /\ Len(Batch) \in Nat
  BY SelectionAssumption
<1>2. Batch \in Surjection(1..Len(Batch), Cases)
  BY <1>1, SelectionAssumption DEF Surjection
<1>3. IsFiniteSet(Cases)
  BY <1>1, <1>2, FS_NatSurjection DEF ExistsSurjection
<1>4. \A c \in Cases : Place(c) \in DOMAIN Batch /\ Batch[Place(c)] = c
  BY SelectionAssumption DEF Place
<1>5. \A c \in Cases : Place(c) \in Nat
  BY <1>1, <1>4
<1>6. \A a, b \in Cases : Place(a) = Place(b) => a = b
  BY <1>4
<1> QED
  BY <1>3, <1>5, <1>6

EarlierPairs(scores) == {p \in Cases \X Cases : Earlier(scores, p[1], p[2])}

RanksPairs(scores, mode) == {p \in Cases \X Cases : RanksBefore(scores, mode, p[1], p[2])}

\* orderItems never leaves two cases in a tie.
LEMMA EarlierIsTotal ==
  ASSUME NEW scores, Normal(scores)
  PROVE  TotalOrder(EarlierPairs(scores), Cases)
<1>1. \A c \in Cases : Rank(scores, c) \in Int
  BY DEF Rank, Normal, Null
<1> QED
  BY <1>1, FiniteCases DEF TotalOrder, EarlierPairs, Earlier

\* Neither does the comparator of selectItems, among cases with a score.
LEMMA RanksIsTotal ==
  ASSUME NEW scores, Normal(scores), NEW mode, NEW S \in SUBSET Cases,
         \A c \in S : Scored(scores, c)
  PROVE  TotalOrder(RanksPairs(scores, mode), S)
<1>1. \A c \in S : scores[c].score \in Nat /\ c \in Int
  BY SelectionAssumption DEF Normal
<1> QED
  BY <1>1 DEF TotalOrder, RanksPairs, RanksBefore

\* The two sorts find their lists.
LEMMA OrderItemsLists ==
  ASSUME NEW scores, Normal(scores)
  PROVE  Lists(OrderItems(scores), Cases, EarlierPairs(scores))
<1> DEFINE Right(s) == \A i, j \in DOMAIN s : i < j => Earlier(scores, s[i], s[j])
<1>1. \A s \in SetToSeqs(Cases) : \A i \in DOMAIN s : s[i] \in Cases
  BY FiniteCases, ListOfASet, ElementOfSeq
<1>2. \A s \in SetToSeqs(Cases) : Right(s) <=> Lists(s, Cases, EarlierPairs(scores))
  BY <1>1 DEF Lists, EarlierPairs
<1>3. \E s \in SetToSeqs(Cases) : Right(s)
  BY <1>2, SortExists, EarlierIsTotal, FiniteCases DEF Lists
<1>4. OrderItems(scores) = CHOOSE s \in SetToSeqs(Cases) : Right(s)
  BY DEF OrderItems, Sorted
<1> HIDE DEF Right
<1> QED
  BY <1>2, <1>3, <1>4

LEMMA RankedLists ==
  ASSUME NEW scores, Normal(scores), NEW mode, NEW S \in SUBSET Cases
  PROVE  Lists(Ranked(scores, mode, S), {c \in S : Scored(scores, c)}, RanksPairs(scores, mode))
<1> DEFINE T == {c \in S : Scored(scores, c)}
           Right(s) == \A i, j \in DOMAIN s : i < j => RanksBefore(scores, mode, s[i], s[j])
<1>1. IsFiniteSet(T) /\ T \subseteq Cases
  BY FiniteCases, FS_Subset
<1>2. \A s \in SetToSeqs(T) : \A i \in DOMAIN s : s[i] \in T
  BY <1>1, ListOfASet, ElementOfSeq
<1>3. \A s \in SetToSeqs(T) : Right(s) <=> Lists(s, T, RanksPairs(scores, mode))
  BY <1>1, <1>2 DEF Lists, RanksPairs
<1>4. TotalOrder(RanksPairs(scores, mode), T)
  BY <1>1, RanksIsTotal
<1> HIDE DEF T
<1>5. \E s \in SetToSeqs(T) : Right(s)
  BY <1>1, <1>3, <1>4, SortExists DEF Lists
<1>6. Ranked(scores, mode, S) = CHOOSE s \in SetToSeqs(T) : Right(s)
  BY DEF Ranked, Sorted, T
<1> HIDE DEF Right
<1> QED
  BY <1>3, <1>5, <1>6 DEF T

-----------------------------------------------------------------------------
(***************************************************************************)
(* A selection is exact                                                    *)
(***************************************************************************)

\* With one occurrence of each case that is selected, and no other, a
\* selection is exact if it is in order.
LEMMA ExactByMembers ==
  ASSUME NEW s, NEW scores, NEW policy,
         \A i, j \in DOMAIN s : s[i] = s[j] => i = j,
         \A c \in Cases : (\E i \in DOMAIN s : s[i] = c) <=> IsSelected(scores, policy, c),
         \A i, j \in DOMAIN s : i < j => InOrder(scores, policy, s[i], s[j])
  PROVE  IsExact(s, scores, policy)
<1>1. ASSUME NEW c \in Cases
      PROVE  Cardinality({i \in DOMAIN s : s[i] = c}) = IF IsSelected(scores, policy, c) THEN 1 ELSE 0
  BY OnceOrNever
<1> QED
  BY <1>1 DEF IsExact

\* All cases: the baseline first, then those without a score, then by score.
LEMMA AllIsExact ==
  ASSUME NEW scores, Normal(scores), NEW policy, policy.mode = "all"
  PROVE  IsExact(OrderItems(scores), scores, policy)
<1> DEFINE s == OrderItems(scores)
<1>1. Lists(s, Cases, EarlierPairs(scores))
  BY OrderItemsLists
<1> HIDE DEF s
<1>2. /\ \A c \in Cases : \E i \in DOMAIN s : s[i] = c
      /\ \A i, j \in DOMAIN s : s[i] = s[j] => i = j
      /\ \A i \in DOMAIN s : s[i] \in Cases
  BY <1>1, FiniteCases, ListOfASet, ElementOfSeq DEF Lists
<1>3. ASSUME NEW a \in Cases, NEW b \in Cases, Earlier(scores, a, b)
      PROVE  InOrder(scores, policy, a, b)
  BY <1>3 DEF InOrder, Earlier, Rank, Normal, Null
<1>4. \A i, j \in DOMAIN s : i < j => InOrder(scores, policy, s[i], s[j])
  BY <1>1, <1>2, <1>3 DEF Lists, EarlierPairs
<1> QED
  BY <1>2, <1>4, ExactByMembers DEF IsSelected, s

\* What any list of ranked cases is.
LEMMA RankedFacts ==
  ASSUME NEW scores, Normal(scores), NEW policy, policy.mode # "all", NEW S \in SUBSET Cases
  PROVE  LET s == Ranked(scores, policy.mode, S)
             T == {c \in S : Scored(scores, c)}
         IN  /\ s \in Seq(T) /\ Len(s) \in Nat /\ DOMAIN s = 1..Len(s)
             /\ \A c \in T : \E i \in DOMAIN s : s[i] = c
             /\ \A i, j \in DOMAIN s : s[i] = s[j] => i = j
             /\ \A i, j \in DOMAIN s : i < j => InOrder(scores, policy, s[i], s[j])
             /\ \A i \in DOMAIN s : Cardinality(Ahead(RanksPairs(scores, policy.mode), T, s[i])) = i - 1
<1> DEFINE s == Ranked(scores, policy.mode, S)
           T == {c \in S : Scored(scores, c)}
           R == RanksPairs(scores, policy.mode)
<1>1. IsFiniteSet(T) /\ T \subseteq Cases
  BY FiniteCases, FS_Subset
<1>2. Lists(s, T, R)
  BY RankedLists
<1>3. TotalOrder(R, T)
  BY <1>1, RanksIsTotal
<1>4. \A c \in T : Scored(scores, c)
  OBVIOUS
<1> HIDE DEF s, T, R
<1>5. /\ s \in Seq(T) /\ Len(s) \in Nat /\ DOMAIN s = 1..Len(s)
      /\ \A c \in T : \E i \in DOMAIN s : s[i] = c
      /\ \A i, j \in DOMAIN s : s[i] = s[j] => i = j
      /\ \A i \in DOMAIN s : s[i] \in T
  BY <1>1, <1>2, ListOfASet, ElementOfSeq DEF Lists
<1>6. ASSUME NEW a \in T, NEW b \in T, <<a, b>> \in R
      PROVE  InOrder(scores, policy, a, b)
  <2>1. scores[a].score \in Nat /\ scores[b].score \in Nat
    BY <1>1, <1>4 DEF Normal
  <2>2. RanksBefore(scores, policy.mode, a, b)
    BY <1>6 DEF R, RanksPairs
  <2>3. a \in Int /\ b \in Int
    BY <1>1, SelectionAssumption
  <2> QED
    BY <2>1, <2>2, <2>3 DEF InOrder, RanksBefore
<1>7. \A i, j \in DOMAIN s : i < j => InOrder(scores, policy, s[i], s[j])
  BY <1>2, <1>5, <1>6 DEF Lists
<1>8. \A i \in DOMAIN s : Cardinality(Ahead(R, T, s[i])) = i - 1
  BY <1>1, <1>2, <1>3, PlacesCount
<1> QED
  BY <1>5, <1>7, <1>8 DEF s, T, R

\* A range: who is within it, both ends included.
LEMMA RangeIsExact ==
  ASSUME NEW scores, Normal(scores), NEW policy \in Policies, policy.mode = "range"
  PROVE  IsExact(Ranked(scores, policy.mode, {c \in Cases : Within(scores[c].score, policy)}),
                 scores, policy)
<1> DEFINE S == {c \in Cases : Within(scores[c].score, policy)}
           s == Ranked(scores, policy.mode, S)
           T == {c \in S : Scored(scores, c)}
<1>0. policy.mode # "all" /\ S \in SUBSET Cases
  OBVIOUS
<1> HIDE DEF S
<1>1. /\ s \in Seq(T) /\ Len(s) \in Nat /\ DOMAIN s = 1..Len(s)
      /\ \A c \in T : \E i \in DOMAIN s : s[i] = c
      /\ \A i, j \in DOMAIN s : s[i] = s[j] => i = j
      /\ \A i, j \in DOMAIN s : i < j => InOrder(scores, policy, s[i], s[j])
      /\ \A i \in DOMAIN s : Cardinality(Ahead(RanksPairs(scores, policy.mode), T, s[i])) = i - 1
  BY <1>0, RankedFacts
<1>2. policy.min \in Int /\ policy.max \in Int
  BY SelectionAssumption DEF Policies
<1>3. \A c \in Cases : c \in T <=> IsSelected(scores, policy, c)
  BY <1>2 DEF IsSelected, Within, Normal, S
<1> HIDE DEF T, s
<1>4. \A c \in Cases : (\E i \in DOMAIN s : s[i] = c) <=> c \in T
  BY <1>1, ElementOfSeq
<1> QED
  BY <1>1, <1>3, <1>4, ExactByMembers DEF s, S

\* The lowest or highest: a prefix is what has fewer than count ahead of it.
LEMMA PrefixIsExact ==
  ASSUME NEW scores, Normal(scores), NEW policy \in Policies, policy.mode \in {"lowest", "highest"}
  PROVE  LET ranked == Ranked(scores, policy.mode, Cases)
         IN  IsExact(IF policy.count < Len(ranked) THEN SubSeq(ranked, 1, policy.count) ELSE ranked,
                     scores, policy)
<1> DEFINE r == Ranked(scores, policy.mode, Cases)
           T == {c \in Cases : Scored(scores, c)}
           R == RanksPairs(scores, policy.mode)
           s == IF policy.count < Len(r) THEN SubSeq(r, 1, policy.count) ELSE r
<1>0. policy.mode # "all" /\ Cases \in SUBSET Cases
  OBVIOUS
<1>1. /\ r \in Seq(T) /\ Len(r) \in Nat /\ DOMAIN r = 1..Len(r)
      /\ \A c \in T : \E i \in DOMAIN r : r[i] = c
      /\ \A i, j \in DOMAIN r : r[i] = r[j] => i = j
      /\ \A i, j \in DOMAIN r : i < j => InOrder(scores, policy, r[i], r[j])
      /\ \A i \in DOMAIN r : Cardinality(Ahead(R, T, r[i])) = i - 1
  BY <1>0, RankedFacts
<1>2. policy.count \in Nat
  BY DEF Policies
<1>3. \A c \in T : {d \in Cases : AheadOf(scores, policy.mode, d, c)} = Ahead(R, T, c)
  BY DEF AheadOf, Ahead, RanksPairs, RanksBefore
<1>4. \A c \in Cases : IsSelected(scores, policy, c)
                         <=> c \in T /\ Cardinality(Ahead(R, T, c)) < policy.count
  BY <1>3 DEF IsSelected
<1>5. \A i \in DOMAIN r : r[i] \in T
  BY <1>1, ElementOfSeq
<1> HIDE DEF r, T, R
<1> DEFINE CutAt(m) == /\ DOMAIN s = 1..m /\ m <= Len(r)
                       /\ \A i \in 1..m : s[i] = r[i]
                       /\ \A i \in 1..Len(r) : i <= m <=> i - 1 < policy.count
<1>6. \E m \in Nat : CutAt(m)
  <2>1. CASE policy.count < Len(r)
    <3>1. s = SubSeq(r, 1, policy.count)
      BY <2>1
    <3> HIDE DEF s
    <3>2. \A i \in 1..policy.count : r[i] \in T
      BY <1>1, <1>2, <1>5, <2>1
    <3>3. /\ s \in Seq(T) /\ Len(s) = policy.count
          /\ \A i \in 1..policy.count : s[i] = r[i]
      BY <1>2, <3>1, <3>2, SubSeqProperties
    <3>4. DOMAIN s = 1..policy.count
      BY <3>3
    <3>5. policy.count <= Len(r)
      BY <1>1, <1>2, <2>1
    <3>6. \A i \in 1..Len(r) : i <= policy.count <=> i - 1 < policy.count
      BY <1>1, <1>2
    <3>7. CutAt(policy.count)
      BY <3>3, <3>4, <3>5, <3>6
    <3> HIDE DEF CutAt
    <3> QED
      BY <1>2, <3>7
  <2>2. CASE ~(policy.count < Len(r))
    <3>1. s = r
      BY <2>2
    <3> HIDE DEF s
    <3>2. DOMAIN s = 1..Len(r) /\ \A i \in 1..Len(r) : s[i] = r[i]
      BY <1>1, <3>1
    <3>3. \A i \in 1..Len(r) : i <= Len(r) <=> i - 1 < policy.count
      BY <1>1, <1>2, <2>2
    <3>4. Len(r) \in Nat /\ Len(r) <= Len(r)
      BY <1>1
    <3>5. CutAt(Len(r))
      BY <3>2, <3>3, <3>4
    <3> HIDE DEF CutAt
    <3> QED
      BY <3>4, <3>5
  <2> QED
    BY <2>1, <2>2
<1> HIDE DEF s
<1>7. PICK m \in Nat : CutAt(m)
  BY <1>6
<1>8. \A i \in DOMAIN s : i \in DOMAIN r /\ s[i] = r[i]
  BY <1>1, <1>7
<1>9. ASSUME NEW c \in Cases
      PROVE  (\E i \in DOMAIN s : s[i] = c) <=> IsSelected(scores, policy, c)
  <2>1. ASSUME NEW i \in DOMAIN s, s[i] = c PROVE IsSelected(scores, policy, c)
    <3>1. i \in 1..Len(r) /\ r[i] = c /\ i - 1 < policy.count
      BY <1>1, <1>7, <1>8, <2>1
    <3> QED
      BY <1>1, <1>4, <1>5, <3>1
  <2>2. ASSUME IsSelected(scores, policy, c) PROVE \E i \in DOMAIN s : s[i] = c
    <3>1. PICK i \in DOMAIN r : r[i] = c
      BY <1>1, <1>4, <2>2
    <3>2. i - 1 < policy.count
      BY <1>1, <1>4, <2>2, <3>1
    <3>3. i \in 1..m
      BY <1>1, <1>7, <3>1, <3>2
    <3> QED
      BY <1>7, <3>1, <3>3
  <2> QED
    BY <2>1, <2>2
<1>10. IsExact(s, scores, policy)
  BY <1>1, <1>8, <1>9, ExactByMembers
<1> QED
  BY <1>10 DEF s, r

\* Whatever the scores and the policy, exactly the right cases are selected,
\* in the right order (selectItems, orderItems).
THEOREM SelectionsAreExact ==
  ASSUME NEW scores, Normal(scores), NEW policy \in Policies
  PROVE  IsExact(SelectItems(scores, policy), scores, policy)
<1>1. CASE policy.mode = "all"
  BY <1>1, AllIsExact DEF SelectItems
<1>2. CASE policy.mode = "range"
  BY <1>2, RangeIsExact DEF SelectItems
<1>3. CASE policy.mode \in {"lowest", "highest"}
  BY <1>3, PrefixIsExact DEF SelectItems
<1> QED
  BY <1>1, <1>2, <1>3 DEF Policies, Modes

\* A selection is a list of cases.
LEMMA SelectionsAreLists ==
  ASSUME NEW scores, Normal(scores), NEW policy \in Policies
  PROVE  SelectItems(scores, policy) \in Seq(Cases)
<1>1. OrderItems(scores) \in Seq(Cases)
  BY OrderItemsLists, FiniteCases, ListOfASet DEF Lists
<1>2. ASSUME NEW S \in SUBSET Cases
      PROVE  Ranked(scores, policy.mode, S) \in Seq(Cases)
  <2> DEFINE T == {c \in S : Scored(scores, c)}
  <2>1. IsFiniteSet(T) /\ T \subseteq Cases
    BY FiniteCases, FS_Subset
  <2>2. Ranked(scores, policy.mode, S) \in SetToSeqs(T)
    BY RankedLists DEF Lists
  <2> HIDE DEF T
  <2>3. Ranked(scores, policy.mode, S) \in Seq(T)
    BY <2>1, <2>2, ListOfASet
  <2> QED
    BY <2>1, <2>3, SeqMonotonic
<1>3. {c \in Cases : Within(scores[c].score, policy)} \in SUBSET Cases /\ Cases \in SUBSET Cases
  OBVIOUS
<1> DEFINE r == Ranked(scores, policy.mode, Cases)
<1>4. r \in Seq(Cases)
  BY <1>2, <1>3
<1>5. policy.count < Len(r) => SubSeq(r, 1, policy.count) \in Seq(Cases)
  <2>1. policy.count \in Nat
    BY DEF Policies
  <2> HIDE DEF r
  <2> SUFFICES ASSUME policy.count < Len(r) PROVE SubSeq(r, 1, policy.count) \in Seq(Cases)
    OBVIOUS
  <2>2. \A i \in 1..policy.count : r[i] \in Cases
    BY <1>4, <2>1, ElementOfSeq
  <2> QED
    BY <2>1, <2>2, SubSeqProperties
<1> QED
  BY <1>1, <1>2, <1>3, <1>4, <1>5 DEF SelectItems, Policies, Modes
=============================================================================
