---------------------------- MODULE QueueLemmas ----------------------------
(***************************************************************************)
(* What the proofs need to know of queues: of their entries after one has  *)
(* been pushed, popped or removed, as queue.c does it, and of the least    *)
(* and the greatest of some numbers.                                       *)
(***************************************************************************)
EXTENDS Integers, Sequences, SequencesExt, FiniteSets, FiniteSetsExt,
        SequenceTheorems, FiniteSetTheorems, WellFoundedInduction, TLAPS

(* Where the entries of new come from: those of old from position d + 1    *)
(* on, in their order, and then perhaps one of E.                          *)
Moved(new, old, d, E) ==
  \A i \in DOMAIN new :
    \/ i + d \in DOMAIN old /\ new[i] = old[i + d]
    \/ i = Len(old) + 1 - d /\ new[i] \in E

(* A set of numbers has a least one ...                                    *)
LEMMA Least ==
  ASSUME NEW S \in SUBSET Nat, S # {}
  PROVE  Min(S) \in S /\ \A s \in S : Min(S) <= s
<1>1. PICK x \in S : \A y \in S : ~ (<<y, x>> \in OpToRel(<, Nat))
  BY NatLessThanWellFounded, WFMin
<1>2. \A y \in S : ~ (y < x)
  BY <1>1, Zenon DEF OpToRel
<1>3. \A y \in S : x <= y
  BY <1>2
<1> QED BY <1>3 DEF Min

(* ... and, finite, a greatest one.                                        *)
LEMMA Greatest ==
  ASSUME NEW S \in SUBSET Nat, IsFiniteSet(S), S # {}
  PROVE  Max(S) \in S /\ \A s \in S : s <= Max(S)
<1> DEFINE HasLast(U) == \E x \in U : \A y \in U : y <= x
           K == {Cardinality(U) : U \in {V \in SUBSET S : V # {} /\ ~ HasLast(V)}}
<1>1. \A U \in SUBSET S : IsFiniteSet(U) /\ Cardinality(U) \in Nat
  BY FS_Subset, FS_CardinalityType
<1>2. K = {}
  <2> SUFFICES ASSUME K # {} PROVE FALSE
    OBVIOUS
  <2>1. K \in SUBSET Nat
    BY <1>1
  <2>2. Min(K) \in K /\ \A k \in K : Min(K) <= k
    BY <2>1, Least
  <2>3. PICK U \in SUBSET S : U # {} /\ ~ HasLast(U) /\ Cardinality(U) = Min(K)
    BY <2>2
  <2>4. PICK u : u \in U
    BY <2>3
  <2> DEFINE W == U \ {u}
  <2>5. Cardinality(W) = Cardinality(U) - 1
    BY <1>1, <2>4, FS_RemoveElement
  <2>6. ~ (Min(K) <= Cardinality(W))
    BY <1>1, <2>3, <2>5
  <2>7. W = {} \/ HasLast(W)
    <3> HIDE DEF HasLast
    <3> QED BY <2>2, <2>6
  <2>8. CASE W = {}
    BY <2>3, <2>4, <2>8
  <2>9. CASE W # {}
    <3>1. PICK w \in W : \A y \in W : y <= w
      BY <2>7, <2>9
    <3>2. w \in Nat /\ u \in Nat /\ w \in U /\ U \subseteq Nat
      BY <2>4
    <3>3. CASE u <= w
      BY <2>3, <3>1, <3>2, <3>3
    <3>4. CASE w <= u
      <4>1. \A y \in U : y <= u
        BY <3>1, <3>2, <3>4
      <4> QED BY <2>3, <2>4, <4>1
    <3> QED BY <3>2, <3>3, <3>4
  <2> QED BY <2>8, <2>9
<1>3. PICK x \in S : \A y \in S : y <= x
  BY <1>2
<1> QED BY <1>3 DEF Max

-----------------------------------------------------------------------------

(* The entries of a queue.                                                 *)
LEMMA QueueEntries ==
  ASSUME NEW S, NEW q \in Seq(S)
  PROVE  /\ Len(q) \in Nat /\ DOMAIN q = 1 .. Len(q)
         /\ \A i \in DOMAIN q : i \in Nat /\ q[i] \in S
         /\ ToSet(q) = {q[i] : i \in DOMAIN q} /\ ToSet(q) \subseteq S
         /\ q = <<>> <=> Len(q) = 0
         /\ q = <<>> <=> DOMAIN q = {}
         /\ Moved(q, q, 0, {})
<1>1. Len(q) \in Nat /\ DOMAIN q = 1 .. Len(q) /\ \A i \in 1 .. Len(q) : q[i] \in S
  BY LenProperties, ElementOfSeq
<1>2. q = <<>> <=> Len(q) = 0
  BY EmptySeq
<1>3. Len(q) = 0 <=> DOMAIN q = {}
  <2>1. Len(q) # 0 => 1 \in DOMAIN q
    BY <1>1
  <2> QED BY <1>1, <2>1
<1>4. \A i \in DOMAIN q : i \in Nat /\ q[i] \in S
  BY <1>1
<1>5. ToSet(q) = {q[i] : i \in DOMAIN q} /\ ToSet(q) \subseteq S
  BY <1>4 DEF ToSet
<1>6. Moved(q, q, 0, {})
  BY <1>4 DEF Moved
<1> QED BY <1>1, <1>2, <1>3, <1>4, <1>5, <1>6

(* queue_pop_head                                                          *)
LEMMA Popped ==
  ASSUME NEW S, NEW q \in Seq(S), q # <<>>
  PROVE  /\ Head(q) = q[1] /\ 1 \in DOMAIN q /\ Head(q) \in S
         /\ Tail(q) \in Seq(S) /\ Len(Tail(q)) = Len(q) - 1
         /\ \A i \in DOMAIN Tail(q) : i \in Nat /\ i + 1 \in DOMAIN q /\ Tail(q)[i] = q[i + 1]
         /\ \A i \in DOMAIN q : i = 1 \/ (i - 1 \in DOMAIN Tail(q) /\ Tail(q)[i - 1] = q[i])
         /\ Moved(Tail(q), q, 1, {})
<1> DEFINE t == Tail(q)
<1>1. Len(q) \in Nat /\ DOMAIN q = 1 .. Len(q) /\ Len(q) # 0
  BY QueueEntries
<1>2. /\ t \in Seq(S) /\ Len(t) = Len(q) - 1 /\ DOMAIN t = 1 .. Len(t)
      /\ \A i \in 1 .. Len(t) : t[i] = q[i + 1]
      /\ Head(q) \in S
  BY HeadTailProperties, LenProperties
<1>3. Head(q) = q[1]
  OBVIOUS
<1> HIDE DEF t
<1>4. 1 \in DOMAIN q
  BY <1>1
<1>5. \A i \in DOMAIN t : i \in Nat /\ i + 1 \in DOMAIN q /\ t[i] = q[i + 1]
  BY <1>1, <1>2
<1>6. \A i \in DOMAIN q : i = 1 \/ (i - 1 \in DOMAIN t /\ t[i - 1] = q[i])
  <2> TAKE i \in DOMAIN q
  <2>1. i # 1 => i - 1 \in 1 .. Len(t) /\ (i - 1) + 1 = i
    BY <1>1, <1>2
  <2> QED BY <1>2, <2>1
<1>7. Moved(t, q, 1, {})
  BY <1>1, <1>5 DEF Moved
<1> QED BY <1>2, <1>3, <1>4, <1>5, <1>6, <1>7 DEF t

(* queue_push_tail                                                         *)
LEMMA Pushed ==
  ASSUME NEW S, NEW q \in Seq(S), NEW e \in S
  PROVE  /\ Append(q, e) \in Seq(S) /\ Append(q, e) # <<>>
         /\ Len(Append(q, e)) = Len(q) + 1
         /\ \A i \in DOMAIN q : i \in DOMAIN Append(q, e) /\ Append(q, e)[i] = q[i]
         /\ \A i \in DOMAIN Append(q, e) :
              \/ i \in DOMAIN q /\ Append(q, e)[i] = q[i]
              \/ i = Len(q) + 1 /\ i \notin DOMAIN q /\ Append(q, e)[i] = e
         /\ Len(q) + 1 \in DOMAIN Append(q, e) /\ Append(q, e)[Len(q) + 1] = e
         /\ Moved(Append(q, e), q, 0, {e})
         /\ Head(Append(q, e)) = IF q = <<>> THEN e ELSE Head(q)
<1> DEFINE a == Append(q, e)
<1>1. Len(q) \in Nat /\ DOMAIN q = 1 .. Len(q) /\ (q = <<>> <=> Len(q) = 0)
  BY QueueEntries
<1>2. /\ a \in Seq(S) /\ a # <<>> /\ Len(a) = Len(q) + 1 /\ DOMAIN a = 1 .. Len(a)
      /\ \A i \in 1 .. Len(q) : a[i] = q[i]
      /\ a[Len(q) + 1] = e
  BY AppendProperties, LenProperties
<1>3. Head(a) = IF q = <<>> THEN e ELSE Head(q)
  BY HeadTailAppend
<1> HIDE DEF a
<1>4. \A i \in DOMAIN q : i \in DOMAIN a /\ a[i] = q[i]
  BY <1>1, <1>2
<1>5. \A i \in DOMAIN a : \/ i \in DOMAIN q /\ a[i] = q[i]
                          \/ i = Len(q) + 1 /\ i \notin DOMAIN q /\ a[i] = e
  BY <1>1, <1>2
<1>6. Len(q) + 1 \in DOMAIN a
  BY <1>1, <1>2
<1>7. Moved(a, q, 0, {e})
  BY <1>1, <1>2, <1>5 DEF Moved
<1> QED BY <1>2, <1>3, <1>4, <1>5, <1>6, <1>7 DEF a

(* queue_pop_head and queue_push_tail                                      *)
LEMMA PoppedPushed ==
  ASSUME NEW S, NEW q \in Seq(S), q # <<>>, NEW e \in S
  PROVE  /\ Append(Tail(q), e) \in Seq(S) /\ Append(Tail(q), e) # <<>>
         /\ Len(Append(Tail(q), e)) = Len(q)
         /\ Moved(Append(Tail(q), e), q, 1, {e})
         /\ Len(q) \in DOMAIN Append(Tail(q), e) /\ Append(Tail(q), e)[Len(q)] = e
<1> DEFINE t == Tail(q)
<1>1. /\ t \in Seq(S) /\ Len(t) = Len(q) - 1
      /\ \A i \in DOMAIN t : i \in Nat /\ i + 1 \in DOMAIN q /\ t[i] = q[i + 1]
  BY Popped
<1> HIDE DEF t
<1> DEFINE a == Append(t, e)
<1>2. /\ a \in Seq(S) /\ a # <<>> /\ Len(a) = Len(t) + 1
      /\ \A i \in DOMAIN a : \/ i \in DOMAIN t /\ a[i] = t[i]
                             \/ i = Len(t) + 1 /\ a[i] = e
      /\ Len(t) + 1 \in DOMAIN a /\ a[Len(t) + 1] = e
  BY <1>1, Pushed
<1> HIDE DEF a
<1>3. Len(q) \in Nat /\ DOMAIN q = 1 .. Len(q)
  BY QueueEntries
<1>4. Len(t) + 1 = Len(q) /\ Len(q) + 1 - 1 = Len(q)
  BY <1>1, <1>3
<1>5. Moved(a, q, 1, {e})
  BY <1>1, <1>2, <1>3, <1>4 DEF Moved
<1> QED BY <1>2, <1>4, <1>5 DEF a, t

(* queue_remove and queue_remove_if: what is left keeps its order.         *)
LEMMA RemovedAt ==
  ASSUME NEW S, NEW q \in Seq(S), NEW k \in DOMAIN q
  PROVE  /\ RemoveAt(q, k) \in Seq(S) /\ Len(RemoveAt(q, k)) = Len(q) - 1
         /\ \A i \in DOMAIN RemoveAt(q, k) :
              LET j == IF i < k THEN i ELSE i + 1 IN
              j \in DOMAIN q /\ j # k /\ RemoveAt(q, k)[i] = q[j]
         /\ \A j \in DOMAIN q : j # k =>
              LET i == IF j < k THEN j ELSE j - 1 IN
              i \in DOMAIN RemoveAt(q, k) /\ RemoveAt(q, k)[i] = q[j]
<1> DEFINE n == Len(q)
           b == SubSeq(q, 1, k - 1)
           a == SubSeq(q, k + 1, n)
           r == b \o a
<1>1. n \in Nat /\ DOMAIN q = 1 .. n /\ k \in 1 .. n /\ \A i \in 1 .. n : q[i] \in S
  BY QueueEntries
<1>2. b \in Seq(S) /\ Len(b) = k - 1 /\ \A i \in 1 .. k - 1 : b[i] = q[i]
  <2>1. \A i \in 1 .. k - 1 : q[i] \in S
    BY <1>1
  <2>2. /\ b \in Seq(S) /\ Len(b) = (IF 1 <= k - 1 THEN k - 1 - 1 + 1 ELSE 0)
        /\ \A i \in 1 .. k - 1 - 1 + 1 : b[i] = q[1 + i - 1]
    BY <1>1, <2>1, SubSeqProperties
  <2> HIDE DEF b, n
  <2>3. Len(b) = k - 1
    BY <1>1, <2>2
  <2>4. \A i \in 1 .. k - 1 : b[i] = q[i]
    <3> TAKE i \in 1 .. k - 1
    <3>1. i \in 1 .. k - 1 - 1 + 1 /\ 1 + i - 1 = i
      BY <1>1
    <3> QED BY <2>2, <3>1
  <2> QED BY <2>2, <2>3, <2>4
<1>3. a \in Seq(S) /\ Len(a) = n - k /\ \A i \in 1 .. n - k : a[i] = q[k + i]
  <2>1. \A i \in k + 1 .. n : q[i] \in S
    BY <1>1
  <2>2. /\ a \in Seq(S) /\ Len(a) = (IF k + 1 <= n THEN n - (k + 1) + 1 ELSE 0)
        /\ \A i \in 1 .. n - (k + 1) + 1 : a[i] = q[(k + 1) + i - 1]
    BY <1>1, <2>1, SubSeqProperties
  <2> HIDE DEF a, n
  <2>3. Len(a) = n - k
    <3>1. CASE k + 1 <= n
      <4>1. n - (k + 1) + 1 = n - k
        BY <1>1
      <4> QED BY <2>2, <3>1, <4>1
    <3>2. CASE ~ (k + 1 <= n)
      <4>1. n - k = 0
        BY <1>1, <3>2
      <4> QED BY <2>2, <3>2, <4>1
    <3> QED BY <3>1, <3>2
  <2>4. \A i \in 1 .. n - k : a[i] = q[k + i]
    <3> TAKE i \in 1 .. n - k
    <3>1. i \in 1 .. n - (k + 1) + 1 /\ (k + 1) + i - 1 = k + i
      BY <1>1
    <3> QED BY <2>2, <3>1
  <2> QED BY <2>2, <2>3, <2>4
<1> HIDE DEF a, b, n
<1>4. /\ r \in Seq(S) /\ Len(r) = Len(b) + Len(a) /\ DOMAIN r = 1 .. Len(r)
      /\ \A i \in 1 .. Len(b) + Len(a) : r[i] = IF i <= Len(b) THEN b[i] ELSE a[i - Len(b)]
  BY <1>2, <1>3, ConcatProperties, LenProperties
<1> HIDE DEF r
<1>5. Len(r) = n - 1 /\ DOMAIN r = 1 .. n - 1
  <2>1. (k - 1) + (n - k) = n - 1
    BY <1>1
  <2> QED BY <1>2, <1>3, <1>4, <2>1
<1>6. \A i \in DOMAIN r :
        LET j == IF i < k THEN i ELSE i + 1 IN j \in DOMAIN q /\ j # k /\ r[i] = q[j]
  <2> SUFFICES ASSUME NEW i \in 1 .. n - 1, NEW j, j = IF i < k THEN i ELSE i + 1
               PROVE  j \in DOMAIN q /\ j # k /\ r[i] = q[j]
    BY <1>5
  <2>1. i \in 1 .. Len(b) + Len(a)
    BY <1>1, <1>4, <1>5
  <2>2. CASE i < k
    <3>1. i \in 1 .. k - 1 /\ i <= Len(b)
      BY <1>1, <1>2, <2>2
    <3> QED BY <1>1, <1>2, <1>4, <2>1, <2>2, <3>1
  <2>3. CASE ~ (i < k)
    <3>1. i \in Int /\ k \in Int /\ n \in Int /\ j = i + 1
      BY <1>1, <2>3
    <3>2. j \in 1 .. n /\ j # k /\ ~ (i <= k - 1)
      BY <1>1, <2>3, <3>1
    <3>3. i - (k - 1) \in 1 .. n - k /\ k + (i - (k - 1)) = j
      BY <1>1, <2>3, <3>1
    <3>4. r[i] = a[i - (k - 1)]
      BY <1>2, <1>4, <2>1, <3>2
    <3> QED BY <1>1, <1>3, <3>2, <3>3, <3>4
  <2> QED BY <2>2, <2>3
<1>7. \A j \in DOMAIN q : j # k =>
        LET i == IF j < k THEN j ELSE j - 1 IN i \in DOMAIN r /\ r[i] = q[j]
  <2> SUFFICES ASSUME NEW j \in 1 .. n, j # k, NEW i, i = IF j < k THEN j ELSE j - 1
               PROVE  i \in DOMAIN r /\ r[i] = q[j]
    BY <1>1
  <2>1. i \in 1 .. n - 1 /\ j = IF i < k THEN i ELSE i + 1
    BY <1>1
  <2> QED BY <1>5, <1>6, <2>1
<1> QED BY <1>4, <1>5, <1>6, <1>7 DEF r, a, b, n, RemoveAt

(* queue_remove takes the first entry there is, if any.                    *)
LEMMA FirstRemoved ==
  ASSUME NEW S, NEW q \in Seq(S), NEW e
  PROVE  RemoveFirst(q, e) = q \/ \E k \in DOMAIN q : RemoveFirst(q, e) = RemoveAt(q, k)
<1> DEFINE I == {i \in 1 .. Len(q) : q[i] = e}
<1>1. Len(q) \in Nat /\ DOMAIN q = 1 .. Len(q)
  BY QueueEntries
<1>2. CASE I = {}
  <2>1. ~ \E i \in 1 .. Len(q) : q[i] = e
    BY <1>2
  <2> QED BY <2>1 DEF RemoveFirst
<1>3. CASE I # {}
  <2>1. \E i \in 1 .. Len(q) : q[i] = e
    BY <1>3
  <2>2. RemoveFirst(q, e) = RemoveAt(q, Min(I))
    BY <1>3, <2>1 DEF RemoveFirst, SelectInSeq
  <2>3. Min(I) \in I
    <3>1. I \in SUBSET Nat
      BY <1>1
    <3> HIDE DEF I
    <3> QED BY <1>3, <3>1, Least
  <2>4. Min(I) \in DOMAIN q
    BY <1>1, <2>3
  <2> HIDE DEF I
  <2> QED BY <2>2, <2>4
<1> QED BY <1>2, <1>3

=============================================================================
