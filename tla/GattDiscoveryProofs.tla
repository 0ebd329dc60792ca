------------------------ MODULE GattDiscoveryProofs ------------------------
(***************************************************************************)
(* Proofs about GattDiscovery, for any finite set of slots, any layout of  *)
(* secondary, single-handle and included services, and any number of       *)
(* changes of the server.                                                  *)
(***************************************************************************)
EXTENDS GattDiscovery, SequenceTheorems, FiniteSetTheorems,
        WellFoundedInduction, TLAPS

-----------------------------------------------------------------------------
(* Sets of slots.                                                          *)

(* A set of slots has a first one ...                                      *)
LEMMA Least ==
  ASSUME NEW S \in SUBSET Nat, S # {}
  PROVE  Min(S) \in S /\ \A s \in S : Min(S) <= s
<1>1. PICK x \in S : \A y \in S : ~ (<<y, x>> \in OpToRel(<, Nat))
  BY NatLessThanWellFounded, WFMin
<1>2. \A y \in S : ~ (y < x)
  BY <1>1, Zenon DEF OpToRel
<1>3. \A y \in S : x <= y
  BY <1>2
<1> QED BY <1>3 DEF Min

(* ... and, finite, a last one.                                            *)
LEMMA Greatest ==
  ASSUME NEW S \in SUBSET Nat, IsFiniteSet(S), S # {}
  PROVE  Max(S) \in S /\ \A s \in S : s <= Max(S)
<1> DEFINE HasLast(U) == \E x \in U : \A y \in U : y <= x
           K == {Cardinality(U) : U \in {V \in SUBSET S : V # {} /\ ~ HasLast(V)}}
<1>1. \A U \in SUBSET S : IsFiniteSet(U) /\ Cardinality(U) \in Nat
  BY FS_Subset, FS_CardinalityType
<1>2. K = {}
  <2> SUFFICES ASSUME K # {} PROVE FALSE
    OBVIOUS
  <2>1. K \in SUBSET Nat
    BY <1>1
  <2>2. Min(K) \in K /\ \A k \in K : Min(K) <= k
    BY <2>1, Least
  <2>3. PICK U \in SUBSET S : U # {} /\ ~ HasLast(U) /\ Cardinality(U) = Min(K)
    BY <2>2
  <2>4. PICK u : u \in U
    BY <2>3
  <2> DEFINE W == U \ {u}
  <2>5. Cardinality(W) = Cardinality(U) - 1
    BY <1>1, <2>4, FS_RemoveElement
  <2>6. ~ (Min(K) <= Cardinality(W))
    BY <1>1, <2>3, <2>5
  <2>7. W = {} \/ HasLast(W)
    <3> HIDE DEF HasLast
    <3> QED BY <2>2, <2>6
  <2>8. CASE W = {}
    BY <2>3, <2>4, <2>8
  <2>9. CASE W # {}
    <3>1. PICK w \in W : \A y \in W : y <= w
      BY <2>7, <2>9
    <3>2. w \in Nat /\ u \in Nat /\ w \in U /\ U \subseteq Nat
      BY <2>4
    <3>3. CASE u <= w
      BY <2>3, <3>1, <3>2, <3>3
    <3>4. CASE w <= u
      <4>1. \A y \in U : y <= u
        BY <3>1, <3>2, <3>4
      <4> QED BY <2>3, <2>4, <4>1
    <3> QED BY <3>2, <3>3, <3>4
  <2> QED BY <2>8, <2>9
<1>3. PICK x \in S : \A y \in S : y <= x
  BY <1>2
<1> QED BY <1>3 DEF Max

(* A finite set of slots can be put in the order of handles.               *)
LEMMA Sortable ==
  ASSUME NEW S \in SUBSET Nat, IsFiniteSet(S)
  PROVE  \E q \in [1 .. Cardinality(S) -> S] : \A i, j \in DOMAIN q : i < j => q[i] < q[j]
<1> DEFINE Sorted(U) == \E q \in [1 .. Cardinality(U) -> U] :
                          \A i, j \in DOMAIN q : i < j => q[i] < q[j]
           K == {Cardinality(U) : U \in {V \in SUBSET S : ~ Sorted(V)}}
<1>1. \A U \in SUBSET S : IsFiniteSet(U) /\ Cardinality(U) \in Nat
  BY FS_Subset, FS_CardinalityType
<1>2. K = {}
  <2> SUFFICES ASSUME K # {} PROVE FALSE
    OBVIOUS
  <2>1. K \in SUBSET Nat
    BY <1>1
  <2>2. Min(K) \in K /\ \A k \in K : Min(K) <= k
    BY <2>1, Least
  <2>3. PICK U \in SUBSET S : ~ Sorted(U) /\ Cardinality(U) = Min(K)
    BY <2>2
  <2> DEFINE n == Cardinality(U)
  <2>4. n \in Nat /\ IsFiniteSet(U)
    BY <1>1
  <2>5. CASE U = {}
    <3>1. n = 0
      BY <2>5, FS_EmptySet
    <3> DEFINE q == [i \in 1 .. n |-> 0]
    <3>2. DOMAIN q = {} /\ q \in [1 .. n -> U]
      BY <3>1
    <3> QED BY <2>3, <3>2
  <2>6. CASE U # {}
    <3> DEFINE m == Max(U)
               W == U \ {m}
    <3>1. m \in U /\ \A y \in U : y <= m
      BY <2>4, <2>6, Greatest
    <3> HIDE DEF m
    <3>2. Cardinality(W) = n - 1
      BY <2>4, <3>1, FS_RemoveElement
    <3>3. ~ (Min(K) <= Cardinality(W))
      BY <2>3, <2>4, <3>2
    <3>4. Sorted(W)
      <4> HIDE DEF Sorted
      <4> QED BY <2>2, <3>3
    <3>5. PICK q \in [1 .. n - 1 -> W] : \A i, j \in 1 .. n - 1 : i < j => q[i] < q[j]
      BY <3>2, <3>4
    <3> DEFINE r == [i \in 1 .. n |-> IF i = n THEN m ELSE q[i]]
    <3>6. \A i \in 1 .. n : i # n => i \in 1 .. n - 1
      BY <2>4
    <3>7. r \in [1 .. n -> U]
      BY <3>1, <3>5, <3>6
    <3>8. \A w \in W : w < m
      BY <3>1
    <3>9. ASSUME NEW i \in 1 .. n, NEW j \in 1 .. n, i < j PROVE r[i] < r[j]
      <4>1. i # n /\ i \in 1 .. n - 1
        BY <2>4, <3>6, <3>9
      <4>2. CASE j = n
        BY <3>5, <3>8, <4>1, <4>2
      <4>3. CASE j # n
        BY <3>5, <3>6, <3>9, <4>1, <4>3
      <4> QED BY <4>2, <4>3
    <3>10. Sorted(U)
      <4>1. DOMAIN r = 1 .. n
        OBVIOUS
      <4> HIDE DEF r, n
      <4> QED BY <3>7, <3>9, <4>1 DEF n
    <3> QED BY <2>3, <3>10
  <2> QED BY <2>5, <2>6
<1> QED BY <1>2

(* The services found are each in the queue, once and in order.            *)
LEMMA InOrderSlots ==
  ASSUME NEW S \in SUBSET Slots
  PROVE  InOrder(S) \in Seq(S) /\ ToSet(InOrder(S)) = S
<1> DEFINE n == Cardinality(S)
           q == InOrder(S)
<1>1. S \in SUBSET Nat /\ IsFiniteSet(S) /\ n \in Nat
  BY DiscoveryConstantsOK, FS_Subset, FS_CardinalityType
<1>2. q \in [1 .. n -> S] /\ \A i, j \in 1 .. n : i < j => q[i] < q[j]
  BY <1>1, Sortable DEF InOrder
<1> HIDE DEF q
<1>3. q \in Seq(S)
  BY <1>1, <1>2, SeqDef
<1>4. \A i, j \in 1 .. n : i # j => q[i] # q[j]
  <2>1. \A i \in 1 .. n : q[i] \in Nat
    BY <1>1, <1>2
  <2> HIDE DEF n
  <2>2. \A i, j \in 1 .. n : i < j \/ j < i \/ i = j
    BY <1>1
  <2> QED BY <1>1, <1>2, <2>1, <2>2
<1>5. q \in Injection(1 .. n, S)
  BY <1>2, <1>4 DEF Injection, IsInjective
<1>6. Cardinality(1 .. n) = n
  BY <1>1, FS_Interval
<1>7. q \in Surjection(1 .. n, S)
  BY <1>1, <1>5, <1>6, FS_Injection
<1>8. ToSet(q) = S
  BY <1>2, <1>7 DEF ToSet, Surjection
<1> QED BY <1>3, <1>8 DEF q

-----------------------------------------------------------------------------
(* Queues of services.                                                     *)

(* What is in a queue that a service is taken from, or that is put         *)
(* together from two.                                                      *)
LEMMA QueueSets ==
  /\ <<>> \in Seq(Slots) /\ ToSet(<<>>) = {}
  /\ \A s \in Slots : <<s>> \in Seq(Slots) /\ <<s>> # <<>> /\ ToSet(<<s>>) = {s}
  /\ \A q \in Seq(Slots) :
       /\ ToSet(q) \subseteq Slots /\ (ToSet(q) = {} => q = <<>>)
       /\ q # <<>> => /\ Head(q) \in Slots /\ Tail(q) \in Seq(Slots)
                      /\ ToSet(q) = {Head(q)} \union ToSet(Tail(q))
  /\ \A q, r \in Seq(Slots) :
       /\ q \o r \in Seq(Slots) /\ ToSet(q \o r) = ToSet(q) \union ToSet(r)
       /\ q # <<>> \/ r # <<>> => q \o r # <<>>
<1>1. <<>> \in Seq(Slots) /\ ToSet(<<>>) = {}
  BY DEF ToSet
<1>2. ASSUME NEW s \in Slots
      PROVE  <<s>> \in Seq(Slots) /\ <<s>> # <<>> /\ ToSet(<<s>>) = {s}
  <2>1. DOMAIN <<s>> = {1} /\ <<s>>[1] = s
    OBVIOUS
  <2> QED BY <2>1 DEF ToSet
<1>3. ASSUME NEW q \in Seq(Slots)
      PROVE  /\ ToSet(q) \subseteq Slots
             /\ ToSet(q) = {} => q = <<>>
             /\ q # <<>> => /\ Head(q) \in Slots /\ Tail(q) \in Seq(Slots)
                            /\ ToSet(q) = {Head(q)} \union ToSet(Tail(q))
  <2>1. DOMAIN q = 1 .. Len(q) /\ Len(q) \in Nat /\ \A k \in 1 .. Len(q) : q[k] \in Slots
    BY LenProperties, ElementOfSeq
  <2>2. ToSet(q) \subseteq Slots
    BY <2>1 DEF ToSet
  <2>3. q # <<>> => Len(q) >= 1
    BY <2>1, EmptySeq
  <2>4. ToSet(q) = {} => q = <<>>
    <3>1. q # <<>> => 1 \in DOMAIN q
      BY <2>1, <2>3
    <3> QED BY <3>1 DEF ToSet
  <2>5. ASSUME q # <<>>
        PROVE  /\ Head(q) \in Slots /\ Tail(q) \in Seq(Slots)
               /\ ToSet(q) = {Head(q)} \union ToSet(Tail(q))
    <3> DEFINE t == Tail(q)
    <3>1. /\ t \in Seq(Slots) /\ DOMAIN t = 1 .. Len(q) - 1
          /\ \A k \in 1 .. Len(q) - 1 : t[k] = q[k + 1]
          /\ Head(q) = q[1]
      BY <2>5, HeadTailProperties, LenProperties
    <3> HIDE DEF t
    <3>2. \A k \in DOMAIN t : k + 1 \in DOMAIN q /\ t[k] = q[k + 1]
      BY <2>1, <3>1
    <3>3. \A k \in DOMAIN q : k = 1 \/ (k - 1 \in DOMAIN t /\ t[k - 1] = q[k])
      BY <2>1, <3>1
    <3>4. 1 \in DOMAIN q
      BY <2>1, <2>3, <2>5
    <3>5. ToSet(q) = {q[1]} \union ToSet(t)
      BY <3>2, <3>3, <3>4 DEF ToSet
    <3> QED BY <2>1, <3>1, <3>4, <3>5 DEF t
  <2> QED BY <2>2, <2>4, <2>5
<1>4. ASSUME NEW q \in Seq(Slots), NEW r \in Seq(Slots)
      PROVE  /\ q \o r \in Seq(Slots) /\ ToSet(q \o r) = ToSet(q) \union ToSet(r)
             /\ q # <<>> \/ r # <<>> => q \o r # <<>>
  <2> DEFINE c == q \o r
  <2>1. /\ c \in Seq(Slots) /\ DOMAIN c = 1 .. Len(q) + Len(r)
        /\ DOMAIN q = 1 .. Len(q) /\ DOMAIN r = 1 .. Len(r)
        /\ Len(q) \in Nat /\ Len(r) \in Nat
        /\ \A k \in 1 .. Len(q) : c[k] = q[k]
        /\ \A k \in Len(q) + 1 .. Len(q) + Len(r) : c[k] = r[k - Len(q)]
    BY ConcatProperties, LenProperties
  <2> HIDE DEF c
  <2>2. \A k \in DOMAIN c : \/ k \in DOMAIN q /\ c[k] = q[k]
                            \/ k - Len(q) \in DOMAIN r /\ c[k] = r[k - Len(q)]
    BY <2>1
  <2>3. \A k \in DOMAIN q : k \in DOMAIN c /\ c[k] = q[k]
    BY <2>1
  <2>4. \A k \in DOMAIN r : Len(q) + k \in DOMAIN c /\ c[Len(q) + k] = r[k]
    <3> TAKE k \in DOMAIN r
    <3>1. Len(q) + k \in Len(q) + 1 .. Len(q) + Len(r) /\ (Len(q) + k) - Len(q) = k
      BY <2>1
    <3> QED BY <2>1, <3>1
  <2>5. ToSet(c) = ToSet(q) \union ToSet(r)
    BY <2>2, <2>3, <2>4 DEF ToSet
  <2>6. q # <<>> \/ r # <<>> => c # <<>>
    BY <1>1, <1>3, <2>5
  <2> QED BY <2>1, <2>5, <2>6 DEF c
<1> QED BY <1>1, <1>2, <1>3, <1>4

(* The next service to look into, what comes before it and what after.     *)
LEMMA NextInQueue ==
  ASSUME NEW q \in Seq(Slots)
  PROVE  LET n == NextIn(q) IN
         /\ n = 0 => ToSet(q) \subseteq Single
         /\ n # 0 =>
              /\ q[n] \in ToSet(q)
              /\ SubSeq(q, 1, n) \in Seq(Slots) /\ SubSeq(q, 1, n) # <<>>
              /\ After(q, n) \in Seq(Slots)
              /\ ToSet(q) = ToSet(SubSeq(q, 1, n)) \union ToSet(After(q, n))
              /\ ToSet(q) \subseteq {q[n]} \union Single \union ToSet(After(q, n))
<1> DEFINE I == {i \in 1 .. Len(q) : q[i] \notin Single}
           n == NextIn(q)
<1>1. DOMAIN q = 1 .. Len(q) /\ Len(q) \in Nat /\ \A k \in 1 .. Len(q) : q[k] \in Slots
  BY LenProperties, ElementOfSeq
<1>2. n = IF I # {} THEN Min(I) ELSE 0
  BY DEF NextIn, SelectInSeq
<1>3. I # {} => Min(I) \in I /\ \A i \in I : Min(I) <= i
  <2>1. I \in SUBSET Nat
    BY <1>1
  <2> HIDE DEF I
  <2> QED BY <2>1, Least
<1> HIDE DEF n
<1>4. ASSUME n = 0 PROVE ToSet(q) \subseteq Single
  <2>1. I = {}
    BY <1>1, <1>2, <1>3, <1>4
  <2> QED BY <1>1, <2>1 DEF ToSet
<1>5. ASSUME n # 0
      PROVE  /\ q[n] \in ToSet(q)
             /\ SubSeq(q, 1, n) \in Seq(Slots) /\ SubSeq(q, 1, n) # <<>>
             /\ After(q, n) \in Seq(Slots)
             /\ ToSet(q) = ToSet(SubSeq(q, 1, n)) \union ToSet(After(q, n))
             /\ ToSet(q) \subseteq {q[n]} \union Single \union ToSet(After(q, n))
  <2>1. n \in 1 .. Len(q) /\ \A k \in 1 .. n - 1 : q[k] \in Single
    <3>1. n \in I /\ \A i \in I : n <= i
      BY <1>2, <1>3, <1>5
    <3> QED BY <1>1, <3>1
  <2> DEFINE b == SubSeq(q, 1, n)
             a == SubSeq(q, n + 1, Len(q))
  <2>2. /\ b \in Seq(Slots) /\ Len(b) = n /\ DOMAIN b = 1 .. n
        /\ \A k \in 1 .. n : b[k] = q[k]
    <3>1. \A k \in 1 .. n : q[k] \in Slots
      BY <1>1, <2>1
    <3>2. /\ b \in Seq(Slots) /\ Len(b) = (IF 1 <= n THEN n - 1 + 1 ELSE 0)
          /\ \A k \in 1 .. n - 1 + 1 : b[k] = q[1 + k - 1]
      BY <1>1, <2>1, <3>1, SubSeqProperties
    <3> HIDE DEF b
    <3>3. Len(b) = n
      BY <1>1, <2>1, <3>2
    <3>4. \A k \in 1 .. n : b[k] = q[k]
      <4> TAKE k \in 1 .. n
      <4>1. k \in 1 .. n - 1 + 1 /\ 1 + k - 1 = k
        BY <1>1, <2>1
      <4> QED BY <3>2, <4>1
    <3> QED BY <3>2, <3>3, <3>4, LenProperties
  <2>3. /\ a \in Seq(Slots) /\ DOMAIN a = 1 .. Len(q) - n
        /\ \A k \in 1 .. Len(q) - n : a[k] = q[n + k]
    <3>1. \A k \in n + 1 .. Len(q) : q[k] \in Slots
      BY <1>1, <2>1
    <3>2. /\ a \in Seq(Slots)
          /\ Len(a) = (IF n + 1 <= Len(q) THEN Len(q) - (n + 1) + 1 ELSE 0)
          /\ \A k \in 1 .. Len(q) - (n + 1) + 1 : a[k] = q[(n + 1) + k - 1]
      BY <1>1, <2>1, <3>1, SubSeqProperties
    <3> HIDE DEF a
    <3>3. Len(a) = Len(q) - n
      <4>1. n \in Nat /\ Len(q) \in Nat /\ n <= Len(q)
        BY <1>1, <2>1
      <4>2. CASE n + 1 <= Len(q)
        <5>1. Len(q) - (n + 1) + 1 = Len(q) - n
          BY <1>1, <4>1
        <5> QED BY <3>2, <4>2, <5>1
      <4>3. CASE ~ (n + 1 <= Len(q))
        <5>1. n = Len(q)
          BY <4>1, <4>3
        <5>2. Len(q) - n = 0
          BY <4>1, <5>1
        <5> QED BY <3>2, <4>3, <5>2
      <4> QED BY <4>2, <4>3
    <3>4. \A k \in 1 .. Len(q) - n : a[k] = q[n + k]
      <4> TAKE k \in 1 .. Len(q) - n
      <4>1. k \in 1 .. Len(q) - (n + 1) + 1 /\ (n + 1) + k - 1 = n + k
        BY <1>1, <2>1
      <4> QED BY <3>2, <4>1
    <3> QED BY <3>2, <3>3, <3>4, LenProperties
  <2> HIDE DEF a, b
  <2>4. \A k \in DOMAIN q : \/ k \in DOMAIN b /\ b[k] = q[k] /\ (k = n \/ q[k] \in Single)
                            \/ k - n \in DOMAIN a /\ a[k - n] = q[k]
    <3> TAKE k \in DOMAIN q
    <3>1. CASE k <= n
      BY <1>1, <2>1, <2>2, <3>1
    <3>2. CASE k > n
      <4>1. k - n \in 1 .. Len(q) - n /\ n + (k - n) = k
        BY <1>1, <2>1, <3>2
      <4> QED BY <2>3, <4>1
    <3> QED BY <1>1, <2>1, <3>1, <3>2
  <2>5. \A k \in DOMAIN b : k \in DOMAIN q /\ b[k] = q[k]
    BY <1>1, <2>1, <2>2
  <2>6. \A k \in DOMAIN a : n + k \in DOMAIN q /\ a[k] = q[n + k]
    BY <1>1, <2>1, <2>3
  <2>7. ToSet(q) = ToSet(b) \union ToSet(a)
    BY <2>4, <2>5, <2>6 DEF ToSet
  <2>8. ToSet(q) \subseteq {q[n]} \union Single \union ToSet(a)
    BY <2>4 DEF ToSet
  <2>9. q[n] \in ToSet(q) /\ b # <<>>
    BY <1>1, <2>1, <2>2 DEF ToSet
  <2> QED BY <2>2, <2>3, <2>7, <2>8, <2>9 DEF a, b, After
<1> QED BY <1>4, <1>5 DEF n

-----------------------------------------------------------------------------
(* The inductive invariant of every world.                                 *)

(* The queues the next step takes a service from are not empty.            *)
Staged ==
  /\ asked = "secondary" => pending_svcs # <<>>
  /\ asked = "includes" => tmp_queue # <<>>

(* How far the client has come, as the ready handler was told: nothing     *)
(* during the initialisation, and only a client that is ready registers    *)
(* for changes and works them off.                                         *)
Progress ==
  /\ Len(told) <= 1
  /\ in_init => up
  /\ up => /\ in_init = (told = <<>>)
           /\ ready = (told = <<TRUE>>)
           /\ asked = "mtu" => in_init
           /\ registering \/ listening \/ in_svc_chngd \/ svc_chngd_ind_id => ready

Base == Inv /\ Staged /\ Progress

Databases == [Slots -> [seen : SUBSET Versions, active : BOOLEAN]]

(* What the ready handler can have been told.                              *)
LEMMA Tellings ==
  /\ <<>> \in Seq(BOOLEAN) /\ Len(<<>>) = 0
  /\ <<TRUE>> # <<FALSE>>
  /\ \A x \in BOOLEAN : /\ <<x>> \in Seq(BOOLEAN) /\ <<x>> # <<>> /\ Len(<<x>>) = 1
                        /\ Append(<<>>, x) = <<x>>
  /\ \A q \in Seq(BOOLEAN) : Len(q) = 0 => q = <<>>
<1>1. <<TRUE>> # <<FALSE>>
  <2>1. <<TRUE>>[1] # <<FALSE>>[1]
    OBVIOUS
  <2> QED BY <2>1
<1>2. <<>> \in Seq(BOOLEAN) /\ Len(<<>>) = 0
  OBVIOUS
<1>3. \A x \in BOOLEAN : /\ <<x>> \in Seq(BOOLEAN) /\ <<x>> # <<>> /\ Len(<<x>>) = 1
                         /\ Append(<<>>, x) = <<x>>
  OBVIOUS
<1>4. \A q \in Seq(BOOLEAN) : Len(q) = 0 => q = <<>>
  BY EmptySeq
<1> QED BY <1>1, <1>2, <1>3, <1>4

(* Dropping the services of a range.                                       *)
LEMMA ClearedType ==
  ASSUME NEW d \in Databases, NEW slots
  PROVE  /\ Cleared(d, slots) \in Databases
         /\ \A s \in Slots : Cleared(d, slots)[s] = IF s \in slots THEN Absent ELSE d[s]
BY DEF Cleared, Databases, Absent

(* All slots are a range, and what has changed lies in one.                *)
LEMMA HullRange ==
  /\ Slots \in Ranges
  /\ \A S \in SUBSET Slots : S # {} => Hull(S) \in Ranges /\ S \subseteq Hull(S)
<1>1. ASSUME NEW S \in SUBSET Slots, S # {} PROVE Hull(S) \in Ranges /\ S \subseteq Hull(S)
  <2>1. S \in SUBSET Nat /\ IsFiniteSet(S)
    BY DiscoveryConstantsOK, FS_Subset
  <2>2. /\ Min(S) \in S /\ \A s \in S : Min(S) <= s
        /\ Max(S) \in S /\ \A s \in S : s <= Max(S)
    BY <1>1, <2>1, Least, Greatest
  <2>3. S \subseteq Hull(S)
    BY <2>2 DEF Hull, Span
  <2>4. Hull(S) # {}
    BY <1>1, <2>3
  <2> QED BY <2>2, <2>3, <2>4 DEF Hull, Ranges
<1>2. Gatt \in Slots
  BY DiscoveryConstantsOK
<1>3. Hull(Slots) \subseteq Slots
  BY DEF Hull, Span
<1> QED BY <1>1, <1>2, <1>3

(* The client is created with the exchange of MTUs pending.                *)
LEMMA InitBase == Init => Base
<1> SUFFICES ASSUME Init PROVE Base
  OBVIOUS
<1>1. Gatt \in Slots /\ {0, 1} \subseteq Versions \union {0} /\ MaxChanges \in Nat
  BY DiscoveryConstantsOK DEF Versions
<1>2. db \in Databases /\ \A s \in Slots : db[s] = Absent
  BY DEF Init, Databases, Absent
<1>3. TypeOK
  <2>1. <<>> \in Seq(Ranges) /\ <<>> \in Seq(Slots) /\ <<>> \in Seq(BOOLEAN)
    OBVIOUS
  <2>2. table \in [Slots -> Versions \union {0}] /\ changes \in 0 .. MaxChanges
    BY <1>1 DEF Init
  <2>3. {ccc, up, in_init, ready, in_svc_chngd, svc_chngd_ind_id, listening,
         registering} \subseteq BOOLEAN
    BY DEF Init
  <2>4. asked \in Requests /\ op_range \in Ranges
    BY HullRange DEF Init, Requests
  <2> QED BY <1>1, <1>2, <2>1, <2>2, <2>3, <2>4 DEF Init, TypeOK, Databases
<1>4. Len(told) <= 1 /\ told = <<>> /\ told # <<TRUE>> /\ told # <<FALSE>>
  BY Tellings DEF Init
<1>5. ReadyOnce /\ FlagsTell /\ FailedMeansEmpty
  BY <1>4 DEF Init, ReadyOnce, FlagsTell, FailedMeansEmpty
<1>6. Staged /\ Progress
  BY <1>4 DEF Init, Staged, Progress
<1> QED BY <1>3, <1>5, <1>6 DEF Base, Inv

(* notify_client_ready on a client that has told nothing, or everything.   *)
LEMMA NotifyReadyTells ==
  ASSUME Base, up, NEW success \in BOOLEAN, NotifyReady(success)
  PROVE  /\ in_init => ready' = success /\ told' = <<success>>
         /\ ready => ready' = ready /\ told' = told
BY Tellings DEF Base, Inv, Progress, TypeOK, NotifyReady

(* A step of a discovery that is not its last.                             *)
LEMMA AskBase ==
  ASSUME Base, UNCHANGED Outside, up, asked # "nothing", NEW request \in Requests \ {"mtu"},
         Ask(request), db' \in Databases, pending_svcs' \in Seq(Slots),
         tmp_queue' \in Seq(Slots), cur_svc' \in Slots,
         request = "secondary" => pending_svcs' # <<>>,
         request = "includes" => tmp_queue' # <<>>
  PROVE  Base'
<1> USE DEF Base, Inv
<1>1. TypeOK'
  BY DEF TypeOK, Ask, Outside, server, flags, events, Databases, Requests
<1>2. told = <<>> \/ told = <<TRUE>>
  BY DEF FlagsTell, Progress
<1>3. ReadyOnce' /\ FlagsTell'
  BY DEF ReadyOnce, FlagsTell, Ask, Outside, flags, events, Requests
<1>4. FailedMeansEmpty'
  BY <1>2, Tellings DEF FailedMeansEmpty, Ask
<1>5. Staged' /\ Progress'
  BY DEF Staged, Progress, Ask, Outside, flags, events
<1> QED BY <1>1, <1>3, <1>4, <1>5

(* process_service_changed on a client that is ready.                      *)
LEMMA ProcessBase ==
  ASSUME Base, up, ready, NEW range \in Ranges, NEW d \in Databases,
         Process(range, d), UNCHANGED <<world, table, changes, ccc, up, in_init, ready, told, cur_svc>>,
         owed' \in Seq(Ranges), svc_chngd_queue' \in Seq(Ranges)
  PROVE  Base'
<1> USE DEF Base, Inv
<1>1. db' \in Databases
  BY ClearedType DEF Process
<1>2. TypeOK'
  BY <1>1, QueueSets DEF TypeOK, Process, Databases, Requests
<1>3. told = <<TRUE>> /\ ~ in_init
  BY Tellings DEF Progress
<1>4. ReadyOnce' /\ FlagsTell'
  BY <1>3 DEF ReadyOnce, FlagsTell, Process
<1>5. FailedMeansEmpty'
  BY <1>3, Tellings DEF FailedMeansEmpty
<1>6. Staged' /\ Progress'
  BY <1>3, Tellings DEF Staged, Progress, Process
<1> QED BY <1>2, <1>4, <1>5, <1>6

(* The last step of a discovery, one that failed included.                 *)
LEMMA CompleteBase ==
  ASSUME Base, UNCHANGED Outside, up, asked # "nothing", NEW success \in BOOLEAN,
         NEW d \in Databases, Complete(success, d)
  PROVE  Base'
<1> USE DEF Base, Inv
<1>1. CASE in_init
  <2>1. InitComplete(success, d) /\ UNCHANGED cur_svc
    BY <1>1 DEF Complete
  <2>2. ready' = success /\ told' = <<success>>
    BY <1>1, <2>1, NotifyReadyTells DEF InitComplete
  <2>3. told = <<>> /\ ~ ready /\ ~ in_svc_chngd /\ svc_chngd_queue = <<>>
        /\ ~ registering /\ ~ listening /\ ~ svc_chngd_ind_id
    BY <1>1, Tellings DEF Progress, FlagsTell, TypeOK
  <2>4. db' \in Databases /\ (~ success => \A s \in Slots : db'[s] = Absent)
    BY <2>1, ClearedType DEF InitComplete
  <2>5. /\ svc_chngd_ind_id' \in BOOLEAN /\ listening' \in BOOLEAN
        /\ registering' \in BOOLEAN
        /\ registering' \/ listening' \/ svc_chngd_ind_id' => success
    BY <2>1, <2>3 DEF InitComplete, RegisterServiceChanged, TypeOK
  <2>6. /\ asked' = "nothing" /\ in_init' = FALSE
        /\ UNCHANGED <<world, table, changes, ccc, owed, up, op_range, pending_svcs,
                       tmp_queue, cur_svc, in_svc_chngd, svc_chngd_queue>>
    BY <2>1 DEF InitComplete, Finished, Outside, server
  <2>7. TypeOK'
    BY <2>2, <2>4, <2>5, <2>6, Tellings DEF TypeOK, Databases
  <2>8. /\ Len(told') <= 1 /\ told' # <<>>
        /\ ready' = (told' = <<TRUE>>) /\ (told' = <<FALSE>> => ~ success)
    <3>0. Len(told') <= 1 /\ told' # <<>>
      BY <2>2, Tellings
    <3>1. CASE success = TRUE
      <4>1. ready' = TRUE /\ told' = <<TRUE>>
        BY <2>2, <3>1
      <4> QED BY <3>0, <3>1, <4>1, Tellings
    <3>2. CASE success = FALSE
      <4>1. ready' = FALSE /\ told' = <<FALSE>>
        BY <2>2, <3>2
      <4>2. (told' = <<TRUE>>) = FALSE
        BY <4>1, Tellings
      <4> QED BY <3>0, <3>2, <4>1, <4>2
    <3> QED BY <3>1, <3>2
  <2>9. ReadyOnce' /\ FlagsTell' /\ FailedMeansEmpty'
    BY <2>3, <2>4, <2>6, <2>8 DEF ReadyOnce, FlagsTell, FailedMeansEmpty
  <2>10. Staged' /\ Progress'
    BY <2>2, <2>3, <2>5, <2>6, <2>8 DEF Staged, Progress
  <2> QED BY <2>7, <2>9, <2>10
<1>2. CASE ~ in_init
  <2> DEFINE kept == IF success THEN d ELSE Cleared(d, op_range)
  <2>1. kept \in Databases
    BY ClearedType
  <2>2. in_svc_chngd /\ ready /\ told = <<TRUE>>
    BY <1>2 DEF FlagsTell, Progress
  <2>3. ChangeComplete(success, d) /\ UNCHANGED cur_svc
    BY <1>2 DEF Complete
  <2>4. CASE svc_chngd_queue # <<>>
    <3>1. Process(Head(svc_chngd_queue), kept) /\ svc_chngd_queue' = Tail(svc_chngd_queue)
      BY <2>3, <2>4 DEF ChangeComplete
    <3>2. Head(svc_chngd_queue) \in Ranges /\ Tail(svc_chngd_queue) \in Seq(Ranges)
      BY <2>4, HeadTailProperties DEF TypeOK
    <3>3. /\ UNCHANGED <<world, table, changes, ccc, up, in_init, ready, told, cur_svc>>
          /\ owed' \in Seq(Ranges)
      BY <2>3 DEF ChangeComplete, Outside, server, TypeOK
    <3> HIDE DEF kept
    <3> QED BY <2>1, <2>2, <3>1, <3>2, <3>3, ProcessBase
  <2>5. CASE svc_chngd_queue = <<>>
    <3>1. /\ in_svc_chngd' = FALSE /\ asked' = "nothing" /\ db' = kept
          /\ RegisterServiceChanged(kept)
          /\ UNCHANGED <<world, table, changes, ccc, owed, up, op_range, pending_svcs,
                         tmp_queue, cur_svc, in_init, ready, told, svc_chngd_queue>>
      BY <2>3, <2>5 DEF ChangeComplete, Finished, Outside, server
    <3>2. svc_chngd_ind_id' \in BOOLEAN /\ listening' \in BOOLEAN /\ registering' \in BOOLEAN
      BY <3>1 DEF RegisterServiceChanged, TypeOK
    <3> HIDE DEF kept
    <3>3. TypeOK'
      BY <2>1, <3>1, <3>2 DEF TypeOK, Databases
    <3>4. ReadyOnce' /\ FlagsTell' /\ FailedMeansEmpty'
      BY <1>2, <2>2, <2>5, <3>1, Tellings DEF ReadyOnce, FlagsTell, FailedMeansEmpty
    <3>5. Staged' /\ Progress'
      BY <2>2, <3>1, Tellings DEF Staged, Progress
    <3> QED BY <3>3, <3>4, <3>5
  <2> QED BY <2>4, <2>5
<1> QED BY <1>1, <1>2

(* What the answers put into the database.                                 *)
LEMMA LearntType ==
  ASSUME Base
  PROVE  /\ db \in Databases
         /\ \A s \in Slots : table[s] # 0 =>
              /\ Learnt(s) \in Databases
              /\ \A r \in Slots : Learnt(s)[r] =
                   IF r = s THEN [seen |-> db[s].seen \union {table[s]},
                                  active |-> db[s].active] ELSE db[r]
         /\ \A S \in SUBSET Slots : (\A s \in S : table[s] # 0) =>
              /\ Inserted(S) \in Databases
              /\ \A s \in Slots : Inserted(S)[s] =
                   IF s \in S THEN [seen |-> {table[s]}, active |-> FALSE] ELSE db[s]
         /\ \A b \in BOOLEAN : Found(b) \in SUBSET op_range /\ \A s \in Found(b) : table[s] # 0
         /\ op_range \subseteq Slots
<1>1. db \in Databases /\ op_range \subseteq Slots
      /\ \A s \in Slots : table[s] # 0 => {table[s]} \in SUBSET Versions
  BY DEF Base, Inv, TypeOK, Databases, Ranges, Span
<1>2. ASSUME NEW s \in Slots, table[s] # 0
      PROVE  /\ Learnt(s) \in Databases
             /\ \A r \in Slots : Learnt(s)[r] =
                  IF r = s THEN [seen |-> db[s].seen \union {table[s]},
                                 active |-> db[s].active] ELSE db[r]
  <2>1. \A r \in Slots : Learnt(s)[r] =
          IF r = s THEN [seen |-> db[s].seen \union {table[s]},
                         active |-> db[s].active] ELSE db[r]
    <3> TAKE r \in Slots
    <3>1. CASE r = s
      <4> DEFINE x == db[s].seen \union {table[s]}
      <4>1. Learnt(s)[s] = [db[s] EXCEPT !.seen = x]
        BY <1>1 DEF Learnt, Databases
      <4> HIDE DEF x
      <4>2. db[s] \in [seen : SUBSET Versions, active : BOOLEAN]
        BY <1>1 DEF Databases
      <4>3. [db[s] EXCEPT !.seen = x] = [seen |-> x, active |-> db[s].active]
        BY <4>2
      <4> QED BY <3>1, <4>1, <4>3 DEF x
    <3>2. CASE r # s
      BY <1>1, <3>2 DEF Learnt, Databases
    <3> QED BY <3>1, <3>2
  <2>2. DOMAIN Learnt(s) = Slots
    BY <1>1 DEF Learnt, Databases
  <2>3. db[s].seen \union {table[s]} \in SUBSET Versions /\ db[s].active \in BOOLEAN
    BY <1>1, <1>2 DEF Databases
  <2>4. Learnt(s) = [r \in Slots |-> Learnt(s)[r]]
    BY <1>1 DEF Learnt, Databases
  <2>5. \A r \in Slots : Learnt(s)[r] \in [seen : SUBSET Versions, active : BOOLEAN]
    BY <1>1, <2>1, <2>3 DEF Databases
  <2> QED BY <2>1, <2>4, <2>5 DEF Databases
<1>3. ASSUME NEW S \in SUBSET Slots, \A s \in S : table[s] # 0
      PROVE  /\ Inserted(S) \in Databases
             /\ \A s \in Slots : Inserted(S)[s] =
                  IF s \in S THEN [seen |-> {table[s]}, active |-> FALSE] ELSE db[s]
  BY <1>1, <1>3 DEF Inserted, Databases
<1>4. \A b \in BOOLEAN : Found(b) \in SUBSET op_range /\ \A s \in Found(b) : table[s] # 0
  BY DEF Found
<1> QED BY <1>1, <1>2, <1>3, <1>4

(* A service is complete, and the next one is looked into.                 *)
LEMMA ServiceDoneBase ==
  ASSUME Base, UNCHANGED Outside, up, asked \in {"chrcs", "descs"},
         NEW d \in Databases, ServiceDone(d)
  PROVE  Base'
<1> DEFINE active == [d EXCEPT ![cur_svc].active = TRUE]
           i == NextIn(pending_svcs)
<1>1. active \in Databases
  BY DEF Databases
<1>2. pending_svcs \in Seq(Slots)
  BY DEF Base, Inv, TypeOK
<1>3. CASE i = 0
  <2>1. Complete(TRUE, active)
    BY <1>3 DEF ServiceDone
  <2> HIDE DEF active
  <2> QED BY <1>1, <2>1, CompleteBase
<1>4. CASE i # 0
  <2>1. /\ db' = active /\ cur_svc' = pending_svcs[i] /\ pending_svcs' = After(pending_svcs, i)
        /\ Ask("chrcs") /\ tmp_queue' = tmp_queue
    BY <1>4 DEF ServiceDone
  <2>2. pending_svcs[i] \in Slots /\ After(pending_svcs, i) \in Seq(Slots)
    BY <1>2, <1>4, NextInQueue, QueueSets
  <2>3. tmp_queue \in Seq(Slots)
    BY DEF Base, Inv, TypeOK
  <2> HIDE DEF active, i
  <2> QED BY <1>1, <2>1, <2>2, <2>3, AskBase DEF Requests
<1> QED BY <1>3, <1>4

(* Every step keeps the invariant.                                         *)
LEMMA NextBase == Base /\ [Next]_vars => Base'
<1> SUFFICES ASSUME Base, [Next]_vars PROVE Base'
  OBVIOUS
<1>0. TypeOK /\ ReadyOnce /\ FlagsTell /\ FailedMeansEmpty /\ Staged /\ Progress
  BY DEF Base, Inv
<1>1. db \in Databases /\ op_range \in SUBSET Slots /\ pending_svcs \in Seq(Slots)
      /\ tmp_queue \in Seq(Slots) /\ cur_svc \in Slots
  BY <1>0, LearntType DEF TypeOK
<1>2. CASE MtuExchanged
  <2>1. /\ UNCHANGED <<Outside, db, pending_svcs, tmp_queue, cur_svc>> /\ up /\ asked = "mtu"
        /\ Ask("primary")
    BY <1>2 DEF MtuExchanged, Answered
  <2> QED BY <1>1, <2>1, AskBase DEF Requests
<1>3. CASE MtuRefused
  <2>1. /\ up /\ in_init /\ in_init' = FALSE /\ NotifyReady(FALSE) /\ asked' = "nothing"
        /\ db' = Cleared(db, Slots)
        /\ UNCHANGED <<world, table, changes, ccc, owed, up, op_range, pending_svcs,
                       tmp_queue, cur_svc, in_svc_chngd, svc_chngd_queue,
                       svc_chngd_ind_id, listening, registering>>
    BY <1>0, <1>3 DEF MtuRefused, Answered, Outside, server, events, Finished, Progress
  <2>2. ready' = FALSE /\ told' = <<FALSE>>
    BY <2>1, NotifyReadyTells
  <2>3. ~ ready /\ ~ in_svc_chngd /\ svc_chngd_queue = <<>>
        /\ ~ registering /\ ~ listening /\ ~ svc_chngd_ind_id
    BY <1>0, <2>1, Tellings DEF Progress, FlagsTell
  <2>4. db' \in Databases /\ \A s \in Slots : db'[s] = Absent
    BY <1>1, <2>1, ClearedType
  <2>5. TypeOK'
    BY <1>0, <2>1, <2>2, <2>4, Tellings DEF TypeOK, Databases
  <2>6. told' # <<>> /\ told' # <<TRUE>> /\ Len(told') <= 1
    BY <2>2, Tellings
  <2>7. ReadyOnce' /\ FlagsTell' /\ FailedMeansEmpty'
    BY <2>1, <2>2, <2>3, <2>4, <2>6 DEF ReadyOnce, FlagsTell, FailedMeansEmpty
  <2>8. Staged' /\ Progress'
    BY <2>1, <2>2, <2>3, <2>6 DEF Staged, Progress
  <2> QED BY <2>5, <2>7, <2>8 DEF Base, Inv
<1>4. CASE PrimaryAnswered
  <2>1. UNCHANGED Outside /\ up /\ asked = "primary"
    BY <1>4 DEF PrimaryAnswered, Answered
  <2>2. CASE Complete(FALSE, db)
    BY <1>1, <2>1, <2>2, CompleteBase
  <2>3. CASE ~ Complete(FALSE, db)
    <3> DEFINE F == Found(FALSE)
    <3>1. /\ F # {} /\ db' = Inserted(F) /\ pending_svcs' = InOrder(F)
          /\ Ask("secondary") /\ UNCHANGED <<tmp_queue, cur_svc>>
      BY <1>4, <2>3 DEF PrimaryAnswered
    <3>2. F \in SUBSET Slots /\ Inserted(F) \in Databases
      BY <1>1, LearntType
    <3> HIDE DEF F
    <3>3. InOrder(F) \in Seq(F) /\ ToSet(InOrder(F)) = F
      BY <3>2, InOrderSlots
    <3>4. InOrder(F) \in Seq(Slots)
      BY <3>2, <3>3
    <3>5. InOrder(F) # <<>>
      BY <3>1, <3>3, QueueSets
    <3> QED BY <1>1, <2>1, <3>1, <3>2, <3>4, <3>5, AskBase DEF Requests
  <2> QED BY <2>2, <2>3
<1>5. CASE SecondaryAnswered
  <2> DEFINE F == Found(TRUE)
             svcs == pending_svcs \o InOrder(F)
  <2>1. UNCHANGED Outside /\ up /\ asked = "secondary"
    BY <1>5 DEF SecondaryAnswered, Answered
  <2>2. CASE Complete(FALSE, db)
    BY <1>1, <2>1, <2>2, CompleteBase
  <2>3. CASE ~ Complete(FALSE, db)
    <3>1. /\ db' = Inserted(F) /\ cur_svc' = Head(svcs) /\ tmp_queue' = <<Head(svcs)>>
          /\ pending_svcs' = Tail(svcs) /\ Ask("includes")
      BY <1>5, <2>3 DEF SecondaryAnswered
    <3>2. F \in SUBSET Slots /\ Inserted(F) \in Databases
      BY <1>1, LearntType
    <3> HIDE DEF F
    <3>3. InOrder(F) \in Seq(Slots)
      BY <3>2, InOrderSlots
    <3>4. svcs \in Seq(Slots) /\ svcs # <<>>
      BY <1>0, <1>1, <2>1, <3>3, QueueSets DEF Staged
    <3> HIDE DEF svcs
    <3>5. /\ Head(svcs) \in Slots /\ Tail(svcs) \in Seq(Slots)
          /\ <<Head(svcs)>> \in Seq(Slots) /\ <<Head(svcs)>> # <<>>
      BY <3>4, QueueSets
    <3> QED BY <2>1, <3>1, <3>2, <3>5, AskBase DEF Requests
  <2> QED BY <2>2, <2>3
<1>6. ASSUME NEW d \in Databases, UNCHANGED Outside, up, asked = "includes", IncludesDone(d)
      PROVE  Base'
  <2> DEFINE i == NextIn(pending_svcs)
             all == tmp_queue \o pending_svcs
             before == SubSeq(pending_svcs, 1, i)
             queue == tmp_queue \o before
  <2>1. CASE i # 0
    <3>1. /\ db' = d /\ cur_svc' = pending_svcs[i] /\ tmp_queue' = queue
          /\ pending_svcs' = After(pending_svcs, i) /\ Ask("includes")
      BY <1>6, <2>1 DEF IncludesDone
    <3>2. /\ pending_svcs[i] \in Slots /\ After(pending_svcs, i) \in Seq(Slots)
          /\ before \in Seq(Slots) /\ before # <<>>
      BY <1>1, <2>1, NextInQueue, QueueSets
    <3> HIDE DEF i, before
    <3>3. queue \in Seq(Slots) /\ queue # <<>>
      BY <1>1, <3>2, QueueSets
    <3> HIDE DEF queue
    <3> QED BY <1>6, <3>1, <3>2, <3>3, AskBase DEF Requests
  <2>2. CASE i = 0
    <3>1. /\ db' = d /\ cur_svc' = Head(all) /\ tmp_queue' = <<>>
          /\ pending_svcs' = Tail(all) /\ Ask("chrcs")
      BY <1>6, <2>2 DEF IncludesDone
    <3>2. all \in Seq(Slots) /\ all # <<>>
      BY <1>0, <1>1, <1>6, QueueSets DEF Staged
    <3> HIDE DEF all
    <3>3. Head(all) \in Slots /\ Tail(all) \in Seq(Slots) /\ <<>> \in Seq(Slots)
      BY <3>2, QueueSets
    <3> QED BY <1>6, <3>1, <3>3, AskBase DEF Requests
  <2> QED BY <2>1, <2>2
<1>7. CASE IncludesAnswered
  <2>1. UNCHANGED Outside /\ up /\ asked = "includes"
    BY <1>7 DEF IncludesAnswered, Answered
  <2>2. \/ IncludesDone(db) \/ Complete(FALSE, db)
        \/ table[cur_svc] # 0 /\ IncludesDone(Learnt(cur_svc))
    BY <1>7 DEF IncludesAnswered, IncludedNow
  <2>3. table[cur_svc] # 0 => Learnt(cur_svc) \in Databases
    BY <1>1, LearntType
  <2> QED BY <1>1, <1>6, <2>1, <2>2, <2>3, CompleteBase
<1>8. CASE ChrcsAnswered
  <2>1. UNCHANGED Outside /\ up /\ asked = "chrcs"
    BY <1>8 DEF ChrcsAnswered, Answered
  <2>2. \/ ServiceDone(db) \/ Complete(FALSE, db)
        \/ table[cur_svc] # 0 /\ ServiceDone(Learnt(cur_svc))
        \/ /\ table[cur_svc] # 0 /\ db' = Learnt(cur_svc) /\ Ask("descs")
           /\ UNCHANGED <<pending_svcs, tmp_queue, cur_svc>>
    BY <1>8 DEF ChrcsAnswered
  <2>3. table[cur_svc] # 0 => Learnt(cur_svc) \in Databases
    BY <1>1, LearntType
  <2>4. CASE /\ table[cur_svc] # 0 /\ db' = Learnt(cur_svc) /\ Ask("descs")
             /\ UNCHANGED <<pending_svcs, tmp_queue, cur_svc>>
    BY <1>1, <2>1, <2>3, <2>4, AskBase DEF Requests
  <2> QED BY <1>1, <2>1, <2>2, <2>3, <2>4, CompleteBase, ServiceDoneBase
<1>9. CASE DescsAnswered
  <2>1. UNCHANGED Outside /\ up /\ asked = "descs"
    BY <1>9 DEF DescsAnswered, Answered
  <2>2. \/ ServiceDone(db) \/ Complete(FALSE, db)
        \/ table[cur_svc] # 0 /\ ServiceDone(Learnt(cur_svc))
    BY <1>9 DEF DescsAnswered
  <2>3. table[cur_svc] # 0 => Learnt(cur_svc) \in Databases
    BY <1>1, LearntType
  <2> QED BY <1>1, <2>1, <2>2, <2>3, CompleteBase, ServiceDoneBase
<1>10. CASE RegisterAnswered
  <2>1. up /\ ready
    BY <1>0, <1>10 DEF RegisterAnswered, Progress
  <2>2. ready' = ready /\ told' = told
    BY <1>10, <2>1, NotifyReadyTells DEF RegisterAnswered
  <2>3. /\ UNCHANGED <<world, table, changes, owed, up, db, in_init, in_svc_chngd,
                       svc_chngd_queue, op>>
        /\ ccc' \in {TRUE, ccc} /\ registering' = FALSE
        /\ svc_chngd_ind_id' \in {FALSE, svc_chngd_ind_id}
        /\ listening' \in {FALSE, listening}
    BY <1>10 DEF RegisterAnswered
  <2>4. TypeOK'
    BY <1>0, <2>2, <2>3 DEF TypeOK, op
  <2>5. ReadyOnce' /\ FlagsTell' /\ FailedMeansEmpty'
    BY <1>0, <2>2, <2>3 DEF ReadyOnce, FlagsTell, FailedMeansEmpty, op
  <2>6. Staged' /\ Progress'
    BY <1>0, <2>1, <2>2, <2>3 DEF Staged, Progress, op
  <2> QED BY <2>4, <2>5, <2>6 DEF Base, Inv
<1>11. CASE Indicated
  <2>1. up /\ Head(owed) \in Ranges /\ owed' \in Seq(Ranges)
    BY <1>0, <1>11, HeadTailProperties DEF Indicated, TypeOK
  <2>2. UNCHANGED <<world, table, changes, ccc, up, told>>
    BY <1>11 DEF Indicated
  <2>3. CASE UNCHANGED <<db, flags, events, op>>
    <3>1. TypeOK'
      BY <1>0, <2>1, <2>2, <2>3 DEF TypeOK, flags, events, op
    <3>2. ReadyOnce' /\ FlagsTell' /\ FailedMeansEmpty' /\ Staged' /\ Progress'
      BY <1>0, <2>2, <2>3 DEF ReadyOnce, FlagsTell, FailedMeansEmpty, Staged, Progress,
                              flags, events, op
    <3> QED BY <3>1, <3>2 DEF Base, Inv
  <2>4. CASE /\ listening /\ Process(Head(owed), db)
             /\ UNCHANGED <<svc_chngd_queue, in_init, ready, cur_svc>>
    <3>1. ready /\ svc_chngd_queue' \in Seq(Ranges)
      BY <1>0, <2>1, <2>4 DEF Progress, TypeOK
    <3> QED BY <1>1, <2>1, <2>2, <2>4, <3>1, ProcessBase
  <2>5. CASE /\ listening /\ in_svc_chngd
             /\ svc_chngd_queue' = Append(svc_chngd_queue, Head(owed))
             /\ UNCHANGED <<db, flags, svc_chngd_ind_id, listening, registering, op>>
    <3>1. svc_chngd_queue' \in Seq(Ranges)
      BY <1>0, <2>1, <2>5 DEF TypeOK
    <3>2. TypeOK'
      BY <1>0, <2>1, <2>2, <2>5, <3>1 DEF TypeOK, flags, op
    <3>3. ReadyOnce' /\ FlagsTell' /\ FailedMeansEmpty' /\ Staged' /\ Progress'
      BY <1>0, <2>2, <2>5 DEF ReadyOnce, FlagsTell, FailedMeansEmpty, Staged, Progress,
                              flags, op
    <3> QED BY <3>2, <3>3 DEF Base, Inv
  <2> QED BY <1>11, <2>3, <2>4, <2>5 DEF Indicated
<1>12. CASE Change
  <2>0. PICK slots \in SUBSET Slots :
          \E t \in [slots -> {0, changes + 2}] :
            ServerChanges([s \in Slots |-> IF s \in slots THEN t[s] ELSE table[s]])
    BY <1>12 DEF Change
  <2>1. PICK t \in [slots -> {0, changes + 2}] :
          ServerChanges([s \in Slots |-> IF s \in slots THEN t[s] ELSE table[s]])
    BY <2>0
  <2> DEFINE new == [s \in Slots |-> IF s \in slots THEN t[s] ELSE table[s]]
             changed == {s \in Slots : new[s] # table[s]}
  <2>2. new \in [Slots -> Versions \union {0}] /\ changes + 1 \in 0 .. MaxChanges
    <3>1. changes \in Nat /\ MaxChanges \in Nat /\ changes < MaxChanges
      BY <1>0, <2>1, DiscoveryConstantsOK DEF ServerChanges, TypeOK
    <3>2. {0, changes + 2} \subseteq Versions \union {0} /\ changes + 1 \in 0 .. MaxChanges
      BY <3>1 DEF Versions
    <3> QED BY <1>0, <3>2 DEF TypeOK
  <2> HIDE DEF new
  <2>3. /\ changed # {} /\ table' = new /\ changes' = changes + 1
        /\ owed' \in {Append(owed, Hull(changed)), owed}
        /\ UNCHANGED <<world, ccc, up, db, flags, events, op, told>>
    BY <2>1 DEF ServerChanges, new
  <2>4. Hull(changed) \in Ranges
    BY <2>3, HullRange
  <2>5. owed' \in Seq(Ranges)
    <3> DEFINE range == Hull(changed)
    <3> HIDE DEF range
    <3>1. range \in Ranges /\ owed \in Seq(Ranges)
      BY <1>0, <2>4 DEF range, TypeOK
    <3>2. Append(owed, range) \in Seq(Ranges)
      BY <3>1
    <3> QED BY <2>3, <3>1, <3>2 DEF range
  <2>6. TypeOK'
    BY <1>0, <2>2, <2>3, <2>5 DEF TypeOK, flags, events, op
  <2>7. ReadyOnce' /\ FlagsTell' /\ FailedMeansEmpty' /\ Staged' /\ Progress'
    BY <1>0, <2>3 DEF ReadyOnce, FlagsTell, FailedMeansEmpty, Staged, Progress,
                      flags, events, op
  <2> QED BY <2>6, <2>7 DEF Base, Inv
<1>13. CASE Disconnected
  <2>1. /\ up' = FALSE /\ in_init' = FALSE /\ ready' = FALSE /\ owed' = <<>>
        /\ told' = IF in_init THEN Append(told, FALSE) ELSE told
        /\ UNCHANGED <<world, table, changes, ccc, db, in_svc_chngd, events, op>>
    BY <1>13 DEF Disconnected
  <2>2. told' \in Seq(BOOLEAN) /\ Len(told') <= 1
    <3>1. CASE in_init
      <4>1. told = <<>>
        BY <1>0, <3>1 DEF Progress
      <4>2. told' = <<FALSE>>
        BY <2>1, <3>1, <4>1, Tellings
      <4> QED BY <4>2, Tellings
    <3>2. CASE ~ in_init
      BY <1>0, <2>1, <3>2 DEF TypeOK, Progress
    <3> QED BY <3>1, <3>2
  <2>3. <<>> \in Seq(Ranges)
    OBVIOUS
  <2>4. TypeOK'
    BY <1>0, <2>1, <2>2, <2>3 DEF TypeOK, events, op
  <2>5. ReadyOnce' /\ FlagsTell' /\ FailedMeansEmpty' /\ Staged' /\ Progress'
    BY <1>0, <2>1, <2>2 DEF ReadyOnce, FlagsTell, FailedMeansEmpty, Staged, Progress, op
  <2> QED BY <2>4, <2>5 DEF Base, Inv
<1>14. CASE UNCHANGED vars
  BY <1>0, <1>14
     DEF vars, server, flags, events, op, Base, Inv, TypeOK, ReadyOnce, FlagsTell,
         FailedMeansEmpty, Staged, Progress
<1> QED
  BY <1>2, <1>3, <1>4, <1>5, <1>7, <1>8, <1>9, <1>10, <1>11, <1>12, <1>13, <1>14
     DEF Next, Answer

(* ... so that it holds in every state.                                    *)
LEMMA BaseAlways == Spec => []Base
BY InitBase, NextBase, PTL DEF Spec

(* Whatever the server answers, refuses and changes: the ready handler is  *)
(* called once and says what the client then is, the flags of              *)
(* gatt-client.c tell whether a discovery is under way and an event is     *)
(* only queued behind one, and a failed initialisation leaves nothing.     *)
THEOREM ReadyToldOnce == Spec => []Inv
BY BaseAlways, PTL DEF Base

(* A discovery under way keeps its range until it is complete, and then    *)
(* the next one is the oldest event of svc_chngd_queue.                    *)
THEOREM DiscoveriesOneByOne == Spec => OneDiscovery
<1> DEFINE Kept == asked # "nothing" /\ op_range' # op_range =>
                     svc_chngd_queue # <<>> /\ svc_chngd_queue' = Tail(svc_chngd_queue)
<1>1. ASSUME Base, [Next]_vars PROVE Kept
  <2> SUFFICES ASSUME asked # "nothing", op_range' # op_range
               PROVE  svc_chngd_queue # <<>> /\ svc_chngd_queue' = Tail(svc_chngd_queue)
    OBVIOUS
  <2>1. ASSUME NEW success, NEW d, Complete(success, d)
        PROVE  svc_chngd_queue # <<>> /\ svc_chngd_queue' = Tail(svc_chngd_queue)
    BY <2>1 DEF Complete, InitComplete, ChangeComplete, Finished
  <2>2. \A request : ~ Ask(request)
    BY DEF Ask
  <2>3. CASE PrimaryAnswered \/ SecondaryAnswered \/ MtuExchanged
    BY <2>1, <2>2, <2>3 DEF PrimaryAnswered, SecondaryAnswered, MtuExchanged
  <2>4. \A d : ~ IncludesDone(d)
    BY <2>2 DEF IncludesDone
  <2>5. \A d : ServiceDone(d) => Complete(TRUE, [d EXCEPT ![cur_svc].active = TRUE])
    BY <2>2 DEF ServiceDone
  <2>6. CASE IncludesAnswered \/ ChrcsAnswered \/ DescsAnswered
    BY <2>1, <2>2, <2>4, <2>5, <2>6 DEF IncludesAnswered, ChrcsAnswered, DescsAnswered
  <2>7. ~ (MtuRefused \/ RegisterAnswered \/ Change \/ Disconnected \/ UNCHANGED vars)
    BY DEF MtuRefused, Finished, RegisterAnswered, Change, ServerChanges, Disconnected,
           vars, op
  <2>8. CASE Indicated
    <3>1. CASE ~ listening \/ in_svc_chngd
      BY <2>8, <3>1 DEF Indicated, op
    <3>2. CASE listening /\ ~ in_svc_chngd
      <4>1. up /\ Progress /\ FlagsTell
        BY <1>1, <2>8 DEF Indicated, Base, Inv
      <4>2. in_init
        BY <3>2, <4>1 DEF FlagsTell
      <4>3. told = <<>> /\ told = <<TRUE>>
        BY <3>2, <4>1, <4>2, Zenon DEF Progress
      <4> QED BY <4>3, Tellings
    <3> QED BY <3>1, <3>2
  <2> QED BY <1>1, <2>3, <2>6, <2>7, <2>8 DEF Next, Answer
<1>2. Base /\ [Next]_vars => [Kept]_vars
  BY <1>1
<1> QED BY <1>2, BaseAlways, PTL DEF Spec, OneDiscovery

-----------------------------------------------------------------------------
(* A server that tells of its changes one at a time.                       *)

(* Same and what it says of the versions, in a database that is not db yet. *)
SameIn(d, s) ==
  /\ d[s].seen = IF table[s] = 0 THEN {} ELSE {table[s]}
  /\ d[s].active = (table[s] # 0) \/ s \in Single

Exact(s) == db[s].seen = IF table[s] = 0 THEN {} ELSE {table[s]}

(* The services of the range under discovery that are there, and those     *)
(* among them that are still to be looked into.                            *)
Here == {s \in op_range : table[s] # 0}
Waiting == ToSet(pending_svcs)

(* The slots that the database need not match yet.                         *)
Stale ==
  IF in_svc_chngd \/ in_init THEN op_range
  ELSE IF owed # <<>> THEN Head(owed) ELSE {}

(* The client will hear of the one change the server may have made.        *)
Listens ==
  /\ svc_chngd_queue = <<>>
  /\ in_svc_chngd \/ owed # <<>> => ccc
  /\ owed # <<>> => ~ in_svc_chngd /\ owed = <<Head(owed)>>
  /\ ccc => listening /\ ~ registering /\ svc_chngd_ind_id
  /\ registering => db[Gatt].active /\ svc_chngd_ind_id
  /\ svc_chngd_ind_id => listening /\ (ccc \/ registering)

(* Outside the stale range the database matches, and the range is one that *)
(* discover_primary_cb does not give up on.                                *)
Elsewhere ==
  /\ in_svc_chngd \/ owed # <<>> =>
       /\ Gatt \notin Stale
       /\ Present(table, Stale \ Secondary) \/ ~ Present(table, Stale)
  /\ in_init => op_range = Slots
  /\ in_init \/ ready => \A s \in Slots \ Stale : Same(s)

(* What is known of the range at each stage of its discovery.              *)
Within ==
  /\ asked \in {"mtu", "primary"} => \A s \in op_range : db[s] = Absent
  /\ asked = "secondary" =>
       /\ \A s \in op_range :
            db[s] = IF s \in Here \ Secondary
                    THEN [seen |-> {table[s]}, active |-> FALSE] ELSE Absent
       /\ Waiting = Here \ Secondary
  /\ asked \in {"includes", "chrcs", "descs"} =>
       /\ \A s \in op_range : Exact(s)
       /\ cur_svc \in Here
       /\ \A s \in op_range \ Here : db[s].active = FALSE
  /\ asked = "includes" => ToSet(tmp_queue) \union Waiting = Here
  /\ asked \in {"chrcs", "descs"} =>
       /\ Waiting \subseteq Here
       /\ \A s \in Here \ (Single \union {cur_svc} \union Waiting) : db[s].active = TRUE

Calm == up /\ world = {} => Listens /\ Elsewhere /\ Within

(* What it takes for a service to match.                                   *)
LEMMA Matching ==
  ASSUME NEW d, NEW s
  PROVE  /\ Same(s) = SameIn(db, s)
         /\ d[s] = Absent /\ table[s] = 0 => SameIn(d, s)
         /\ d[s].seen = {} /\ d[s].active = FALSE /\ table[s] = 0 => SameIn(d, s)
         /\ d[s].seen = {table[s]} /\ table[s] # 0 /\ (d[s].active = TRUE \/ s \in Single)
              => SameIn(d, s)
         /\ SameIn(d, s) => d[s].seen = IF table[s] = 0 THEN {} ELSE {table[s]}
         /\ SameIn(d, s) /\ d[s].active /\ s \notin Single => table[s] # 0
<1>1. Same(s) = SameIn(db, s)
  BY DEF Same, SameIn
<1>2. d[s] = Absent /\ table[s] = 0 => SameIn(d, s)
  <2> SUFFICES ASSUME d[s] = Absent, table[s] = 0 PROVE SameIn(d, s)
    OBVIOUS
  <2>1. d[s].seen = {} /\ d[s].active = FALSE
    BY DEF Absent
  <2> QED BY <2>1 DEF SameIn
<1>3. d[s].seen = {} /\ d[s].active = FALSE /\ table[s] = 0 => SameIn(d, s)
  BY DEF SameIn
<1>4. d[s].seen = {table[s]} /\ table[s] # 0 /\ (d[s].active = TRUE \/ s \in Single)
        => SameIn(d, s)
  BY DEF SameIn
<1>5. SameIn(d, s) => d[s].seen = IF table[s] = 0 THEN {} ELSE {table[s]}
  BY DEF SameIn
<1>6. SameIn(d, s) /\ d[s].active /\ s \notin Single => table[s] # 0
  BY DEF SameIn
<1> QED BY <1>1, <1>2, <1>3, <1>4, <1>5, <1>6

(* A step of a discovery that stays within its range.                      *)
LEMMA AskCalm ==
  ASSUME Base, Calm, up, world = {}, UNCHANGED Outside, asked # "nothing",
         NEW request, Ask(request), \A s \in Slots \ op_range : db'[s] = db[s], Within'
  PROVE  Calm'
<1>0. Listens /\ Elsewhere
  BY DEF Calm
<1>1. /\ UNCHANGED <<world, table, changes, ccc, owed, up, op_range, in_init, ready,
                     in_svc_chngd, svc_chngd_queue, svc_chngd_ind_id, listening,
                     registering>>
  BY DEF Outside, server, Ask, flags, events
<1>2. in_init \/ in_svc_chngd
  BY DEF Base, Inv, FlagsTell
<1>3. Stale = op_range /\ Stale' = Stale
  BY <1>1, <1>2 DEF Stale
<1>4. registering => Gatt \in Slots \ op_range
  <2>1. registering => in_svc_chngd
    BY <1>2, Tellings DEF Base, Progress
  <2> QED BY <1>0, <1>3, <2>1, DiscoveryConstantsOK DEF Elsewhere
<1>5. Listens'
  BY <1>0, <1>1, <1>4 DEF Listens
<1>6. Elsewhere'
  BY <1>0, <1>1, <1>3 DEF Elsewhere, Same, Present
<1> QED BY <1>5, <1>6 DEF Calm

(* The end of a discovery.                                                 *)
LEMMA CompleteCalm ==
  ASSUME Base, Calm, up, world = {}, UNCHANGED Outside, asked # "nothing",
         NEW success \in BOOLEAN, NEW d \in Databases, Complete(success, d),
         \A s \in Slots \ op_range : d[s] = db[s],
         success => \A s \in op_range : SameIn(d, s),
         ~ success => in_init \/ \A s \in op_range : table[s] = 0
  PROVE  Calm'
<1>0. Listens /\ Elsewhere /\ FlagsTell /\ Progress /\ op_range \subseteq Slots
  BY LearntType DEF Calm, Base, Inv
<1>1. CASE in_init
  <2>1. InitComplete(success, d)
    BY <1>1 DEF Complete
  <2>2. ready' = success
    BY <1>1, <2>1, NotifyReadyTells DEF InitComplete
  <2>3. /\ ~ ready /\ ~ in_svc_chngd /\ ~ registering /\ ~ listening
        /\ ~ svc_chngd_ind_id /\ ~ ccc /\ owed = <<>> /\ op_range = Slots
    BY <1>0, <1>1, Tellings DEF Progress, FlagsTell, Listens, Elsewhere
  <2>4. /\ in_init' = FALSE /\ asked' = "nothing" /\ in_svc_chngd' = in_svc_chngd
        /\ UNCHANGED <<world, table, ccc, owed, up, svc_chngd_queue>>
    BY <2>1 DEF InitComplete, Finished, Outside, server
  <2>5. Within'
    BY <2>4 DEF Within
  <2>6. CASE ~ success
    <3>1. UNCHANGED <<svc_chngd_ind_id, listening, registering>>
      BY <2>1, <2>6 DEF InitComplete
    <3>2. Listens'
      BY <1>0, <2>3, <2>4, <3>1 DEF Listens
    <3>3. Elsewhere'
      BY <2>2, <2>3, <2>4, <2>6 DEF Elsewhere
    <3> QED BY <2>5, <3>2, <3>3 DEF Calm
  <2>7. CASE success
    <3>1. db' = d /\ RegisterServiceChanged(d)
      BY <2>1, <2>7 DEF InitComplete
    <3>2. Listens'
      BY <1>0, <2>3, <2>4, <3>1 DEF Listens, RegisterServiceChanged
    <3>3. \A s \in Slots : Same(s)'
      BY <2>3, <2>4, <2>7, <3>1 DEF Same, SameIn
    <3>4. Elsewhere'
      BY <2>3, <2>4, <3>3 DEF Elsewhere
    <3> QED BY <2>5, <3>2, <3>4 DEF Calm
  <2> QED BY <2>6, <2>7
<1>2. CASE ~ in_init
  <2> DEFINE kept == IF success THEN d ELSE Cleared(d, op_range)
  <2>1. in_svc_chngd /\ ccc /\ svc_chngd_queue = <<>> /\ owed = <<>> /\ svc_chngd_ind_id
        /\ Stale = op_range /\ ready
    BY <1>0, <1>2 DEF FlagsTell, Listens, Stale, Progress
  <2>2. /\ in_svc_chngd' = FALSE /\ asked' = "nothing" /\ db' = kept
        /\ UNCHANGED <<world, table, ccc, owed, up, in_init, ready, svc_chngd_queue,
                       svc_chngd_ind_id, listening, registering>>
    BY <1>2, <2>1 DEF Complete, ChangeComplete, Finished, RegisterServiceChanged,
                      Outside, server
  <2>3. Within'
    BY <2>2 DEF Within
  <2>4. Listens'
    BY <1>0, <2>1, <2>2 DEF Listens
  <2>5. ASSUME NEW s \in Slots PROVE SameIn(kept, s)
    <3>1. CASE s \in op_range
      <4>1. CASE success
        BY <3>1, <4>1
      <4>2. CASE ~ success
        <5>1. table[s] = 0 /\ kept = Cleared(d, op_range)
          BY <1>2, <3>1, <4>2
        <5>2. kept[s] = Absent
          BY <3>1, <5>1, ClearedType
        <5> HIDE DEF kept
        <5> QED BY <5>1, <5>2, Matching
      <4> QED BY <4>1, <4>2
    <3>2. CASE s \notin op_range
      <4>1. Same(s)
        BY <1>0, <2>1, <3>2 DEF Elsewhere
      <4>2. kept[s] = db[s]
        BY <3>2, ClearedType
      <4> HIDE DEF kept
      <4> QED BY <4>1, <4>2 DEF Same, SameIn
    <3> QED BY <3>1, <3>2
  <2> HIDE DEF kept
  <2>6. \A s \in Slots : Same(s)'
    BY <2>2, <2>5 DEF Same, SameIn
  <2>7. Elsewhere'
    BY <1>2, <2>1, <2>2, <2>6 DEF Elsewhere
  <2> QED BY <2>3, <2>4, <2>7 DEF Calm
<1> QED BY <1>1, <1>2

(* A service that is known as it is now has nothing new to tell.           *)
LEMMA LearntSame ==
  ASSUME Base, NEW s \in Slots, Exact(s), table[s] # 0
  PROVE  Learnt(s) = db /\ ~ MayMisfit(s)
<1>1. db[s].seen = {table[s]}
  BY DEF Exact
<1>2. /\ db \in Databases /\ Learnt(s) \in Databases
      /\ \A r \in Slots : Learnt(s)[r] =
           IF r = s THEN [seen |-> db[s].seen \union {table[s]},
                          active |-> db[s].active] ELSE db[r]
  BY LearntType
<1>3. db[s] = [seen |-> db[s].seen, active |-> db[s].active]
  <2>1. db[s] \in [seen : SUBSET Versions, active : BOOLEAN]
    BY <1>2 DEF Databases
  <2> QED BY <2>1
<1>4. db[s].seen \union {table[s]} = db[s].seen
  BY <1>1
<1>5. \A r \in Slots : Learnt(s)[r] = db[r]
  BY <1>2, <1>3, <1>4
<1>6. db = [r \in Slots |-> db[r]] /\ Learnt(s) = [r \in Slots |-> Learnt(s)[r]]
  BY <1>2 DEF Databases
<1>7. Learnt(s) = db
  BY <1>5, <1>6, Zenon
<1> QED BY <1>1, <1>7 DEF MayMisfit

(* The client is created knowing nothing of any service.                   *)
LEMMA InitCalm == Init => Calm
<1> SUFFICES ASSUME Init PROVE Listens /\ Elsewhere /\ Within
  BY DEF Calm
<1>1. Listens
  BY DEF Init, Listens
<1>2. Stale = Slots
  BY DEF Init, Stale
<1>3. Elsewhere
  BY <1>2 DEF Init, Elsewhere
<1>4. Within
  BY DEF Init, Within
<1> QED BY <1>1, <1>3, <1>4

(* The services that are found: the primary ones ...                       *)
LEMMA PrimaryCalm ==
  ASSUME Base, Calm, up, world = {}, PrimaryAnswered
  PROVE  Calm'
<1>1. UNCHANGED Outside /\ asked = "primary" /\ ~ Refused
  BY DEF PrimaryAnswered, Answered, Refused
<1>2. Elsewhere /\ \A s \in op_range : db[s] = Absent
  BY <1>1 DEF Calm, Within
<1> DEFINE F == Found(FALSE)
<1>3. F = Here \ Secondary /\ op_range \subseteq Slots /\ F \subseteq op_range
  BY LearntType DEF Found, Here
<1>4. CASE F = {}
  <2>0. Complete(FALSE, db)
    BY <1>1, <1>4 DEF PrimaryAnswered
  <2>1. in_init \/ in_svc_chngd
    BY <1>1 DEF Base, Inv, FlagsTell
  <2>2. Stale = op_range
    BY <2>1 DEF Stale
  <2>3. ~ Present(table, op_range \ Secondary)
    BY <1>3, <1>4 DEF Present, Here
  <2>4. in_init \/ \A s \in op_range : table[s] = 0
    BY <1>2, <2>1, <2>2, <2>3 DEF Elsewhere, Present
  <2>5. db \in Databases
    BY LearntType
  <2> QED BY <1>1, <2>0, <2>4, <2>5, CompleteCalm
<1>5. CASE F # {}
  <2>1. /\ db' = Inserted(F) /\ pending_svcs' = InOrder(F) /\ Ask("secondary")
    BY <1>1, <1>5 DEF PrimaryAnswered
  <2>2. F \in SUBSET Slots /\ \A s \in F : table[s] # 0
    BY <1>3 DEF Here
  <2>3. \A s \in Slots : Inserted(F)[s] =
          IF s \in F THEN [seen |-> {table[s]}, active |-> FALSE] ELSE db[s]
    BY <2>2, LearntType
  <2>4. Waiting' = F
    BY <2>1, <2>2, InOrderSlots DEF Waiting
  <2>5. /\ op_range' = op_range /\ table' = table /\ asked' = "secondary"
        /\ Here' = Here
    BY <1>1, <2>1 DEF Ask, Outside, server, Here
  <2> HIDE DEF F
  <2>6. \A s \in op_range : db'[s] = IF s \in Here \ Secondary
               THEN [seen |-> {table[s]}, active |-> FALSE] ELSE Absent
    BY <1>2, <1>3, <2>1, <2>3
  <2>7. Within'
    BY <1>3, <2>4, <2>5, <2>6 DEF Within
  <2>8. \A s \in Slots \ op_range : db'[s] = db[s]
    BY <1>3, <2>1, <2>3
  <2> QED BY <1>1, <2>1, <2>7, <2>8, AskCalm
<1> QED BY <1>4, <1>5

(* ... and the secondary ones, which complete the range.                   *)
LEMMA SecondaryCalm ==
  ASSUME Base, Calm, up, world = {}, SecondaryAnswered
  PROVE  Calm'
<1> DEFINE F == Found(TRUE)
           svcs == pending_svcs \o InOrder(F)
<1>1. UNCHANGED Outside /\ asked = "secondary" /\ ~ Refused
  BY DEF SecondaryAnswered, Answered, Refused
<1>2. /\ db' = Inserted(F) /\ cur_svc' = Head(svcs) /\ tmp_queue' = <<Head(svcs)>>
      /\ pending_svcs' = Tail(svcs) /\ Ask("includes")
  BY <1>1 DEF SecondaryAnswered
<1>3. /\ \A s \in op_range :
           db[s] = IF s \in Here \ Secondary
                   THEN [seen |-> {table[s]}, active |-> FALSE] ELSE Absent
      /\ Waiting = Here \ Secondary
  BY <1>1 DEF Calm, Within
<1>4. F = Here \intersect Secondary /\ op_range \subseteq Slots /\ F \subseteq op_range
  BY LearntType DEF Found, Here
<1>5. F \in SUBSET Slots /\ \A s \in F : table[s] # 0
  BY <1>4 DEF Here
<1>6. \A s \in Slots : Inserted(F)[s] =
        IF s \in F THEN [seen |-> {table[s]}, active |-> FALSE] ELSE db[s]
  BY <1>5, LearntType
<1> HIDE DEF F
<1>7. InOrder(F) \in Seq(Slots) /\ ToSet(InOrder(F)) = F
  <2>1. InOrder(F) \in Seq(F) /\ ToSet(InOrder(F)) = F
    BY <1>5, InOrderSlots
  <2> QED BY <1>5, <2>1
<1>8. pending_svcs \in Seq(Slots) /\ pending_svcs # <<>>
  BY <1>1 DEF Base, Inv, TypeOK, Staged
<1>9. svcs \in Seq(Slots) /\ svcs # <<>> /\ ToSet(svcs) = Here
  <2>1. svcs \in Seq(Slots) /\ svcs # <<>> /\ ToSet(svcs) = Waiting \union F
    BY <1>7, <1>8, QueueSets DEF Waiting
  <2> HIDE DEF svcs
  <2> QED BY <1>3, <1>4, <2>1
<1> HIDE DEF svcs
<1>10. /\ Head(svcs) \in Here /\ Tail(svcs) \in Seq(Slots) /\ Head(svcs) \in Slots
       /\ ToSet(<<Head(svcs)>>) \union ToSet(Tail(svcs)) = Here
  BY <1>9, QueueSets
<1>11. /\ op_range' = op_range /\ table' = table /\ asked' = "includes" /\ Here' = Here
  BY <1>1, <1>2 DEF Ask, Outside, server, Here
<1>12. ASSUME NEW s \in op_range
       PROVE  /\ db'[s].seen = IF table[s] = 0 THEN {} ELSE {table[s]}
              /\ s \notin Here => db'[s].active = FALSE
  <2>1. CASE s \in Here
    <3>1. db'[s] = [seen |-> {table[s]}, active |-> FALSE]
      BY <1>2, <1>3, <1>4, <1>6, <2>1
    <3> QED BY <2>1, <3>1 DEF Here
  <2>2. CASE s \notin Here
    <3>1. db'[s] = Absent /\ table[s] = 0
      BY <1>2, <1>3, <1>4, <1>6, <2>2 DEF Here
    <3> QED BY <2>2, <3>1 DEF Absent
  <2> QED BY <2>1, <2>2
<1>13. Within'
  BY <1>2, <1>10, <1>11, <1>12 DEF Within, Exact, Waiting
<1>14. \A s \in Slots \ op_range : db'[s] = db[s]
  BY <1>2, <1>4, <1>6
<1> QED BY <1>1, <1>2, <1>13, <1>14, AskCalm

(* Every included service is known, for it is in the range and found, or   *)
(* outside and matches.                                                    *)
LEMMA IncludesCalm ==
  ASSUME Base, Calm, up, world = {}, IncludesAnswered
  PROVE  Calm'
<1>1. UNCHANGED Outside /\ asked = "includes" /\ ~ Refused
  BY DEF IncludesAnswered, Answered, Refused
<1>2. /\ Elsewhere
      /\ \A s \in op_range : Exact(s)
      /\ cur_svc \in Here
      /\ \A s \in op_range \ Here : db[s].active = FALSE
      /\ ToSet(tmp_queue) \union Waiting = Here
  BY <1>1 DEF Calm, Within
<1>3. op_range \subseteq Slots /\ cur_svc \in Slots /\ table[cur_svc] # 0 /\ Exact(cur_svc)
      /\ pending_svcs \in Seq(Slots) /\ tmp_queue \in Seq(Slots) /\ tmp_queue # <<>>
  BY <1>1, <1>2, LearntType DEF Here, Base, Inv, TypeOK, Staged
<1>4. ASSUME NEW i \in IncludedNow(cur_svc) PROVE db[i] # Absent
  <2>1. i \in Slots /\ table[i] # 0
    BY <1>3, <1>4, DiscoveryConstantsOK DEF IncludedNow
  <2>2. in_init \/ in_svc_chngd
    BY <1>1 DEF Base, Inv, FlagsTell
  <2>3. Stale = op_range /\ (in_init \/ ready)
    BY <2>2 DEF Stale, Base, Progress
  <2>4. Exact(i)
    <3>1. CASE i \in op_range
      BY <1>2, <3>1
    <3>2. CASE i \notin op_range
      BY <1>2, <2>1, <2>3, <3>2 DEF Elsewhere, Same, Exact
    <3> QED BY <3>1, <3>2
  <2>5. db[i].seen # {}
    BY <2>1, <2>4 DEF Exact
  <2> QED BY <2>5 DEF Absent
<1>5. Learnt(cur_svc) = db /\ ~ MayMisfit(cur_svc)
  BY <1>3, LearntSame
<1>6. IncludesDone(db)
  BY <1>1, <1>4, <1>5 DEF IncludesAnswered
<1> DEFINE i == NextIn(pending_svcs)
           all == tmp_queue \o pending_svcs
<1>7. CASE i # 0
  <2>1. /\ db' = db /\ cur_svc' = pending_svcs[i]
        /\ tmp_queue' = tmp_queue \o SubSeq(pending_svcs, 1, i)
        /\ pending_svcs' = After(pending_svcs, i)
        /\ Ask("includes")
    BY <1>6, <1>7 DEF IncludesDone
  <2>2. /\ pending_svcs[i] \in Waiting
        /\ SubSeq(pending_svcs, 1, i) \in Seq(Slots)
        /\ Waiting = ToSet(SubSeq(pending_svcs, 1, i)) \union ToSet(After(pending_svcs, i))
    BY <1>3, <1>7, NextInQueue DEF Waiting
  <2> HIDE DEF i
  <2>3. ToSet(tmp_queue') = ToSet(tmp_queue) \union ToSet(SubSeq(pending_svcs, 1, i))
    BY <1>3, <2>1, <2>2, QueueSets
  <2>4. ToSet(tmp_queue') \union Waiting' = Here /\ cur_svc' \in Here
    BY <1>2, <2>1, <2>2, <2>3 DEF Waiting
  <2>5. op_range' = op_range /\ table' = table /\ asked' = "includes" /\ Here' = Here
    BY <1>1, <2>1 DEF Ask, Outside, server, Here
  <2>6. Within'
    BY <1>2, <2>1, <2>4, <2>5 DEF Within, Exact
  <2> QED BY <1>1, <2>1, <2>6, AskCalm
<1>8. CASE i = 0
  <2>1. /\ db' = db /\ cur_svc' = Head(all) /\ pending_svcs' = Tail(all) /\ Ask("chrcs")
    BY <1>6, <1>8 DEF IncludesDone
  <2>2. all \in Seq(Slots) /\ all # <<>> /\ ToSet(all) = Here
    BY <1>2, <1>3, QueueSets DEF Waiting
  <2> HIDE DEF all
  <2>3. Here = {cur_svc'} \union Waiting'
    BY <2>1, <2>2, QueueSets DEF Waiting
  <2>4. op_range' = op_range /\ table' = table /\ asked' = "chrcs" /\ Here' = Here
    BY <1>1, <2>1 DEF Ask, Outside, server, Here
  <2>5. Within'
    BY <1>2, <2>1, <2>3, <2>4 DEF Within, Exact
  <2> QED BY <1>1, <2>1, <2>5, AskCalm
<1> QED BY <1>7, <1>8

(* A service has been looked into: it is active from now on.  If no other  *)
(* is waiting, all those left out are of a single handle.                  *)
LEMMA ServiceDoneCalm ==
  ASSUME Base, Calm, up, world = {}, UNCHANGED Outside, asked \in {"chrcs", "descs"},
         ServiceDone(db)
  PROVE  Calm'
<1> DEFINE active == [db EXCEPT ![cur_svc].active = TRUE]
           i == NextIn(pending_svcs)
<1>1. /\ \A s \in op_range : Exact(s)
      /\ cur_svc \in Here
      /\ \A s \in op_range \ Here : db[s].active = FALSE
      /\ Waiting \subseteq Here
      /\ \A s \in Here \ (Single \union {cur_svc} \union Waiting) : db[s].active = TRUE
  BY DEF Calm, Within
<1>2. /\ db \in Databases /\ op_range \subseteq Slots /\ cur_svc \in op_range
      /\ pending_svcs \in Seq(Slots)
  BY <1>1, LearntType DEF Here, Base, Inv, TypeOK
<1>3. /\ active \in Databases
      /\ \A s \in Slots : /\ active[s].seen = db[s].seen
                          /\ s # cur_svc => active[s] = db[s]
      /\ active[cur_svc].active = TRUE
  BY <1>2 DEF Databases
<1> HIDE DEF active
<1>4. CASE i = 0
  <2>1. Complete(TRUE, active)
    BY <1>4 DEF ServiceDone, active
  <2>2. Waiting \subseteq Single
    BY <1>2, <1>4, NextInQueue DEF Waiting
  <2>3. ASSUME NEW s \in op_range PROVE SameIn(active, s)
    <3>1. active[s].seen = IF table[s] = 0 THEN {} ELSE {table[s]}
      BY <1>1, <1>2, <1>3 DEF Exact
    <3>2. CASE s \in Here
      <4>1. active[s].active = TRUE \/ s \in Single
        BY <1>1, <1>2, <1>3, <2>2, <3>2
      <4> QED BY <3>1, <3>2, <4>1, Matching DEF Here
    <3>3. CASE s \notin Here
      <4>1. active[s].active = FALSE /\ table[s] = 0
        BY <1>1, <1>2, <1>3, <3>3 DEF Here
      <4> QED BY <3>1, <4>1, Matching
    <3> QED BY <3>2, <3>3
  <2>4. \A s \in Slots \ op_range : active[s] = db[s]
    BY <1>2, <1>3
  <2> QED BY <1>3, <2>1, <2>3, <2>4, CompleteCalm
<1>5. CASE i # 0
  <2>1. /\ db' = active /\ cur_svc' = pending_svcs[i]
        /\ pending_svcs' = After(pending_svcs, i) /\ Ask("chrcs")
    BY <1>5 DEF ServiceDone, active
  <2>2. /\ pending_svcs[i] \in Waiting
        /\ ToSet(After(pending_svcs, i)) \subseteq Waiting
        /\ Waiting \subseteq {pending_svcs[i]} \union Single \union ToSet(After(pending_svcs, i))
    BY <1>2, <1>5, NextInQueue DEF Waiting
  <2> HIDE DEF i
  <2>3. cur_svc' \in Waiting /\ Waiting' \subseteq Waiting
        /\ Waiting \subseteq {cur_svc'} \union Single \union Waiting'
    BY <2>1, <2>2 DEF Waiting
  <2>4. op_range' = op_range /\ table' = table /\ asked' = "chrcs" /\ Here' = Here
    BY <2>1 DEF Ask, Outside, server, Here
  <2>5. \A s \in op_range : Exact(s)'
    BY <1>1, <1>2, <1>3, <2>1, <2>4 DEF Exact
  <2>6. \A s \in op_range \ Here : db'[s].active = FALSE
    BY <1>1, <1>2, <1>3, <2>1
  <2>7. ASSUME NEW s \in Here \ (Single \union {cur_svc'} \union Waiting')
        PROVE  db'[s].active = TRUE
    <3>1. s \in op_range /\ s \notin Waiting
      BY <2>3 DEF Here
    <3> QED BY <1>1, <1>2, <1>3, <2>1, <3>1
  <2>8. Within'
    BY <1>1, <2>3, <2>4, <2>5, <2>6, <2>7 DEF Within
  <2>9. \A s \in Slots \ op_range : db'[s] = db[s]
    BY <1>2, <1>3, <2>1
  <2> QED BY <2>1, <2>8, <2>9, AskCalm
<1> QED BY <1>4, <1>5

(* The characteristics and the descriptors of a service: there is nothing  *)
(* in them that the database does not have from its declaration on.        *)
LEMMA ContentsCalm ==
  ASSUME Base, Calm, up, world = {}, ChrcsAnswered \/ DescsAnswered
  PROVE  Calm'
<1>1. UNCHANGED Outside /\ asked \in {"chrcs", "descs"} /\ ~ Refused
  BY DEF ChrcsAnswered, DescsAnswered, Answered, Refused
<1>2. cur_svc \in Here /\ Exact(cur_svc) /\ Within
  BY <1>1 DEF Calm, Within, Here
<1>3. cur_svc \in Slots /\ table[cur_svc] # 0
  BY <1>2, LearntType DEF Here
<1>4. Learnt(cur_svc) = db /\ ~ MayMisfit(cur_svc)
  BY <1>2, <1>3, LearntSame
<1>5. CASE ServiceDone(db)
  BY <1>1, <1>5, ServiceDoneCalm
<1>6. CASE ~ ServiceDone(db)
  <2>1. /\ asked = "chrcs" /\ db' = db /\ Ask("descs")
        /\ UNCHANGED <<pending_svcs, tmp_queue, cur_svc>>
    BY <1>1, <1>3, <1>4, <1>6 DEF ChrcsAnswered, DescsAnswered, Answered
  <2>2. op_range' = op_range /\ table' = table /\ asked' = "descs" /\ Here' = Here
        /\ Waiting' = Waiting
    BY <1>1, <2>1 DEF Ask, Outside, server, Here, Waiting
  <2>3. Within'
    BY <1>2, <2>1, <2>2 DEF Within, Exact
  <2> QED BY <1>1, <2>1, <2>3, AskCalm
<1> QED BY <1>5, <1>6

(* The write to the CCC succeeds: the GATT service is there as the client  *)
(* found it.                                                               *)
LEMMA RegisterCalm ==
  ASSUME Base, Calm, up, world = {}, RegisterAnswered
  PROVE  Calm'
<1>1. /\ registering /\ registering' = FALSE /\ ~ Refused
      /\ UNCHANGED <<world, table, changes, owed, up, db, in_init, in_svc_chngd,
                     svc_chngd_queue, op>>
  BY DEF RegisterAnswered, Refused
<1>2. Listens /\ Elsewhere /\ Within
  BY DEF Calm
<1>3. ~ ccc /\ owed = <<>> /\ ~ in_svc_chngd /\ db[Gatt].active /\ svc_chngd_ind_id /\ listening
  BY <1>1, <1>2 DEF Listens
<1>4. ready /\ ~ in_init
  <2>1. ready /\ Progress
    BY <1>1 DEF Base, Progress
  <2>2. told # <<>>
    <3>1. told = <<TRUE>>
      BY <2>1, Zenon DEF Progress
    <3> QED BY <3>1, Tellings
  <2> QED BY <2>1, <2>2 DEF Progress
<1>5. Stale = {} /\ Gatt \in Slots /\ Gatt \notin Single
  BY <1>3, <1>4, DiscoveryConstantsOK DEF Stale
<1>6. SameIn(db, Gatt)
  BY <1>2, <1>4, <1>5, Matching DEF Elsewhere
<1>7. table[Gatt] # 0 /\ ~ MayMisfit(Gatt)
  <2>1. table[Gatt] # 0
    BY <1>3, <1>5, <1>6, Matching
  <2>2. db[Gatt].seen = {table[Gatt]}
    BY <1>6, <2>1, Matching
  <2> QED BY <2>1, <2>2 DEF MayMisfit
<1>8. ccc' = TRUE /\ NotifyReady(TRUE) /\ UNCHANGED <<svc_chngd_ind_id, listening>>
  BY <1>1, <1>7 DEF RegisterAnswered
<1>9. ready' = ready
  BY <1>4, <1>8, NotifyReadyTells
<1>10. Listens'
  BY <1>1, <1>2, <1>3, <1>8 DEF Listens
<1>11. Stale' = Stale
  BY <1>1 DEF Stale, op
<1>12. Elsewhere'
  BY <1>1, <1>2, <1>9, <1>11 DEF Elsewhere, Same, Present, op
<1>13. Within'
  BY <1>1, <1>2 DEF Within, Exact, Here, Waiting, op
<1> QED BY <1>10, <1>12, <1>13 DEF Calm

(* The client hears of the change and discovers the range of it again.     *)
LEMMA IndicatedCalm ==
  ASSUME Base, Calm, up, world = {}, Indicated
  PROVE  Calm'
<1> DEFINE range == Head(owed)
<1>1. Listens /\ Elsewhere
  BY DEF Calm
<1>2. /\ owed # <<>> /\ owed = <<range>> /\ listening /\ ~ in_svc_chngd
      /\ svc_chngd_queue = <<>> /\ ccc /\ ~ registering /\ svc_chngd_ind_id
  BY <1>1 DEF Indicated, Listens
<1>3. ready /\ ~ in_init
  <2>1. ready /\ Progress
    BY <1>2 DEF Base, Progress
  <2>2. told # <<>>
    <3>1. told = <<TRUE>>
      BY <2>1, Zenon DEF Progress
    <3> QED BY <3>1, Tellings
  <2> QED BY <2>1, <2>2 DEF Progress
<1>4. /\ owed' = Tail(owed) /\ Process(range, db)
      /\ UNCHANGED <<world, table, changes, ccc, up, svc_chngd_queue, in_init, ready>>
  BY <1>2 DEF Indicated
<1>5. owed' = <<>>
  <2> HIDE DEF range
  <2>1. Tail(<<range>>) = <<>>
    OBVIOUS
  <2> QED BY <1>2, <1>4, <2>1
<1>6. Stale = range
  BY <1>2, <1>3 DEF Stale
<1>7. range \subseteq Slots /\ db \in Databases
  <2>1. range \in Ranges
    BY <1>2, HeadTailProperties DEF Base, Inv, TypeOK
  <2> QED BY <2>1, LearntType DEF Ranges, Span
<1> HIDE DEF range
<1>8. /\ listening' = (listening /\ Gatt \notin range) /\ op_range' = range
      /\ db' = Cleared(db, range) /\ asked' = "primary" /\ in_svc_chngd' = TRUE
      /\ UNCHANGED <<svc_chngd_ind_id, registering>>
  BY <1>4 DEF Process
<1>9. Gatt \notin range /\ (Present(table, range \ Secondary) \/ ~ Present(table, range))
  BY <1>1, <1>2, <1>6 DEF Elsewhere
<1>10. Listens'
  BY <1>2, <1>4, <1>5, <1>8, <1>9 DEF Listens
<1>11. Stale' = range
  BY <1>8 DEF Stale
<1>12. \A s \in Slots : db'[s] = IF s \in range THEN Absent ELSE db[s]
  BY <1>7, <1>8, ClearedType
<1>13. Elsewhere'
  <2>1. \A s \in Slots \ range : Same(s)'
    BY <1>1, <1>3, <1>4, <1>6, <1>12 DEF Elsewhere, Same
  <2> QED BY <1>3, <1>4, <1>9, <1>11, <2>1 DEF Elsewhere, Present
<1>14. Within'
  BY <1>7, <1>8, <1>12 DEF Within
<1> QED BY <1>10, <1>13, <1>14 DEF Calm

(* The server changes when the client has caught up, and tells it.         *)
LEMMA ChangeCalm ==
  ASSUME Base, Calm, up, world = {}, Change
  PROVE  Calm'
<1>1. Listens /\ Elsewhere
  BY DEF Calm
<1>2. PICK slots \in SUBSET Slots :
        \E t \in [slots -> {0, changes + 2}] :
          ServerChanges([s \in Slots |-> IF s \in slots THEN t[s] ELSE table[s]])
  BY DEF Change
<1>3. PICK t \in [slots -> {0, changes + 2}] :
        ServerChanges([s \in Slots |-> IF s \in slots THEN t[s] ELSE table[s]])
  BY <1>2
<1> DEFINE new == [s \in Slots |-> IF s \in slots THEN t[s] ELSE table[s]]
           changed == {s \in Slots : new[s] # table[s]}
           range == Hull(changed)
<1> HIDE DEF new
<1>4. /\ changed # {} /\ Allowed(range, new) /\ table' = new
      /\ owed' = (IF ccc THEN Append(owed, range) ELSE owed)
      /\ UNCHANGED <<world, ccc, up, db, flags, events, op, told>>
  BY <1>3 DEF ServerChanges, new
<1>5. changed \subseteq range
  BY <1>4, HullRange
<1>6. \A s \in Slots \ range : table'[s] = table[s]
  BY <1>4, <1>5
<1> HIDE DEF range, changed
<1>7. /\ ccc /\ owed = <<>> /\ ~ in_svc_chngd /\ svc_chngd_queue = <<>>
      /\ Gatt \notin range
      /\ Present(new, range \ Secondary) \/ ~ Present(new, range)
  BY <1>4 DEF Allowed, Settled
<1>8. owed' = <<range>> /\ owed' # <<>> /\ Head(owed') = range
  <2>1. Append(<<>>, range) = <<range>> /\ <<range>> # <<>> /\ Head(<<range>>) = range
    OBVIOUS
  <2> QED BY <1>4, <1>7, <2>1
<1>9. listening /\ ~ registering /\ svc_chngd_ind_id
  BY <1>1, <1>7 DEF Listens
<1>10. ready /\ ~ in_init
  <2>1. ready /\ Progress
    BY <1>9 DEF Base, Progress
  <2>2. told # <<>>
    <3>1. told = <<TRUE>>
      BY <2>1, Zenon DEF Progress
    <3> QED BY <3>1, Tellings
  <2> QED BY <2>1, <2>2 DEF Progress
<1>11. asked = "nothing" /\ Stale = {}
  BY <1>7, <1>10 DEF Base, Inv, FlagsTell, Stale
<1>12. UNCHANGED <<world, ccc, up, db, in_init, ready, in_svc_chngd, svc_chngd_queue,
                   svc_chngd_ind_id, listening, registering, asked, op_range>>
  BY <1>4 DEF flags, events, op
<1>13. Stale' = range
  BY <1>7, <1>8, <1>10, <1>12 DEF Stale
<1>14. Listens'
  BY <1>7, <1>8, <1>9, <1>12 DEF Listens
<1>15. Elsewhere'
  <2>1. \A s \in Slots \ range : Same(s)'
    BY <1>1, <1>6, <1>10, <1>11, <1>12 DEF Elsewhere, Same
  <2> QED BY <1>4, <1>7, <1>10, <1>12, <1>13, <2>1 DEF Elsewhere, Present
<1>16. Within'
  BY <1>11, <1>12 DEF Within
<1> QED BY <1>14, <1>15, <1>16 DEF Calm

(* Every step keeps the invariant of a server that changes one by one.     *)
LEMMA NextCalm == Base /\ Calm /\ [Next]_vars => Calm'
<1> SUFFICES ASSUME Base, Calm, [Next]_vars, up', world' = {} PROVE Calm'
  BY DEF Calm
<1>1. CASE UNCHANGED vars
  BY <1>1 DEF vars, server, flags, events, op, Calm, Listens, Elsewhere, Within, Stale,
              Present, Same, Exact, Here, Waiting
<1>2. CASE Next
  <2>0. up /\ world = {}
    <3>1. up /\ ~ Disconnected
      BY <1>2
         DEF Next, Answer, MtuExchanged, MtuRefused, PrimaryAnswered, SecondaryAnswered,
             IncludesAnswered, ChrcsAnswered, DescsAnswered, Answered, RegisterAnswered,
             Indicated, Change, ServerChanges, Disconnected
    <3>2. world' = world
      BY <1>2
         DEF Next, Answer, MtuExchanged, MtuRefused, PrimaryAnswered, SecondaryAnswered,
             IncludesAnswered, ChrcsAnswered, DescsAnswered, Answered, Outside,
             RegisterAnswered, Indicated, Change, ServerChanges, Disconnected
    <3> QED BY <3>1, <3>2
  <2>1. CASE MtuExchanged
    <3>1. /\ UNCHANGED Outside /\ asked = "mtu" /\ Ask("primary") /\ db' = db
          /\ \A s \in op_range : db[s] = Absent
      BY <2>0, <2>1 DEF MtuExchanged, Answered, Calm, Within
    <3>2. Within'
      BY <3>1 DEF Within, Ask
    <3> QED BY <2>0, <3>1, <3>2, AskCalm
  <2>2. CASE MtuRefused
    BY <2>0, <2>2 DEF MtuRefused, Refused
  <2>3. CASE Disconnected
    BY <2>3 DEF Disconnected
  <2>4. CASE PrimaryAnswered
    BY <2>0, <2>4, PrimaryCalm
  <2>5. CASE SecondaryAnswered
    BY <2>0, <2>5, SecondaryCalm
  <2>6. CASE IncludesAnswered
    BY <2>0, <2>6, IncludesCalm
  <2>7. CASE ChrcsAnswered \/ DescsAnswered
    BY <2>0, <2>7, ContentsCalm
  <2>8. CASE RegisterAnswered
    BY <2>0, <2>8, RegisterCalm
  <2>9. CASE Indicated
    BY <2>0, <2>9, IndicatedCalm
  <2>10. CASE Change
    BY <2>0, <2>10, ChangeCalm
  <2> QED BY <1>2, <2>1, <2>2, <2>3, <2>4, <2>5, <2>6, <2>7, <2>8, <2>9, <2>10 DEF Next, Answer
<1> QED BY <1>1, <1>2

(* As long as the server tells of its changes one at a time, the database  *)
(* of a client that waits for nothing has the server's services, each as   *)
(* it is now, and those with contents active.                              *)
THEOREM FollowsTheServer == Spec => []MatchesOneAtATime
<1>1. Base /\ Calm => MatchesOneAtATime
  <2> SUFFICES ASSUME Base, Calm, world = {}, Quiet, ready, NEW s \in Slots PROVE Same(s)
    BY DEF MatchesOneAtATime, Matches
  <2>1. ~ in_init /\ ~ in_svc_chngd /\ owed = <<>> /\ up
    BY DEF Quiet, Base, Inv, FlagsTell
  <2>2. Stale = {}
    BY <2>1 DEF Stale
  <2> QED BY <2>1, <2>2 DEF Calm, Elsewhere
<1>2. Spec => []Calm
  BY InitCalm, BaseAlways, NextCalm, PTL DEF Spec
<1> QED BY <1>1, <1>2, BaseAlways, PTL

=============================================================================
