------------------------- MODULE GattNotifyProofs -------------------------
(***************************************************************************)
(* Proofs about GattNotify, for any set of registrations: references are   *)
(* counted, the count that the assertions of gatt-client.c are about is    *)
(* the number of handlers that were told of success, and the server        *)
(* notifies as long as there is one of these.                              *)
(***************************************************************************)
EXTENDS GattNotify, QueueLemmas

-----------------------------------------------------------------------------
(* The inductive invariant of every usage.                                 *)

In(q, n) == \E i \in DOMAIN q : q[i] = n
Distinct(q) == \A i, j \in DOMAIN q : q[i] = q[j] => i = j

(* Registrations that wait for the CCC write of another one.               *)
Waiting(n) == In(reg_notify_queue, n) \/ In(draining, n)

(* The write whose handler runs: it stays at the head of the line.         *)
Served == IF answering = "no" THEN {} ELSE {line[1]}

(* A write that switches off, or whose handler was taken away, is of a     *)
(* registration that has left; one that switches on and is not answered    *)
(* yet is of one that is there and waits for nothing else, unless others   *)
(* could register while the CCC was being switched off.                    *)
EntryOK(e) ==
  /\ e.reg \in registered
  /\ e.cancelled => e.enable /\ ~ Mild
  /\ e.cancelled \/ ~ e.enable => e.reg \notin notify_list
  /\ ~ e.enable /\ "overlap" \notin usage => reg_notify_queue = <<>>
  /\ e.enable /\ ~ e.cancelled => ~ Waiting(e.reg)
  /\ e.enable /\ ~ e.cancelled /\ e \notin Served =>
       /\ e.reg \in att_id
       /\ "overlap" \notin usage /\ ~ chrc_freed => e.reg \in notify_list
  /\ e \in Served =>
       e.enable /\ ~ e.cancelled /\ e.reg \notin notify_list \intersect att_id

(* A registration has one write, or a second one to switch the CCC off     *)
(* that is made while the first is being answered.                         *)
Apart(e, f) ==
  ~ e.cancelled /\ ~ f.cancelled /\ e.reg = f.reg =>
    \/ e \in Served /\ e.enable /\ ~ f.enable
    \/ f \in Served /\ f.enable /\ ~ e.enable

LineOK ==
  /\ \A i \in DOMAIN line : EntryOK(line[i])
  /\ \A i, j \in DOMAIN line : i # j => Apart(line[i], line[j])

(* Whoever waits was told nothing, and is still registered, unless it left *)
(* from within a registration callback.                                    *)
WaitingOK ==
  /\ Distinct(reg_notify_queue) /\ Distinct(draining)
  /\ \A n : In(reg_notify_queue, n) => ~ In(draining, n)
  /\ \A n : Waiting(n) => n \in registered /\ told[n] = "nothing"
  /\ \A n : In(reg_notify_queue, n) \/ (Mild /\ In(draining, n)) => n \in notify_list

RegsOK ==
  /\ \A n \in Regs \ registered : refs[n] = 0 /\ told[n] = "nothing"
  /\ \A n \in notify_list : told[n] # "error" /\ (n \in att_id => told[n] = "nothing")
  /\ "overlap" \notin usage =>
       \A n \in notify_list : told[n] = "nothing" => Waiting(n) \/ n \in att_id

HandlerInv ==
  /\ draining # <<>> => answering = "success"
  /\ answering # "no" => line # <<>> /\ ~ chrc_freed
  /\ answering = "error" => notify_count = 0
  /\ reg_notify_queue # <<>> => ccc_write_id \/ answering = "error"
  /\ chrc_freed => notify_list = {} /\ reg_notify_queue = <<>>
  /\ chrc_freed \/ fault = "freed" => "changes" \in usage
  /\ answering = "success" \/ notify_count > 0 => ccc

Base == TypeOK /\ LineOK /\ WaitingOK /\ RegsOK /\ HandlerInv

(* References: notify_list's own, and one for each write on the line that  *)
(* still has its handler.                                                  *)
Entries(l) == {l[i] : i \in DOMAIN l}
On(X, n) == \E x \in X : x.reg = n /\ x.enable /\ ~ x.cancelled
Off(X, n) == \E x \in X : x.reg = n /\ ~ x.enable
One(P) == IF P THEN 1 ELSE 0

Covered ==
  ~ chrc_freed =>
    \A n \in Regs :
      refs[n] >= ListRefs(n) + One(On(Entries(line), n)) + One(Off(Entries(line), n))

(* If callbacks do not call the API, one CCC write at a time is made.      *)
OneWrite ==
  "reentrant" \notin usage =>
    /\ \A i \in DOMAIN line : i = 1
    /\ ccc_write_id <=> line # <<>> /\ answering = "no"
    /\ \A n \in notify_list \intersect att_id :
         line # <<>> /\ line[1].reg = n /\ answering = "no"

(* notify_count, while enable_ccc_callback has yet to count those that     *)
(* wait, some of which may have left.                                      *)
Told == {n \in notify_list : told[n] = "success"}
Gone == {n \in Regs : In(draining, n) /\ n \notin notify_list}

Counted ==
  /\ IsFiniteSet(registered)
  /\ ~ chrc_freed /\ ~ ({"early", "overlap"} \subseteq usage) =>
       /\ notify_count + Cardinality(Gone) >= Cardinality(Told)
       /\ "overlap" \notin usage =>
            notify_count + Cardinality(Gone) = Cardinality(Told)
  /\ Polite => /\ fault # "assert"
               /\ ccc_write_id /\ ~ chrc_freed => notify_count = 0

-----------------------------------------------------------------------------
(* Queues of registrations.                                                *)

(* Nothing is in an empty queue ...                                        *)
LEMMA InEmpty ==
  /\ \A m : ~ In(<<>>, m)
  /\ Distinct(<<>>)
BY DEF In, Distinct

(* ... queue_push_tail ...                                                 *)
LEMMA InPushed ==
  ASSUME NEW S, NEW q \in Seq(S), NEW n \in S
  PROVE  /\ \A m : In(Append(q, n), m) <=> In(q, m) \/ m = n
         /\ Distinct(q) /\ ~ In(q, n) => Distinct(Append(q, n))
         /\ Append(q, n) # <<>> /\ Append(q, n) \in Seq(S)
<1> DEFINE a == Append(q, n)
<1>1. /\ a \in Seq(S) /\ a # <<>>
      /\ \A i \in DOMAIN q : i \in DOMAIN a /\ a[i] = q[i]
      /\ \A i \in DOMAIN a : \/ i \in DOMAIN q /\ a[i] = q[i]
                             \/ i = Len(q) + 1 /\ i \notin DOMAIN q /\ a[i] = n
      /\ Len(q) + 1 \in DOMAIN a /\ a[Len(q) + 1] = n
  BY Pushed
<1> HIDE DEF a
<1>2. \A m : In(a, m) <=> In(q, m) \/ m = n
  BY <1>1 DEF In
<1>3. Distinct(q) /\ ~ In(q, n) => Distinct(a)
  BY <1>1 DEF In, Distinct
<1> QED BY <1>1, <1>2, <1>3 DEF a

(* ... and queue_pop_head.                                                 *)
LEMMA InPopped ==
  ASSUME NEW S, NEW q \in Seq(S), q # <<>>
  PROVE  /\ \A m : In(q, m) <=> In(Tail(q), m) \/ m = Head(q)
         /\ Distinct(q) => Distinct(Tail(q)) /\ ~ In(Tail(q), Head(q))
         /\ Tail(q) \in Seq(S) /\ Head(q) \in S
<1> DEFINE t == Tail(q)
           h == Head(q)
<1>1. /\ h = q[1] /\ 1 \in DOMAIN q /\ h \in S /\ t \in Seq(S)
      /\ \A i \in DOMAIN t : i \in Nat /\ i + 1 \in DOMAIN q /\ t[i] = q[i + 1]
      /\ \A i \in DOMAIN q : i = 1 \/ (i - 1 \in DOMAIN t /\ t[i - 1] = q[i])
  BY Popped
<1>2. \A i \in DOMAIN t : i # 0
  <2>1. DOMAIN t = 1 .. Len(t) /\ Len(t) \in Nat
    BY <1>1, QueueEntries
  <2> QED BY <2>1
<1> HIDE DEF t, h
<1>3. \A m : In(q, m) <=> In(t, m) \/ m = h
  BY <1>1 DEF In
<1>4. ASSUME Distinct(q) PROVE Distinct(t) /\ ~ In(t, h)
  <2>1. ASSUME NEW i \in DOMAIN t, NEW j \in DOMAIN t, t[i] = t[j] PROVE i = j
    <3>1. i + 1 = j + 1
      BY <1>1, <1>4, <2>1 DEF Distinct
    <3> QED BY <1>1, <3>1
  <2>2. ASSUME NEW i \in DOMAIN t, t[i] = h PROVE FALSE
    <3>1. i + 1 = 1
      BY <1>1, <1>4, <2>2 DEF Distinct
    <3> QED BY <1>1, <1>2, <3>1
  <2> QED BY <2>1, <2>2 DEF Distinct, In
<1> QED BY <1>1, <1>3, <1>4 DEF t, h

(* Who is in a queue of registrations is one.                              *)
LEMMA InTyped ==
  ASSUME NEW S, NEW q \in Seq(S)
  PROVE  /\ \A m : In(q, m) => m \in S
         /\ \A m : m \in ToSet(q) <=> In(q, m)
         /\ q # <<>> <=> \E m : In(q, m)
<1>1. /\ \A i \in DOMAIN q : i \in Nat /\ q[i] \in S
      /\ ToSet(q) = {q[i] : i \in DOMAIN q}
      /\ q = <<>> <=> DOMAIN q = {}
  BY QueueEntries
<1> QED BY <1>1 DEF In

-----------------------------------------------------------------------------
(* The line.                                                               *)

(* What is on a line but its k-th entry.                                   *)
But(l, k) == {l[i] : i \in DOMAIN l \ {k}}

(* f says where the entries of new were in old: those in K stayed, and one *)
(* may be of E.                                                            *)
Placed(new, old, f, K, E) ==
  /\ \A i \in DOMAIN new :
       \/ f[i] \in DOMAIN old /\ new[i] = old[f[i]] /\ new[i] \in K
       \/ f[i] \notin DOMAIN old /\ new[i] \in E
  /\ \A i, j \in DOMAIN new : f[i] = f[j] => i = j
  /\ \A i, j \in DOMAIN new : f[i] \notin DOMAIN old /\ f[j] \notin DOMAIN old => i = j

(* What is on the line is as it should be if what has stayed still is and  *)
(* what is new is.                                                         *)
LEMMA LineKept ==
  ASSUME LineOK, NEW K, NEW E, NEW f, Placed(line', line, f, K, E),
         \A x \in K \union E : EntryOK(x)',
         \A x, y \in K : Apart(x, y) => Apart(x, y)',
         \A x \in E, y \in K : Apart(x, y)'
  PROVE  LineOK'
<1>1. ASSUME NEW i \in DOMAIN line' PROVE EntryOK(line[i])'
  <2>1. PICK x \in K \union E : x = line'[i]
    BY DEF Placed
  <2>2. EntryOK(x)'
    OBVIOUS
  <2> QED BY <2>1, <2>2 DEF EntryOK
<1>2. \A x, y : Apart(x, y)' => Apart(y, x)'
  BY DEF Apart
<1>3. ASSUME NEW i \in DOMAIN line', NEW j \in DOMAIN line', i # j
      PROVE  Apart(line[i], line[j])'
  <2>1. PICK x : x = line'[i]
    OBVIOUS
  <2>2. PICK y : y = line'[j]
    OBVIOUS
  <2>3. Apart(x, y)'
    <3>1. CASE f[i] \in DOMAIN line /\ f[j] \in DOMAIN line
      <4>1. Apart(line[f[i]], line[f[j]])
        BY <1>3, <3>1 DEF LineOK, Placed
      <4> QED BY <1>3, <2>1, <2>2, <3>1, <4>1 DEF Placed
    <3>2. CASE f[i] \notin DOMAIN line
      BY <1>3, <2>1, <2>2, <3>2 DEF Placed
    <3>3. CASE f[j] \notin DOMAIN line
      BY <1>2, <1>3, <2>1, <2>2, <3>3 DEF Placed
    <3> QED BY <3>1, <3>2, <3>3
  <2> QED BY <2>1, <2>2, <2>3 DEF Apart
<1> QED BY <1>1, <1>3 DEF LineOK

(* Nothing moves ...                                                       *)
LEMMA LineSame ==
  ASSUME LineOK, UNCHANGED line, NEW K, K = Entries(line),
         \A x \in K : EntryOK(x)',
         \A x, y \in K : Apart(x, y) => Apart(x, y)'
  PROVE  LineOK'
<1> DEFINE f == [i \in DOMAIN line |-> i]
           E == {}
<1>1. \A i \in DOMAIN line' : f[i] \in DOMAIN line /\ line'[i] = line[f[i]] /\ line'[i] \in K
  BY DEF Entries
<1>2. \A i, j \in DOMAIN line' : f[i] = f[j] => i = j
  OBVIOUS
<1>3. \A x \in K \union E : EntryOK(x)'
  OBVIOUS
<1>4. \A x \in E, y \in K : Apart(x, y)'
  OBVIOUS
<1>5. Placed(line', line, f, K, E)
  BY <1>1, <1>2 DEF Placed
<1> HIDE DEF f, E
<1> QED BY <1>3, <1>4, <1>5, LineKept

(* ... a write is pushed ...                                               *)
LEMMA LinePushed ==
  ASSUME TypeOK, LineOK, NEW e \in CccWrite, line' = Append(line, e),
         NEW K, K = Entries(line),
         \A x \in K : EntryOK(x)', EntryOK(e)',
         \A x, y \in K : Apart(x, y) => Apart(x, y)',
         \A y \in K : Apart(e, y)'
  PROVE  LineOK'
<1>1. /\ \A i \in DOMAIN line' : \/ i \in DOMAIN line /\ line'[i] = line[i]
                                 \/ i = Len(line) + 1 /\ i \notin DOMAIN line /\ line'[i] = e
  BY Pushed DEF TypeOK
<1> DEFINE f == [i \in DOMAIN line' |-> i]
           E == {e}
<1>2. \A i \in DOMAIN line' :
        \/ f[i] \in DOMAIN line /\ line'[i] = line[f[i]] /\ line'[i] \in K
        \/ f[i] \notin DOMAIN line /\ line'[i] \in E
  BY <1>1 DEF Entries
<1>3. \A i, j \in DOMAIN line' : f[i] = f[j] => i = j
  OBVIOUS
<1>4. \A i, j \in DOMAIN line' : f[i] \notin DOMAIN line /\ f[j] \notin DOMAIN line => i = j
  BY <1>1
<1>5. \A x \in K \union E : EntryOK(x)'
  <2> TAKE x \in K \union E
  <2>1. CASE x = e
    BY <2>1 DEF EntryOK
  <2> QED BY <2>1
<1>6. \A x \in E, y \in K : Apart(x, y)'
  BY DEF Apart
<1>7. Placed(line', line, f, K, E)
  BY <1>2, <1>3, <1>4 DEF Placed
<1> HIDE DEF f, E
<1> QED BY <1>5, <1>6, <1>7, LineKept

(* ... the head popped ...                                                 *)
LEMMA LinePopped ==
  ASSUME TypeOK, LineOK, line # <<>>, line' = Tail(line), NEW K, K = But(line, 1),
         \A x \in K : EntryOK(x)',
         \A x, y \in K : Apart(x, y) => Apart(x, y)'
  PROVE  LineOK'
<1>1. /\ \A i \in DOMAIN line' : i \in Nat /\ i + 1 \in DOMAIN line /\ line'[i] = line[i + 1]
      /\ line' \in Seq(CccWrite)
  BY Popped DEF TypeOK
<1>2. \A i \in DOMAIN line' : i # 0
  <2>1. DOMAIN line' = 1 .. Len(line') /\ Len(line') \in Nat
    BY <1>1, QueueEntries
  <2> QED BY <2>1
<1> DEFINE f == [i \in DOMAIN line' |-> i + 1]
           E == {}
<1>3. \A i \in DOMAIN line' : f[i] \in DOMAIN line /\ line'[i] = line[f[i]] /\ line'[i] \in K
  BY <1>1, <1>2 DEF But
<1>4. \A i, j \in DOMAIN line' : f[i] = f[j] => i = j
  BY <1>1
<1>5. \A x \in K \union E : EntryOK(x)'
  OBVIOUS
<1>6. \A x \in E, y \in K : Apart(x, y)'
  OBVIOUS
<1>7. Placed(line', line, f, K, E)
  BY <1>3, <1>4 DEF Placed
<1> HIDE DEF f, E
<1> QED BY <1>5, <1>6, <1>7, LineKept

(* ... and replaced by a write at the end ...                              *)
LEMMA LineMoved ==
  ASSUME TypeOK, LineOK, line # <<>>, NEW e \in CccWrite, line' = Append(Tail(line), e),
         NEW K, K = But(line, 1),
         \A x \in K : EntryOK(x)', EntryOK(e)',
         \A x, y \in K : Apart(x, y) => Apart(x, y)',
         \A y \in K : Apart(e, y)'
  PROVE  LineOK'
<1>1. /\ Moved(line', line, 1, {e}) /\ line' \in Seq(CccWrite)
      /\ Len(line) \in Nat /\ DOMAIN line = 1 .. Len(line)
  BY PoppedPushed, QueueEntries DEF TypeOK
<1>2. DOMAIN line' = 1 .. Len(line') /\ Len(line') \in Nat
  BY <1>1, QueueEntries
<1> DEFINE f == [i \in DOMAIN line' |-> i + 1]
           E == {e}
<1>3. ASSUME NEW i \in DOMAIN line'
      PROVE  \/ f[i] \in DOMAIN line /\ line'[i] = line[f[i]] /\ line'[i] \in K
             \/ f[i] \notin DOMAIN line /\ line'[i] \in E
  <2>1. f[i] = i + 1 /\ i + 1 # 1
    BY <1>2
  <2>2. CASE i + 1 \in DOMAIN line /\ line'[i] = line[i + 1]
    BY <2>1, <2>2 DEF But
  <2>3. CASE i = Len(line) + 1 - 1 /\ line'[i] \in {e}
    BY <1>1, <2>1, <2>3
  <2> QED BY <1>1, <2>2, <2>3 DEF Moved
<1>4. \A i, j \in DOMAIN line' : f[i] = f[j] => i = j
  BY <1>2
<1>5. ASSUME NEW i \in DOMAIN line', f[i] \notin DOMAIN line PROVE i = Len(line)
  BY <1>1, <1>5 DEF Moved
<1>6. \A x \in K \union E : EntryOK(x)'
  <2> TAKE x \in K \union E
  <2>1. CASE x = e
    BY <2>1 DEF EntryOK
  <2> QED BY <2>1
<1>7. \A x \in E, y \in K : Apart(x, y)'
  BY DEF Apart
<1>8. \A i, j \in DOMAIN line' : f[i] \notin DOMAIN line /\ f[j] \notin DOMAIN line => i = j
  BY <1>5
<1>9. Placed(line', line, f, K, E)
  BY <1>3, <1>4, <1>8 DEF Placed
<1> HIDE DEF f, E
<1> QED BY <1>6, <1>7, <1>9, LineKept

(* ... one is unlinked, wherever it is ...                                 *)
LEMMA RemovedPlaced ==
  ASSUME NEW S, NEW q \in Seq(S), NEW k \in DOMAIN q, NEW E
  PROVE  \E f : Placed(RemoveAt(q, k), q, f, But(q, k), E)
<1> DEFINE r == RemoveAt(q, k)
           f == [i \in DOMAIN r |-> IF i < k THEN i ELSE i + 1]
<1>1. /\ r \in Seq(S)
      /\ \A i \in DOMAIN r :
           LET j == IF i < k THEN i ELSE i + 1 IN j \in DOMAIN q /\ j # k /\ r[i] = q[j]
  BY RemovedAt
<1> HIDE DEF r
<1>2. k \in Int /\ \A i \in DOMAIN r : i \in Int
  <2>1. DOMAIN r = 1 .. Len(r) /\ Len(r) \in Nat
    BY <1>1, QueueEntries
  <2>2. DOMAIN q = 1 .. Len(q) /\ Len(q) \in Nat
    BY QueueEntries
  <2> QED BY <2>1, <2>2
<1>3. ASSUME NEW i \in DOMAIN r PROVE f[i] \in DOMAIN q \ {k} /\ r[i] = q[f[i]]
  BY <1>1
<1>4. \A i \in DOMAIN r : r[i] \in But(q, k)
  BY <1>3 DEF But
<1>5. \A i, j \in DOMAIN r : f[i] = f[j] => i = j
  BY <1>2
<1> HIDE DEF f
<1>6. Placed(r, q, f, But(q, k), E)
  BY <1>3, <1>4, <1>5 DEF Placed
<1> QED BY <1>6 DEF r

(* ... and what is left is as it should be ...                             *)
LEMMA LineRemoved ==
  ASSUME TypeOK, LineOK, NEW k \in DOMAIN line, line' = RemoveAt(line, k),
         NEW K, K = But(line, k),
         \A x \in K : EntryOK(x)',
         \A x, y \in K : Apart(x, y) => Apart(x, y)'
  PROVE  LineOK'
<1> DEFINE E == {}
<1>1. line \in Seq(CccWrite)
  BY DEF TypeOK
<1>2. \A x \in K \union E : EntryOK(x)'
  OBVIOUS
<1>3. \A x \in E, y \in K : Apart(x, y)'
  OBVIOUS
<1> HIDE DEF E
<1>4. PICK f : Placed(line', line, f, K, E)
  BY <1>1, RemovedPlaced
<1> QED BY <1>2, <1>3, <1>4, LineKept

(* ... or the head is replaced.                                            *)
LEMMA LineReplaced ==
  ASSUME TypeOK, LineOK, line # <<>>, NEW e,
         DOMAIN line' = DOMAIN line, line'[1] = e,
         \A i \in DOMAIN line \ {1} : line'[i] = line[i],
         NEW K, K = But(line, 1),
         \A x \in K : EntryOK(x)', EntryOK(e)',
         \A x, y \in K : Apart(x, y) => Apart(x, y)',
         \A y \in K : Apart(e, y)'
  PROVE  LineOK'
<1>1. DOMAIN line = 1 .. Len(line) /\ Len(line) \in Nat
  BY QueueEntries DEF TypeOK
<1> DEFINE f == [i \in DOMAIN line' |-> IF i = 1 THEN 0 ELSE i]
           E == {e}
<1>2. 0 \notin DOMAIN line
  BY <1>1
<1>3. \A i \in DOMAIN line' :
        \/ f[i] \in DOMAIN line /\ line'[i] = line[f[i]] /\ line'[i] \in K
        \/ f[i] \notin DOMAIN line /\ line'[i] \in E
  BY <1>2 DEF But
<1>4. \A i, j \in DOMAIN line' : f[i] = f[j] => i = j
  BY <1>2
<1>5. \A i, j \in DOMAIN line' : f[i] \notin DOMAIN line /\ f[j] \notin DOMAIN line => i = j
  BY <1>2
<1>6. \A x \in K \union E : EntryOK(x)'
  <2> TAKE x \in K \union E
  <2>1. CASE x = e
    BY <2>1 DEF EntryOK
  <2> QED BY <2>1
<1>7. \A x \in E, y \in K : Apart(x, y)'
  BY DEF Apart
<1>8. Placed(line', line, f, K, E)
  BY <1>3, <1>4, <1>5 DEF Placed
<1> HIDE DEF f, E
<1> QED BY <1>6, <1>7, <1>8, LineKept

(* What is on the line after each of these.                                *)
LEMMA EntriesOf ==
  ASSUME NEW S, NEW l \in Seq(S)
  PROVE  /\ Entries(l) \subseteq S
         /\ l # <<>> <=> Entries(l) # {}
         /\ \A k \in DOMAIN l : Entries(l) = But(l, k) \union {l[k]}
         /\ \A e \in S : Entries(Append(l, e)) = Entries(l) \union {e}
         /\ l # <<>> => /\ 1 \in DOMAIN l /\ Head(l) = l[1]
                        /\ Entries(Tail(l)) = But(l, 1)
                        /\ \A e \in S : Entries(Append(Tail(l), e)) = But(l, 1) \union {e}
         /\ \A k \in DOMAIN l : Entries(RemoveAt(l, k)) \subseteq But(l, k)
<1>1. /\ Len(l) \in Nat /\ DOMAIN l = 1 .. Len(l) /\ (l = <<>> <=> DOMAIN l = {})
      /\ \A i \in DOMAIN l : i \in Nat /\ l[i] \in S
  BY QueueEntries
<1>2. Entries(l) \subseteq S /\ (l # <<>> <=> Entries(l) # {})
  BY <1>1 DEF Entries
<1>3. \A k \in DOMAIN l : Entries(l) = But(l, k) \union {l[k]}
  BY DEF Entries, But
<1>4. ASSUME NEW q \in Seq(S), NEW e \in S PROVE Entries(Append(q, e)) = Entries(q) \union {e}
  <2> DEFINE a == Append(q, e)
  <2>1. /\ \A i \in DOMAIN q : i \in DOMAIN a /\ a[i] = q[i]
        /\ \A i \in DOMAIN a : (i \in DOMAIN q /\ a[i] = q[i]) \/ a[i] = e
        /\ Len(q) + 1 \in DOMAIN a /\ a[Len(q) + 1] = e
    BY Pushed
  <2> HIDE DEF a
  <2>2. Entries(a) = Entries(q) \union {e}
    BY <2>1 DEF Entries
  <2> QED BY <2>2 DEF a
<1>5. ASSUME l # <<>>
      PROVE  /\ 1 \in DOMAIN l /\ Head(l) = l[1]
             /\ Tail(l) \in Seq(S)
             /\ Entries(Tail(l)) = But(l, 1)
  <2> DEFINE t == Tail(l)
  <2>1. /\ Head(l) = l[1] /\ 1 \in DOMAIN l /\ t \in Seq(S)
        /\ \A i \in DOMAIN t : i \in Nat /\ i + 1 \in DOMAIN l /\ t[i] = l[i + 1]
        /\ \A i \in DOMAIN l : i = 1 \/ (i - 1 \in DOMAIN t /\ t[i - 1] = l[i])
    BY <1>5, Popped
  <2>2. DOMAIN t = 1 .. Len(t) /\ Len(t) \in Nat
    BY <2>1, QueueEntries
  <2> HIDE DEF t
  <2>3. \A i \in DOMAIN t : i + 1 # 1
    BY <2>2
  <2>4. Entries(t) \subseteq But(l, 1)
    BY <2>1, <2>3 DEF Entries, But
  <2>5. But(l, 1) \subseteq Entries(t)
    BY <2>1 DEF Entries, But
  <2> QED BY <2>1, <2>4, <2>5 DEF t
<1>6. ASSUME l # <<>>, NEW e \in S PROVE Entries(Append(Tail(l), e)) = But(l, 1) \union {e}
  <2>1. Tail(l) \in Seq(S) /\ Entries(Tail(l)) = But(l, 1)
    BY <1>5, <1>6
  <2> QED BY <1>4, <2>1
<1>7. ASSUME NEW k \in DOMAIN l PROVE Entries(RemoveAt(l, k)) \subseteq But(l, k)
  <2> DEFINE r == RemoveAt(l, k)
             E == {}
  <2> HIDE DEF r, E
  <2>1. PICK f : Placed(r, l, f, But(l, k), E)
    BY RemovedPlaced DEF r
  <2>2. \A i \in DOMAIN r : r[i] \in But(l, k)
    BY <2>1 DEF Placed, E
  <2> QED BY <2>2 DEF Entries, r
<1> QED BY <1>2, <1>3, <1>4, <1>5, <1>6, <1>7

-----------------------------------------------------------------------------
(* What every step may rely on.                                            *)

All == Base /\ Covered /\ OneWrite

(* Types, one by one.                                                      *)
LEMMA Types ==
  ASSUME TypeOK
  PROVE  /\ usage \in Usages /\ registered \subseteq Regs
         /\ notify_list \subseteq registered /\ att_id \subseteq registered
         /\ reg_notify_queue \in Seq(Regs) /\ draining \in Seq(Regs)
         /\ notify_count \in Int
         /\ refs \in [Regs -> Nat]
         /\ told \in [Regs -> {"nothing", "success", "error"}]
         /\ line \in Seq(CccWrite)
         /\ answering \in {"no", "success", "error"}
         /\ ccc_write_id \in BOOLEAN /\ chrc_freed \in BOOLEAN /\ ccc \in BOOLEAN
         /\ fault \in {"none", "assert", "freed"}
         /\ notify_list \subseteq Regs /\ att_id \subseteq Regs
BY DEF TypeOK

(* The entries of the line.                                                *)
LEMMA EntryFacts ==
  ASSUME TypeOK, LineOK
  PROVE  /\ \A x \in Entries(line) :
              /\ x \in CccWrite /\ EntryOK(x)
              /\ x.reg \in Regs /\ x.enable \in BOOLEAN /\ x.cancelled \in BOOLEAN
         /\ \A k \in DOMAIN line :
              /\ line[k] \in Entries(line) /\ But(line, k) \subseteq Entries(line)
              /\ \A x \in But(line, k) : Apart(line[k], x) /\ Apart(x, line[k])
<1>1. line \in Seq(CccWrite)
  BY Types
<1>2. \A i \in DOMAIN line : line[i] \in CccWrite
  BY <1>1, QueueEntries
<1>3. \A x \in Entries(line) : x \in CccWrite /\ EntryOK(x)
  BY <1>2 DEF Entries, LineOK
<1>4. \A x \in CccWrite : x.reg \in Regs /\ x.enable \in BOOLEAN /\ x.cancelled \in BOOLEAN
  BY DEF CccWrite
<1>5. \A k \in DOMAIN line : /\ line[k] \in Entries(line) /\ But(line, k) \subseteq Entries(line)
                             /\ \A x \in But(line, k) : Apart(line[k], x) /\ Apart(x, line[k])
  BY DEF Entries, But, LineOK
<1> QED BY <1>3, <1>4, <1>5

(* The head of the line.                                                   *)
LEMMA HeadFacts ==
  ASSUME TypeOK, LineOK, line # <<>>
  PROVE  /\ Head(line) = line[1] /\ 1 \in DOMAIN line
         /\ line[1] \in CccWrite /\ EntryOK(line[1]) /\ line[1].reg \in Regs
         /\ line[1].enable \in BOOLEAN /\ line[1].cancelled \in BOOLEAN
         /\ \A x \in But(line, 1) : Apart(line[1], x) /\ Apart(x, line[1])
         /\ Entries(line) = But(line, 1) \union {line[1]}
<1>1. line \in Seq(CccWrite)
  BY Types
<1>2. Head(line) = line[1] /\ 1 \in DOMAIN line /\ Entries(line) = But(line, 1) \union {line[1]}
  BY <1>1, EntriesOf
<1> QED BY <1>2, EntryFacts

(* The handler in progress keeps the head of the line.                     *)
LEMMA ServedPushed ==
  ASSUME TypeOK, HandlerInv, NEW e \in CccWrite, line' = Append(line, e), UNCHANGED answering
  PROVE  Served' = Served
<1>1. CASE answering = "no"
  BY <1>1 DEF Served
<1>2. CASE answering # "no"
  <2>1. line # <<>> /\ line \in Seq(CccWrite)
    BY <1>2 DEF HandlerInv, TypeOK
  <2>2. 1 \in DOMAIN line
    BY <2>1, EntriesOf
  <2>3. line'[1] = line[1]
    BY <2>1, <2>2, Pushed
  <2> QED BY <1>2, <2>3 DEF Served
<1> QED BY <1>1, <1>2

(* A registration that has not been made is nowhere.                       *)
LEMMA Fresh ==
  ASSUME All, NEW n \in Regs \ registered
  PROVE  /\ n \notin notify_list /\ n \notin att_id /\ refs[n] = 0 /\ told[n] = "nothing"
         /\ ~ In(reg_notify_queue, n) /\ ~ In(draining, n)
         /\ \A x \in Entries(line) : x.reg # n
<1>1. TypeOK /\ LineOK /\ WaitingOK /\ RegsOK
  BY DEF All, Base
<1>2. \A x \in Entries(line) : x.reg # n
  BY <1>1, EntryFacts DEF EntryOK
<1>3. ~ In(reg_notify_queue, n) /\ ~ In(draining, n)
  BY <1>1 DEF WaitingOK, Waiting
<1> QED BY <1>1, <1>2, <1>3, Types DEF RegsOK

(* bt_gatt_client_register_notify                                          *)
LEMMA RegisterAll ==
  ASSUME All, NEW n \in Regs, Register(n)
  PROVE  All'
<1> DEFINE e == [reg |-> n, enable |-> TRUE, cancelled |-> FALSE]
<1>0. TypeOK /\ LineOK /\ WaitingOK /\ RegsOK /\ HandlerInv /\ Covered /\ OneWrite
  BY DEF All, Base
<1>1. n \notin registered /\ ~ chrc_freed /\ MayRegister
      /\ registered' = registered \union {n} /\ notify_list' = notify_list \union {n}
      /\ UNCHANGED <<usage, chrc_freed, answering, draining, ccc, fault>>
  BY DEF Register, handler
<1>2. /\ n \notin notify_list /\ n \notin att_id /\ refs[n] = 0 /\ told[n] = "nothing"
      /\ ~ In(reg_notify_queue, n) /\ ~ In(draining, n)
      /\ \A x \in Entries(line) : x.reg # n
  BY <1>1, Fresh
<1>3. /\ e \in CccWrite /\ e.reg = n /\ e.enable = TRUE /\ e.cancelled = FALSE
  BY DEF CccWrite
<1>4. \/ /\ ccc_write_id
         /\ refs' = [refs EXCEPT ![n] = 1]
         /\ reg_notify_queue' = Append(reg_notify_queue, n)
         /\ UNCHANGED <<notify_count, ccc_write_id, att_id, told, line>>
      \/ /\ ~ ccc_write_id /\ notify_count > 0
         /\ refs' = [refs EXCEPT ![n] = 1]
         /\ notify_count' = notify_count + 1
         /\ att_id' = att_id \ {n}
         /\ told' = [told EXCEPT ![n] = "success"]
         /\ UNCHANGED <<reg_notify_queue, ccc_write_id, line>>
      \/ /\ ~ ccc_write_id /\ notify_count <= 0
         /\ refs' = [refs EXCEPT ![n] = 2]
         /\ line' = Append(line, e)
         /\ ccc_write_id' = TRUE
         /\ att_id' = att_id \union {n}
         /\ UNCHANGED <<reg_notify_queue, notify_count, told>>
  BY DEF Register, Complete, WriteCcc
<1> HIDE DEF e
<1>5. /\ reg_notify_queue' \in Seq(Regs)
      /\ \A m : In(reg_notify_queue', m) <=> In(reg_notify_queue, m) \/ (ccc_write_id /\ m = n)
      /\ Distinct(reg_notify_queue')
      /\ reg_notify_queue' # <<>> => reg_notify_queue # <<>> \/ ccc_write_id
      /\ ~ ccc_write_id => reg_notify_queue' = reg_notify_queue
  <2>1. Distinct(reg_notify_queue) /\ reg_notify_queue \in Seq(Regs)
    BY <1>0, Types DEF WaitingOK
  <2>2. CASE ccc_write_id
    <3>1. reg_notify_queue' = Append(reg_notify_queue, n)
      BY <1>4, <2>2
    <3> QED BY <1>2, <2>1, <2>2, <3>1, InPushed
  <2>3. CASE ~ ccc_write_id
    <3>1. reg_notify_queue' = reg_notify_queue
      BY <1>4, <2>3
    <3> QED BY <2>1, <2>3, <3>1
  <2> QED BY <2>2, <2>3
<1>6. TypeOK'
  <2>1. line' \in Seq(CccWrite)
    <3>1. line' = line \/ line' = Append(line, e)
      BY <1>4
    <3>2. line \in Seq(CccWrite)
      BY <1>0, Types
    <3> QED BY <1>3, <3>1, <3>2, Pushed
  <2>2. refs' \in [Regs -> Nat] /\ told' \in [Regs -> {"nothing", "success", "error"}]
    <3>1. /\ refs' = [refs EXCEPT ![n] = 1] \/ refs' = [refs EXCEPT ![n] = 2]
          /\ told' = told \/ told' = [told EXCEPT ![n] = "success"]
      BY <1>4
    <3>2. refs \in [Regs -> Nat] /\ told \in [Regs -> {"nothing", "success", "error"}]
      BY <1>0, Types
    <3>3. refs' \in [Regs -> Nat]
      BY <3>1, <3>2
    <3>4. told' \in [Regs -> {"nothing", "success", "error"}]
      BY <3>1, <3>2
    <3> QED BY <3>3, <3>4
  <2>3. notify_count' \in Int /\ ccc_write_id' \in BOOLEAN
    <3>1. /\ notify_count' = notify_count \/ notify_count' = notify_count + 1
          /\ ccc_write_id' = ccc_write_id \/ ccc_write_id' = TRUE
      BY <1>4
    <3>2. notify_count \in Int /\ ccc_write_id \in BOOLEAN
      BY <1>0, Types
    <3>3. notify_count' \in Int
      BY <3>1, <3>2
    <3>4. ccc_write_id' \in BOOLEAN
      BY <3>1, <3>2, Zenon
    <3> QED BY <3>3, <3>4
  <2>4. registered' \subseteq Regs /\ notify_list' \subseteq registered'
        /\ att_id' \subseteq registered'
    BY <1>0, <1>1, <1>4, Types
  <2> QED BY <1>0, <1>1, <1>5, <2>1, <2>2, <2>3, <2>4 DEF TypeOK
<1>7. Served' = Served
  <2>1. CASE UNCHANGED line
    BY <1>1, <2>1 DEF Served
  <2> QED BY <1>0, <1>1, <1>3, <1>4, <2>1, ServedPushed
<1>8. \A m : Waiting(m)' <=> Waiting(m) \/ (ccc_write_id /\ m = n)
  BY <1>1, <1>5 DEF Waiting
<1>9. \A x \in Entries(line) : ~ x.enable /\ "overlap" \notin usage => FALSE
  BY <1>1 DEF MayRegister, SwitchingOff, Entries
<1>10. LineOK'
  <2> DEFINE K == Entries(line)
  <2>1. ASSUME NEW x \in K PROVE EntryOK(x)'
    <3>1. EntryOK(x) /\ x.reg # n
      BY <1>0, <1>2, EntryFacts
    <3>2. x.reg \in att_id' <=> x.reg \in att_id
      BY <1>4, <3>1
    <3> QED BY <1>1, <1>7, <1>8, <1>9, <3>1, <3>2 DEF EntryOK, Mild
  <2>2. \A x, y \in K : Apart(x, y) => Apart(x, y)'
    BY <1>7 DEF Apart
  <2>3. CASE UNCHANGED line
    BY <1>0, <2>1, <2>2, <2>3, LineSame
  <2>4. CASE ~ UNCHANGED line
    <3>1. line' = Append(line, e) /\ ~ ccc_write_id /\ att_id' = att_id \union {n}
      BY <1>4, <2>4
    <3>2. \A y \in K : Apart(e, y)'
      BY <1>2, <1>3 DEF Apart
    <3>3. e \notin Served
      <4>1. Served \subseteq Entries(line)
        BY <1>0, HeadFacts DEF Served, HandlerInv
      <4> QED BY <1>2, <1>3, <4>1
    <3>4. EntryOK(e)'
      BY <1>1, <1>2, <1>3, <1>7, <1>8, <3>1, <3>3 DEF EntryOK, Waiting
    <3> HIDE DEF K
    <3>5. PICK z \in CccWrite : z = e
      BY <1>3
    <3>6. EntryOK(z)' /\ (\A y \in K : Apart(z, y)') /\ line' = Append(line, z)
      BY <3>1, <3>2, <3>4, <3>5 DEF EntryOK, Apart
    <3> QED BY <1>0, <2>1, <2>2, <3>6, LinePushed DEF K
  <2> QED BY <2>3, <2>4
<1>11. \A m \in Regs \ {n} :
         refs'[m] = refs[m] /\ told'[m] = told[m] /\ (m \in att_id' <=> m \in att_id)
  BY <1>0, <1>4, Types
<1>12. WaitingOK'
  <2>1. \A m : Waiting(m) => m \in Regs \ {n}
    BY <1>0, <1>2, InTyped, Types DEF Waiting
  <2>2. told'[n] = "nothing" \/ ~ ccc_write_id
    BY <1>2, <1>4
  <2>3. \A m : Waiting(m)' => m \in registered' /\ told'[m] = "nothing"
    BY <1>0, <1>1, <1>8, <1>11, <2>1, <2>2 DEF WaitingOK
  <2>4. \A m : In(reg_notify_queue', m) => ~ In(draining', m)
    BY <1>0, <1>1, <1>2, <1>5 DEF WaitingOK
  <2>5. \A m : In(reg_notify_queue', m) \/ (Mild' /\ In(draining', m)) => m \in notify_list'
    BY <1>0, <1>1, <1>5 DEF WaitingOK, Mild
  <2> QED BY <1>0, <1>1, <1>5, <2>3, <2>4, <2>5 DEF WaitingOK
<1>13. RegsOK'
  <2>1. told'[n] \in {"nothing", "success"} /\ (n \in att_id' => told'[n] = "nothing")
        /\ (told'[n] = "nothing" => ccc_write_id \/ n \in att_id')
    BY <1>0, <1>2, <1>4, Types
  <2>2. notify_list \subseteq Regs \ {n}
    BY <1>0, <1>2, Types
  <2> QED BY <1>0, <1>1, <1>8, <1>11, <2>1, <2>2 DEF RegsOK
<1>14. HandlerInv'
  BY <1>0, <1>1, <1>4, <1>5, Types, Pushed DEF HandlerInv
<1>15. Covered'
  <2> SUFFICES ASSUME NEW m \in Regs
               PROVE  refs'[m] >= ListRefs(m)' + One(On(Entries(line'), m))
                                   + One(Off(Entries(line'), m))
    BY DEF Covered
  <2>1. \/ Entries(line') = Entries(line)
        \/ Entries(line') = Entries(line) \union {e} /\ refs'[n] = 2
    <3>1. line' = line \/ (line' = Append(line, e) /\ refs' = [refs EXCEPT ![n] = 2])
      BY <1>4
    <3>2. line \in Seq(CccWrite) /\ refs \in [Regs -> Nat]
      BY <1>0, Types
    <3>3. Entries(Append(line, e)) = Entries(line) \union {e}
      BY <1>3, <3>2, EntriesOf
    <3>4. refs' = [refs EXCEPT ![n] = 2] => refs'[n] = 2
      BY <3>2
    <3> QED BY <3>1, <3>3, <3>4
  <2>2. CASE m = n
    <3>1. ~ On(Entries(line), m) /\ ~ Off(Entries(line'), m)
      BY <1>2, <1>3, <2>1, <2>2 DEF On, Off
    <3>2. refs'[n] \in {1, 2}
      BY <1>0, <1>4, Types
    <3>3. ListRefs(m)' = 1
      BY <1>1, <2>2 DEF ListRefs
    <3>4. CASE refs'[n] = 2
      BY <2>2, <3>1, <3>3, <3>4 DEF One
    <3>5. CASE refs'[n] = 1
      BY <2>1, <2>2, <3>1, <3>3, <3>5 DEF One
    <3> QED BY <3>2, <3>4, <3>5
  <2>3. CASE m # n
    <3>1. On(Entries(line'), m) <=> On(Entries(line), m)
      BY <1>3, <2>1, <2>3 DEF On
    <3>2. Off(Entries(line'), m) <=> Off(Entries(line), m)
      BY <1>3, <2>1, <2>3 DEF Off
    <3>3. ListRefs(m)' = ListRefs(m) /\ refs'[m] = refs[m]
      BY <1>1, <1>11, <2>3 DEF ListRefs
    <3> QED BY <1>0, <1>1, <3>1, <3>2, <3>3 DEF Covered, One
  <2> QED BY <2>2, <2>3
<1>16. OneWrite'
  <2> SUFFICES ASSUME "reentrant" \notin usage PROVE OneWrite'
    BY <1>1 DEF OneWrite
  <2>1. answering = "no"
    BY <1>1 DEF MayRegister, Callable
  <2>2. CASE UNCHANGED line
    <3>1. ccc_write_id' = ccc_write_id /\ att_id' \subseteq att_id
      BY <1>3, <1>4, <2>2, <1>0, Types, Pushed
    <3> QED BY <1>0, <1>1, <1>2, <2>2, <3>1 DEF OneWrite
  <2>3. CASE ~ UNCHANGED line
    <3>1. line = <<>> /\ line' = Append(line, e) /\ ccc_write_id' = TRUE
          /\ att_id' = att_id \union {n}
      BY <1>0, <1>4, <2>1, <2>3 DEF OneWrite
    <3>2. line' # <<>> /\ line'[1] = e /\ \A i \in DOMAIN line' : i = 1
      BY <3>1
    <3>3. notify_list \intersect att_id = {}
      BY <1>0, <3>1 DEF OneWrite
    <3> QED BY <1>1, <1>3, <2>1, <3>1, <3>2, <3>3 DEF OneWrite
  <2> QED BY <2>2, <2>3
<1> QED BY <1>6, <1>10, <1>12, <1>13, <1>14, <1>15, <1>16 DEF All, Base

(* An assertion that fails, or a use of freed memory, changes nothing else.*)
LEMMA StopAll ==
  ASSUME All, NEW what \in {"assert", "freed"}, Stop(what),
         what = "freed" => "changes" \in usage
  PROVE  All'
<1>0. TypeOK /\ LineOK /\ WaitingOK /\ RegsOK /\ HandlerInv /\ Covered /\ OneWrite
  BY DEF All, Base
<1>1. /\ fault' = what
      /\ UNCHANGED <<usage, registered, reg_notify_queue, notify_count, ccc_write_id,
                     chrc_freed, notify_list, att_id, refs, told, line, answering,
                     draining, ccc>>
  BY DEF Stop, chrc, data, handler
<1>2. TypeOK'
  BY <1>0, <1>1 DEF TypeOK
<1>3. LineOK'
  BY <1>0, <1>1 DEF LineOK, EntryOK, Apart, Served, Waiting, Mild
<1>4. WaitingOK' /\ RegsOK'
  BY <1>0, <1>1 DEF WaitingOK, RegsOK, Waiting, Mild
<1>5. HandlerInv'
  BY <1>0, <1>1 DEF HandlerInv
<1>6. Covered' /\ OneWrite'
  BY <1>0, <1>1 DEF Covered, ListRefs, OneWrite
<1> QED BY <1>2, <1>3, <1>4, <1>5, <1>6 DEF All, Base

(* While something is counted and no write is being made nobody waits for  *)
(* one, and an unregistered handler is not one that was refused.           *)
LEMMA Quiet ==
  ASSUME All, NEW n \in Regs, MayUnregisterNow(n)
  PROVE  /\ reg_notify_queue = <<>> /\ answering # "error" /\ ~ chrc_freed
         /\ n \in notify_list /\ notify_count > 0 /\ ~ ccc_write_id
         /\ \A m : Mild /\ In(draining, m) => m # n
         /\ refs[n] >= 1 + One(On(Entries(line), n)) + One(Off(Entries(line), n))
<1>0. TypeOK /\ WaitingOK /\ HandlerInv /\ Covered
  BY DEF All, Base
<1>1. /\ Callable /\ n \in notify_list /\ notify_count > 0 /\ ~ ccc_write_id
      /\ "early" \in usage \/ told[n] = "success"
  BY DEF MayUnregisterNow, MayUnregister
<1>2. reg_notify_queue = <<>> /\ answering # "error" /\ ~ chrc_freed
  BY <1>0, <1>1, Types DEF HandlerInv
<1>3. refs[n] >= ListRefs(n) + One(On(Entries(line), n)) + One(Off(Entries(line), n))
  BY <1>0, <1>2 DEF Covered
<1>4. ListRefs(n) = 1
  BY <1>1 DEF ListRefs
<1>5. ASSUME Mild, In(draining, n) PROVE FALSE
  <2>1. "early" \in usage
    BY <1>0, <1>1, <1>5 DEF WaitingOK, Waiting
  <2>2. answering = "no"
    BY <1>1, <1>5, <2>1 DEF Mild, Callable
  <2>3. draining = <<>>
    BY <1>0, <2>2 DEF HandlerInv
  <2> QED BY <1>5, <2>3, InEmpty
<1> QED BY <1>1, <1>2, <1>3, <1>4, <1>5

(* bt_gatt_client_unregister_notify                                        *)
LEMMA UnregisterAll ==
  ASSUME All, NEW n \in Regs, Unregister(n)
  PROVE  All'
<1> DEFINE e == [reg |-> n, enable |-> FALSE, cancelled |-> FALSE]
<1>0. TypeOK /\ LineOK /\ WaitingOK /\ RegsOK /\ HandlerInv /\ Covered /\ OneWrite
  BY DEF All, Base
<1>1. /\ n \notin att_id /\ notify_list' = notify_list \ {n}
      /\ notify_count' = notify_count - 1
      /\ UNCHANGED <<usage, registered, reg_notify_queue, chrc_freed, told,
                     answering, draining, ccc, fault>>
  BY DEF Unregister, handler
<1>2. /\ reg_notify_queue = <<>> /\ answering # "error" /\ ~ chrc_freed
      /\ n \in notify_list /\ notify_count > 0 /\ ~ ccc_write_id
      /\ \A m : Mild /\ In(draining, m) => m # n
      /\ refs[n] >= 1 + One(On(Entries(line), n)) + One(Off(Entries(line), n))
  BY Quiet DEF Unregister
<1>3. e \in CccWrite /\ e.reg = n /\ e.enable = FALSE /\ e.cancelled = FALSE
  BY DEF CccWrite
<1>4. \/ /\ line' = Append(line, e) /\ notify_count = 1
         /\ ccc_write_id' = TRUE
         /\ att_id' = att_id \union {n}
         /\ refs' = [refs EXCEPT ![n] = @ + 1]
      \/ /\ UNCHANGED <<line, ccc_write_id, att_id>>
         /\ refs' = [refs EXCEPT ![n] = @ - 1]
  BY DEF Unregister, WriteCcc
<1>5. /\ usage \in Usages /\ registered \subseteq Regs
      /\ notify_list \subseteq registered /\ att_id \subseteq registered
      /\ notify_count \in Int /\ refs \in [Regs -> Nat] /\ line \in Seq(CccWrite)
      /\ ccc_write_id \in BOOLEAN
  BY <1>0, Types
<1> HIDE DEF e
<1>6. /\ One(On(Entries(line), n)) \in {0, 1} /\ One(Off(Entries(line), n)) \in {0, 1}
      /\ refs[n] \in Nat
  BY <1>5 DEF One
<1>7. TypeOK'
  <2>1. line' \in Seq(CccWrite)
    BY <1>3, <1>4, <1>5, Pushed
  <2>2. refs' \in [Regs -> Nat]
    <3>1. refs' = [refs EXCEPT ![n] = @ + 1] => refs' \in [Regs -> Nat]
      BY <1>5
    <3>2. refs' = [refs EXCEPT ![n] = @ - 1] => refs' \in [Regs -> Nat]
      BY <1>2, <1>5, <1>6
    <3> QED BY <1>4, <3>1, <3>2
  <2>3. ccc_write_id' \in BOOLEAN
    BY <1>4, <1>5, Zenon
  <2>4. notify_count' \in Int /\ notify_list' \subseteq registered /\ att_id' \subseteq registered
    BY <1>1, <1>2, <1>4, <1>5
  <2> QED BY <1>0, <1>1, <2>1, <2>2, <2>3, <2>4 DEF TypeOK
<1>8. Served' = Served
  <2>1. CASE UNCHANGED line
    BY <1>1, <2>1 DEF Served
  <2>2. CASE line' = Append(line, e)
    BY <1>0, <1>1, <1>3, <2>2, ServedPushed
  <2> QED BY <1>4, <2>1, <2>2
<1>9. \A m : Waiting(m)' <=> Waiting(m)
  BY <1>1 DEF Waiting
<1>10. \A m : m # n => /\ m \in att_id' <=> m \in att_id
                       /\ m \in notify_list' <=> m \in notify_list
  BY <1>1, <1>4
<1>11. LineOK'
  <2> DEFINE K == Entries(line)
  <2>1. ASSUME NEW x \in K PROVE EntryOK(x)'
    <3>1. EntryOK(x) /\ n \notin notify_list'
      BY <1>0, <1>1, EntryFacts
    <3>2. CASE x.reg = n
      BY <1>1, <1>2, <1>8, <1>9, <3>1, <3>2 DEF EntryOK, Mild
    <3>3. CASE x.reg # n
      <4>1. /\ x.reg \in att_id' <=> x.reg \in att_id
            /\ x.reg \in notify_list' <=> x.reg \in notify_list
        BY <1>10, <3>3
      <4> QED BY <1>1, <1>8, <1>9, <3>1, <4>1 DEF EntryOK, Mild
    <3> QED BY <3>2, <3>3
  <2>2. \A x, y \in K : Apart(x, y) => Apart(x, y)'
    BY <1>8 DEF Apart
  <2>3. CASE UNCHANGED line
    BY <1>0, <2>1, <2>2, <2>3, LineSame
  <2>4. CASE line' = Append(line, e) /\ att_id' = att_id \union {n}
    <3>1. PICK z \in CccWrite : z = e
      BY <1>3
    <3>2. z.reg = n /\ z.enable = FALSE /\ z.cancelled = FALSE /\ line' = Append(line, z)
      BY <1>3, <2>4, <3>1
    <3>3. \A y \in K : Apart(z, y)'
      <4> TAKE y \in K
      <4>1. EntryOK(y)
        BY <1>0, EntryFacts
      <4> QED BY <1>1, <1>2, <1>8, <3>2, <4>1 DEF Apart, EntryOK
    <3>4. z \notin Served
      <4>1. \A x \in Served : EntryOK(x)
        BY <1>0, HeadFacts DEF Served, HandlerInv
      <4> QED BY <3>2, <4>1 DEF EntryOK
    <3>5. EntryOK(z)'
      BY <1>1, <1>2, <1>5, <1>8, <3>2, <3>4 DEF EntryOK
    <3> HIDE DEF K
    <3> QED BY <1>0, <2>1, <2>2, <3>2, <3>3, <3>5, LinePushed DEF K
  <2> QED BY <1>4, <2>3, <2>4
<1>12. WaitingOK'
  <2>1. \A m : Mild' /\ In(draining', m) => m \in notify_list'
    BY <1>0, <1>1, <1>2 DEF WaitingOK, Mild
  <2>2. \A m : ~ In(reg_notify_queue', m)
    BY <1>1, <1>2, InEmpty
  <2> QED BY <1>0, <1>1, <1>9, <2>1, <2>2 DEF WaitingOK
<1>13. \A m \in Regs \ {n} : refs'[m] = refs[m]
  BY <1>4, <1>5
<1>14. RegsOK'
  BY <1>0, <1>1, <1>2, <1>5, <1>9, <1>10, <1>13 DEF RegsOK
<1>15. HandlerInv'
  <2>1. line # <<>> => line' # <<>>
    BY <1>3, <1>4, <1>5, Pushed
  <2> QED BY <1>0, <1>1, <1>2, <1>5, <2>1 DEF HandlerInv
<1>16. Covered'
  <2> SUFFICES ASSUME NEW m \in Regs
               PROVE  refs'[m] >= ListRefs(m)' + One(On(Entries(line'), m))
                                   + One(Off(Entries(line'), m))
    BY DEF Covered
  <2>1. Entries(line') = Entries(line) \/ Entries(line') = Entries(line) \union {e}
    <3>1. Entries(Append(line, e)) = Entries(line) \union {e}
      BY <1>3, <1>5, EntriesOf
    <3>2. line' = line \/ line' = Append(line, e)
      BY <1>4
    <3> QED BY <3>1, <3>2
  <2>2. On(Entries(line'), m) <=> On(Entries(line), m)
    BY <1>3, <2>1 DEF On
  <2>3. CASE m = n
    <3>1. ListRefs(m)' = 0
      BY <1>1, <2>3 DEF ListRefs
    <3>2. CASE UNCHANGED line
      <4>1. refs'[n] = refs[n] - 1 \/ refs'[n] = refs[n] + 1
        BY <1>4, <1>5
      <4> QED BY <1>2, <1>6, <2>3, <3>1, <3>2, <4>1 DEF One
    <3>3. CASE line' = Append(line, e) /\ refs' = [refs EXCEPT ![n] = @ + 1]
      <4>1. refs'[n] = refs[n] + 1
        BY <1>5, <3>3
      <4>2. One(Off(Entries(line'), m)) \in {0, 1}
        BY DEF One
      <4>3. One(On(Entries(line'), m)) = One(On(Entries(line), n))
        BY <2>2, <2>3 DEF One
      <4> QED BY <1>2, <1>6, <2>3, <3>1, <4>1, <4>2, <4>3
    <3> QED BY <1>4, <3>2, <3>3
  <2>4. CASE m # n
    <3>1. Off(Entries(line'), m) <=> Off(Entries(line), m)
      BY <1>3, <2>1, <2>4 DEF Off
    <3>2. ListRefs(m)' = ListRefs(m) /\ refs'[m] = refs[m]
      BY <1>1, <1>13, <2>4 DEF ListRefs
    <3> QED BY <1>0, <1>2, <2>2, <3>1, <3>2 DEF Covered, One
  <2> QED BY <2>3, <2>4
<1>17. OneWrite'
  <2> SUFFICES ASSUME "reentrant" \notin usage PROVE OneWrite'
    BY <1>1 DEF OneWrite
  <2>1. answering = "no" /\ line = <<>>
    BY <1>0, <1>2 DEF Unregister, MayUnregisterNow, MayUnregister, Callable, OneWrite
  <2>2. notify_list \intersect att_id = {}
    BY <1>0, <2>1 DEF OneWrite
  <2>3. notify_list' \intersect att_id' = {}
    BY <1>1, <1>10, <2>2
  <2>4. CASE UNCHANGED <<line, ccc_write_id>>
    BY <1>0, <1>1, <2>1, <2>3, <2>4 DEF OneWrite
  <2>5. CASE line' = Append(line, e) /\ ccc_write_id' = TRUE
    <3>1. line' # <<>> /\ \A i \in DOMAIN line' : i = 1
      BY <2>1, <2>5
    <3> QED BY <1>1, <2>1, <2>3, <2>5, <3>1 DEF OneWrite
  <2> QED BY <1>4, <2>4, <2>5
<1> QED BY <1>7, <1>11, <1>12, <1>14, <1>15, <1>16, <1>17 DEF All, Base

(* ... of a handler with a CCC write of its own on the line.               *)
LEMMA UnregisterPendingAll ==
  ASSUME All, NEW n \in Regs, UnregisterPending(n)
  PROVE  All'
<1>0. TypeOK /\ LineOK /\ WaitingOK /\ RegsOK /\ HandlerInv /\ Covered /\ OneWrite
  BY DEF All, Base
<1>1. /\ n \in att_id /\ notify_list' = notify_list \ {n}
      /\ refs' = [refs EXCEPT ![n] = @ - 2]
      /\ UNCHANGED <<usage, registered, reg_notify_queue, notify_count, ccc_write_id,
                     chrc_freed, att_id, told, answering, draining, ccc, fault>>
  BY DEF UnregisterPending, chrc, handler
<1>2. /\ reg_notify_queue = <<>> /\ answering # "error" /\ ~ chrc_freed
      /\ n \in notify_list /\ notify_count > 0 /\ ~ ccc_write_id
      /\ refs[n] >= 1 + One(On(Entries(line), n)) + One(Off(Entries(line), n))
  BY Quiet DEF UnregisterPending
<1>3. PICK i \in DOMAIN line :
        /\ line[i].reg = n /\ line[i].enable
        /\ \/ line' = RemoveAt(line, i)
           \/ i = 1 /\ answering = "no" /\ line' = [line EXCEPT ![1].cancelled = TRUE]
  BY DEF UnregisterPending
<1>4. /\ usage \in Usages /\ registered \subseteq Regs
      /\ notify_list \subseteq registered /\ att_id \subseteq registered
      /\ refs \in [Regs -> Nat] /\ line \in Seq(CccWrite)
  BY <1>0, Types
<1>5. ~ Mild
  <2>1. "early" \in usage
    BY <1>0, <1>1, <1>2 DEF RegsOK, UnregisterPending, MayUnregisterNow, MayUnregister
  <2>2. "reentrant" \in usage
    BY <1>0, <1>1, <1>2 DEF OneWrite
  <2> QED BY <2>1, <2>2 DEF Mild
<1>6. /\ ~ line[i].cancelled /\ line[i] \notin Served /\ line[i] \in Entries(line)
      /\ line[i] \in CccWrite
  BY <1>0, <1>1, <1>2, <1>3, EntryFacts DEF EntryOK
<1>7. \A x \in But(line, i) : x \in Entries(line) /\ (x.reg = n => x.cancelled)
  BY <1>0, <1>3, <1>6, EntryFacts DEF Apart
<1>8. i \in Nat /\ (answering # "no" => i # 1 /\ 1 < i /\ 1 \in DOMAIN line)
  <2>1. DOMAIN line = 1 .. Len(line) /\ Len(line) \in Nat
    BY <1>4, QueueEntries
  <2>2. answering # "no" => i # 1 /\ line # <<>>
    BY <1>0, <1>6 DEF Served, HandlerInv
  <2> QED BY <1>4, <2>1, <2>2, EntriesOf
<1>9. ASSUME line' = RemoveAt(line, i)
      PROVE  /\ line' \in Seq(CccWrite) /\ Entries(line') \subseteq But(line, i)
             /\ answering # "no" => 1 \in DOMAIN line' /\ line'[1] = line[1]
  <2> DEFINE r == RemoveAt(line, i)
  <2>1. /\ r \in Seq(CccWrite)
        /\ \A j \in DOMAIN line : j # i =>
             LET k == IF j < i THEN j ELSE j - 1 IN k \in DOMAIN r /\ r[k] = line[j]
    BY <1>4, RemovedAt
  <2>2. Entries(r) \subseteq But(line, i)
    BY <1>4, EntriesOf
  <2> HIDE DEF r
  <2>3. answering # "no" => 1 \in DOMAIN r /\ r[1] = line[1]
    BY <1>8, <2>1
  <2> QED BY <1>9, <2>1, <2>2, <2>3 DEF r
<1>10. ASSUME i = 1, answering = "no", line' = [line EXCEPT ![1].cancelled = TRUE]
       PROVE  \E e \in CccWrite :
                /\ e.reg = n /\ e.enable /\ e.cancelled
                /\ line' \in Seq(CccWrite) /\ DOMAIN line' = DOMAIN line /\ line'[1] = e
                /\ \A j \in DOMAIN line \ {1} : line'[j] = line[j]
                /\ Entries(line') \subseteq But(line, i) \union {e}
  <2> DEFINE e == [line[1] EXCEPT !.cancelled = TRUE]
  <2>1. e \in CccWrite /\ e.reg = n /\ e.enable /\ e.cancelled
    BY <1>3, <1>6, <1>10 DEF CccWrite
  <2>2. DOMAIN line = 1 .. Len(line) /\ Len(line) \in Nat
    BY <1>4, QueueEntries
  <2>3. line' = [line EXCEPT ![1] = e]
    BY <1>10
  <2> HIDE DEF e
  <2>4. /\ DOMAIN line' = DOMAIN line /\ line'[1] = e
        /\ \A j \in DOMAIN line \ {1} : line'[j] = line[j]
    BY <1>3, <1>10, <2>3
  <2>5. line' \in Seq(CccWrite)
    BY <1>4, <2>1, <2>3
  <2>6. Entries(line') \subseteq But(line, i) \union {e}
    BY <1>10, <2>4 DEF Entries, But
  <2> QED BY <2>1, <2>4, <2>5, <2>6
<1>11. /\ line' \in Seq(CccWrite)
       /\ \A x \in Entries(line') : x \in But(line, i) \/ (x.reg = n /\ x.enable /\ x.cancelled)
       /\ answering # "no" => line' # <<>> /\ line'[1] = line[1]
  <2>1. CASE line' = RemoveAt(line, i)
    BY <1>9, <2>1
  <2>2. CASE i = 1 /\ answering = "no" /\ line' = [line EXCEPT ![1].cancelled = TRUE]
    BY <1>10, <2>2
  <2> QED BY <1>3, <2>1, <2>2
<1>12. refs'[n] = refs[n] - 2 /\ refs[n] >= 2 + One(Off(Entries(line), n))
       /\ \A m \in Regs \ {n} : refs'[m] = refs[m]
  <2>1. On(Entries(line), n)
    BY <1>3, <1>6 DEF On
  <2>2. One(On(Entries(line), n)) = 1 /\ One(Off(Entries(line), n)) \in {0, 1}
    BY <2>1 DEF One
  <2>3. refs[n] >= 2 + One(Off(Entries(line), n))
    BY <1>2, <1>4, <2>2
  <2> QED BY <1>1, <1>4, <2>3
<1>13. TypeOK'
  <2>1. refs' \in [Regs -> Nat]
    <3>1. One(Off(Entries(line), n)) \in {0, 1} /\ refs[n] \in Nat
      BY <1>4 DEF One
    <3>2. refs[n] - 2 \in Nat
      BY <1>12, <3>1
    <3> QED BY <1>1, <1>4, <3>2
  <2> QED BY <1>0, <1>1, <1>4, <1>11, <2>1 DEF TypeOK
<1>14. Served' = Served
  BY <1>1, <1>11 DEF Served
<1>15. \A m : Waiting(m)' <=> Waiting(m)
  BY <1>1 DEF Waiting
<1>16. LineOK'
  <2> DEFINE K == But(line, i)
  <2>1. ASSUME NEW x \in K PROVE EntryOK(x)'
    <3>1. EntryOK(x) /\ n \notin notify_list' /\ (x.reg = n => x.cancelled)
      BY <1>0, <1>1, <1>7, EntryFacts
    <3>2. CASE x.reg = n
      BY <1>1, <1>14, <1>15, <3>1, <3>2 DEF EntryOK, Mild
    <3>3. CASE x.reg # n
      <4>1. x.reg \in notify_list' <=> x.reg \in notify_list
        BY <1>1, <3>3
      <4> QED BY <1>1, <1>14, <1>15, <3>1, <4>1 DEF EntryOK, Mild
    <3> QED BY <3>2, <3>3
  <2>2. \A x, y \in K : Apart(x, y) => Apart(x, y)'
    BY <1>14 DEF Apart
  <2>3. CASE line' = RemoveAt(line, i)
    BY <1>0, <2>1, <2>2, <2>3, LineRemoved
  <2>4. CASE i = 1 /\ answering = "no" /\ line' = [line EXCEPT ![1].cancelled = TRUE]
    <3>1. PICK e \in CccWrite :
            /\ e.reg = n /\ e.enable /\ e.cancelled
            /\ DOMAIN line' = DOMAIN line /\ line'[1] = e
            /\ \A j \in DOMAIN line \ {1} : line'[j] = line[j]
      BY <1>10, <2>4
    <3>2. \A y \in K : Apart(e, y)'
      BY <3>1 DEF Apart
    <3>3. EntryOK(e)'
      BY <1>1, <1>4, <1>5, <2>4, <3>1 DEF EntryOK, Served, Mild
    <3>4. line # <<>> /\ K = But(line, 1)
      BY <1>3, <2>4
    <3> HIDE DEF K
    <3> QED BY <1>0, <2>1, <2>2, <3>1, <3>2, <3>3, <3>4, LineReplaced
  <2> QED BY <1>3, <2>3, <2>4
<1>17. WaitingOK'
  <2>1. \A m : ~ In(reg_notify_queue', m)
    BY <1>1, <1>2, InEmpty
  <2> QED BY <1>0, <1>1, <1>5, <1>15, <2>1 DEF WaitingOK, Mild
<1>18. RegsOK'
  BY <1>0, <1>1, <1>2, <1>4, <1>12, <1>15 DEF RegsOK
<1>19. HandlerInv'
  BY <1>0, <1>1, <1>2, <1>11 DEF HandlerInv
<1>20. Covered'
  <2> SUFFICES ASSUME NEW m \in Regs
               PROVE  refs'[m] >= ListRefs(m)' + One(On(Entries(line'), m))
                                   + One(Off(Entries(line'), m))
    BY DEF Covered
  <2>1. On(Entries(line'), m) => On(Entries(line), m) /\ m # n
    BY <1>7, <1>11 DEF On
  <2>2. Off(Entries(line'), m) => Off(Entries(line), m)
    BY <1>7, <1>11 DEF Off
  <2>3. CASE m = n
    <3>1. ListRefs(m)' = 0
      BY <1>1, <2>3 DEF ListRefs
    <3> QED BY <1>4, <1>12, <2>1, <2>2, <2>3, <3>1 DEF One
  <2>4. CASE m # n
    <3>1. ListRefs(m)' = ListRefs(m) /\ refs'[m] = refs[m]
      BY <1>1, <1>12, <2>4 DEF ListRefs
    <3>2. refs[m] >= ListRefs(m) + One(On(Entries(line), m)) + One(Off(Entries(line), m))
      BY <1>0, <1>2 DEF Covered
    <3>3. ListRefs(m) \in {0, 1} /\ refs[m] \in Nat
      BY <1>4 DEF ListRefs
    <3> QED BY <2>1, <2>2, <3>1, <3>2, <3>3 DEF One
  <2> QED BY <2>3, <2>4
<1>21. OneWrite'
  BY <1>1, <1>5 DEF OneWrite, Mild
<1> QED BY <1>13, <1>16, <1>17, <1>18, <1>19, <1>20, <1>21 DEF All, Base

(* process_service_changed                                                 *)
LEMMA ServiceChangedAll ==
  ASSUME All, ServiceChanged
  PROVE  All'
<1>0. TypeOK /\ LineOK /\ WaitingOK /\ RegsOK /\ HandlerInv /\ Covered /\ OneWrite
  BY DEF All, Base
<1>1. CASE Stop("freed")
  BY <1>1, StopAll DEF ServiceChanged
<1>2. CASE ~ \E n \in registered : refs[n] < ListRefs(n) + QueueRefs(n)
  <2>1. /\ refs' = [n \in Regs |-> refs[n] - ListRefs(n) - QueueRefs(n)]
        /\ notify_list' = {} /\ reg_notify_queue' = <<>> /\ chrc_freed' = TRUE
        /\ "changes" \in usage /\ answering = "no" /\ ~ chrc_freed
        /\ UNCHANGED <<usage, registered, notify_count, ccc_write_id, att_id, told,
                       line, answering, draining, ccc, fault>>
    BY <1>2 DEF ServiceChanged, handler
  <2>2. /\ registered \subseteq Regs /\ notify_list \subseteq registered
        /\ refs \in [Regs -> Nat] /\ reg_notify_queue \in Seq(Regs)
    BY <1>0, Types
  <2>3. ASSUME NEW n \in Regs
        PROVE  /\ refs[n] - ListRefs(n) - QueueRefs(n) \in Nat
               /\ n \notin registered => refs[n] - ListRefs(n) - QueueRefs(n) = 0
    <3>1. refs[n] \in Nat /\ ListRefs(n) \in {0, 1} /\ QueueRefs(n) \in {0, 1}
      BY <2>2 DEF ListRefs, QueueRefs
    <3>2. CASE n \in registered
      BY <1>2, <3>1, <3>2
    <3>3. CASE n \notin registered
      <4>1. ~ In(reg_notify_queue, n) /\ refs[n] = 0 /\ n \notin notify_list
        BY <1>0, <2>2, <3>3 DEF WaitingOK, Waiting, RegsOK
      <4>2. ListRefs(n) = 0 /\ QueueRefs(n) = 0
        BY <2>2, <4>1, InTyped DEF ListRefs, QueueRefs
      <4> QED BY <4>1, <4>2
    <3> QED BY <3>2, <3>3
  <2>4. refs' \in [Regs -> Nat] /\ \A n \in Regs \ registered : refs'[n] = 0
    BY <2>1, <2>3
  <2>5. TypeOK'
    BY <1>0, <2>1, <2>4 DEF TypeOK
  <2>6. Served = {} /\ Served' = {} /\ draining = <<>>
    BY <1>0, <2>1 DEF Served, HandlerInv
  <2>7. \A m : Waiting(m)' => Waiting(m)
    BY <2>1, InEmpty DEF Waiting
  <2>8. LineOK'
    <3> DEFINE K == Entries(line)
    <3>1. ASSUME NEW x \in K PROVE EntryOK(x)'
      <4>1. EntryOK(x)
        BY <1>0, EntryFacts
      <4> QED BY <2>1, <2>6, <2>7, <4>1 DEF EntryOK, Mild
    <3>2. \A x, y \in K : Apart(x, y) => Apart(x, y)'
      BY <2>6 DEF Apart
    <3> QED BY <1>0, <2>1, <3>1, <3>2, LineSame
  <2>9. WaitingOK'
    <3>1. \A m : ~ In(reg_notify_queue', m) /\ ~ In(draining', m)
      BY <2>1, <2>6, InEmpty
    <3>2. Distinct(reg_notify_queue') /\ Distinct(draining')
      BY <2>1, <2>6, InEmpty
    <3> QED BY <3>1, <3>2 DEF WaitingOK, Waiting
  <2>10. RegsOK' /\ HandlerInv' /\ Covered' /\ OneWrite'
    BY <1>0, <2>1, <2>4 DEF RegsOK, HandlerInv, Covered, OneWrite
  <2> QED BY <2>5, <2>8, <2>9, <2>10 DEF All, Base
<1> QED BY <1>1, <1>2 DEF ServiceChanged

(* What is known when a CCC write is answered: of its registration, which  *)
(* is not named by another write that counts.                              *)
LEMMA Answered ==
  ASSUME All, NEW enable \in BOOLEAN, AnswerTo(enable), HandlerOK
  PROVE  /\ line # <<>> /\ Head(line) = line[1]
         /\ answering = "no" /\ Served = {} /\ draining = <<>>
         /\ ~ chrc_freed /\ notify_count = 0 /\ ccc_write_id
         /\ line[1] \in CccWrite /\ EntryOK(line[1]) /\ ~ line[1].cancelled
         /\ line[1].enable = enable
         /\ line[1].reg \in Regs /\ line[1].reg \in registered
         /\ Entries(line) = But(line, 1) \union {line[1]}
         /\ \A x \in But(line, 1) :
              /\ x \in CccWrite /\ EntryOK(x)
              /\ x.cancelled \/ x.reg # line[1].reg
<1>0. TypeOK /\ LineOK /\ HandlerInv
  BY DEF All, Base
<1>1. /\ line # <<>> /\ answering = "no" /\ ~ Head(line).cancelled /\ Head(line).enable = enable
      /\ ~ chrc_freed /\ notify_count = 0 /\ ccc_write_id
  BY DEF AnswerTo, HandlerOK
<1>2. Served = {} /\ draining = <<>>
  BY <1>0, <1>1 DEF Served, HandlerInv
<1>3. /\ Head(line) = line[1] /\ 1 \in DOMAIN line
      /\ line[1] \in CccWrite /\ EntryOK(line[1]) /\ line[1].reg \in Regs
      /\ \A x \in But(line, 1) : Apart(line[1], x)
      /\ Entries(line) = But(line, 1) \union {line[1]}
  BY <1>0, <1>1, HeadFacts
<1>4. \A x \in But(line, 1) : x \in CccWrite /\ EntryOK(x)
  BY <1>0, <1>3, EntryFacts
<1>5. \A x \in But(line, 1) : x.cancelled \/ x.reg # line[1].reg
  BY <1>1, <1>2, <1>3 DEF Apart
<1>6. line[1].reg \in registered
  BY <1>3 DEF EntryOK
<1> QED BY <1>1, <1>2, <1>3, <1>4, <1>5, <1>6

(* enable_ccc_callback, success                                            *)
LEMMA EnabledAll ==
  ASSUME All, Enabled
  PROVE  All'
<1> DEFINE h == line[1].reg
<1>0. TypeOK /\ LineOK /\ WaitingOK /\ RegsOK /\ HandlerInv /\ Covered /\ OneWrite
  BY DEF All, Base
<1>1. /\ line # <<>> /\ Head(line) = line[1]
      /\ answering = "no" /\ Served = {} /\ draining = <<>>
      /\ ~ chrc_freed /\ notify_count = 0 /\ ccc_write_id
      /\ line[1] \in CccWrite /\ EntryOK(line[1]) /\ ~ line[1].cancelled
      /\ line[1].enable = TRUE
      /\ h \in Regs /\ h \in registered
      /\ Entries(line) = But(line, 1) \union {line[1]}
      /\ \A x \in But(line, 1) :
           /\ x \in CccWrite /\ EntryOK(x)
           /\ x.cancelled \/ x.reg # h
  BY Answered DEF Enabled
<1>2. /\ notify_count' = notify_count + 1 /\ att_id' = att_id \ {h}
      /\ told' = [told EXCEPT ![h] = "success"]
      /\ ccc' = TRUE /\ ccc_write_id' = FALSE
      /\ draining' = reg_notify_queue /\ reg_notify_queue' = <<>>
      /\ answering' = "success"
      /\ UNCHANGED <<usage, registered, notify_list, refs, chrc_freed, line, fault>>
  BY <1>1 DEF Enabled, Complete
<1>3. /\ registered \subseteq Regs /\ told \in [Regs -> {"nothing", "success", "error"}]
      /\ reg_notify_queue \in Seq(Regs) /\ notify_list \subseteq Regs
  BY <1>0, Types
<1>4. Served' = {line[1]}
  BY <1>2 DEF Served
<1>5. \A m : (Waiting(m)' <=> Waiting(m)) /\ ~ In(reg_notify_queue', m)
             /\ (In(draining', m) <=> In(reg_notify_queue, m))
  BY <1>1, <1>2, InEmpty DEF Waiting
<1>6. ~ Waiting(h)
  BY <1>1 DEF EntryOK
<1> HIDE DEF h
<1>7. told'[h] = "success" /\ \A m \in Regs \ {h} : told'[m] = told[m]
  BY <1>1, <1>2, <1>3
<1>8. TypeOK'
  <2>1. told' \in [Regs -> {"nothing", "success", "error"}]
    BY <1>2, <1>3
  <2>2. reg_notify_queue' \in Seq(Regs) /\ draining' \in Seq(Regs)
    BY <1>2, <1>3
  <2>3. /\ notify_list' \subseteq registered' /\ att_id' \subseteq registered'
        /\ registered' \subseteq Regs
    BY <1>0, <1>2, Types
  <2>4. notify_count' \in Int /\ refs' \in [Regs -> Nat] /\ line' \in Seq(CccWrite)
    BY <1>0, <1>2, Types
  <2>5. {ccc_write_id', chrc_freed', ccc'} \subseteq BOOLEAN
    <3>1. chrc_freed \in BOOLEAN
      BY <1>0, Types
    <3> QED BY <1>2, <3>1, Zenon
  <2>6. usage' \in Usages /\ fault' \in {"none", "assert", "freed"}
        /\ answering' \in {"no", "success", "error"}
    BY <1>0, <1>2, Types
  <2> QED BY <2>1, <2>2, <2>3, <2>4, <2>5, <2>6 DEF TypeOK
<1>9. LineOK'
  <2> DEFINE K == Entries(line)
  <2>1. ASSUME NEW x \in K PROVE EntryOK(x)'
    <3>1. CASE x = line[1]
      <4>1. EntryOK(x) /\ x.enable /\ ~ x.cancelled /\ x.reg = h
        BY <1>1, <3>1 DEF h
      <4> QED BY <1>2, <1>4, <1>5, <3>1, <4>1 DEF EntryOK, Mild
    <3>2. CASE x # line[1]
      <4>1. EntryOK(x) /\ (x.cancelled \/ x.reg # h) /\ x \notin Served'
        BY <1>1, <1>4, <3>2
      <4>2. x.cancelled \/ (x.reg \in att_id' <=> x.reg \in att_id)
        BY <1>2, <4>1
      <4> QED BY <1>1, <1>2, <1>5, <4>1, <4>2 DEF EntryOK, Mild
    <3> QED BY <3>1, <3>2
  <2>2. \A x, y \in K : Apart(x, y) => Apart(x, y)'
    BY <1>1 DEF Apart
  <2> QED BY <1>0, <1>2, <2>1, <2>2, LineSame
<1>10. WaitingOK'
  <2>1. \A m : Waiting(m)' => m \in registered' /\ told'[m] = "nothing"
    BY <1>0, <1>2, <1>3, <1>5, <1>6, <1>7 DEF WaitingOK
  <2> QED BY <1>0, <1>2, <1>5, <2>1, InEmpty DEF WaitingOK, Mild
<1>11. RegsOK'
  BY <1>0, <1>1, <1>2, <1>3, <1>5, <1>7 DEF RegsOK
<1>12. HandlerInv'
  BY <1>0, <1>1, <1>2 DEF HandlerInv
<1>13. Covered'
  BY <1>0, <1>2 DEF Covered, ListRefs
<1>14. OneWrite'
  BY <1>0, <1>2 DEF OneWrite, h
<1> QED BY <1>8, <1>9, <1>10, <1>11, <1>12, <1>13, <1>14 DEF All, Base

(* ... and the registrations that waited for it.                           *)
LEMMA CompleteQueuedAll ==
  ASSUME All, CompleteQueued
  PROVE  All'
<1> DEFINE d == Head(draining)
<1>0. TypeOK /\ LineOK /\ WaitingOK /\ RegsOK /\ HandlerInv /\ Covered /\ OneWrite
  BY DEF All, Base
<1>1. /\ answering = "success" /\ draining # <<>> /\ draining' = Tail(draining)
      /\ notify_count' = notify_count + 1 /\ att_id' = att_id \ {d}
      /\ told' = [told EXCEPT ![d] = "success"]
      /\ UNCHANGED <<usage, registered, reg_notify_queue, ccc_write_id, chrc_freed,
                     notify_list, refs, line, answering, ccc, fault>>
  BY DEF CompleteQueued, Complete
<1>2. /\ registered \subseteq Regs /\ told \in [Regs -> {"nothing", "success", "error"}]
      /\ draining \in Seq(Regs) /\ notify_list \subseteq Regs /\ att_id \subseteq registered
      /\ notify_count \in Int
  BY <1>0, Types
<1>3. /\ \A m : In(draining, m) <=> In(draining', m) \/ m = d
      /\ Distinct(draining') /\ ~ In(draining', d)
      /\ draining' \in Seq(Regs) /\ d \in Regs
  BY <1>0, <1>1, <1>2, InPopped DEF WaitingOK
<1> HIDE DEF d
<1>4. Waiting(d) /\ ~ In(reg_notify_queue, d) /\ d \in registered
  BY <1>0, <1>3 DEF WaitingOK, Waiting
<1>5. \A m : Waiting(m)' <=> Waiting(m) /\ m # d
  BY <1>1, <1>3, <1>4 DEF Waiting
<1>6. told'[d] = "success" /\ \A m \in Regs \ {d} : told'[m] = told[m]
  BY <1>1, <1>2, <1>3
<1>7. Served' = Served
  BY <1>1 DEF Served
<1>8. TypeOK'
  <2>1. told' \in [Regs -> {"nothing", "success", "error"}]
    BY <1>1, <1>2
  <2> QED BY <1>0, <1>1, <1>2, <1>3, <2>1 DEF TypeOK
<1>9. LineOK'
  <2> DEFINE K == Entries(line)
  <2>1. ASSUME NEW x \in K PROVE EntryOK(x)'
    <3>1. EntryOK(x)
      BY <1>0, EntryFacts
    <3>2. x.enable /\ ~ x.cancelled => (x.reg \in att_id' <=> x.reg \in att_id)
      BY <1>1, <1>4, <3>1 DEF EntryOK
    <3> QED BY <1>1, <1>5, <1>7, <3>1, <3>2 DEF EntryOK, Mild
  <2>2. \A x, y \in K : Apart(x, y) => Apart(x, y)'
    BY <1>7 DEF Apart
  <2> QED BY <1>0, <1>1, <2>1, <2>2, LineSame
<1>10. WaitingOK'
  <2>1. \A m : Waiting(m)' => m \in registered' /\ told'[m] = "nothing"
    BY <1>0, <1>1, <1>2, <1>5, <1>6 DEF WaitingOK
  <2> QED BY <1>0, <1>1, <1>3, <2>1 DEF WaitingOK, Mild
<1>11. RegsOK'
  BY <1>0, <1>1, <1>2, <1>4, <1>5, <1>6 DEF RegsOK
<1>12. HandlerInv'
  BY <1>0, <1>1 DEF HandlerInv
<1>13. Covered'
  BY <1>0, <1>1 DEF Covered, ListRefs
<1>14. OneWrite'
  BY <1>0, <1>1 DEF OneWrite
<1> QED BY <1>8, <1>9, <1>10, <1>11, <1>12, <1>13, <1>14 DEF All, Base

(* enable_ccc_callback, error                                              *)
LEMMA EnableRefusedAll ==
  ASSUME All, EnableRefused
  PROVE  All'
<1> DEFINE h == line[1].reg
<1>0. TypeOK /\ LineOK /\ WaitingOK /\ RegsOK /\ HandlerInv /\ Covered /\ OneWrite
  BY DEF All, Base
<1>1. /\ line # <<>> /\ Head(line) = line[1]
      /\ answering = "no" /\ Served = {} /\ draining = <<>>
      /\ ~ chrc_freed /\ notify_count = 0 /\ ccc_write_id
      /\ line[1] \in CccWrite /\ EntryOK(line[1]) /\ ~ line[1].cancelled
      /\ line[1].enable = TRUE
      /\ h \in Regs /\ h \in registered
      /\ Entries(line) = But(line, 1) \union {line[1]}
      /\ \A x \in But(line, 1) :
           /\ x \in CccWrite /\ EntryOK(x)
           /\ x.cancelled \/ x.reg # h
  BY Answered DEF EnableRefused
<1>2. /\ ccc_write_id' = FALSE /\ answering' = "error"
      /\ notify_list' = notify_list \ {h}
      /\ told' = [told EXCEPT ![h] = "error"]
      /\ UNCHANGED <<usage, registered, reg_notify_queue, notify_count, chrc_freed,
                     att_id, refs, line, draining, ccc, fault>>
  BY <1>1 DEF EnableRefused
<1>3. /\ registered \subseteq Regs /\ told \in [Regs -> {"nothing", "success", "error"}]
      /\ notify_list \subseteq registered /\ refs \in [Regs -> Nat]
  BY <1>0, Types
<1>4. Served' = {line[1]}
  BY <1>2 DEF Served
<1>5. \A m : Waiting(m)' <=> Waiting(m)
  BY <1>2 DEF Waiting
<1>6. ~ Waiting(h)
  BY <1>1 DEF EntryOK
<1> HIDE DEF h
<1>7. told'[h] = "error" /\ \A m \in Regs \ {h} : told'[m] = told[m]
  BY <1>1, <1>2, <1>3
<1>8. TypeOK'
  <2>1. told' \in [Regs -> {"nothing", "success", "error"}]
    BY <1>2, <1>3
  <2> QED BY <1>0, <1>1, <1>2, <2>1 DEF TypeOK
<1>9. LineOK'
  <2> DEFINE K == Entries(line)
  <2>1. ASSUME NEW x \in K PROVE EntryOK(x)'
    <3>1. CASE x = line[1]
      <4>1. EntryOK(x) /\ x.enable /\ ~ x.cancelled /\ x.reg = h
        BY <1>1, <3>1 DEF h
      <4> QED BY <1>2, <1>4, <1>5, <3>1, <4>1 DEF EntryOK, Mild
    <3>2. CASE x # line[1]
      <4>1. EntryOK(x) /\ (x.cancelled \/ x.reg # h) /\ x \notin Served'
        BY <1>1, <1>4, <3>2
      <4>2. x.cancelled \/ (x.reg \in notify_list' <=> x.reg \in notify_list)
        BY <1>2, <4>1
      <4> QED BY <1>1, <1>2, <1>5, <4>1, <4>2 DEF EntryOK, Mild
    <3> QED BY <3>1, <3>2
  <2>2. \A x, y \in K : Apart(x, y) => Apart(x, y)'
    BY <1>1 DEF Apart
  <2> QED BY <1>0, <1>2, <2>1, <2>2, LineSame
<1>10. WaitingOK'
  <2>1. \A m : Waiting(m)' => m \in registered' /\ told'[m] = "nothing" /\ m # h
    BY <1>0, <1>2, <1>3, <1>5, <1>6, <1>7 DEF WaitingOK
  <2>2. \A m : In(reg_notify_queue', m) \/ (Mild' /\ In(draining', m)) => m \in notify_list'
    BY <1>0, <1>2, <1>6 DEF WaitingOK, Waiting, Mild
  <2> QED BY <1>0, <1>2, <2>1, <2>2 DEF WaitingOK
<1>11. RegsOK'
  BY <1>0, <1>1, <1>2, <1>3, <1>5, <1>7 DEF RegsOK
<1>12. HandlerInv'
  BY <1>0, <1>1, <1>2 DEF HandlerInv
<1>13. Covered'
  <2> SUFFICES ASSUME NEW m \in Regs
               PROVE  refs'[m] >= ListRefs(m)' + One(On(Entries(line'), m))
                                   + One(Off(Entries(line'), m))
    BY DEF Covered
  <2>1. refs[m] >= ListRefs(m) + One(On(Entries(line), m)) + One(Off(Entries(line), m))
    BY <1>0, <1>1 DEF Covered
  <2>2. ListRefs(m)' <= ListRefs(m) /\ ListRefs(m) \in {0, 1} /\ ListRefs(m)' \in {0, 1}
    BY <1>2 DEF ListRefs
  <2>3. refs[m] \in Nat
    BY <1>3
  <2> QED BY <1>2, <2>1, <2>2, <2>3 DEF One
<1>14. OneWrite'
  BY <1>0, <1>2 DEF OneWrite, h
<1> QED BY <1>8, <1>9, <1>10, <1>11, <1>12, <1>13, <1>14 DEF All, Base

(* A line of one write is empty when that write is done with.              *)
LEMMA Single ==
  ASSUME NEW S, NEW l \in Seq(S), l # <<>>, \A i \in DOMAIN l : i = 1
  PROVE  Tail(l) = <<>>
<1>1. Tail(l) \in Seq(S) /\ Entries(Tail(l)) = But(l, 1)
  BY Popped, EntriesOf
<1>2. But(l, 1) = {}
  BY DEF But
<1> QED BY <1>1, <1>2, EntriesOf

(* What is known while the head of the line is being answered.             *)
LEMMA Serving ==
  ASSUME All, answering # "no"
  PROVE  /\ line # <<>> /\ Head(line) = line[1] /\ ~ chrc_freed
         /\ Served = {line[1]} /\ EntryOK(line[1])
         /\ line[1].enable /\ ~ line[1].cancelled
         /\ line[1].reg \in Regs /\ line[1].reg \in registered /\ ~ Waiting(line[1].reg)
         /\ Entries(line) = But(line, 1) \union {line[1]}
         /\ \A x \in But(line, 1) :
              /\ x \in CccWrite /\ EntryOK(x) /\ x \notin Served
              /\ x.enable => x.cancelled \/ x.reg # line[1].reg
         /\ \A x, y \in But(line, 1) :
              Apart(x, y) => x.cancelled \/ y.cancelled \/ x.reg # y.reg
<1>0. TypeOK /\ LineOK /\ HandlerInv
  BY DEF All, Base
<1>1. line # <<>> /\ ~ chrc_freed /\ Served = {line[1]}
  BY <1>0 DEF HandlerInv, Served
<1>2. /\ Head(line) = line[1] /\ 1 \in DOMAIN line
      /\ line[1] \in CccWrite /\ EntryOK(line[1]) /\ line[1].reg \in Regs
      /\ \A x \in But(line, 1) : Apart(line[1], x)
      /\ Entries(line) = But(line, 1) \union {line[1]}
  BY <1>0, <1>1, HeadFacts
<1>3. /\ line[1].enable /\ ~ line[1].cancelled
      /\ line[1].reg \in registered /\ ~ Waiting(line[1].reg)
  BY <1>1, <1>2 DEF EntryOK
<1>4. \A x \in But(line, 1) : x \in CccWrite /\ EntryOK(x)
  BY <1>0, <1>2, EntryFacts
<1>5. \A x \in But(line, 1) : x.enable => x.cancelled \/ x.reg # line[1].reg
  BY <1>2, <1>3 DEF Apart
<1>6. \A x \in But(line, 1) : x \notin Served
  BY <1>1, <1>3, <1>5
<1>7. \A x, y \in But(line, 1) :
        Apart(x, y) => x.cancelled \/ y.cancelled \/ x.reg # y.reg
  BY <1>6 DEF Apart
<1> QED BY <1>1, <1>2, <1>3, <1>4, <1>5, <1>6, <1>7

(* The end of enable_ccc_callback: nobody waits, or all have been told ... *)
LEMMA EnableDoneAlone ==
  ASSUME All, EnableDone, line' = Tail(line)
  PROVE  All'
<1> DEFINE h == line[1].reg
<1>0. TypeOK /\ LineOK /\ WaitingOK /\ RegsOK /\ HandlerInv /\ Covered /\ OneWrite
  BY DEF All, Base
<1>1. answering # "no" /\ draining = <<>>
  BY <1>0 DEF EnableDone, HandlerInv
<1>2. /\ line # <<>> /\ Head(line) = line[1] /\ ~ chrc_freed
      /\ Served = {line[1]} /\ EntryOK(line[1])
      /\ line[1].enable /\ ~ line[1].cancelled
      /\ h \in Regs /\ h \in registered /\ ~ Waiting(h)
      /\ Entries(line) = But(line, 1) \union {line[1]}
      /\ \A x \in But(line, 1) :
           /\ x \in CccWrite /\ EntryOK(x) /\ x \notin Served
           /\ x.enable => x.cancelled \/ x.reg # h
      /\ \A x, y \in But(line, 1) :
           Apart(x, y) => x.cancelled \/ y.cancelled \/ x.reg # y.reg
  BY <1>1, Serving
<1>3. /\ line \in Seq(CccWrite) /\ refs \in [Regs -> Nat] /\ registered \subseteq Regs
      /\ notify_count \in Int
  BY <1>0, Types
<1>4. Tail(line) \in Seq(CccWrite) /\ Entries(Tail(line)) = But(line, 1)
      /\ \A e \in CccWrite : Append(Tail(line), e) # Tail(line)
  <2>1. Tail(line) \in Seq(CccWrite) /\ Entries(Tail(line)) = But(line, 1)
    BY <1>2, <1>3, Popped, EntriesOf
  <2>2. \A e \in CccWrite : Len(Append(Tail(line), e)) = Len(Tail(line)) + 1
    BY <2>1, Pushed
  <2>3. Len(Tail(line)) \in Nat
    BY <2>1, QueueEntries
  <2> QED BY <2>1, <2>2, <2>3
<1>5. reg_notify_queue = <<>> \/ answering = "success"
  <2> SUFFICES ASSUME reg_notify_queue # <<>>, answering # "success" PROVE FALSE
    OBVIOUS
  <2> DEFINE e == [reg |-> Head(reg_notify_queue), enable |-> TRUE, cancelled |-> FALSE]
  <2>1. line' = Append(Tail(line), e)
    BY DEF EnableDone, NextInQueue, WriteCcc
  <2>2. Head(reg_notify_queue) \in Regs
    BY <1>0, InPopped, Types
  <2>3. e \in CccWrite
    BY <2>2 DEF CccWrite
  <2> QED BY <1>4, <2>1, <2>3
<1>6. /\ answering' = "no" /\ refs' = [refs EXCEPT ![h] = @ - 1]
      /\ UNCHANGED <<usage, registered, reg_notify_queue, notify_count, ccc_write_id,
                     chrc_freed, notify_list, att_id, told, draining, ccc, fault>>
  BY <1>2, <1>5 DEF EnableDone, NextInQueue
<1> HIDE DEF h
<1>7. refs'[h] = refs[h] - 1 /\ \A m \in Regs \ {h} : refs'[m] = refs[m]
  BY <1>2, <1>3, <1>6
<1>8. On(Entries(line), h) /\ ~ On(But(line, 1), h)
  BY <1>2 DEF On, h
<1>9. TypeOK'
  <2>1. refs' \in [Regs -> Nat]
    <3>1. refs[h] >= ListRefs(h) + One(On(Entries(line), h)) + One(Off(Entries(line), h))
      BY <1>0, <1>2 DEF Covered
    <3>2. /\ One(On(Entries(line), h)) = 1 /\ One(Off(Entries(line), h)) \in {0, 1}
          /\ ListRefs(h) \in {0, 1}
      BY <1>8 DEF One, ListRefs
    <3>3. refs[h] - 1 \in Nat
      BY <1>2, <1>3, <3>1, <3>2
    <3> QED BY <1>3, <1>6, <3>3
  <2>2. line' \in Seq(CccWrite)
    BY <1>4
  <2> QED BY <1>0, <1>6, <2>1, <2>2 DEF TypeOK
<1>10. \A m : Waiting(m)' <=> Waiting(m)
  BY <1>6 DEF Waiting
<1>11. Served' = {}
  BY <1>6 DEF Served
<1>12. LineOK'
  <2> DEFINE K == But(line, 1)
  <2>1. ASSUME NEW x \in K PROVE EntryOK(x)'
    <3>1. EntryOK(x) /\ x \notin Served
      BY <1>2
    <3> QED BY <1>6, <1>10, <1>11, <3>1 DEF EntryOK, Mild
  <2>2. \A x, y \in K : Apart(x, y) => Apart(x, y)'
    BY <1>2 DEF Apart
  <2> QED BY <1>0, <1>2, <2>1, <2>2, LinePopped
<1>13. WaitingOK'
  BY <1>0, <1>6, <1>10 DEF WaitingOK, Mild
<1>14. RegsOK'
  BY <1>0, <1>2, <1>6, <1>7, <1>10 DEF RegsOK
<1>15. HandlerInv'
  BY <1>0, <1>1, <1>5, <1>6 DEF HandlerInv
<1>16. Covered'
  <2> SUFFICES ASSUME NEW m \in Regs
               PROVE  refs'[m] >= ListRefs(m)' + One(On(Entries(line'), m))
                                   + One(Off(Entries(line'), m))
    BY DEF Covered
  <2>1. refs[m] >= ListRefs(m) + One(On(Entries(line), m)) + One(Off(Entries(line), m))
    BY <1>0, <1>2 DEF Covered
  <2>2. ListRefs(m)' = ListRefs(m) /\ ListRefs(m) \in {0, 1} /\ refs[m] \in Nat
    BY <1>3, <1>6 DEF ListRefs
  <2>3. (On(Entries(line'), m) => On(Entries(line), m))
        /\ (Off(Entries(line'), m) => Off(Entries(line), m))
    BY <1>2, <1>4 DEF On, Off
  <2>4. CASE m = h
    BY <1>4, <1>7, <1>8, <2>1, <2>2, <2>3, <2>4 DEF One
  <2>5. CASE m # h
    BY <1>7, <2>1, <2>2, <2>3, <2>5 DEF One
  <2> QED BY <2>4, <2>5
<1>17. OneWrite'
  <2> SUFFICES ASSUME "reentrant" \notin usage PROVE OneWrite'
    BY <1>6 DEF OneWrite
  <2>1. /\ \A i \in DOMAIN line : i = 1
        /\ ~ ccc_write_id /\ notify_list \intersect att_id = {}
    BY <1>0, <1>1 DEF OneWrite
  <2>2. line' = <<>>
    BY <1>2, <1>3, <2>1, Single
  <2> QED BY <1>6, <2>1, <2>2 DEF OneWrite
<1> QED BY <1>9, <1>12, <1>13, <1>14, <1>15, <1>16, <1>17 DEF All, Base

(* ... or the CCC was refused, and the next request in the queue writes it. *)
LEMMA EnableDoneNext ==
  ASSUME All, EnableDone, answering = "error", reg_notify_queue # <<>>
  PROVE  All'
<1> DEFINE h == line[1].reg
           n == Head(reg_notify_queue)
           e == [reg |-> n, enable |-> TRUE, cancelled |-> FALSE]
<1>0. TypeOK /\ LineOK /\ WaitingOK /\ RegsOK /\ HandlerInv /\ Covered /\ OneWrite
  BY DEF All, Base
<1>1. draining = <<>>
  BY <1>0 DEF HandlerInv
<1>2. /\ line # <<>> /\ Head(line) = line[1] /\ ~ chrc_freed
      /\ Served = {line[1]} /\ EntryOK(line[1])
      /\ line[1].enable /\ ~ line[1].cancelled
      /\ h \in Regs /\ h \in registered /\ ~ Waiting(h)
      /\ Entries(line) = But(line, 1) \union {line[1]}
      /\ \A x \in But(line, 1) :
           /\ x \in CccWrite /\ EntryOK(x) /\ x \notin Served
           /\ x.enable => x.cancelled \/ x.reg # h
      /\ \A x, y \in But(line, 1) :
           Apart(x, y) => x.cancelled \/ y.cancelled \/ x.reg # y.reg
  BY Serving
<1>3. /\ line \in Seq(CccWrite) /\ refs \in [Regs -> Nat] /\ registered \subseteq Regs
      /\ notify_count \in Int /\ reg_notify_queue \in Seq(Regs)
      /\ att_id \subseteq registered
  BY <1>0, Types
<1>4. /\ line' = Append(Tail(line), e) /\ ccc_write_id' = TRUE
      /\ att_id' = att_id \union {n} /\ answering' = "no"
      /\ refs' = [refs EXCEPT ![h] = @ - 1, ![n] = @ + 1]
      /\ reg_notify_queue' = Tail(reg_notify_queue)
      /\ UNCHANGED <<usage, registered, notify_count, chrc_freed, notify_list, told,
                     draining, ccc, fault>>
  BY <1>2 DEF EnableDone, NextInQueue, WriteCcc
<1>5. /\ \A m : In(reg_notify_queue, m) <=> In(reg_notify_queue', m) \/ m = n
      /\ Distinct(reg_notify_queue') /\ ~ In(reg_notify_queue', n)
      /\ reg_notify_queue' \in Seq(Regs) /\ n \in Regs
  BY <1>0, <1>3, <1>4, InPopped DEF WaitingOK
<1>6. e \in CccWrite /\ e.reg = n /\ e.enable /\ ~ e.cancelled
  BY <1>5 DEF CccWrite
<1>7. PICK z \in CccWrite : z = e
  BY <1>6
<1>8. z.reg = n /\ z.enable /\ ~ z.cancelled /\ line' = Append(Tail(line), z)
  BY <1>4, <1>6, <1>7
<1> HIDE DEF h, n, e
<1>9. /\ Waiting(n) /\ In(reg_notify_queue, n) /\ n # h
      /\ n \in registered /\ n \in notify_list /\ told[n] = "nothing"
  BY <1>0, <1>2, <1>5 DEF WaitingOK, Waiting
<1>10. /\ refs'[h] = refs[h] - 1 /\ refs'[n] = refs[n] + 1
       /\ \A m \in Regs \ {h, n} : refs'[m] = refs[m]
  BY <1>2, <1>3, <1>4, <1>5, <1>9
<1>11. /\ line' \in Seq(CccWrite) /\ Entries(line') = But(line, 1) \union {z}
  <2>1. Tail(line) \in Seq(CccWrite)
    BY <1>2, <1>3, Popped
  <2>2. line' \in Seq(CccWrite)
    BY <1>8, <2>1, Pushed
  <2> QED BY <1>2, <1>3, <1>8, <2>2, EntriesOf
<1>12. On(Entries(line), h) /\ ~ On(But(line, 1), h) /\ refs[h] - 1 \in Nat
  <2>1. On(Entries(line), h) /\ ~ On(But(line, 1), h)
    BY <1>2 DEF On, h
  <2>2. refs[h] >= ListRefs(h) + One(On(Entries(line), h)) + One(Off(Entries(line), h))
    BY <1>0, <1>2 DEF Covered
  <2>3. /\ One(On(Entries(line), h)) = 1 /\ One(Off(Entries(line), h)) \in {0, 1}
        /\ ListRefs(h) \in {0, 1}
    BY <2>1 DEF One, ListRefs
  <2>4. refs[h] - 1 \in Nat
    BY <1>2, <1>3, <2>2, <2>3
  <2> QED BY <2>1, <2>4
<1>13. TypeOK'
  <2>1. refs' \in [Regs -> Nat]
    <3>1. refs' = [m \in Regs |-> refs'[m]]
      BY <1>3, <1>4
    <3>2. \A m \in Regs : refs'[m] \in Nat
      BY <1>3, <1>10, <1>12
    <3> QED BY <3>1, <3>2
  <2>2. att_id' \subseteq registered'
    BY <1>3, <1>4, <1>9
  <2>3. ccc_write_id' \in BOOLEAN
    BY <1>4
  <2> QED BY <1>0, <1>4, <1>5, <1>11, <2>1, <2>2, <2>3 DEF TypeOK
<1>14. \A m : Waiting(m)' <=> Waiting(m) /\ m # n
  BY <1>1, <1>4, <1>5, InEmpty DEF Waiting
<1>15. Served' = {}
  BY <1>4 DEF Served
<1>16. LineOK'
  <2> DEFINE K == But(line, 1)
  <2>1. ASSUME NEW x \in K PROVE EntryOK(x)'
    <3>1. EntryOK(x) /\ x \notin Served
      BY <1>2
    <3> QED BY <1>4, <1>14, <1>15, <3>1 DEF EntryOK, Mild
  <2>2. \A x, y \in K : Apart(x, y) => Apart(x, y)'
    BY <1>2 DEF Apart
  <2>3. \A y \in K : Apart(z, y)'
    <3> TAKE y \in K
    <3>1. EntryOK(y) /\ y \notin Served
      BY <1>2
    <3>2. y.reg = n => y.cancelled
      BY <1>9, <3>1 DEF EntryOK
    <3> QED BY <1>8, <3>2 DEF Apart
  <2>4. EntryOK(z)'
    BY <1>4, <1>8, <1>9, <1>14, <1>15 DEF EntryOK
  <2> HIDE DEF K
  <2> QED BY <1>0, <1>2, <1>8, <2>1, <2>2, <2>3, <2>4, LineMoved DEF K
<1>17. WaitingOK'
  <2>1. \A m : ~ In(draining', m)
    BY <1>1, <1>4, InEmpty
  <2>2. \A m : Waiting(m)' => m \in registered' /\ told'[m] = "nothing"
    BY <1>0, <1>4, <1>14 DEF WaitingOK
  <2>3. \A m : In(reg_notify_queue', m) => m \in notify_list'
    BY <1>0, <1>4, <1>5 DEF WaitingOK
  <2> QED BY <1>0, <1>4, <1>5, <2>1, <2>2, <2>3 DEF WaitingOK
<1>18. RegsOK'
  <2>1. \A m \in Regs \ registered' : refs'[m] = 0 /\ told'[m] = "nothing"
    BY <1>0, <1>2, <1>4, <1>9, <1>10 DEF RegsOK
  <2> QED BY <1>0, <1>4, <1>9, <1>14, <2>1 DEF RegsOK
<1>19. HandlerInv'
  BY <1>0, <1>1, <1>2, <1>4 DEF HandlerInv
<1>20. Covered'
  <2> SUFFICES ASSUME NEW m \in Regs
               PROVE  refs'[m] >= ListRefs(m)' + One(On(Entries(line'), m))
                                   + One(Off(Entries(line'), m))
    BY DEF Covered
  <2>1. refs[m] >= ListRefs(m) + One(On(Entries(line), m)) + One(Off(Entries(line), m))
    BY <1>0, <1>2 DEF Covered
  <2>2. ListRefs(m)' = ListRefs(m) /\ ListRefs(m) \in {0, 1} /\ refs[m] \in Nat
    BY <1>3, <1>4 DEF ListRefs
  <2>3. Off(Entries(line'), m) => Off(Entries(line), m)
    BY <1>2, <1>8, <1>11 DEF Off
  <2>4. CASE m = n
    BY <1>10, <2>1, <2>2, <2>3, <2>4 DEF One
  <2>5. CASE m # n
    <3>1. On(Entries(line'), m) <=> On(But(line, 1), m)
      BY <1>8, <1>11, <2>5 DEF On
    <3>2. On(But(line, 1), m) => On(Entries(line), m)
      BY <1>2 DEF On
    <3>3. CASE m = h
      BY <1>10, <1>12, <2>1, <2>2, <2>3, <3>1, <3>3 DEF One
    <3>4. CASE m # h
      BY <1>10, <2>1, <2>2, <2>3, <2>5, <3>1, <3>2, <3>4 DEF One
    <3> QED BY <3>3, <3>4
  <2> QED BY <2>4, <2>5
<1>21. OneWrite'
  <2> SUFFICES ASSUME "reentrant" \notin usage PROVE OneWrite'
    BY <1>4 DEF OneWrite
  <2>1. (\A i \in DOMAIN line : i = 1) /\ notify_list \intersect att_id = {}
    BY <1>0 DEF OneWrite
  <2>2. Tail(line) = <<>>
    BY <1>2, <1>3, <2>1, Single
  <2>3. line' = Append(<<>>, z)
    BY <1>8, <2>2
  <2>4. line' # <<>> /\ line'[1] = z /\ \A i \in DOMAIN line' : i = 1
    BY <2>3
  <2> QED BY <1>4, <1>8, <2>1, <2>4 DEF OneWrite
<1> QED BY <1>13, <1>16, <1>17, <1>18, <1>19, <1>20, <1>21 DEF All, Base

(* disable_ccc_callback, with nobody in the queue ...                      *)
LEMMA DisabledAlone ==
  ASSUME All, Disabled, reg_notify_queue = <<>>
  PROVE  All'
<1> DEFINE h == line[1].reg
<1>0. TypeOK /\ LineOK /\ WaitingOK /\ RegsOK /\ HandlerInv /\ Covered /\ OneWrite
  BY DEF All, Base
<1>1. /\ line # <<>> /\ Head(line) = line[1]
      /\ answering = "no" /\ Served = {} /\ draining = <<>>
      /\ ~ chrc_freed /\ notify_count = 0 /\ ccc_write_id
      /\ line[1] \in CccWrite /\ EntryOK(line[1]) /\ ~ line[1].cancelled
      /\ line[1].enable = FALSE
      /\ h \in Regs /\ h \in registered
      /\ Entries(line) = But(line, 1) \union {line[1]}
      /\ \A x \in But(line, 1) :
           /\ x \in CccWrite /\ EntryOK(x)
           /\ x.cancelled \/ x.reg # h
  BY Answered DEF Disabled
<1>2. /\ ccc' \in {FALSE, ccc} /\ ccc_write_id' = FALSE /\ line' = Tail(line)
      /\ refs' = [refs EXCEPT ![h] = @ - 1]
      /\ UNCHANGED <<usage, registered, reg_notify_queue, notify_count, chrc_freed,
                     notify_list, att_id, told, answering, draining, fault>>
  BY <1>1 DEF Disabled, handler
<1>3. /\ line \in Seq(CccWrite) /\ refs \in [Regs -> Nat] /\ registered \subseteq Regs
      /\ ccc \in BOOLEAN
  BY <1>0, Types
<1>4. /\ Off(Entries(line), h) /\ ~ Off(But(line, 1), h)
      /\ h \notin notify_list
  BY <1>1 DEF Off, EntryOK
<1>5. line' \in Seq(CccWrite) /\ Entries(line') = But(line, 1)
  BY <1>1, <1>2, <1>3, Popped, EntriesOf
<1>6. refs[h] - 1 \in Nat
  <2>1. refs[h] >= ListRefs(h) + One(On(Entries(line), h)) + One(Off(Entries(line), h))
    BY <1>0, <1>1 DEF Covered
  <2>2. /\ One(Off(Entries(line), h)) = 1 /\ One(On(Entries(line), h)) \in {0, 1}
        /\ ListRefs(h) \in {0, 1}
    BY <1>4 DEF One, ListRefs
  <2> QED BY <1>1, <1>3, <2>1, <2>2
<1>7. refs'[h] = refs[h] - 1 /\ \A m \in Regs \ {h} : refs'[m] = refs[m]
  BY <1>1, <1>2, <1>3
<1>8. TypeOK'
  <2>1. refs' \in [Regs -> Nat]
    BY <1>2, <1>3, <1>6
  <2>2. ccc' \in BOOLEAN
    BY <1>2, <1>3, Zenon
  <2>3. ccc_write_id' \in BOOLEAN
    BY <1>2
  <2> QED BY <1>0, <1>2, <1>5, <2>1, <2>2, <2>3 DEF TypeOK
<1>9. \A m : Waiting(m)' <=> Waiting(m)
  BY <1>2 DEF Waiting
<1>10. Served' = {}
  BY <1>1, <1>2 DEF Served
<1>11. LineOK'
  <2> DEFINE K == But(line, 1)
  <2>1. ASSUME NEW x \in K PROVE EntryOK(x)'
    <3>1. EntryOK(x)
      BY <1>1
    <3> QED BY <1>1, <1>2, <1>9, <1>10, <3>1 DEF EntryOK, Mild
  <2>2. \A x, y \in K : Apart(x, y) => Apart(x, y)'
    BY <1>1 DEF Apart
  <2> QED BY <1>0, <1>1, <1>2, <2>1, <2>2, LinePopped
<1>12. WaitingOK'
  BY <1>0, <1>2, <1>9 DEF WaitingOK, Mild
<1>13. RegsOK'
  BY <1>0, <1>1, <1>2, <1>7, <1>9 DEF RegsOK
<1>14. HandlerInv'
  BY <1>0, <1>1, <1>2 DEF HandlerInv
<1>15. Covered'
  <2> SUFFICES ASSUME NEW m \in Regs
               PROVE  refs'[m] >= ListRefs(m)' + One(On(Entries(line'), m))
                                   + One(Off(Entries(line'), m))
    BY DEF Covered
  <2>1. refs[m] >= ListRefs(m) + One(On(Entries(line), m)) + One(Off(Entries(line), m))
    BY <1>0, <1>1 DEF Covered
  <2>2. ListRefs(m)' = ListRefs(m) /\ ListRefs(m) \in {0, 1} /\ refs[m] \in Nat
    BY <1>2, <1>3 DEF ListRefs
  <2>3. (On(Entries(line'), m) => On(Entries(line), m))
        /\ (Off(Entries(line'), m) => Off(Entries(line), m))
    BY <1>1, <1>5 DEF On, Off
  <2>4. CASE m = h
    BY <1>4, <1>5, <1>7, <2>1, <2>2, <2>3, <2>4 DEF One
  <2>5. CASE m # h
    BY <1>7, <2>1, <2>2, <2>3, <2>5 DEF One
  <2> QED BY <2>4, <2>5
<1>16. OneWrite'
  <2> SUFFICES ASSUME "reentrant" \notin usage PROVE OneWrite'
    BY <1>2 DEF OneWrite
  <2>1. (\A i \in DOMAIN line : i = 1) /\ notify_list \intersect att_id = {}
    BY <1>0, <1>4 DEF OneWrite
  <2>2. line' = <<>>
    BY <1>1, <1>2, <1>3, <2>1, Single
  <2> QED BY <1>1, <1>2, <2>1, <2>2 DEF OneWrite
<1> QED BY <1>8, <1>11, <1>12, <1>13, <1>14, <1>15, <1>16 DEF All, Base

(* ... and when it writes the CCC again, on, in the name of the one that   *)
(* switched it off.                                                        *)
LEMMA DisabledNext ==
  ASSUME All, Disabled, reg_notify_queue # <<>>
  PROVE  All'
<1> DEFINE h == line[1].reg
           n == Head(reg_notify_queue)
           e == [reg |-> h, enable |-> TRUE, cancelled |-> FALSE]
<1>0. TypeOK /\ LineOK /\ WaitingOK /\ RegsOK /\ HandlerInv /\ Covered /\ OneWrite
  BY DEF All, Base
<1>1. /\ line # <<>> /\ Head(line) = line[1]
      /\ answering = "no" /\ Served = {} /\ draining = <<>>
      /\ ~ chrc_freed /\ notify_count = 0 /\ ccc_write_id
      /\ line[1] \in CccWrite /\ EntryOK(line[1]) /\ ~ line[1].cancelled
      /\ line[1].enable = FALSE
      /\ h \in Regs /\ h \in registered
      /\ Entries(line) = But(line, 1) \union {line[1]}
      /\ \A x \in But(line, 1) :
           /\ x \in CccWrite /\ EntryOK(x)
           /\ x.cancelled \/ x.reg # h
  BY Answered DEF Disabled
<1>2. /\ ccc' \in {FALSE, ccc} /\ ccc_write_id' = TRUE
      /\ line' = Append(Tail(line), e) /\ att_id' = att_id \union {h}
      /\ reg_notify_queue' = Tail(reg_notify_queue)
      /\ UNCHANGED <<usage, registered, notify_count, chrc_freed, notify_list, refs,
                     told, answering, draining, fault>>
  BY <1>1 DEF Disabled, WriteCcc, handler
<1>3. /\ line \in Seq(CccWrite) /\ refs \in [Regs -> Nat] /\ registered \subseteq Regs
      /\ ccc \in BOOLEAN /\ reg_notify_queue \in Seq(Regs) /\ att_id \subseteq registered
  BY <1>0, Types
<1>4. e \in CccWrite /\ e.reg = h /\ e.enable /\ ~ e.cancelled
  BY <1>1 DEF CccWrite
<1>5. PICK z \in CccWrite : z = e
  BY <1>4
<1>6. z.reg = h /\ z.enable /\ ~ z.cancelled /\ line' = Append(Tail(line), z)
  BY <1>2, <1>4, <1>5
<1>7. /\ ~ Off(But(line, 1), h) /\ h \notin notify_list /\ "overlap" \in usage
  BY <1>1 DEF Off, EntryOK
<1> HIDE DEF e, h, n
<1>8. /\ \A m : In(reg_notify_queue, m) <=> In(reg_notify_queue', m) \/ m = n
      /\ Distinct(reg_notify_queue') /\ reg_notify_queue' \in Seq(Regs)
  BY <1>0, <1>2, <1>3, InPopped DEF WaitingOK, n
<1>9. \A m : Waiting(m)' => Waiting(m) /\ m # h
  <2>1. \A m : ~ In(draining', m)
    BY <1>1, <1>2, InEmpty
  <2>2. ~ In(reg_notify_queue, h)
    BY <1>0, <1>7 DEF WaitingOK
  <2> QED BY <1>8, <2>1, <2>2 DEF Waiting
<1>10. /\ line' \in Seq(CccWrite) /\ Entries(line') = But(line, 1) \union {z}
  <2>1. Tail(line) \in Seq(CccWrite)
    BY <1>1, <1>3, Popped
  <2>2. line' \in Seq(CccWrite)
    BY <1>6, <2>1, Pushed
  <2> QED BY <1>1, <1>3, <1>6, <2>2, EntriesOf
<1>11. TypeOK'
  <2>1. att_id' \subseteq registered'
    BY <1>1, <1>2, <1>3
  <2>2. ccc' \in BOOLEAN
    BY <1>2, <1>3, Zenon
  <2>3. ccc_write_id' \in BOOLEAN
    BY <1>2
  <2> QED BY <1>0, <1>2, <1>8, <1>10, <2>1, <2>2, <2>3 DEF TypeOK
<1>12. Served' = {}
  BY <1>1, <1>2 DEF Served
<1>13. LineOK'
  <2> DEFINE K == But(line, 1)
  <2>1. ASSUME NEW x \in K PROVE EntryOK(x)'
    <3>1. EntryOK(x)
      BY <1>1
    <3> QED BY <1>1, <1>2, <1>7, <1>9, <1>12, <3>1 DEF EntryOK, Mild
  <2>2. \A x, y \in K : Apart(x, y) => Apart(x, y)'
    BY <1>1 DEF Apart
  <2>3. \A y \in K : Apart(z, y)'
    BY <1>1, <1>6 DEF Apart
  <2>4. EntryOK(z)'
    BY <1>1, <1>2, <1>6, <1>7, <1>9, <1>12 DEF EntryOK
  <2> HIDE DEF K
  <2> QED BY <1>0, <1>1, <1>6, <2>1, <2>2, <2>3, <2>4, LineMoved DEF K
<1>14. WaitingOK'
  <2>1. \A m : ~ In(draining', m)
    BY <1>1, <1>2, InEmpty
  <2>2. \A m : Waiting(m)' => m \in registered' /\ told'[m] = "nothing"
    BY <1>0, <1>2, <1>9 DEF WaitingOK
  <2>3. \A m : In(reg_notify_queue', m) => m \in notify_list'
    BY <1>0, <1>2, <1>8 DEF WaitingOK
  <2> QED BY <1>0, <1>2, <1>8, <2>1, <2>2, <2>3 DEF WaitingOK
<1>15. RegsOK'
  BY <1>0, <1>2, <1>7 DEF RegsOK
<1>16. HandlerInv'
  BY <1>0, <1>1, <1>2 DEF HandlerInv
<1>17. Covered'
  <2> SUFFICES ASSUME NEW m \in Regs
               PROVE  refs'[m] >= ListRefs(m)' + One(On(Entries(line'), m))
                                   + One(Off(Entries(line'), m))
    BY DEF Covered
  <2>1. refs[m] >= ListRefs(m) + One(On(Entries(line), m)) + One(Off(Entries(line), m))
    BY <1>0, <1>1 DEF Covered
  <2>2. ListRefs(m)' = ListRefs(m) /\ ListRefs(m) \in {0, 1} /\ refs[m] \in Nat
        /\ refs'[m] = refs[m]
    BY <1>2, <1>3 DEF ListRefs
  <2>3. Off(Entries(line'), m) <=> Off(But(line, 1), m)
    BY <1>6, <1>10 DEF Off
  <2>4. CASE m = h
    <3>1. Off(Entries(line), m)
      BY <1>1, <2>4 DEF Off, h
    <3> QED BY <1>7, <2>1, <2>2, <2>3, <2>4, <3>1 DEF One
  <2>5. CASE m # h
    <3>1. On(Entries(line'), m) => On(Entries(line), m)
      BY <1>1, <1>6, <1>10, <2>5 DEF On
    <3>2. Off(But(line, 1), m) => Off(Entries(line), m)
      BY <1>1 DEF Off
    <3> QED BY <2>1, <2>2, <2>3, <3>1, <3>2 DEF One
  <2> QED BY <2>4, <2>5
<1>18. OneWrite'
  <2> SUFFICES ASSUME "reentrant" \notin usage PROVE OneWrite'
    BY <1>2 DEF OneWrite
  <2>1. (\A i \in DOMAIN line : i = 1) /\ notify_list \intersect att_id = {}
    BY <1>0, <1>7 DEF OneWrite, h
  <2>2. Tail(line) = <<>>
    BY <1>1, <1>3, <2>1, Single
  <2>3. line' = Append(<<>>, z)
    BY <1>6, <2>2
  <2>4. line' # <<>> /\ \A i \in DOMAIN line' : i = 1
    BY <2>3
  <2>5. notify_list' \intersect att_id' = {}
    BY <1>2, <1>7, <2>1
  <2> QED BY <1>1, <1>2, <2>4, <2>5 DEF OneWrite
<1> QED BY <1>11, <1>13, <1>14, <1>15, <1>16, <1>17, <1>18 DEF All, Base

(* The answer to a cancelled write: callbacks call the API.                *)
LEMMA CancelledAnsweredAll ==
  ASSUME All, CancelledAnswered
  PROVE  All'
<1>0. TypeOK /\ LineOK /\ WaitingOK /\ RegsOK /\ HandlerInv /\ Covered
  BY DEF All, Base
<1>1. /\ answering = "no" /\ line # <<>> /\ line' = Tail(line) /\ ccc' \in {TRUE, ccc}
      /\ Head(line).cancelled
      /\ UNCHANGED <<usage, registered, reg_notify_queue, notify_count, ccc_write_id,
                     chrc_freed, notify_list, att_id, refs, told, answering, draining,
                     fault>>
  BY DEF CancelledAnswered, chrc, data, handler
<1>2. line \in Seq(CccWrite) /\ ccc \in BOOLEAN /\ refs \in [Regs -> Nat]
  BY <1>0, Types
<1>3. /\ EntryOK(line[1]) /\ line[1].cancelled /\ 1 \in DOMAIN line
      /\ Entries(line) = But(line, 1) \union {line[1]}
  BY <1>0, <1>1, HeadFacts
<1>4. ~ Mild
  BY <1>3 DEF EntryOK
<1>5. line' \in Seq(CccWrite) /\ Entries(line') = But(line, 1)
  BY <1>1, <1>2, Popped, EntriesOf
<1>6. TypeOK'
  <2>1. ccc' \in BOOLEAN
    BY <1>1, <1>2, Zenon
  <2> QED BY <1>0, <1>1, <1>5, <2>1 DEF TypeOK
<1>7. Served = {} /\ Served' = {}
  BY <1>1 DEF Served
<1>8. \A m : Waiting(m)' <=> Waiting(m)
  BY <1>1 DEF Waiting
<1>9. LineOK'
  <2> DEFINE K == But(line, 1)
  <2>1. ASSUME NEW x \in K PROVE EntryOK(x)'
    <3>1. EntryOK(x)
      BY <1>0, <1>3, EntryFacts
    <3> QED BY <1>1, <1>7, <1>8, <3>1 DEF EntryOK, Mild
  <2>2. \A x, y \in K : Apart(x, y) => Apart(x, y)'
    BY <1>7 DEF Apart
  <2> QED BY <1>0, <1>1, <2>1, <2>2, LinePopped
<1>10. WaitingOK'
  BY <1>0, <1>1, <1>8 DEF WaitingOK, Mild
<1>11. RegsOK'
  BY <1>0, <1>1, <1>8 DEF RegsOK
<1>12. HandlerInv'
  <2>1. ccc => ccc'
    BY <1>1, Zenon
  <2> QED BY <1>0, <1>1, <2>1 DEF HandlerInv
<1>13. Covered'
  <2> SUFFICES ASSUME ~ chrc_freed, NEW m \in Regs
               PROVE  refs'[m] >= ListRefs(m)' + One(On(Entries(line'), m))
                                   + One(Off(Entries(line'), m))
    BY <1>1 DEF Covered
  <2>1. refs[m] >= ListRefs(m) + One(On(Entries(line), m)) + One(Off(Entries(line), m))
    BY <1>0 DEF Covered
  <2>2. ListRefs(m)' = ListRefs(m) /\ ListRefs(m) \in {0, 1} /\ refs[m] \in Nat
    BY <1>1, <1>2 DEF ListRefs
  <2>3. (On(Entries(line'), m) => On(Entries(line), m))
        /\ (Off(Entries(line'), m) => Off(Entries(line), m))
    BY <1>3, <1>5 DEF On, Off
  <2> QED BY <1>1, <2>1, <2>2, <2>3 DEF One
<1>14. OneWrite'
  BY <1>1, <1>4 DEF OneWrite, Mild
<1> QED BY <1>6, <1>9, <1>10, <1>11, <1>12, <1>13, <1>14 DEF All, Base

(* Every step keeps what has been said so far ...                          *)
LEMMA AllNext ==
  ASSUME All, [Next]_vars
  PROVE  All'
<1>1. ASSUME NEW n \in Regs, UnregisterFails(n) PROVE All'
  BY <1>1, StopAll DEF UnregisterFails
<1>2. CASE EnableDone
  <2>0. TypeOK
    BY DEF All, Base
  <2>1. CASE answering = "error" /\ reg_notify_queue # <<>>
    BY <1>2, <2>1, EnableDoneNext
  <2>2. CASE ~ (answering = "error" /\ reg_notify_queue # <<>>)
    <3>1. line' = Tail(line)
      BY <1>2, <2>2 DEF EnableDone, NextInQueue
    <3> QED BY <1>2, <3>1, EnableDoneAlone
  <2> QED BY <2>1, <2>2
<1>3. CASE Disabled
  BY <1>3, DisabledAlone, DisabledNext
<1>4. CASE HandlerFails
  <2>1. chrc_freed => "changes" \in usage
    BY DEF All, Base, HandlerInv
  <2>2. CASE chrc_freed
    <3>1. Stop("freed")
      BY <1>4, <2>2 DEF HandlerFails
    <3> QED BY <2>1, <2>2, <3>1, StopAll
  <2>3. CASE ~ chrc_freed
    <3>1. Stop("assert")
      BY <1>4, <2>3 DEF HandlerFails
    <3> QED BY <3>1, StopAll
  <2> QED BY <2>2, <2>3
<1>5. CASE UNCHANGED vars
  <2>0. TypeOK /\ LineOK /\ WaitingOK /\ RegsOK /\ HandlerInv /\ Covered /\ OneWrite
    BY DEF All, Base
  <2>1. UNCHANGED <<usage, registered, reg_notify_queue, notify_count, ccc_write_id,
                    chrc_freed, notify_list, att_id, refs, told, line, answering,
                    draining, ccc, fault>>
    BY <1>5 DEF vars, chrc, data, handler
  <2>2. TypeOK'
    BY <2>0, <2>1 DEF TypeOK
  <2>3. LineOK'
    BY <2>0, <2>1 DEF LineOK, EntryOK, Apart, Served, Waiting, Mild
  <2>4. WaitingOK' /\ RegsOK'
    BY <2>0, <2>1 DEF WaitingOK, RegsOK, Waiting, Mild
  <2>5. HandlerInv' /\ Covered' /\ OneWrite'
    BY <2>0, <2>1 DEF HandlerInv, Covered, ListRefs, OneWrite
  <2> QED BY <2>2, <2>3, <2>4, <2>5 DEF All, Base
<1> QED
  BY <1>1, <1>2, <1>3, <1>4, <1>5, RegisterAll, UnregisterAll, UnregisterPendingAll,
     ServiceChangedAll, EnabledAll, CompleteQueuedAll, EnableRefusedAll,
     CancelledAnsweredAll
  DEF Next, Answer

(* ... which holds at the start.                                           *)
LEMMA AllInit ==
  ASSUME Init
  PROVE  All
<1>1. TypeOK
  <2>1. /\ refs \in [Regs -> Nat]
        /\ told \in [Regs -> {"nothing", "success", "error"}]
        /\ line \in Seq(CccWrite) /\ reg_notify_queue \in Seq(Regs)
        /\ draining \in Seq(Regs)
    BY DEF Init
  <2>2. {ccc_write_id, chrc_freed, ccc} \subseteq BOOLEAN
    BY DEF Init
  <2> QED BY <2>1, <2>2 DEF Init, TypeOK
<1>2. LineOK
  BY DEF Init, LineOK
<1>3. \A m : ~ In(reg_notify_queue, m) /\ ~ In(draining, m)
  BY InEmpty DEF Init
<1>4. WaitingOK
  BY <1>3, InEmpty DEF Init, WaitingOK, Waiting
<1>5. RegsOK /\ HandlerInv /\ OneWrite
  BY DEF Init, RegsOK, HandlerInv, OneWrite
<1>6. Covered
  <2>1. Entries(line) = {}
    BY DEF Init, Entries
  <2>2. \A m \in Regs : refs[m] = 0 /\ ListRefs(m) = 0
    BY DEF Init, ListRefs
  <2> QED BY <2>1, <2>2 DEF Covered, On, Off, One
<1> QED BY <1>1, <1>2, <1>4, <1>5, <1>6 DEF All, Base

-----------------------------------------------------------------------------
(* The count.                                                              *)

(* Handlers that were told of success, and those that left while they were *)
(* about to be.                                                            *)
LEMMA Sizes ==
  ASSUME All, Counted
  PROVE  /\ IsFiniteSet(Told) /\ Cardinality(Told) \in Nat
         /\ IsFiniteSet(Gone) /\ Cardinality(Gone) \in Nat
         /\ draining = <<>> => Gone = {}
         /\ Gone = {} => Cardinality(Gone) = 0
         /\ Told # {} => Cardinality(Told) > 0
         /\ \A m : In(draining, m) => m \in Regs /\ told[m] = "nothing"
<1>0. TypeOK /\ WaitingOK /\ IsFiniteSet(registered)
  BY DEF All, Base, Counted
<1>1. Told \subseteq registered
  BY <1>0, Types DEF Told
<1>2. \A m : In(draining, m) => m \in registered /\ told[m] = "nothing"
  BY <1>0 DEF WaitingOK, Waiting
<1>3. Gone \subseteq registered
  BY <1>2 DEF Gone
<1>4. IsFiniteSet(Told) /\ IsFiniteSet(Gone)
  BY <1>0, <1>1, <1>3, FS_Subset
<1>5. Cardinality(Told) \in Nat /\ Cardinality(Gone) \in Nat
  BY <1>4, FS_CardinalityType
<1>6. draining = <<>> => Gone = {}
  BY InEmpty DEF Gone
<1>7. (Gone = {} => Cardinality(Gone) = 0) /\ (Told # {} => Cardinality(Told) # 0)
  BY <1>4, FS_EmptySet
<1>8. registered \subseteq Regs
  BY <1>0, Types
<1> QED BY <1>2, <1>4, <1>5, <1>6, <1>7, <1>8

(* Steps that leave the count and the handlers alone.                      *)
LEMMA CountedSame ==
  ASSUME Counted,
         UNCHANGED <<usage, registered, notify_list, told, draining, notify_count, fault,
                     chrc_freed>>,
         ccc_write_id' => ccc_write_id \/ notify_count = 0
  PROVE  Counted'
<1>1. Told' = Told /\ Gone' = Gone
  BY DEF Told, Gone
<1>2. Polite' <=> Polite
  BY DEF Polite
<1> QED BY <1>1, <1>2 DEF Counted

(* bt_gatt_client_register_notify                                          *)
LEMMA RegisterCounted ==
  ASSUME All, Counted, NEW n \in Regs, Register(n)
  PROVE  Counted'
<1>0. TypeOK /\ HandlerInv
  BY DEF All, Base
<1>1. /\ n \notin registered /\ ~ chrc_freed /\ MayRegister
      /\ registered' = registered \union {n} /\ notify_list' = notify_list \union {n}
      /\ UNCHANGED <<usage, chrc_freed, draining, fault>>
  BY DEF Register, handler
<1>2. n \notin notify_list /\ told[n] = "nothing" /\ ~ In(draining, n)
  BY <1>1, Fresh
<1>3. /\ IsFiniteSet(Told) /\ Cardinality(Told) \in Nat /\ Cardinality(Gone) \in Nat
      /\ draining = <<>> => Gone = {}
      /\ Gone = {} => Cardinality(Gone) = 0
  BY Sizes
<1>4. /\ notify_count \in Int /\ told \in [Regs -> {"nothing", "success", "error"}]
      /\ notify_list \subseteq Regs
  BY <1>0, Types
<1>5. Gone' = Gone
  BY <1>1, <1>2 DEF Gone
<1>6. IsFiniteSet(registered')
  BY <1>1, FS_AddElement DEF Counted
<1>7. Polite' <=> Polite
  BY <1>1 DEF Polite
<1>8. CASE UNCHANGED <<notify_count, told>>
  <2>1. Told' = Told
    BY <1>1, <1>2, <1>8 DEF Told
  <2>2. Polite /\ ccc_write_id' => notify_count = 0
    <3>1. CASE ccc_write_id
      BY <1>1, <3>1 DEF Counted
    <3>2. CASE ~ ccc_write_id /\ notify_count <= 0
      <4> SUFFICES ASSUME Polite PROVE notify_count = 0
        OBVIOUS
      <4>1. answering = "no" /\ ~ ({"early", "overlap"} \subseteq usage)
        BY <1>1 DEF Polite, MayRegister, Callable
      <4>2. Gone = {}
        BY <1>0, <1>3, <4>1 DEF HandlerInv
      <4>3. notify_count >= Cardinality(Told)
        BY <1>1, <1>3, <1>4, <4>1, <4>2 DEF Counted
      <4> QED BY <1>3, <1>4, <3>2, <4>3
    <3>3. CASE ~ ccc_write_id /\ notify_count > 0
      <4>1. ~ (notify_count <= 0)
        BY <1>4, <3>3
      <4>2. Complete(n)
        BY <3>3, <4>1 DEF Register
      <4>3. notify_count' = notify_count + 1
        BY <4>2 DEF Complete
      <4> QED BY <1>4, <1>8, <4>3
    <3> QED BY <1>4, <3>1, <3>2, <3>3
  <2> QED BY <1>1, <1>5, <1>6, <1>7, <1>8, <2>1, <2>2 DEF Counted
<1>9. CASE /\ notify_count' = notify_count + 1 /\ told' = [told EXCEPT ![n] = "success"]
           /\ ~ ccc_write_id /\ UNCHANGED ccc_write_id
  <2>1. Told' = Told \union {n} /\ n \notin Told
    BY <1>1, <1>2, <1>4, <1>9 DEF Told
  <2>2. Cardinality(Told') = Cardinality(Told) + 1
    BY <1>3, <2>1, FS_AddElement
  <2> QED BY <1>1, <1>3, <1>4, <1>5, <1>6, <1>7, <1>9, <2>2 DEF Counted
<1> QED BY <1>8, <1>9 DEF Register, Complete

(* complete_unregister_notify                                              *)
LEMMA UnregisterCounted ==
  ASSUME All, Counted, NEW n \in Regs, Unregister(n)
  PROVE  Counted'
<1>0. TypeOK /\ WaitingOK /\ RegsOK
  BY DEF All, Base
<1>1. /\ n \notin att_id /\ notify_list' = notify_list \ {n}
      /\ notify_count' = notify_count - 1
      /\ "early" \in usage \/ told[n] = "success"
      /\ UNCHANGED <<usage, registered, chrc_freed, told, draining, fault>>
  BY DEF Unregister, MayUnregisterNow, MayUnregister, handler
<1>2. /\ reg_notify_queue = <<>> /\ ~ chrc_freed /\ n \in notify_list
      /\ notify_count > 0 /\ ~ ccc_write_id
  BY Quiet DEF Unregister
<1>3. ccc_write_id' => notify_count = 1
  BY <1>2 DEF Unregister
<1>4. /\ IsFiniteSet(Told) /\ Cardinality(Told) \in Nat
      /\ IsFiniteSet(Gone) /\ Cardinality(Gone) \in Nat
      /\ \A m : In(draining, m) => told[m] = "nothing"
  BY Sizes
<1>5. notify_count \in Int /\ told \in [Regs -> {"nothing", "success", "error"}]
  BY <1>0, Types
<1>6. CASE told[n] = "success"
  <2>1. Told' = Told \ {n} /\ n \in Told
    BY <1>1, <1>2, <1>6 DEF Told
  <2>2. Gone' = Gone
    BY <1>1, <1>4, <1>6 DEF Gone
  <2>3. Cardinality(Told') = Cardinality(Told) - 1
    BY <1>4, <2>1, FS_RemoveElement
  <2> QED BY <1>1, <1>2, <1>3, <1>4, <1>5, <2>2, <2>3 DEF Counted, Polite
<1>7. CASE told[n] # "success"
  <2>1. told[n] = "nothing" /\ "early" \in usage
    BY <1>0, <1>1, <1>2, <1>5, <1>7 DEF RegsOK
  <2>2. Told' = Told
    BY <1>1, <1>7 DEF Told
  <2>3. "overlap" \notin usage => Gone' = Gone \union {n} /\ n \notin Gone
    <3> SUFFICES ASSUME "overlap" \notin usage
                 PROVE  Gone' = Gone \union {n} /\ n \notin Gone
      OBVIOUS
    <3>1. Waiting(n)
      BY <1>0, <1>1, <1>2, <2>1 DEF RegsOK
    <3>2. In(draining, n)
      BY <1>2, <3>1, InEmpty DEF Waiting
    <3> QED BY <1>1, <1>2, <3>2 DEF Gone
  <2>4. "overlap" \notin usage => Cardinality(Gone') = Cardinality(Gone) + 1
    BY <1>4, <2>3, FS_AddElement
  <2> QED BY <1>1, <1>2, <1>3, <1>4, <1>5, <2>1, <2>2, <2>4 DEF Counted, Polite
<1> QED BY <1>6, <1>7

(* ... of a handler with a CCC write of its own: it was not counted.       *)
LEMMA UnregisterPendingCounted ==
  ASSUME All, Counted, NEW n \in Regs, UnregisterPending(n)
  PROVE  Counted'
<1>0. TypeOK /\ LineOK /\ RegsOK
  BY DEF All, Base
<1>1. /\ n \in att_id /\ n \in notify_list /\ notify_list' = notify_list \ {n}
      /\ UNCHANGED <<usage, registered, notify_count, ccc_write_id, chrc_freed, told,
                     draining, fault>>
  BY DEF UnregisterPending, MayUnregisterNow, MayUnregister, chrc, handler
<1>2. PICK i \in DOMAIN line : line[i].reg = n /\ line[i].enable
  BY DEF UnregisterPending
<1>3. ~ Waiting(n)
  BY <1>0, <1>1, <1>2 DEF LineOK, EntryOK
<1>4. told[n] = "nothing"
  BY <1>0, <1>1 DEF RegsOK
<1>5. Told' = Told
  BY <1>1, <1>4 DEF Told
<1>6. Gone' = Gone
  BY <1>1, <1>3 DEF Gone, Waiting
<1>7. Polite' <=> Polite
  BY <1>1 DEF Polite
<1> QED BY <1>1, <1>5, <1>6, <1>7 DEF Counted

(* enable_ccc_callback, success: the handlers that wait have not left.     *)
LEMMA EnabledCounted ==
  ASSUME All, Counted, Enabled
  PROVE  Counted'
<1> DEFINE h == line[1].reg
<1>0. TypeOK /\ WaitingOK /\ RegsOK
  BY DEF All, Base
<1>1. /\ Head(line) = line[1] /\ Served = {} /\ draining = <<>>
      /\ ~ chrc_freed /\ notify_count = 0
      /\ EntryOK(line[1]) /\ ~ line[1].cancelled /\ line[1].enable = TRUE
      /\ h \in Regs
  BY Answered DEF Enabled
<1>2. /\ notify_count' = notify_count + 1 /\ told' = [told EXCEPT ![h] = "success"]
      /\ ccc_write_id' = FALSE /\ draining' = reg_notify_queue
      /\ UNCHANGED <<usage, registered, notify_list, chrc_freed, fault>>
  BY <1>1 DEF Enabled, Complete
<1>3. h \in att_id /\ ("overlap" \notin usage => h \in notify_list)
  BY <1>1 DEF EntryOK
<1> HIDE DEF h
<1>4. /\ IsFiniteSet(Told) /\ Cardinality(Told) \in Nat
      /\ Gone = {} /\ Cardinality(Gone) = 0
  BY <1>1, Sizes
<1>5. told \in [Regs -> {"nothing", "success", "error"}] /\ notify_list \subseteq Regs
  BY <1>0, Types
<1>6. Gone' = {}
  BY <1>0, <1>2 DEF Gone, WaitingOK
<1>7. Cardinality(Gone') = 0
  BY <1>6, FS_EmptySet
<1>8. CASE h \in notify_list
  <2>1. Told' = Told \union {h} /\ h \notin Told
    BY <1>0, <1>1, <1>2, <1>3, <1>5, <1>8 DEF Told, RegsOK
  <2>2. Cardinality(Told') = Cardinality(Told) + 1
    BY <1>4, <2>1, FS_AddElement
  <2> QED BY <1>1, <1>2, <1>4, <1>7, <2>2 DEF Counted, Polite
<1>9. CASE h \notin notify_list
  <2>1. Told' = Told
    BY <1>1, <1>2, <1>5, <1>9 DEF Told
  <2> QED BY <1>1, <1>2, <1>3, <1>4, <1>7, <1>9, <2>1 DEF Counted, Polite
<1> QED BY <1>8, <1>9

(* ... and those that waited are counted, even when they have left.        *)
LEMMA CompleteQueuedCounted ==
  ASSUME All, Counted, CompleteQueued
  PROVE  Counted'
<1> DEFINE d == Head(draining)
<1>0. TypeOK /\ WaitingOK /\ HandlerInv /\ OneWrite
  BY DEF All, Base
<1>1. /\ answering = "success" /\ draining # <<>> /\ draining' = Tail(draining)
      /\ notify_count' = notify_count + 1 /\ told' = [told EXCEPT ![d] = "success"]
      /\ UNCHANGED <<usage, registered, ccc_write_id, chrc_freed, notify_list, fault>>
  BY DEF CompleteQueued, Complete
<1>2. /\ told \in [Regs -> {"nothing", "success", "error"}]
      /\ draining \in Seq(Regs) /\ notify_list \subseteq Regs /\ notify_count \in Int
  BY <1>0, Types
<1>3. /\ \A m : In(draining, m) <=> In(draining', m) \/ m = d
      /\ ~ In(draining', d) /\ d \in Regs
  BY <1>0, <1>1, <1>2, InPopped DEF WaitingOK
<1> HIDE DEF d
<1>4. /\ IsFiniteSet(Told) /\ Cardinality(Told) \in Nat
      /\ IsFiniteSet(Gone) /\ Cardinality(Gone) \in Nat
      /\ \A m : In(draining, m) => told[m] = "nothing"
  BY Sizes
<1>5. told[d] = "nothing"
  BY <1>3, <1>4
<1>6. Polite => ~ ccc_write_id
  BY <1>0, <1>1 DEF Polite, OneWrite
<1>7. CASE d \in notify_list
  <2>1. Told' = Told \union {d} /\ d \notin Told
    BY <1>1, <1>2, <1>3, <1>5, <1>7 DEF Told
  <2>2. Gone' = Gone
    BY <1>1, <1>3, <1>7 DEF Gone
  <2>3. Cardinality(Told') = Cardinality(Told) + 1
    BY <1>4, <2>1, FS_AddElement
  <2> QED BY <1>1, <1>2, <1>4, <1>6, <2>2, <2>3 DEF Counted, Polite
<1>8. CASE d \notin notify_list
  <2>1. Told' = Told
    BY <1>1, <1>2, <1>3, <1>8 DEF Told
  <2>2. Gone' = Gone \ {d} /\ d \in Gone
    BY <1>1, <1>3, <1>8 DEF Gone
  <2>3. Cardinality(Gone') = Cardinality(Gone) - 1
    BY <1>4, <2>2, FS_RemoveElement
  <2>4. notify_count' + Cardinality(Gone') = notify_count + Cardinality(Gone)
    BY <1>1, <1>2, <1>4, <2>3
  <2> QED BY <1>1, <1>6, <2>1, <2>4 DEF Counted, Polite
<1> QED BY <1>7, <1>8

(* enable_ccc_callback, error: the request was not counted.                *)
LEMMA EnableRefusedCounted ==
  ASSUME All, Counted, EnableRefused
  PROVE  Counted'
<1> DEFINE h == line[1].reg
<1>0. TypeOK /\ RegsOK
  BY DEF All, Base
<1>1. /\ Head(line) = line[1] /\ Served = {} /\ draining = <<>> /\ notify_count = 0
      /\ EntryOK(line[1]) /\ ~ line[1].cancelled /\ line[1].enable = TRUE
      /\ h \in Regs
  BY Answered DEF EnableRefused
<1>2. /\ ccc_write_id' = FALSE /\ notify_list' = notify_list \ {h}
      /\ told' = [told EXCEPT ![h] = "error"]
      /\ UNCHANGED <<usage, registered, notify_count, chrc_freed, draining, fault>>
  BY <1>1 DEF EnableRefused
<1>3. h \in att_id
  BY <1>1 DEF EntryOK
<1> HIDE DEF h
<1>4. told \in [Regs -> {"nothing", "success", "error"}] /\ notify_list \subseteq Regs
  BY <1>0, Types
<1>5. Told' = Told
  BY <1>0, <1>1, <1>2, <1>3, <1>4 DEF Told, RegsOK
<1>6. Gone' = {} /\ Gone = {}
  BY <1>1, <1>2, InEmpty DEF Gone
<1> QED BY <1>1, <1>2, <1>5, <1>6 DEF Counted, Polite

(* No assertion fails as long as callers are polite ...                    *)
LEMMA UnregisterFailsCounted ==
  ASSUME All, Counted, NEW n \in Regs, UnregisterFails(n)
  PROVE  Counted'
<1>0. TypeOK /\ HandlerInv
  BY DEF All, Base
<1>1. /\ n \in notify_list /\ Callable
      /\ "early" \in usage \/ told[n] = "success"
      /\ notify_count <= 0 \/ ccc_write_id
      /\ UNCHANGED <<usage, registered, notify_list, told, draining, notify_count,
                     chrc_freed, ccc_write_id>>
  BY DEF UnregisterFails, MayUnregister, Stop, chrc, data, handler
<1>2. ~ Polite
  <2> SUFFICES ASSUME Polite PROVE FALSE
    OBVIOUS
  <2>1. ~ chrc_freed
    BY <1>0, <1>1 DEF HandlerInv
  <2>2. n \in Told
    BY <1>1 DEF Told, Polite
  <2>3. draining = <<>>
    BY <1>0, <1>1 DEF Callable, Polite, HandlerInv
  <2>4. notify_count \in Int
    BY <1>0, Types
  <2>5. /\ Cardinality(Told) \in Nat /\ Cardinality(Told) > 0
        /\ Cardinality(Gone) = 0
    BY <2>2, <2>3, Sizes
  <2>6. notify_count + Cardinality(Gone) >= Cardinality(Told)
    BY <2>1 DEF Counted, Polite
  <2>7. notify_count > 0
    BY <2>4, <2>5, <2>6
  <2>8. ~ ccc_write_id
    BY <2>1, <2>4, <2>7 DEF Counted
  <2> QED BY <1>1, <2>4, <2>7, <2>8
<1>3. Told' = Told /\ Gone' = Gone
  BY <1>1 DEF Told, Gone
<1>4. ~ Polite'
  BY <1>1, <1>2 DEF Polite
<1> QED BY <1>1, <1>3, <1>4 DEF Counted

(* ... and a handler that is answered finds what it asserts.               *)
LEMMA HandlerFailsCounted ==
  ASSUME All, Counted, HandlerFails
  PROVE  Counted'
<1>0. HandlerInv /\ OneWrite
  BY DEF All, Base
<1>1. /\ answering = "no" /\ line # <<>> /\ ~ HandlerOK
      /\ fault' = IF chrc_freed THEN "freed" ELSE "assert"
      /\ UNCHANGED <<usage, registered, notify_list, told, draining, notify_count,
                     chrc_freed, ccc_write_id>>
  BY DEF HandlerFails, AnswerTo, Stop, chrc, data, handler
<1>2. Told' = Told /\ Gone' = Gone
  BY <1>1 DEF Told, Gone
<1>3. Polite' <=> Polite
  BY <1>1 DEF Polite
<1>4. Polite /\ ~ chrc_freed => HandlerOK
  <2>1. Polite => ccc_write_id
    BY <1>0, <1>1 DEF OneWrite, Polite
  <2> QED BY <2>1 DEF Counted, HandlerOK
<1>5. Polite => fault' # "assert"
  BY <1>1, <1>4
<1> QED BY <1>1, <1>2, <1>3, <1>5 DEF Counted

(* The count is kept by every step.                                        *)
LEMMA CountedNext ==
  ASSUME All, Counted, [Next]_vars
  PROVE  Counted'
<1>0. TypeOK /\ HandlerInv
  BY DEF All, Base
<1>1. CASE ServiceChanged
  <2>1. CASE Stop("freed")
    <3>1. /\ fault' = "freed"
          /\ UNCHANGED <<usage, registered, told, notify_list, draining, notify_count,
                         ccc_write_id, chrc_freed>>
      BY <2>1 DEF Stop, chrc, data, handler
    <3>2. Told' = Told /\ Gone' = Gone
      BY <3>1 DEF Told, Gone
    <3> QED BY <3>1, <3>2 DEF Counted, Polite
  <2>2. CASE ~ \E n \in registered : refs[n] < ListRefs(n) + QueueRefs(n)
    <3>1. chrc_freed' = TRUE /\ UNCHANGED <<usage, registered, fault>>
      BY <1>1, <2>2 DEF ServiceChanged
    <3> QED BY <3>1 DEF Counted, Polite
  <2> QED BY <1>1, <2>1, <2>2 DEF ServiceChanged
<1>2. CASE EnableDone
  <2>1. /\ UNCHANGED <<usage, registered, notify_list, told, draining, notify_count, fault,
                       chrc_freed>>
        /\ UNCHANGED ccc_write_id \/ answering = "error"
    BY <1>2 DEF EnableDone
  <2>2. answering = "error" => notify_count = 0
    BY <1>0 DEF HandlerInv
  <2> QED BY <2>1, <2>2, CountedSame
<1>3. CASE Disabled
  <2>1. /\ UNCHANGED <<usage, registered, notify_list, told, draining, notify_count, fault,
                       chrc_freed>>
        /\ notify_count = 0
    BY <1>3 DEF Disabled, HandlerOK, handler
  <2> QED BY <2>1, CountedSame
<1>4. CASE CancelledAnswered
  BY <1>4, CountedSame DEF CancelledAnswered, chrc, data, handler
<1>5. CASE UNCHANGED vars
  BY <1>5, CountedSame DEF vars, chrc, data, handler
<1> QED
  BY <1>1, <1>2, <1>3, <1>4, <1>5, RegisterCounted, UnregisterCounted,
     UnregisterPendingCounted, UnregisterFailsCounted, EnabledCounted,
     CompleteQueuedCounted, EnableRefusedCounted, HandlerFailsCounted
  DEF Next, Answer

(* At the start nothing is counted.                                        *)
LEMMA CountedInit ==
  ASSUME Init
  PROVE  Counted
<1>1. Told = {} /\ Gone = {}
  BY InEmpty DEF Init, Told, Gone
<1>2. IsFiniteSet({}) /\ Cardinality({}) = 0
  BY FS_EmptySet
<1> QED BY <1>1, <1>2 DEF Init, Counted

-----------------------------------------------------------------------------
(* What follows.                                                           *)

(* Everything said holds of every reachable state.                         *)
LEMMA Always == Spec => [](All /\ Counted)
<1>1. Init => All /\ Counted
  BY AllInit, CountedInit
<1>2. All /\ Counted /\ [Next]_vars => (All /\ Counted)'
  BY AllNext, CountedNext
<1> QED BY <1>1, <1>2, PTL DEF Spec

(* The assertions of bt_gatt_client_unregister_notify and of the two CCC    *)
(* handlers, and the references that notify_data_ref and notify_data_unref *)
(* count.                                                                  *)
LEMMA AllInv ==
  ASSUME All, Counted
  PROVE  Inv
<1>0. TypeOK /\ LineOK /\ WaitingOK /\ HandlerInv /\ Covered /\ OneWrite
  BY DEF All, Base
<1>1. AssertionsHoldPolite
  BY DEF Counted, AssertionsHoldPolite, AssertionsHold
<1>2. NoUseAfterFreeUnchanged
  <2> SUFFICES ASSUME "changes" \notin usage, Mild
               PROVE  fault # "freed" /\ \A n \in PointedTo : refs[n] > 0
    BY DEF NoUseAfterFreeUnchanged, NoUseAfterFree
  <2>1. fault # "freed" /\ ~ chrc_freed
    BY <1>0 DEF HandlerInv
  <2>2. ASSUME NEW n \in PointedTo PROVE refs[n] > 0
    <3>1. \/ n \in notify_list \/ Waiting(n)
          \/ \E x \in Entries(line) : x.reg = n
      BY <1>0, InTyped, Types DEF PointedTo, Waiting, Entries
    <3>2. n \in notify_list \/ \E x \in Entries(line) : x.reg = n
      BY <1>0, <3>1 DEF WaitingOK, Waiting
    <3>3. n \in notify_list \/ On(Entries(line), n) \/ Off(Entries(line), n)
      <4>1. \A x \in Entries(line) : EntryOK(x)
        BY <1>0, EntryFacts
      <4> QED BY <3>2, <4>1 DEF On, Off, EntryOK
    <3>4. n \in Regs /\ refs[n] \in Nat
      BY <1>0, <3>2, EntryFacts, Types
    <3>5. refs[n] >= ListRefs(n) + One(On(Entries(line), n)) + One(Off(Entries(line), n))
      BY <1>0, <2>1, <3>4 DEF Covered
    <3> QED BY <3>3, <3>4, <3>5 DEF ListRefs, One
  <2> QED BY <2>1, <2>2
<1>3. CountExact
  <2> SUFFICES ASSUME usage \subseteq {"changes"}, ~ chrc_freed
               PROVE  notify_count = Cardinality(Told)
    BY DEF CountExact, Told
  <2>1. Gone = {}
    BY <1>0 DEF Gone, WaitingOK, Mild
  <2>2. Cardinality(Gone) = 0 /\ notify_count \in Int
    BY <1>0, <2>1, Sizes, Types
  <2> QED BY <2>2 DEF Counted
<1>4. PendingMeansWrite
  BY <1>0 DEF PendingMeansWrite, OneWrite
<1> QED BY <1>0, <1>1, <1>2, <1>3, <1>4 DEF Inv

(* No assertion of the registration code fails while callers are polite;   *)
(* while the service stays, what notify_list, a queue or an ATT request    *)
(* points to has not been freed; and notify_count is the number of         *)
(* handlers that were told of success, if none leaves before it is told:   *)
(* whatever is registered, unregistered, answered or refused, in any order *)
(* and for any number of registrations.                                    *)
THEOREM HandlersCounted == Spec => []Inv
<1>1. All /\ Counted => Inv
  BY AllInv
<1> QED BY <1>1, Always, PTL

(* A handler that was told of success and is still registered is notified: *)
(* bt_gatt_client_unregister_notify switches the CCC off only when it has  *)
(* been the last one, those that enable_ccc_callback is about to tell      *)
(* included.                                                               *)
THEOREM SubscribersNotified == Spec => []SubscribersEnabled
<1>1. ASSUME All, Counted PROVE SubscribersEnabled
  <2> SUFFICES ASSUME "overlap" \notin usage, Told # {} PROVE ccc
    BY DEF SubscribersEnabled, Told
  <2>1. TypeOK /\ HandlerInv
    BY <1>1 DEF All, Base
  <2>2. /\ Cardinality(Told) \in Nat /\ Cardinality(Told) > 0
        /\ Cardinality(Gone) \in Nat
        /\ draining = <<>> => Gone = {}
        /\ Gone = {} => Cardinality(Gone) = 0
    BY <1>1, Sizes
  <2>3. notify_count \in Int
    BY <2>1, Types
  <2>4. ~ chrc_freed
    BY <2>1 DEF HandlerInv, Told
  <2>5. notify_count + Cardinality(Gone) = Cardinality(Told)
    BY <1>1, <2>4 DEF Counted
  <2>6. CASE draining = <<>>
    <3>1. notify_count > 0
      BY <2>2, <2>3, <2>5, <2>6
    <3> QED BY <2>1, <3>1 DEF HandlerInv
  <2>7. CASE draining # <<>>
    BY <2>1, <2>7 DEF HandlerInv
  <2> QED BY <2>6, <2>7
<1> QED BY <1>1, Always, PTL

=============================================================================
