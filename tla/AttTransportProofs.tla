------------------------- MODULE AttTransportProofs -------------------------
(***************************************************************************)
(* Proofs about AttTransport, for any set of operations, any timer regime, *)
(* any peer and any bound on the PDUs in flight: its invariants, and that  *)
(* it implements the service of AttService.                                *)
(***************************************************************************)
EXTENDS AttTransport, SequenceTheorems, TLAPS

-----------------------------------------------------------------------------
(* What the queue operations do to the set of queued operations.           *)

(* queue_push_tail adds exactly the pushed op.                             *)
LEMMA AppendSet ==
  ASSUME NEW q \in Seq(Ops), NEW o \in Ops
  PROVE  /\ Append(q, o) \in Seq(Ops)
         /\ Append(q, o) # <<>>
         /\ ToSet(Append(q, o)) = ToSet(q) \union {o}
         /\ IsInjective(q) /\ o \notin ToSet(q) => IsInjective(Append(q, o))
<1> DEFINE a == Append(q, o)
<1>1. /\ a \in Seq(Ops) /\ a # <<>> /\ Len(a) = Len(q) + 1
      /\ DOMAIN a = 1 .. Len(q) + 1 /\ DOMAIN q = 1 .. Len(q) /\ Len(q) \in Nat
      /\ \A k \in 1 .. Len(q) : a[k] = q[k]
      /\ a[Len(q) + 1] = o
  BY AppendProperties, LenProperties
<1> HIDE DEF a
<1>2. ToSet(a) = ToSet(q) \union {o}
  BY <1>1 DEF ToSet
<1>3. IsInjective(q) /\ o \notin ToSet(q) => IsInjective(a)
  BY <1>1 DEF ToSet, IsInjective
<1> QED BY <1>1, <1>2, <1>3 DEF a

(* queue_push_head adds exactly the pushed op.                             *)
LEMMA PrependSet ==
  ASSUME NEW q \in Seq(Ops), NEW o \in Ops
  PROVE  /\ <<o>> \o q \in Seq(Ops)
         /\ <<o>> \o q # <<>>
         /\ ToSet(<<o>> \o q) = ToSet(q) \union {o}
         /\ IsInjective(q) /\ o \notin ToSet(q) => IsInjective(<<o>> \o q)
<1> DEFINE a == <<o>> \o q
<1>0. <<o>> \in Seq(Ops) /\ Len(<<o>>) = 1 /\ <<o>>[1] = o
  OBVIOUS
<1>1. /\ a \in Seq(Ops) /\ Len(a) = Len(q) + 1
      /\ DOMAIN a = 1 .. Len(q) + 1 /\ DOMAIN q = 1 .. Len(q) /\ Len(q) \in Nat
      /\ \A k \in 2 .. Len(q) + 1 : a[k] = q[k - 1]
      /\ a[1] = o
  BY <1>0, ConcatProperties, LenProperties
<1> HIDE DEF a
<1>2. ToSet(a) = ToSet(q) \union {o}
  <2>1. \A k \in DOMAIN q : a[k + 1] = q[k] /\ k + 1 \in DOMAIN a
    BY <1>1
  <2>2. 1 \in DOMAIN a
    BY <1>1
  <2>3. \A k \in DOMAIN a : k = 1 \/ (k - 1 \in DOMAIN q /\ a[k] = q[k - 1])
    BY <1>1
  <2>4. ASSUME NEW x PROVE x \in ToSet(a) <=> x = o \/ x \in ToSet(q)
    <3>1. ASSUME x \in ToSet(a) PROVE x = o \/ x \in ToSet(q)
      BY <1>1, <2>3, <3>1 DEF ToSet
    <3>2. ASSUME x = o PROVE x \in ToSet(a)
      BY <1>1, <2>2, <3>2 DEF ToSet
    <3>3. ASSUME x \in ToSet(q) PROVE x \in ToSet(a)
      BY <2>1, <3>3 DEF ToSet
    <3> QED BY <3>1, <3>2, <3>3
  <2> QED BY <2>4
<1>3. IsInjective(q) /\ o \notin ToSet(q) => IsInjective(a)
  <2> SUFFICES ASSUME IsInjective(q), o \notin ToSet(q),
                      NEW j \in DOMAIN a, NEW k \in DOMAIN a, a[j] = a[k]
               PROVE  j = k
    BY DEF IsInjective
  <2>1. \A m \in DOMAIN q : q[m] # o
    BY DEF ToSet
  <2>2. \A m, n \in DOMAIN q : q[m] = q[n] => m = n
    BY DEF IsInjective
  <2>3. \A m \in DOMAIN a :
          m \in Nat /\ (m = 1 \/ (m - 1 \in DOMAIN q /\ a[m] = q[m - 1]))
    BY <1>1
  <2>4. CASE j = 1 \/ k = 1
    BY <1>1, <2>1, <2>3, <2>4
  <2>5. CASE j # 1 /\ k # 1
    <3>1. j - 1 = k - 1
      BY <2>2, <2>3, <2>5
    <3> QED BY <2>3, <3>1
  <2> QED BY <2>4, <2>5
<1>4. a # <<>>
  BY <1>1
<1> QED BY <1>1, <1>2, <1>3, <1>4 DEF a

(* queue_pop_head takes away exactly the head.                             *)
LEMMA TailSet ==
  ASSUME NEW q \in Seq(Ops), q # <<>>
  PROVE  /\ Head(q) \in Ops
         /\ Head(q) \in ToSet(q)
         /\ Tail(q) \in Seq(Ops)
         /\ IsInjective(q) => /\ IsInjective(Tail(q))
                              /\ ToSet(Tail(q)) = ToSet(q) \ {Head(q)}
<1> DEFINE t == Tail(q)
<1>1. /\ t \in Seq(Ops) /\ Len(t) = Len(q) - 1
      /\ DOMAIN t = 1 .. Len(q) - 1 /\ DOMAIN q = 1 .. Len(q)
      /\ Len(q) \in Nat /\ Len(q) >= 1
      /\ \A k \in 1 .. Len(q) - 1 : t[k] = q[k + 1]
      /\ Head(q) = q[1] /\ q[1] \in Ops
  BY HeadTailProperties, LenProperties, EmptySeq, ElementOfSeq
<1> HIDE DEF t
<1>2. 1 \in DOMAIN q
  BY <1>1
<1>3. ASSUME IsInjective(q) PROVE IsInjective(t)
  <2>1. \A m, n \in DOMAIN q : q[m] = q[n] => m = n
    BY <1>3 DEF IsInjective
  <2>2. \A k \in DOMAIN t : k \in Int /\ k + 1 \in DOMAIN q /\ t[k] = q[k + 1]
    BY <1>1
  <2>3. \A m, n \in DOMAIN t : t[m] = t[n] => m = n
    BY <2>1, <2>2
  <2> QED BY <2>3 DEF IsInjective
<1>4. ASSUME IsInjective(q) PROVE ToSet(t) = ToSet(q) \ {q[1]}
  <2>1. \A m, n \in DOMAIN q : q[m] = q[n] => m = n
    BY <1>4 DEF IsInjective
  <2>2. \A k \in DOMAIN t : k + 1 \in DOMAIN q /\ t[k] = q[k + 1] /\ k + 1 # 1
    BY <1>1
  <2>3. \A k \in DOMAIN q : k # 1 => k - 1 \in DOMAIN t /\ t[k - 1] = q[k]
    BY <1>1
  <2> QED BY <1>2, <2>1, <2>2, <2>3 DEF ToSet
<1> QED BY <1>1, <1>2, <1>3, <1>4 DEF ToSet, t

(* An empty queue holds nothing.                                           *)
LEMMA EmptySet ==
  /\ <<>> \in Seq(Ops)
  /\ ToSet(<<>>) = {}
  /\ IsInjective(<<>>)
BY DEF ToSet, IsInjective

(* A part of a queue.                                                      *)
LEMMA PartOfQueue ==
  ASSUME NEW q \in Seq(Ops), NEW m \in 1 .. Len(q) + 1, NEW n \in 0 .. Len(q),
         m <= n + 1
  PROVE  /\ SubSeq(q, m, n) \in Seq(Ops)
         /\ Len(SubSeq(q, m, n)) = n - m + 1
         /\ \A k \in 1 .. n - m + 1 : SubSeq(q, m, n)[k] = q[m + k - 1]
<1>1. Len(q) \in Nat /\ m \in Int /\ n \in Int
  BY LenProperties
<1>2. \A j \in m .. n : q[j] \in Ops
  BY <1>1, ElementOfSeq
<1>3. /\ SubSeq(q, m, n) \in Seq(Ops)
      /\ Len(SubSeq(q, m, n)) = IF m <= n THEN n - m + 1 ELSE 0
      /\ \A k \in 1 .. n - m + 1 : SubSeq(q, m, n)[k] = q[m + k - 1]
  BY <1>1, <1>2, SubSeqProperties
<1>4. (IF m <= n THEN n - m + 1 ELSE 0) = n - m + 1
  BY <1>1
<1> QED BY <1>3, <1>4

(* Unlinking the i-th entry shifts the later ones and keeps the rest.      *)
LEMMA RemoveAtProperties ==
  ASSUME NEW q \in Seq(Ops), NEW i \in 1 .. Len(q)
  PROVE  /\ RemoveAt(q, i) \in Seq(Ops)
         /\ DOMAIN RemoveAt(q, i) = 1 .. Len(q) - 1
         /\ \A k \in 1 .. i - 1 : RemoveAt(q, i)[k] = q[k]
         /\ \A k \in i .. Len(q) - 1 : RemoveAt(q, i)[k] = q[k + 1]
<1> DEFINE r == RemoveAt(q, i)
           b == SubSeq(q, 1, i - 1)
           c == SubSeq(q, i + 1, Len(q))
<1>1. Len(q) \in Nat /\ i \in Nat /\ 1 <= i /\ i <= Len(q)
  BY LenProperties
<1>2. /\ b \in Seq(Ops) /\ Len(b) = i - 1
      /\ \A k \in 1 .. i - 1 : b[k] = q[k]
  <2>1. 1 \in 1 .. Len(q) + 1 /\ i - 1 \in 0 .. Len(q) /\ 1 <= (i - 1) + 1
    BY <1>1
  <2>2. /\ b \in Seq(Ops) /\ Len(b) = (i - 1) - 1 + 1
        /\ \A k \in 1 .. (i - 1) - 1 + 1 : b[k] = q[1 + k - 1]
    BY <2>1, PartOfQueue
  <2> HIDE DEF b
  <2> QED BY <1>1, <2>2
<1>3. /\ c \in Seq(Ops) /\ Len(c) = Len(q) - i
      /\ \A k \in 1 .. Len(q) - i : c[k] = q[i + k]
  <2>1. /\ i + 1 \in 1 .. Len(q) + 1 /\ Len(q) \in 0 .. Len(q)
        /\ i + 1 <= Len(q) + 1
    BY <1>1
  <2>2. /\ c \in Seq(Ops) /\ Len(c) = Len(q) - (i + 1) + 1
        /\ \A k \in 1 .. Len(q) - (i + 1) + 1 : c[k] = q[(i + 1) + k - 1]
    BY <2>1, PartOfQueue
  <2> HIDE DEF c
  <2> QED BY <1>1, <2>2
<1>4. r = b \o c
  BY DEF RemoveAt
<1> HIDE DEF r, b, c
<1>5. /\ r \in Seq(Ops) /\ Len(r) = Len(b) + Len(c)
      /\ \A k \in 1 .. Len(b) + Len(c) :
           r[k] = IF k <= Len(b) THEN b[k] ELSE c[k - Len(b)]
  BY <1>2, <1>3, <1>4, ConcatProperties
<1>6. Len(b) + Len(c) = Len(q) - 1 /\ DOMAIN r = 1 .. Len(q) - 1
  BY <1>1, <1>2, <1>3, <1>5, LenProperties
<1>7. ASSUME NEW k \in 1 .. i - 1 PROVE r[k] = q[k]
  <2>1. k \in 1 .. Len(b) + Len(c) /\ k <= Len(b)
    BY <1>1, <1>2, <1>3
  <2> QED BY <1>2, <1>5, <2>1
<1>8. ASSUME NEW k \in i .. Len(q) - 1 PROVE r[k] = q[k + 1]
  <2>1. /\ k \in 1 .. Len(b) + Len(c) /\ ~ (k <= Len(b))
        /\ k - Len(b) \in 1 .. Len(q) - i /\ i + (k - Len(b)) = k + 1
    BY <1>1, <1>2, <1>3
  <2>2. r[k] = c[k - Len(b)]
    BY <1>5, <2>1
  <2> QED BY <1>3, <2>1, <2>2
<1> QED BY <1>5, <1>6, <1>7, <1>8 DEF r

(* queue_remove_if takes away exactly the op it looks for.                 *)
LEMMA RemoveSet ==
  ASSUME NEW q \in Seq(Ops), NEW o
  PROVE  /\ RemoveFrom(q, o) \in Seq(Ops)
         /\ IsInjective(q) => /\ IsInjective(RemoveFrom(q, o))
                              /\ ToSet(RemoveFrom(q, o)) = ToSet(q) \ {o}
<1>1. CASE o \notin ToSet(q)
  BY <1>1 DEF RemoveFrom
<1>2. CASE o \in ToSet(q)
  <2> DEFINE i == CHOOSE k \in DOMAIN q : q[k] = o
             r == RemoveAt(q, i)
  <2>1. i \in DOMAIN q /\ q[i] = o
    BY <1>2 DEF ToSet
  <2>2. RemoveFrom(q, o) = r
    BY <1>2 DEF RemoveFrom
  <2>3. i \in 1 .. Len(q) /\ Len(q) \in Nat /\ DOMAIN q = 1 .. Len(q)
    BY <2>1, LenProperties
  <2> HIDE DEF i
  <2>4. /\ r \in Seq(Ops) /\ DOMAIN r = 1 .. Len(q) - 1
        /\ \A k \in 1 .. i - 1 : r[k] = q[k]
        /\ \A k \in i .. Len(q) - 1 : r[k] = q[k + 1]
    BY <2>3, RemoveAtProperties
  <2> HIDE DEF r
  <2> SUFFICES ASSUME IsInjective(q)
               PROVE  IsInjective(r) /\ ToSet(r) = ToSet(q) \ {o}
    BY <2>2, <2>4
  <2>5. \A m, n \in DOMAIN q : q[m] = q[n] => m = n
    BY DEF IsInjective
  <2>6. IsInjective(r)
    <3> DEFINE old(k) == IF k < i THEN k ELSE k + 1
    <3>1. \A k \in DOMAIN r : old(k) \in DOMAIN q /\ r[k] = q[old(k)]
      BY <2>3, <2>4
    <3>2. \A k, m \in DOMAIN r : old(k) = old(m) => k = m
      BY <2>3, <2>4
    <3> HIDE DEF old
    <3>3. \A k, m \in DOMAIN r : r[k] = r[m] => k = m
      BY <2>5, <3>1, <3>2
    <3> QED BY <3>3 DEF IsInjective
  <2>7. \A k \in DOMAIN r : \E m \in DOMAIN q : m # i /\ r[k] = q[m]
    <3> TAKE k \in DOMAIN r
    <3>1. CASE k < i
      BY <3>1, <2>3, <2>4
    <3>2. CASE k >= i
      <4>1. k + 1 \in DOMAIN q /\ k + 1 # i /\ r[k] = q[k + 1]
        BY <3>2, <2>3, <2>4
      <4> QED BY <4>1
    <3> QED BY <3>1, <3>2, <2>3, <2>4
  <2>8. \A m \in DOMAIN q : m # i => \E k \in DOMAIN r : r[k] = q[m]
    <3> TAKE m \in DOMAIN q
    <3>1. CASE m < i
      BY <3>1, <2>3, <2>4
    <3>2. CASE m > i
      <4>1. m - 1 \in DOMAIN r /\ r[m - 1] = q[m]
        BY <3>2, <2>3, <2>4
      <4> QED BY <4>1
    <3> QED BY <3>1, <3>2, <2>3
  <2>9. ToSet(r) = ToSet(q) \ {o}
    BY <2>1, <2>5, <2>7, <2>8 DEF ToSet
  <2> QED BY <2>6, <2>9
<1> QED BY <1>1, <1>2

(* A queue of operations holds operations.                                 *)
LEMMA SetOfQueue == ASSUME NEW q \in Seq(Ops) PROVE ToSet(q) \subseteq Ops
BY ElementOfSeq, LenProperties DEF ToSet

-----------------------------------------------------------------------------
(* Type correctness.                                                       *)

(* A bearer fresh from bt_att_new is well typed.                           *)
LEMMA InitTypeOK == Init => TypeOK
<1> SUFFICES ASSUME Init PROVE TypeOK
  OBVIOUS
<1>1. <<>> \in Seq(PDU) /\ <<>> \in Seq(Ops)
  BY EmptySeq
<1>2. busy \in [h : {"idle", "rsp", "conf", "wfail", "notify"}, op : OpOrNone]
  BY DEF Init, Idle, OpOrNone
<1>3. called \in [Ops -> Nat] /\ released \in [Ops -> Nat]
  BY DEF Init
<1> QED BY <1>1, <1>2, <1>3, ConstantsOK DEF Init, TypeOK, OpOrNone

(* destroy_att_send_op keeps the bookkeeping of ops well typed.             *)
LEMMA DestroyType ==
  ASSUME TypeOK, NEW S, Destroy(S)
  PROVE  released' \in [Ops -> Nat] /\ armed' \subseteq Ops /\ live' \subseteq Ops
BY DEF TypeOK, Destroy

(* So does bt_att_cancel_all, which also empties the queues.               *)
LEMMA DropAllType ==
  ASSUME TypeOK, DropAll
  PROVE  /\ released' \in [Ops -> Nat] /\ armed' \subseteq Ops
         /\ write_queue' \in Seq(Ops) /\ req_queue' \in Seq(Ops)
         /\ ind_queue' \in Seq(Ops)
BY EmptySet DEF TypeOK, DropAll

(* bt_att_send leaves queues of operations.                                *)
LEMMA EnqueueType ==
  ASSUME TypeOK, NEW o \in Ops, Enqueue(o)
  PROVE  /\ write_queue' \in Seq(Ops) /\ req_queue' \in Seq(Ops)
         /\ ind_queue' \in Seq(Ops)
BY AppendSet DEF TypeOK, Enqueue

(* pick_next_send_op yields an operation and leaves queues of operations.  *)
LEMMA PickNextType ==
  ASSUME TypeOK, NEW o \in Ops, PickNext(o)
  PROVE  /\ write_queue' \in Seq(Ops) /\ req_queue' \in Seq(Ops)
         /\ ind_queue' \in Seq(Ops)
BY TailSet DEF TypeOK, PickNext

(* Running a callback keeps the history and the busy handler well typed.   *)
LEMMA InvokeType ==
  ASSUME TypeOK, NEW op \in armed, NEW h \in {"rsp", "conf", "wfail"}, Invoke(op, h)
  PROVE  /\ called' \in [Ops -> Nat]
         /\ busy' \in [h : {"idle", "rsp", "conf", "wfail", "notify"}, op : OpOrNone]
BY DEF TypeOK, Invoke, OpOrNone

(* The inbox stays a sequence of PDUs as they arrive and are read.         *)
LEMMA InboxType ==
  ASSUME TypeOK
  PROVE  /\ inbox # <<>> => Head(inbox) \in PDU /\ Tail(inbox) \in Seq(PDU)
         /\ \A p \in PDU : Append(inbox, p) \in Seq(PDU)
BY HeadTailProperties, AppendProperties DEF TypeOK

(* wakeup_writer leaves a Boolean flag.                                    *)
LEMMA WakeupType ==
  ASSUME TypeOK, WakeupWriter PROVE writer_active' \in BOOLEAN
BY DEF TypeOK, WakeupWriter, Open, Sendable

(* Every step keeps TypeOK.                                                *)
LEMMA NextTypeOK == TypeOK /\ [Next]_vars => TypeOK'
<1> SUFFICES ASSUME TypeOK, [Next]_vars PROVE TypeOK'
  OBVIOUS
<1> USE DEF vars, queues, pending, history, memory, peer, local, OpOrNone
<1>1. ASSUME NEW o \in Ops, Send(o) PROVE TypeOK'
  BY <1>1, EnqueueType, WakeupType DEF Send, NewOp, TypeOK
<1>2. ASSUME NEW o \in Ops, CancelPending(o) PROVE TypeOK'
  BY <1>2 DEF CancelPending, TypeOK
<1>3. ASSUME NEW o \in Ops, CancelQueued(o) PROVE TypeOK'
  <2>1. /\ write_queue' \in Seq(Ops) /\ req_queue' \in Seq(Ops)
        /\ ind_queue' \in Seq(Ops)
    BY <1>3, RemoveSet DEF CancelQueued, TypeOK
  <2>2. released' \in [Ops -> Nat] /\ armed' \subseteq Ops /\ live' \subseteq Ops
    BY <1>3, DestroyType DEF CancelQueued
  <2>3. writer_active' \in BOOLEAN
    BY <1>3, WakeupType DEF CancelQueued
  <2>4. UNCHANGED <<io, pending, in_req, security, busy, history, peer>>
    BY <1>3 DEF CancelQueued
  <2> QED BY <2>1, <2>2, <2>3, <2>4 DEF TypeOK
<1>4. ASSUME CancelAll PROVE TypeOK'
  <2>1. /\ write_queue' \in Seq(Ops) /\ req_queue' \in Seq(Ops)
        /\ ind_queue' \in Seq(Ops)
        /\ released' \in [Ops -> Nat] /\ armed' \subseteq Ops
    BY <1>4, DropAllType DEF CancelAll
  <2>2. live' \subseteq Ops
    BY <1>4 DEF CancelAll, TypeOK
  <2>3. UNCHANGED <<io, pending, writer_active, in_req, security, busy,
                    history, peer>>
    BY <1>4 DEF CancelAll
  <2> QED BY <2>1, <2>2, <2>3 DEF TypeOK
<1>5. ASSUME NEW level \in ApiLevels, SetSecurity(level) PROVE TypeOK'
  BY <1>5, ConstantsOK DEF SetSecurity, TypeOK
<1>6. ASSUME Unref PROVE TypeOK'
  BY <1>6, DropAllType, EmptySeq DEF Unref, TypeOK
<1>7. ASSUME WriteNothing PROVE TypeOK'
  BY <1>7 DEF WriteNothing, TypeOK
<1>8. ASSUME NEW o \in Ops, WriteSent(o) PROVE TypeOK'
  BY <1>8, PickNextType, DestroyType DEF WriteSent, Writing, TypeOK
<1>9. ASSUME NEW o \in Ops, WriteFailed(o) PROVE TypeOK'
  <2>1. released' \in [Ops -> Nat] /\ armed' \subseteq Ops /\ live' \subseteq Ops
    BY <1>9, DestroyType DEF WriteFailed, Invoke, TypeOK
  <2>2. /\ called' \in [Ops -> Nat]
        /\ busy' \in [h : {"idle", "rsp", "conf", "wfail", "notify"}, op : OpOrNone]
    BY <1>9, InvokeType DEF WriteFailed, HasCallback, TypeOK
  <2> QED BY <1>9, <2>1, <2>2, PickNextType DEF WriteFailed, Writing, TypeOK
<1>10. ASSUME WriteFailedDone PROVE TypeOK'
  BY <1>10, DestroyType DEF WriteFailedDone, Idle, TypeOK
<1>11. ASSUME ReadUnexpected PROVE TypeOK'
  BY <1>11, InboxType DEF ReadUnexpected, Reading, Shutdown, TypeOK
<1>12. ASSUME ReadRetry PROVE TypeOK'
  <2>1. req_queue' \in Seq(Ops)
    BY <1>12, PrependSet DEF ReadRetry, TypeOK
  <2>2. writer_active' \in BOOLEAN
    BY <1>12, WakeupType DEF ReadRetry
  <2>3. security' \in Levels /\ inbox' \in Seq(PDU)
    BY <1>12, InboxType DEF ReadRetry, Reading, WantedLevel, Levels
  <2>4. /\ UNCHANGED <<io, write_queue, ind_queue, pending_ind, in_req, busy,
                       history, memory, air, peer_waits>>
        /\ pending_req' = None
    BY <1>12 DEF ReadRetry
  <2> QED BY <2>1, <2>2, <2>3, <2>4 DEF TypeOK
<1>13. ASSUME ReadResponse PROVE TypeOK'
  <2>1. released' \in [Ops -> Nat] /\ armed' \subseteq Ops /\ live' \subseteq Ops
    BY <1>13, DestroyType DEF ReadResponse, Invoke, TypeOK
  <2>2. /\ called' \in [Ops -> Nat]
        /\ busy' \in [h : {"idle", "rsp", "conf", "wfail", "notify"}, op : OpOrNone]
        /\ pending_req' \in OpOrNone
    BY <1>13, InvokeType DEF ReadResponse, HasCallback, TypeOK
  <2> QED BY <1>13, <2>1, <2>2, InboxType, WakeupType
          DEF ReadResponse, Reading, TypeOK
<1>14. ASSUME ResponseDone PROVE TypeOK'
  BY <1>14, DestroyType, WakeupType DEF ResponseDone, Idle, TypeOK
<1>15. ASSUME ReadConf PROVE TypeOK'
  <2>1. released' \in [Ops -> Nat] /\ armed' \subseteq Ops /\ live' \subseteq Ops
    BY <1>15, DestroyType DEF ReadConf, Invoke, TypeOK
  <2>2. /\ called' \in [Ops -> Nat]
        /\ busy' \in [h : {"idle", "rsp", "conf", "wfail", "notify"}, op : OpOrNone]
        /\ pending_ind' \in OpOrNone
    BY <1>15, InvokeType DEF ReadConf, HasCallback, TypeOK
  <2> QED BY <1>15, <2>1, <2>2, InboxType, WakeupType DEF ReadConf, Reading, TypeOK
<1>16. ASSUME ConfDone PROVE TypeOK'
  BY <1>16, DestroyType, WakeupType DEF ConfDone, Idle, TypeOK
<1>17. ASSUME ReadNotify PROVE TypeOK'
  BY <1>17, InboxType DEF ReadNotify, Reading, TypeOK
<1>18. ASSUME NotifyDone PROVE TypeOK'
  BY <1>18 DEF NotifyDone, Idle, TypeOK
<1>19. ASSUME NEW o \in Ops, ReadNotSupported(o) PROVE TypeOK'
  BY <1>19, InboxType, EnqueueType, WakeupType
     DEF ReadNotSupported, Reading, NewOp, TypeOK
<1>20. ASSUME NEW o \in Ops, Timeout(o) PROVE TypeOK'
  BY <1>20, DestroyType DEF Timeout, Shutdown, TypeOK
<1>21. ASSUME Disconnect PROVE TypeOK'
  BY <1>21, DropAllType, EmptySeq DEF Disconnect, TypeOK
<1>22. ASSUME NEW o \in Ops, PeerAnswers(o) PROVE TypeOK'
  BY <1>22, InboxType DEF PeerAnswers, Answers, Answer, PDU, TypeOK
<1>23. ASSUME PeerSpeaks PROVE TypeOK'
  <2>1. Unsolicited("REQ") \in PDU /\ Unsolicited("OTHER") \in PDU
    BY DEF Unsolicited, Answer, PDU
  <2>2. inbox' \in Seq(PDU)
    BY <1>23, <2>1, InboxType DEF PeerSpeaks
  <2>3. peer_waits' \in BOOLEAN
    BY <1>23 DEF PeerSpeaks, TypeOK
  <2>4. UNCHANGED <<io, local, air>>
    BY <1>23 DEF PeerSpeaks
  <2> QED BY <2>2, <2>3, <2>4 DEF TypeOK
<1>24. ASSUME PeerMisbehaves PROVE TypeOK'
  <2>1. /\ \A kind \in {"RSP", "CONF", "BADCONF", "REQ"} : Unsolicited(kind) \in PDU
        /\ Answer("ERR", "encryption", None) \in PDU
    BY DEF Unsolicited, Answer, PDU
  <2>2. inbox' \in Seq(PDU)
    BY <1>24, <2>1, InboxType DEF PeerMisbehaves
  <2> QED BY <1>24, <2>2 DEF PeerMisbehaves, TypeOK
<1>25. ASSUME PeerHangsUp PROVE TypeOK'
  BY <1>25 DEF PeerHangsUp, TypeOK
<1>26. CASE UNCHANGED vars
  BY <1>26 DEF TypeOK
<1> QED
  BY <1>1, <1>2, <1>3, <1>4, <1>5, <1>6, <1>7, <1>8, <1>9, <1>10, <1>11,
     <1>12, <1>13, <1>14, <1>15, <1>16, <1>17, <1>18, <1>19, <1>20, <1>21,
     <1>22, <1>23, <1>24, <1>25, <1>26
     DEF Next, Api, Write, Read, Return, Peer

(* TypeOK holds throughout.                                                *)
THEOREM TypeCorrect == Spec => []TypeOK
BY InitTypeOK, NextTypeOK, PTL DEF Spec

-----------------------------------------------------------------------------
(* NoLostWakeup is inductive next to TypeOK: each step that makes an op    *)
(* sendable (a push, a retry, a freed pending slot) ends in wakeup_writer, *)
(* and the flag is cleared only when nothing is sendable or the bearer is  *)
(* gone.                                                                   *)
LEMMA NextNoLostWakeup ==
  TypeOK /\ NoLostWakeup /\ [Next]_vars => NoLostWakeup'
<1> SUFFICES ASSUME TypeOK, NoLostWakeup, [Next]_vars PROVE NoLostWakeup'
  OBVIOUS
<1> USE DEF vars, queues, pending, history, memory, peer, local, NoLostWakeup,
            Sendable, Open
<1>1. ASSUME WakeupWriter, io' = io PROVE NoLostWakeup'
  BY <1>1 DEF WakeupWriter, TypeOK
<1>2. ASSUME UNCHANGED <<io, queues, pending, writer_active>> PROVE NoLostWakeup'
  BY <1>2
<1>3. CASE Api
  <2>1. ASSUME NEW o \in Ops, Send(o) \/ CancelPending(o) \/ CancelQueued(o)
        PROVE NoLostWakeup'
    BY <2>1, <1>1, <1>2 DEF Send, CancelPending, CancelQueued
  <2>2. ASSUME CancelAll PROVE NoLostWakeup'
    BY <2>2 DEF CancelAll, DropAll
  <2>3. ASSUME Unref PROVE NoLostWakeup'
    BY <2>3 DEF Unref
  <2>4. ASSUME NEW level \in ApiLevels, SetSecurity(level) PROVE NoLostWakeup'
    BY <2>4, <1>2 DEF SetSecurity
  <2> QED BY <1>3, <2>1, <2>2, <2>3, <2>4 DEF Api
<1>4. CASE Write
  <2>1. ASSUME WriteNothing PROVE NoLostWakeup'
    BY <2>1 DEF WriteNothing
  <2>2. ASSUME NEW o \in Ops, WriteSent(o) \/ WriteFailed(o)
        PROVE writer_active'
    BY <2>2 DEF WriteSent, WriteFailed, Writing
  <2> QED BY <1>4, <2>1, <2>2 DEF Write
<1>5. CASE Read
  <2>1. ASSUME ReadUnexpected PROVE NoLostWakeup'
    BY <2>1 DEF ReadUnexpected, Reading, Shutdown
  <2>2. ASSUME ReadRetry PROVE NoLostWakeup'
    BY <2>2, <1>1 DEF ReadRetry
  <2>3. ASSUME ReadResponse PROVE NoLostWakeup'
    BY <2>3, <1>1, <1>2 DEF ReadResponse
  <2>4. ASSUME ReadConf PROVE NoLostWakeup'
    BY <2>4, <1>1, <1>2 DEF ReadConf
  <2>5. ASSUME ReadNotify PROVE NoLostWakeup'
    BY <2>5, <1>2 DEF ReadNotify
  <2>6. ASSUME NEW o \in Ops, ReadNotSupported(o) PROVE NoLostWakeup'
    BY <2>6, <1>1 DEF ReadNotSupported
  <2> QED BY <1>5, <2>1, <2>2, <2>3, <2>4, <2>5, <2>6 DEF Read
<1>6. CASE Return
  <2>1. ASSUME WriteFailedDone \/ NotifyDone PROVE NoLostWakeup'
    BY <2>1, <1>2 DEF WriteFailedDone, NotifyDone
  <2>2. ASSUME ResponseDone \/ ConfDone PROVE NoLostWakeup'
    BY <2>2, <1>1 DEF ResponseDone, ConfDone
  <2> QED BY <1>6, <2>1, <2>2 DEF Return
<1>7. CASE Peer
  BY <1>7, <1>2 DEF Peer, PeerAnswers, PeerSpeaks, PeerMisbehaves, PeerHangsUp
<1>8. ASSUME NEW o \in Ops, Timeout(o) PROVE NoLostWakeup'
  BY <1>8 DEF Timeout, Shutdown
<1>9. CASE Disconnect
  BY <1>9 DEF Disconnect
<1>10. CASE UNCHANGED vars
  BY <1>10
<1> QED
  BY <1>3, <1>4, <1>5, <1>6, <1>7, <1>8, <1>9, <1>10 DEF Next

(* Nothing sendable is ever left without a writer, whatever order callers, *)
(* callbacks, answers, timeouts and disconnections come in.                *)
THEOREM WriterNeverStalls == Spec => []NoLostWakeup
<1>1. Init => NoLostWakeup
  BY DEF Init, NoLostWakeup, Sendable
<1> QED BY <1>1, TypeCorrect, NextNoLostWakeup, PTL DEF Spec

-----------------------------------------------------------------------------
(* Inv: where each op is, and what has been done with its handlers.        *)

(* A fresh bearer has no op anywhere.                                      *)
LEMMA InitInv == Init => Inv
<1> SUFFICES ASSUME Init PROVE Inv
  OBVIOUS
<1>1. TypeOK
  BY InitTypeOK
<1>2. HandlersOnce
  BY DEF Init, HandlersOnce
<1>3. Queued = {} /\ Pending = {} /\ Held = {}
  BY EmptySet DEF Init, Queued, Pending, Held, Idle
<1>4. Conservation
  BY <1>3, EmptySet DEF Init, Conservation
<1>5. BusyOK
  BY DEF Init, BusyOK, Idle
<1> QED BY <1>1, <1>2, <1>4, <1>5 DEF Inv

(* bt_att_send of a new op: nothing else holds it.                         *)
LEMMA NewOpInv ==
  ASSUME Inv, NEW o \in Ops, NewOp(o), Enqueue(o),
         UNCHANGED <<called, released, pending_req, pending_ind>>,
         UNCHANGED busy
  PROVE  HandlersOnce' /\ Conservation' /\ BusyOK'
<1> USE DEF Inv
<1>1. o \notin used /\ o \notin live /\ o \notin armed /\ released[o] = 0 /\ called[o] = 0
  BY DEF NewOp, HandlersOnce, BusyOK, TypeOK
<1>2. o \notin Queued /\ o \notin Pending /\ o \notin Held
  BY <1>1 DEF Conservation
<1>3. Queued' = Queued \union {o}
  BY AppendSet DEF TypeOK, Enqueue, Queued
<1>4. HandlersOnce'
  BY <1>1 DEF HandlersOnce, NewOp
<1>5. Conservation'
  <2>1. Pending' = Pending /\ Held' = Held
    BY DEF Pending, Held
  <2>2. live' = Queued' \union Pending' \union Held'
    BY <2>1, <1>3 DEF Conservation, NewOp
  <2>3. /\ IsInjective(write_queue') /\ IsInjective(req_queue')
        /\ IsInjective(ind_queue')
    BY <1>2, AppendSet DEF Conservation, Enqueue, Queued, TypeOK
  <2>4. /\ \A p \in ToSet(req_queue') \union ({pending_req} \ {None}) : Type[p] = "REQ"
        /\ \A p \in ToSet(ind_queue') \union ({pending_ind} \ {None}) : Type[p] = "IND"
        /\ \A p \in ToSet(write_queue') : Type[p] \notin {"REQ", "IND"}
    BY AppendSet DEF Conservation, Enqueue, TypeOK
  <2> QED BY <1>2, <1>3, <2>1, <2>2, <2>3, <2>4 DEF Conservation
<1>6. BusyOK'
  BY <1>1 DEF BusyOK, NewOp
<1> QED BY <1>4, <1>5, <1>6

(* The pop of an op from its queue, before anything is done with it.       *)
LEMMA PickNextSet ==
  ASSUME TypeOK, Conservation, NEW o \in Ops, PickNext(o)
  PROVE  /\ o \in Queued
         /\ Queued' = Queued \ {o}
         /\ IsInjective(write_queue') /\ IsInjective(req_queue')
         /\ IsInjective(ind_queue')
         /\ ToSet(write_queue') \subseteq ToSet(write_queue)
         /\ ToSet(req_queue') \subseteq ToSet(req_queue)
         /\ ToSet(ind_queue') \subseteq ToSet(ind_queue)
         /\ Type[o] = "REQ" => pending_req = None
         /\ Type[o] = "IND" => pending_ind = None
<1>1. CASE o \in ToSet(write_queue) /\ write_queue # <<>> /\ o = Head(write_queue)
           /\ write_queue' = Tail(write_queue) /\ UNCHANGED <<req_queue, ind_queue>>
  <2>1. /\ ToSet(write_queue') = ToSet(write_queue) \ {o}
        /\ IsInjective(write_queue')
    BY <1>1, TailSet DEF TypeOK, Conservation
  <2>2. Type[o] \notin {"REQ", "IND"} /\ o \notin ToSet(req_queue)
        /\ o \notin ToSet(ind_queue)
    BY <1>1 DEF Conservation
  <2> QED BY <1>1, <2>1, <2>2 DEF Queued, Conservation
<1>2. CASE o \in ToSet(req_queue) /\ req_queue # <<>> /\ o = Head(req_queue)
           /\ req_queue' = Tail(req_queue) /\ pending_req = None
           /\ UNCHANGED <<write_queue, ind_queue>>
  <2>1. /\ ToSet(req_queue') = ToSet(req_queue) \ {o}
        /\ IsInjective(req_queue')
    BY <1>2, TailSet DEF TypeOK, Conservation
  <2>2. Type[o] = "REQ" /\ o \notin ToSet(write_queue)
        /\ o \notin ToSet(ind_queue)
    BY <1>2 DEF Conservation
  <2> QED BY <1>2, <2>1, <2>2 DEF Queued, Conservation
<1>3. CASE o \in ToSet(ind_queue) /\ ind_queue # <<>> /\ o = Head(ind_queue)
           /\ ind_queue' = Tail(ind_queue) /\ pending_ind = None
           /\ UNCHANGED <<write_queue, req_queue>>
  <2>1. /\ ToSet(ind_queue') = ToSet(ind_queue) \ {o}
        /\ IsInjective(ind_queue')
    BY <1>3, TailSet DEF TypeOK, Conservation
  <2>2. Type[o] = "IND" /\ o \notin ToSet(write_queue)
        /\ o \notin ToSet(req_queue)
    BY <1>3 DEF Conservation
  <2> QED BY <1>3, <2>1, <2>2 DEF Queued, Conservation
<1> QED BY <1>1, <1>2, <1>3, TailSet DEF PickNext, TypeOK

(* The end of an op's life: its handlers come off and it is freed.         *)
LEMMA DestroyHandlers ==
  ASSUME TypeOK, HandlersOnce, NEW S, S \subseteq live, Destroy(S), used' = used,
         called' = called
  PROVE  HandlersOnce'
BY DEF TypeOK, HandlersOnce, Destroy

(* Removing queued or pending ops from play keeps the rest of Conservation *)
(* as it was.                                                              *)
LEMMA ShrinkConservation ==
  ASSUME Conservation,
         ToSet(write_queue') \subseteq ToSet(write_queue),
         ToSet(req_queue') \subseteq ToSet(req_queue),
         ToSet(ind_queue') \subseteq ToSet(ind_queue),
         IsInjective(write_queue'), IsInjective(req_queue'), IsInjective(ind_queue'),
         pending_req' \in {pending_req, None}, pending_ind' \in {pending_ind, None},
         Held' = Held \/ (Held' = {} /\ Held \intersect live' = {}),
         live' = Queued' \union Pending' \union Held'
  PROVE  Conservation'
<1>1. Queued' \subseteq Queued /\ Pending' \subseteq Pending /\ Held' \subseteq Held
  BY DEF Queued, Pending
<1> QED BY <1>1 DEF Conservation

(* bt_att_cancel_all and the disconnection, which does the same.           *)
LEMMA DropAllInv ==
  ASSUME Inv, DropAll, live' = live \ Queued,
         UNCHANGED <<pending_req, pending_ind, busy, used, called>>
  PROVE  HandlersOnce' /\ Conservation' /\ BusyOK'
<1> USE DEF Inv
<1>1. HandlersOnce'
  BY DEF HandlersOnce, DropAll, Conservation, TypeOK
<1>2. Conservation'
  <2>1. /\ ToSet(write_queue') = {} /\ ToSet(req_queue') = {} /\ ToSet(ind_queue') = {}
        /\ IsInjective(write_queue') /\ IsInjective(req_queue')
        /\ IsInjective(ind_queue')
    BY EmptySet DEF DropAll
  <2>2. Queued' = {} /\ Pending' = Pending /\ Held' = Held
    BY <2>1 DEF Queued, Pending, Held
  <2>3. live' = Pending \union Held
    BY DEF Conservation
  <2> QED BY <2>1, <2>2, <2>3, ShrinkConservation
<1>3. BusyOK'
  BY DEF BusyOK, DropAll
<1> QED BY <1>1, <1>2, <1>3

(* The callback of an armed op starts while no other handler is busy.      *)
LEMMA InvokeHandlers ==
  ASSUME Inv, busy = Idle, NEW op \in armed, NEW h, Invoke(op, h), used' = used
  PROVE  /\ HandlersOnce'
         /\ \A o \in Ops : called'[o] > 0 =>
              o \in used' /\ (o \in armed' => busy'.op = o)
<1> USE DEF Inv
<1>1. op \in Ops /\ op # None /\ called[op] = 0
  <2>1. op \in Ops /\ op # None
    BY ConstantsOK DEF TypeOK
  <2>2. ~ called[op] > 0
    BY <2>1 DEF BusyOK, Idle
  <2>3. called[op] \in Nat
    BY <2>1 DEF TypeOK
  <2> QED BY <2>1, <2>2, <2>3
<1>2. /\ called' = [called EXCEPT ![op] = 1] /\ busy'.op = op
      /\ UNCHANGED <<live, armed, released>>
  BY <1>1 DEF Invoke, memory
<1>3. op \in used
  BY DEF HandlersOnce
<1>4. \A o \in Ops : o # op => called'[o] = called[o]
  BY <1>2 DEF TypeOK
<1>5. called'[op] = 1
  BY <1>1, <1>2 DEF TypeOK
<1>6. \A o \in Ops : o # op /\ called[o] > 0 => o \in used /\ o \notin armed
  BY <1>1, ConstantsOK DEF BusyOK, Idle
<1> QED BY <1>2, <1>3, <1>4, <1>5, <1>6 DEF HandlersOnce

(* A pending op is done with: its slot is cleared, the op destroyed.       *)
LEMMA EndPending ==
  ASSUME Inv, NEW o \in Pending, Destroy({o}), o \notin Held,
         pending_req' = IF pending_req = o THEN None ELSE pending_req,
         pending_ind' = IF pending_ind = o THEN None ELSE pending_ind,
         Held' = Held, UNCHANGED <<queues, used, called>>
  PROVE  HandlersOnce' /\ Conservation'
<1> USE DEF Inv, queues
<1>1. o \in live /\ o \notin Queued
  BY DEF Conservation
<1>2. HandlersOnce'
  BY <1>1, DestroyHandlers
<1>3. Queued' = Queued /\ Pending' = Pending \ {o}
  BY DEF Queued, Pending
<1>4. live' = Queued' \union Pending' \union Held'
  BY <1>1, <1>3 DEF Destroy, Conservation
<1>5. Conservation'
  BY <1>4, ShrinkConservation DEF Conservation
<1> QED BY <1>2, <1>5

(* A request and an indication are never the same op.                      *)
LEMMA PendingDistinct ==
  ASSUME Conservation
  PROVE  pending_req # None => pending_req # pending_ind
BY DEF Conservation

(* Nothing Inv speaks of changes.                                          *)
LEMMA QuietStep ==
  ASSUME Inv, UNCHANGED <<queues, pending, history, memory>>,
         UNCHANGED busy \/ (busy.h \in {"idle", "notify"} /\ busy'.op = None
                            /\ busy'.h \in {"idle", "notify"})
  PROVE  HandlersOnce' /\ Conservation' /\ BusyOK'
<1> USE DEF queues, pending, history, memory
<1>1. Held' = Held /\ Queued' = Queued /\ Pending' = Pending
  BY DEF Held, Queued, Pending
<1> QED BY <1>1 DEF Inv, HandlersOnce, Conservation, BusyOK

(* Every step keeps Inv.                                                   *)
LEMMA NextInv == Inv /\ [Next]_vars => Inv'
<1> SUFFICES ASSUME Inv, [Next]_vars PROVE HandlersOnce' /\ Conservation' /\ BusyOK'
  BY NextTypeOK DEF Inv
<1> DEFINE Goal == HandlersOnce' /\ Conservation' /\ BusyOK'
<1>0. TypeOK /\ HandlersOnce /\ Conservation /\ BusyOK
  BY DEF Inv
<1> USE DEF queues, pending, history, memory, peer, local
<1>1. ASSUME NEW o \in Ops, Send(o) PROVE Goal
  BY <1>1, NewOpInv DEF Send
<1>2. ASSUME NEW o \in Ops, CancelPending(o) PROVE Goal
  <2>1. HandlersOnce'
    BY <1>0, <1>2 DEF CancelPending, HandlersOnce, Conservation, TypeOK
  <2>2. Held' = Held /\ Queued' = Queued /\ Pending' = Pending
    BY <1>2 DEF CancelPending, Held, Queued, Pending
  <2> QED BY <1>0, <1>2, <2>1, <2>2 DEF CancelPending, Conservation, BusyOK
<1>3. ASSUME NEW o \in Ops, CancelQueued(o) PROVE Goal
  <2>1. o \in live /\ o \notin Held
    BY <1>0, <1>3 DEF CancelQueued, Conservation
  <2>2. /\ ToSet(write_queue') = ToSet(write_queue) \ {o}
        /\ ToSet(req_queue') = ToSet(req_queue) \ {o}
        /\ ToSet(ind_queue') = ToSet(ind_queue) \ {o}
        /\ IsInjective(write_queue') /\ IsInjective(req_queue')
        /\ IsInjective(ind_queue')
    BY <1>0, <1>3, RemoveSet DEF CancelQueued, TypeOK, Conservation
  <2>3. HandlersOnce'
    BY <1>0, <1>3, <2>1, DestroyHandlers DEF CancelQueued
  <2>4. Held' = Held /\ Pending' = Pending /\ Queued' = Queued \ {o}
    BY <1>3, <2>2 DEF CancelQueued, Held, Pending, Queued
  <2>5. live' = Queued' \union Pending' \union Held'
    BY <1>0, <1>3, <2>1, <2>4 DEF CancelQueued, Destroy, Conservation
  <2>6. Conservation'
    BY <1>0, <1>3, <2>2, <2>4, <2>5, ShrinkConservation DEF CancelQueued
  <2>7. BusyOK'
    BY <1>0, <1>3 DEF CancelQueued, Destroy, BusyOK
  <2> QED BY <2>3, <2>6, <2>7
<1>4. CASE CancelAll \/ Disconnect
  BY <1>4, DropAllInv DEF CancelAll, Disconnect
<1>5. CASE Unref
  <2>1. Held = {} /\ Held' = {} /\ Pending' = {}
    BY <1>5 DEF Unref, Held, Idle, Pending
  <2>2. HandlersOnce'
    BY <1>0, <1>5 DEF Unref, DropAll, HandlersOnce, Conservation, TypeOK
  <2>3. Queued' = {} /\ Conservation'
    BY <1>0, <1>5, <2>1, EmptySet DEF Unref, DropAll, Queued, Conservation
  <2>4. BusyOK'
    BY <1>0, <1>5 DEF Unref, DropAll, BusyOK, Idle
  <2> QED BY <2>2, <2>3, <2>4
<1>6. ASSUME NEW o \in Ops, WriteSent(o) PROVE Goal
  <2>1. busy = Idle /\ PickNext(o) /\ UNCHANGED <<busy, used, called>>
    BY <1>6 DEF WriteSent, Writing
  <2>2. o \in Queued /\ o \in live /\ Held = {} /\ Held' = {} /\ o \notin Pending
    BY <1>0, <2>1, PickNextSet DEF Conservation, Held, Idle
  <2>3. CASE Type[o] \in {"REQ", "IND"}
    <3>1. UNCHANGED <<live, armed, released>>
      BY <1>6, <2>3 DEF WriteSent
    <3>2. Pending' = Pending \union {o}
      BY <1>0, <1>6, <2>1, <2>3, PickNextSet, ConstantsOK DEF WriteSent, Pending
    <3>3. HandlersOnce' /\ BusyOK'
      BY <1>0, <2>1, <3>1 DEF HandlersOnce, BusyOK, Idle
    <3>4. live' = Queued' \union Pending' \union Held'
      BY <1>0, <2>1, <2>2, <3>1, <3>2, PickNextSet DEF Conservation
    <3>5. Conservation'
      BY <1>0, <1>6, <2>1, <2>2, <2>3, <3>2, <3>4, PickNextSet
         DEF Conservation, WriteSent
    <3> QED BY <3>3, <3>5
  <2>4. CASE Type[o] \notin {"REQ", "IND"}
    <3>1. Destroy({o}) /\ UNCHANGED <<pending_req, pending_ind>>
      BY <1>6, <2>4 DEF WriteSent
    <3>2. HandlersOnce'
      BY <1>0, <2>1, <2>2, <3>1, DestroyHandlers
    <3>3. Pending' = Pending /\ live' = Queued' \union Pending' \union Held'
      BY <1>0, <2>1, <2>2, <3>1, PickNextSet DEF Pending, Destroy, Conservation
    <3>4. Conservation'
      BY <1>0, <2>1, <2>2, <3>1, <3>3, PickNextSet, ShrinkConservation
    <3>5. BusyOK'
      BY <1>0, <2>1, <3>1 DEF BusyOK, Destroy, Idle
    <3> QED BY <3>2, <3>4, <3>5
  <2> QED BY <2>3, <2>4
<1>7. ASSUME NEW o \in Ops, WriteFailed(o) PROVE Goal
  <2>1. busy = Idle /\ PickNext(o) /\ UNCHANGED <<used, pending_req, pending_ind>>
    BY <1>7 DEF WriteFailed, Writing
  <2>2. o \in Queued /\ o \in live /\ Held = {} /\ o \notin Pending /\ o # None
    BY <1>0, <2>1, PickNextSet, ConstantsOK DEF Conservation, Held, Idle
  <2>3. Pending' = Pending
    BY <2>1 DEF Pending
  <2>4. CASE HasCallback(o)
    <3>1. Invoke(o, "wfail") /\ o \in armed /\ Type[o] \in {"REQ", "IND"}
      BY <1>7, <2>4 DEF WriteFailed, HasCallback
    <3>2. busy'.h = "wfail" /\ busy'.op = o /\ Held' = {o}
          /\ UNCHANGED <<live, armed, released>>
      BY <3>1 DEF Invoke, Held
    <3>3. HandlersOnce' /\ BusyOK'
      BY <2>1, <2>2, <3>1, <3>2, InvokeHandlers DEF BusyOK
    <3>4. Conservation'
      BY <1>0, <2>1, <2>2, <2>3, <3>2, PickNextSet DEF Conservation
    <3> QED BY <3>3, <3>4
  <2>5. CASE ~ HasCallback(o)
    <3>1. Destroy({o}) /\ UNCHANGED <<busy, called>>
      BY <1>7, <2>5 DEF WriteFailed
    <3>2. Held' = {}
      BY <2>1, <3>1 DEF Held, Idle
    <3>3. HandlersOnce'
      BY <1>0, <2>1, <2>2, <3>1, DestroyHandlers
    <3>4. live' = Queued' \union Pending' \union Held'
      BY <1>0, <2>1, <2>2, <2>3, <3>1, <3>2, PickNextSet DEF Destroy, Conservation
    <3>5. Conservation'
      BY <1>0, <2>1, <2>2, <3>2, <3>4, PickNextSet, ShrinkConservation
    <3>6. BusyOK'
      BY <1>0, <2>1, <3>1 DEF BusyOK, Destroy, Idle
    <3> QED BY <3>3, <3>5, <3>6
  <2> QED BY <2>4, <2>5
<1>8. CASE WriteFailedDone
  <2>1. Held = {busy.op} /\ Held' = {} /\ busy.op \in live
    BY <1>0, <1>8 DEF WriteFailedDone, Held, Idle, Conservation
  <2>2. HandlersOnce'
    BY <1>0, <1>8, <2>1, DestroyHandlers DEF WriteFailedDone
  <2>3. Queued' = Queued /\ Pending' = Pending
    BY <1>8 DEF WriteFailedDone, Queued, Pending
  <2>4. Conservation'
    BY <1>0, <1>8, <2>1, <2>3 DEF WriteFailedDone, Destroy, Conservation
  <2>5. BusyOK'
    BY <1>0, <1>8 DEF WriteFailedDone, Destroy, BusyOK, Idle
  <2> QED BY <2>2, <2>4, <2>5
<1>9. CASE ReadRetry
  <2> DEFINE o == pending_req
  <2>1. o \in Ops /\ o # None /\ o \notin Queued /\ Type[o] = "REQ"
        /\ pending_ind # o
    BY <1>0, <1>9 DEF ReadRetry, TypeOK, OpOrNone, Conservation, Pending
  <2>2. /\ ToSet(req_queue') = ToSet(req_queue) \union {o}
        /\ IsInjective(req_queue')
    BY <1>0, <1>9, <2>1, PrependSet DEF ReadRetry, TypeOK, Conservation, Queued
  <2>3. Queued' = Queued \union {o} /\ Pending' = Pending \ {o} /\ Held' = Held
    BY <1>9, <2>1, <2>2 DEF ReadRetry, Queued, Pending, Held
  <2>4. o \in Pending /\ busy = Idle
    BY <1>9, <2>1 DEF ReadRetry, Reading, Pending
  <2>5. Conservation'
    BY <1>0, <1>9, <2>1, <2>2, <2>3, <2>4 DEF ReadRetry, Conservation
  <2>6. HandlersOnce' /\ BusyOK'
    BY <1>0, <1>9, <2>4 DEF ReadRetry, HandlersOnce, BusyOK, Idle
  <2> QED BY <2>5, <2>6
<1>10. CASE ReadResponse
  <2> DEFINE o == pending_req
  <2>1. o \in Pending /\ busy = Idle /\ Held = {} /\ o # pending_ind
    BY <1>0, <1>10, PendingDistinct DEF ReadResponse, Reading, Pending, Held, Idle
  <2>2. CASE HasCallback(o)
    <3>1. Invoke(o, "rsp") /\ o \in armed /\ UNCHANGED <<queues, pending, used>>
      BY <1>10, <2>2 DEF ReadResponse, HasCallback
    <3>2. busy'.h = "rsp" /\ busy'.op = o /\ Held' = {}
          /\ UNCHANGED <<live, armed, released>>
      BY <3>1 DEF Invoke, Held
    <3>3. HandlersOnce' /\ BusyOK'
      BY <2>1, <3>1, <3>2, InvokeHandlers DEF BusyOK, Pending
    <3>4. Queued' = Queued /\ Pending' = Pending
      BY <3>1 DEF Queued, Pending
    <3>5. Conservation'
      BY <1>0, <2>1, <3>1, <3>2, <3>4 DEF Conservation
    <3> QED BY <3>3, <3>5
  <2>3. CASE ~ HasCallback(o)
    <3>1. Destroy({o}) /\ pending_req' = None /\ UNCHANGED <<pending_ind, queues>>
          /\ UNCHANGED <<busy, used, called>>
      BY <1>10, <2>3 DEF ReadResponse
    <3>2. HandlersOnce' /\ Conservation'
      BY <2>1, <3>1, EndPending DEF Held
    <3>3. BusyOK'
      BY <1>0, <2>1, <3>1 DEF BusyOK, Idle, Destroy
    <3> QED BY <3>2, <3>3
  <2> QED BY <2>2, <2>3
<1>11. CASE ResponseDone
  <2>1. busy.op = pending_req /\ busy.op # None /\ Held = {} /\ Held' = {}
        /\ busy.op \in Pending /\ busy.op # pending_ind
    BY <1>0, <1>11, PendingDistinct
       DEF ResponseDone, BusyOK, Held, Idle, Pending
  <2>2. HandlersOnce' /\ Conservation'
    BY <1>11, <2>1, EndPending DEF ResponseDone
  <2>3. BusyOK'
    BY <1>0, <1>11 DEF ResponseDone, Destroy, BusyOK, Idle
  <2> QED BY <2>2, <2>3
<1>12. CASE ReadConf
  <2> DEFINE o == pending_ind
  <2>1. o \in Pending /\ busy = Idle /\ Held = {} /\ o # pending_req
    BY <1>0, <1>12, PendingDistinct DEF ReadConf, Reading, Pending, Held, Idle
  <2>2. CASE HasCallback(o)
    <3>1. Invoke(o, "conf") /\ o \in armed /\ UNCHANGED <<queues, pending, used>>
      BY <1>12, <2>2 DEF ReadConf, HasCallback
    <3>2. busy'.h = "conf" /\ busy'.op = o /\ Held' = {}
          /\ UNCHANGED <<live, armed, released>>
      BY <3>1 DEF Invoke, Held
    <3>3. HandlersOnce' /\ BusyOK'
      BY <2>1, <3>1, <3>2, InvokeHandlers DEF BusyOK, Pending
    <3>4. Queued' = Queued /\ Pending' = Pending
      BY <3>1 DEF Queued, Pending
    <3>5. Conservation'
      BY <1>0, <2>1, <3>1, <3>2, <3>4 DEF Conservation
    <3> QED BY <3>3, <3>5
  <2>3. CASE ~ HasCallback(o)
    <3>1. Destroy({o}) /\ pending_ind' = None /\ UNCHANGED <<pending_req, queues>>
          /\ UNCHANGED <<busy, used, called>>
      BY <1>12, <2>3 DEF ReadConf
    <3>2. HandlersOnce' /\ Conservation'
      BY <2>1, <3>1, EndPending DEF Held
    <3>3. BusyOK'
      BY <1>0, <2>1, <3>1 DEF BusyOK, Idle, Destroy
    <3> QED BY <3>2, <3>3
  <2> QED BY <2>2, <2>3
<1>13. CASE ConfDone
  <2>1. busy.op = pending_ind /\ busy.op # None /\ Held = {} /\ Held' = {}
        /\ busy.op \in Pending /\ busy.op # pending_req
    BY <1>0, <1>13, PendingDistinct
       DEF ConfDone, BusyOK, Held, Idle, Pending
  <2>2. HandlersOnce' /\ Conservation'
    BY <1>13, <2>1, EndPending DEF ConfDone
  <2>3. BusyOK'
    BY <1>0, <1>13 DEF ConfDone, Destroy, BusyOK, Idle
  <2> QED BY <2>2, <2>3
<1>14. ASSUME NEW o \in Ops, ReadNotSupported(o) PROVE Goal
  BY <1>14, NewOpInv DEF ReadNotSupported
<1>15. ASSUME NEW o \in Ops, Timeout(o) PROVE Goal
  <2>1. busy = Idle /\ Held = {} /\ Held' = {}
    BY <1>15 DEF Timeout, Held, Idle
  <2>2. pending_ind' = IF pending_ind = o THEN None ELSE pending_ind
    BY <1>0, <1>15, PendingDistinct DEF Timeout, Pending
  <2>3. HandlersOnce' /\ Conservation'
    BY <1>15, <2>1, <2>2, EndPending DEF Timeout
  <2>4. BusyOK'
    BY <1>0, <1>15 DEF Timeout, Destroy, BusyOK, Idle
  <2> QED BY <2>3, <2>4
<1>16. CASE Peer
  BY <1>16, QuietStep DEF Peer, PeerAnswers, PeerSpeaks, PeerMisbehaves, PeerHangsUp
<1>17. CASE WriteNothing \/ ReadUnexpected \/ \E level \in ApiLevels : SetSecurity(level)
  BY <1>17, QuietStep DEF WriteNothing, ReadUnexpected, SetSecurity
<1>18. CASE ReadNotify \/ NotifyDone
  BY <1>18, QuietStep DEF ReadNotify, Reading, NotifyDone, Idle
<1>19. CASE UNCHANGED vars
  BY <1>19, QuietStep DEF vars
<1> QED
  BY <1>1, <1>2, <1>3, <1>4, <1>5, <1>6, <1>7, <1>8, <1>9, <1>10, <1>11,
     <1>12, <1>13, <1>14, <1>15, <1>16, <1>17, <1>18, <1>19
     DEF Next, Api, Write, Read, Return

(* The handlers of every op, its place and the callback in progress agree  *)
(* throughout, whatever queues, slots, cancellations, timeouts and         *)
(* reentrant callbacks do: the invariant the other theorems lean on.       *)
THEOREM InvAlways == Spec => []Inv
BY InitInv, NextInv, PTL DEF Spec

(* Each op's callback runs at most once, and destroy exactly once between  *)
(* bt_att_send and the moment the op is freed.                             *)
THEOREM HandlersRunOnce == Spec => []HandlersOnce
BY InvAlways, PTL DEF Inv

(* No op is leaked, queued twice, or freed while something still holds it. *)
THEOREM OpsConserved == Spec => []Conservation
BY InvAlways, PTL DEF Inv

(* A callback never runs after destroy was given its user_data.            *)
THEOREM CallbackBeforeDestroy == Spec => NoCallbackAfterDestroy
<1>1. ASSUME Inv, [Next]_vars, NEW o \in Ops, called'[o] # called[o]
      PROVE  released[o] = 0
  <2>1. \A op \in armed : released[op] = 0
    BY <1>1 DEF Inv, HandlersOnce, TypeOK
  <2>2. \A op \in armed, h \in {"rsp", "conf", "wfail"} :
          Invoke(op, h) /\ called'[o] # called[o] => o = op
    BY <1>1 DEF Inv, TypeOK, Invoke
  <2>3. \E op \in armed, h \in {"rsp", "conf", "wfail"} : Invoke(op, h)
    <3> USE DEF vars, history, memory, queues, pending, peer, local
    <3>1. CASE Api
      BY <1>1, <3>1 DEF Api, Send, CancelPending, CancelQueued, CancelAll,
                        SetSecurity, Unref
    <3>2. CASE Write
      BY <1>1, <3>2 DEF Write, WriteNothing, WriteSent, WriteFailed, HasCallback
    <3>3. CASE Read
      BY <1>1, <3>3 DEF Read, ReadUnexpected, ReadRetry, ReadResponse, ReadConf,
                        ReadNotify, ReadNotSupported, HasCallback
    <3>4. CASE Return \/ Peer \/ Disconnect \/ \E p \in Ops : Timeout(p)
      BY <1>1, <3>4 DEF Return, WriteFailedDone, ResponseDone, ConfDone,
                        NotifyDone, Peer, PeerAnswers, PeerSpeaks,
                        PeerMisbehaves, PeerHangsUp, Disconnect, Timeout
    <3> QED BY <1>1, <3>1, <3>2, <3>3, <3>4 DEF Next
  <2> QED BY <1>1, <2>1, <2>2, <2>3
<1>2. Inv /\ [Next]_vars =>
        [\A o \in Ops : called'[o] # called[o] => released[o] = 0]_vars
  BY <1>1
<1> QED BY <1>2, InvAlways, PTL DEF Spec, NoCallbackAfterDestroy

-----------------------------------------------------------------------------
(* What a step of the sequential protocol leans on.                        *)

(* A caller answers a request of the peer once: at most one response is    *)
(* queued, and only while a request is being served.                       *)
OneResponse ==
  \A o, p \in Queued : Type[o] = "RSP" /\ Type[p] = "RSP" => o = p /\ in_req

(* Still without its answer: on the wire, and its callback not running.    *)
AwaitsRsp == pending_req # None /\ busy.h # "rsp"
AwaitsConf == pending_ind # None /\ busy.h # "conf"

(* The k-th PDU on its way to us is one the bearer is ready for.           *)
Understood(k) ==
  /\ inbox[k].kind # "BADCONF"
  /\ inbox[k].kind \in {"RSP", "ERR"} => AwaitsRsp /\ inbox[k].to = pending_req
  /\ inbox[k].kind = "CONF" => AwaitsConf /\ inbox[k].to = pending_ind
  /\ inbox[k].kind \in {"REQ", "OTHER"} => inbox[k].to = None
  /\ inbox[k].kind = "REQ" => peer_waits /\ ~ in_req
  /\ inbox[k].to \notin air

(* Two PDUs that answer the same op, or two requests.                      *)
Alike(p, q) ==
  \/ p.to # None /\ p.to = q.to
  \/ p.kind = "REQ" /\ q.kind = "REQ"

(* The strengthening of ConformingPeerUnderstood that every step keeps.    *)
InFlight ==
  PeerConforms /\ io = "up" =>
    /\ \A o \in air : \/ AwaitsRsp /\ o = pending_req
                      \/ AwaitsConf /\ o = pending_ind
    /\ \A k \in DOMAIN inbox : Understood(k)
    /\ \A j, k \in DOMAIN inbox : Alike(inbox[j], inbox[k]) => j = k
    /\ in_req => peer_waits

(* Reading takes the first PDU away and moves the others up.               *)
LEMMA TakeFirst ==
  ASSUME TypeOK, inbox # <<>>, inbox' = Tail(inbox)
  PROVE  /\ 1 \in DOMAIN inbox /\ inbox[1] = Head(inbox)
         /\ \A k \in DOMAIN inbox' :
              k \in Nat /\ k + 1 \in DOMAIN inbox /\ k + 1 # 1
              /\ inbox'[k] = inbox[k + 1]
<1>1. inbox \in Seq(PDU)
  BY DEF TypeOK
<1> QED BY <1>1, HeadTailProperties, LenProperties, EmptySeq

(* A PDU that arrives comes last.                                          *)
LEMMA AddLast ==
  ASSUME TypeOK, NEW p \in PDU, inbox' = Append(inbox, p)
  PROVE  /\ DOMAIN inbox' = DOMAIN inbox \union {Len(inbox) + 1}
         /\ Len(inbox) + 1 \notin DOMAIN inbox
         /\ inbox'[Len(inbox) + 1] = p
         /\ \A k \in DOMAIN inbox : inbox'[k] = inbox[k]
<1>1. inbox \in Seq(PDU)
  BY DEF TypeOK
<1> QED BY <1>1, AppendProperties, LenProperties

(* Every step keeps the bound on responses.                                *)
LEMMA NextOneResponse == Inv /\ OneResponse /\ [Next]_vars => OneResponse'
<1> SUFFICES ASSUME Inv, OneResponse, [Next]_vars PROVE OneResponse'
  OBVIOUS
<1> USE DEF queues, pending, history, memory, peer, local
<1>0. TypeOK /\ Conservation
  BY DEF Inv
<1>1. ASSUME Queued' \subseteq Queued, in_req' = in_req PROVE OneResponse'
  BY <1>1 DEF OneResponse
<1>2. ASSUME UNCHANGED queues, in_req => in_req' PROVE OneResponse'
  BY <1>2 DEF OneResponse, Queued
<1>3. ASSUME NEW o \in Ops, Enqueue(o), in_req => in_req',
             Type[o] = "RSP" => in_req' /\ NoResponseQueued
      PROVE  OneResponse'
  <2>1. Queued' = Queued \union {o}
    BY <1>0, <1>3, AppendSet DEF TypeOK, Enqueue, Queued
  <2> QED BY <1>3, <2>1 DEF OneResponse, NoResponseQueued
<1>4. ASSUME NEW o \in Ops, Send(o) PROVE OneResponse'
  BY <1>3, <1>4 DEF Send
<1>5. ASSUME NEW o \in Ops, CancelQueued(o) PROVE OneResponse'
  <2>1. Queued' \subseteq Queued
    BY <1>0, <1>5, RemoveSet DEF CancelQueued, Queued, TypeOK, Conservation
  <2> QED BY <1>1, <1>5, <2>1 DEF CancelQueued
<1>6. ASSUME CancelAll \/ Unref \/ Disconnect PROVE OneResponse'
  BY <1>1, <1>6, EmptySet DEF CancelAll, Unref, Disconnect, DropAll, Queued
<1>7. ASSUME NEW o \in Ops, WriteSent(o) PROVE OneResponse'
  <2>1. o \in Queued /\ Queued' = Queued \ {o}
    BY <1>0, <1>7, PickNextSet DEF WriteSent, Writing
  <2> QED BY <1>7, <2>1 DEF WriteSent, OneResponse
<1>8. ASSUME NEW o \in Ops, WriteFailed(o) PROVE OneResponse'
  <2>1. Queued' = Queued \ {o}
    BY <1>0, <1>8, PickNextSet DEF WriteFailed, Writing
  <2> QED BY <1>1, <1>8, <2>1 DEF WriteFailed
<1>9. CASE ReadRetry
  <2>1. pending_req \in Ops /\ Type[pending_req] = "REQ"
    BY <1>0, <1>9 DEF ReadRetry, TypeOK, OpOrNone, Conservation
  <2>2. Queued' = Queued \union {pending_req}
    BY <1>0, <1>9, <2>1, PrependSet DEF ReadRetry, TypeOK, Queued
  <2> QED BY <1>9, <2>1, <2>2 DEF ReadRetry, OneResponse
<1>10. ASSUME NEW o \in Ops, ReadNotSupported(o) PROVE OneResponse'
  <2>1. NoResponseQueued
    BY <1>10 DEF ReadNotSupported, OneResponse, NoResponseQueued
  <2> QED BY <1>3, <1>10, <2>1 DEF ReadNotSupported
<1>11. ASSUME NEW o \in Ops, CancelPending(o) \/ Timeout(o) PROVE OneResponse'
  BY <1>2, <1>11 DEF CancelPending, Timeout
<1>12. CASE ReadUnexpected \/ ReadResponse \/ ReadConf \/ ReadNotify
  BY <1>2, <1>12 DEF ReadUnexpected, ReadResponse, ReadConf, ReadNotify
<1>13. CASE Return \/ Peer \/ WriteNothing \/ \E level \in ApiLevels : SetSecurity(level)
  BY <1>2, <1>13
     DEF Return, WriteFailedDone, ResponseDone, ConfDone, NotifyDone, Peer,
         PeerAnswers, PeerSpeaks, PeerMisbehaves, PeerHangsUp, WriteNothing,
         SetSecurity
<1>14. CASE UNCHANGED vars
  BY <1>2, <1>14 DEF vars
<1> QED
  BY <1>4, <1>5, <1>6, <1>7, <1>8, <1>9, <1>10, <1>11, <1>12, <1>13, <1>14
     DEF Next, Api, Write, Read

(* Every step keeps InFlight.                                              *)
LEMMA NextInFlight ==
  Inv /\ OneResponse /\ InFlight /\ [Next]_vars => InFlight'
<1> SUFFICES ASSUME Inv, OneResponse, InFlight, [Next]_vars, PeerConforms, io' = "up"
             PROVE  InFlight'
  BY ConstantsOK DEF InFlight
<1> USE DEF queues, pending, history, memory, peer, local
<1>0. TypeOK /\ Conservation /\ BusyOK /\ PeerConforms' = PeerConforms
  BY DEF Inv
<1>1. CASE io # "up"
  BY <1>1 DEF Next, Api, Write, Read, Return, Peer, Send, CancelPending,
     CancelQueued, CancelAll, SetSecurity, Unref, WriteNothing, WriteSent,
     WriteFailed, WriteFailedDone, ReadUnexpected, Reading, ReadRetry,
     ReadResponse, ResponseDone, ReadConf, ConfDone, ReadNotify, NotifyDone,
     ReadNotSupported, PeerAnswers, PeerSpeaks, PeerMisbehaves, PeerHangsUp,
     Timeout, Shutdown, Disconnect, vars
<1> SUFFICES ASSUME io = "up" PROVE InFlight'
  BY <1>1
<1>2. /\ \A o \in air : (AwaitsRsp /\ o = pending_req) \/ (AwaitsConf /\ o = pending_ind)
      /\ \A k \in DOMAIN inbox : Understood(k)
      /\ \A j, k \in DOMAIN inbox : Alike(inbox[j], inbox[k]) => j = k
      /\ in_req => peer_waits
  BY DEF InFlight
<1>3. \A k \in DOMAIN inbox : inbox[k] \in PDU
  BY <1>0, ElementOfSeq, LenProperties DEF TypeOK
(* Nothing of the exchange with the peer changes, a callback may return.   *)
<1>4. ASSUME UNCHANGED <<pending, peer, in_req>>,
             busy' = busy \/ busy'.h \notin {"rsp", "conf"}
      PROVE  InFlight'
  BY <1>2, <1>4 DEF InFlight, Understood, Alike, AwaitsRsp, AwaitsConf
<1>5. ASSUME NEW o \in Ops, Send(o) \/ CancelPending(o) \/ CancelQueued(o)
      PROVE  InFlight'
  BY <1>4, <1>5 DEF Send, CancelPending, CancelQueued
<1>6. CASE CancelAll \/ WriteNothing \/ \E level \in ApiLevels : SetSecurity(level)
  BY <1>4, <1>6 DEF CancelAll, WriteNothing, SetSecurity
<1>7. CASE Unref \/ Disconnect \/ PeerHangsUp \/ ReadUnexpected
           \/ \E o \in Ops : Timeout(o)
  BY <1>7 DEF Unref, Disconnect, PeerHangsUp, ReadUnexpected, Timeout, Shutdown
<1>8. ASSUME NEW o \in Ops, WriteSent(o) PROVE InFlight'
  <2>1. /\ busy = Idle /\ UNCHANGED <<busy, inbox>> /\ PickNext(o)
        /\ pending_req' = IF Type[o] = "REQ" THEN o ELSE pending_req
        /\ pending_ind' = IF Type[o] = "IND" THEN o ELSE pending_ind
        /\ in_req' = (in_req /\ Type[o] # "RSP")
        /\ peer_waits' = (peer_waits /\ Type[o] # "RSP")
        /\ air' = IF Type[o] \in {"REQ", "IND"} THEN air \union {o} ELSE air
    BY <1>8 DEF WriteSent, Writing
  <2>2. o \in Queued /\ o \notin Pending /\ o # None
    BY <1>0, <2>1, PickNextSet, ConstantsOK DEF Conservation
  <2>3. CASE Type[o] = "REQ"
    <3>1. pending_req = None /\ ~ AwaitsRsp
      BY <1>0, <2>1, <2>3, PickNextSet DEF AwaitsRsp
    <3>2. /\ pending_req' = o /\ UNCHANGED <<pending_ind, in_req, peer_waits>>
          /\ air' = air \union {o} /\ AwaitsRsp' /\ AwaitsConf' = AwaitsConf
      BY <1>0, <2>1, <2>2, <2>3 DEF AwaitsRsp, AwaitsConf, Idle, TypeOK
    <3>3. \A k \in DOMAIN inbox : inbox[k].to # o /\ Understood(k)'
      BY <1>2, <1>3, <2>1, <2>2, <3>1, <3>2 DEF Understood, PDU, Pending
    <3> QED BY <1>2, <2>1, <3>1, <3>2, <3>3 DEF InFlight, Alike
  <2>4. CASE Type[o] = "IND"
    <3>1. pending_ind = None /\ ~ AwaitsConf
      BY <1>0, <2>1, <2>4, PickNextSet DEF AwaitsConf
    <3>2. /\ pending_ind' = o /\ UNCHANGED <<pending_req, in_req, peer_waits>>
          /\ air' = air \union {o} /\ AwaitsConf' /\ AwaitsRsp' = AwaitsRsp
      BY <1>0, <2>1, <2>2, <2>4 DEF AwaitsRsp, AwaitsConf, Idle, TypeOK
    <3>3. \A k \in DOMAIN inbox : inbox[k].to # o /\ Understood(k)'
      BY <1>2, <1>3, <2>1, <2>2, <3>1, <3>2 DEF Understood, PDU, Pending
    <3> QED BY <1>2, <2>1, <3>1, <3>2, <3>3 DEF InFlight, Alike
  <2>5. CASE Type[o] = "RSP"
    <3>1. in_req
      BY <2>2, <2>5 DEF OneResponse
    <3>2. /\ UNCHANGED <<pending, air>> /\ ~ in_req'
          /\ AwaitsConf' = AwaitsConf /\ AwaitsRsp' = AwaitsRsp
      BY <2>1, <2>5 DEF AwaitsRsp, AwaitsConf
    <3>3. \A k \in DOMAIN inbox : Understood(k)'
      BY <1>2, <2>1, <3>1, <3>2 DEF Understood
    <3> QED BY <1>2, <2>1, <3>2, <3>3 DEF InFlight, Alike
  <2>6. CASE Type[o] \notin {"REQ", "IND", "RSP"}
    <3>1. UNCHANGED <<pending, peer, in_req, busy>>
      BY <1>0, <2>1, <2>6 DEF TypeOK
    <3> QED BY <1>4, <3>1
  <2> QED BY <2>3, <2>4, <2>5, <2>6
<1>9. ASSUME NEW o \in Ops, WriteFailed(o) PROVE InFlight'
  BY <1>4, <1>9 DEF WriteFailed, Invoke
<1>10. CASE WriteFailedDone \/ NotifyDone
  BY <1>4, <1>10 DEF WriteFailedDone, NotifyDone, Idle
(* The first PDU has been read; what is said of the others.                *)
<1>11. ASSUME inbox # <<>>, inbox' = Tail(inbox)
       PROVE  /\ 1 \in DOMAIN inbox /\ inbox[1] = Head(inbox)
              /\ \A k \in DOMAIN inbox' :
                   /\ k + 1 \in DOMAIN inbox /\ inbox'[k] = inbox[k + 1]
                   /\ ~ Alike(inbox[1], inbox'[k])
              /\ \A j, k \in DOMAIN inbox' : Alike(inbox'[j], inbox'[k]) => j = k
  <2>1. /\ 1 \in DOMAIN inbox /\ inbox[1] = Head(inbox)
        /\ \A k \in DOMAIN inbox' :
             k \in Nat /\ k + 1 \in DOMAIN inbox /\ k + 1 # 1
             /\ inbox'[k] = inbox[k + 1]
    BY <1>0, <1>11, TakeFirst
  <2>2. \A k \in DOMAIN inbox' : ~ Alike(inbox[1], inbox'[k])
    BY <1>2, <2>1
  <2>3. \A j, k \in DOMAIN inbox' : Alike(inbox'[j], inbox'[k]) => j + 1 = k + 1
    BY <1>2, <2>1
  <2>4. \A j, k \in DOMAIN inbox' : Alike(inbox'[j], inbox'[k]) => j = k
    BY <2>1, <2>3
  <2> QED BY <2>1, <2>2, <2>4
(* An answer to the pending request has been read.                         *)
<1>12. ASSUME Reading({"RSP", "ERR"}), air' = air
       PROVE  /\ inbox[1].to = pending_req /\ pending_req # None
              /\ \A o \in air' : AwaitsConf /\ o = pending_ind
              /\ \A k \in DOMAIN inbox' :
                   /\ inbox'[k].kind \notin {"RSP", "ERR", "BADCONF"}
                   /\ inbox'[k].kind = "CONF" => AwaitsConf /\ inbox'[k].to = pending_ind
                   /\ inbox'[k].kind \in {"REQ", "OTHER"} => inbox'[k].to = None
                   /\ inbox'[k].kind = "REQ" => peer_waits /\ ~ in_req
                   /\ inbox'[k].to \notin air'
  <2>1. inbox # <<>> /\ inbox' = Tail(inbox) /\ Head(inbox).kind \in {"RSP", "ERR"}
    BY <1>12 DEF Reading
  <2>2. Understood(1) /\ inbox[1].kind \in {"RSP", "ERR"}
    BY <1>2, <1>11, <2>1
  <2>3. inbox[1].to = pending_req /\ pending_req # None /\ pending_req \notin air
    BY <2>2 DEF Understood, AwaitsRsp
  <2>4. ASSUME NEW k \in DOMAIN inbox'
        PROVE  inbox'[k].kind \notin {"RSP", "ERR"}
    BY <1>2, <1>11, <2>1, <2>3 DEF Understood, Alike
  <2> QED BY <1>2, <1>11, <1>12, <2>1, <2>3, <2>4 DEF Understood
<1>13. CASE ReadRetry
  <2>1. /\ Reading({"RSP", "ERR"}) /\ inbox # <<>> /\ inbox' = Tail(inbox)
        /\ pending_req' = None
        /\ UNCHANGED <<pending_ind, busy, in_req, peer_waits, air>>
    BY <1>13 DEF ReadRetry, Reading
  <2>2. AwaitsConf' = AwaitsConf
    BY <2>1 DEF AwaitsConf
  <2>3. \A k \in DOMAIN inbox' : Understood(k)'
    BY <1>12, <2>1, <2>2 DEF Understood
  <2> QED BY <1>2, <1>11, <1>12, <2>1, <2>2, <2>3 DEF InFlight
<1>14. CASE ReadResponse
  <2>1. /\ Reading({"RSP", "ERR"}) /\ inbox # <<>> /\ inbox' = Tail(inbox)
        /\ UNCHANGED <<pending_ind, in_req, peer_waits, air>>
        /\ busy' = busy \/ busy'.h = "rsp"
    BY <1>14 DEF ReadResponse, Reading, Invoke
  <2>2. AwaitsConf => AwaitsConf'
    BY <2>1 DEF AwaitsConf
  <2>3. \A k \in DOMAIN inbox' : Understood(k)'
    BY <1>12, <2>1, <2>2 DEF Understood
  <2> QED BY <1>2, <1>11, <1>12, <2>1, <2>2, <2>3 DEF InFlight
<1>15. CASE ResponseDone
  <2>1. /\ ~ AwaitsRsp /\ busy'.h = "idle"
        /\ UNCHANGED <<pending_ind, peer, in_req>>
    BY <1>15 DEF ResponseDone, AwaitsRsp, Idle
  <2>2. AwaitsConf => AwaitsConf'
    BY <2>1 DEF AwaitsConf
  <2>3. \A k \in DOMAIN inbox' : Understood(k)'
    BY <1>2, <2>1, <2>2 DEF Understood
  <2> QED BY <1>2, <2>1, <2>2, <2>3 DEF InFlight
<1>16. CASE ReadConf
  <2>1. /\ inbox # <<>> /\ inbox' = Tail(inbox) /\ Head(inbox).kind = "CONF"
        /\ UNCHANGED <<pending_req, in_req, peer_waits, air>>
        /\ busy' = busy \/ busy'.h = "conf"
    BY <1>16 DEF ReadConf, Reading, Invoke
  <2>2. AwaitsRsp => AwaitsRsp'
    BY <2>1 DEF AwaitsRsp
  <2>3. inbox[1].to = pending_ind /\ pending_ind # None /\ pending_ind \notin air
    BY <1>2, <1>11, <2>1 DEF Understood, AwaitsConf
  <2>4. ASSUME NEW k \in DOMAIN inbox'
        PROVE  inbox'[k].kind # "CONF"
    BY <1>2, <1>11, <2>1, <2>3 DEF Understood, Alike
  <2>5. \A k \in DOMAIN inbox' : Understood(k)'
    BY <1>2, <1>11, <2>1, <2>2, <2>4 DEF Understood
  <2> QED BY <1>2, <1>11, <2>1, <2>2, <2>3, <2>5 DEF InFlight
<1>17. CASE ConfDone
  <2>1. /\ ~ AwaitsConf /\ busy'.h = "idle"
        /\ UNCHANGED <<pending_req, peer, in_req>>
    BY <1>17 DEF ConfDone, AwaitsConf, Idle
  <2>2. AwaitsRsp => AwaitsRsp'
    BY <2>1 DEF AwaitsRsp
  <2>3. \A k \in DOMAIN inbox' : Understood(k)'
    BY <1>2, <2>1, <2>2 DEF Understood
  <2> QED BY <1>2, <2>1, <2>2, <2>3 DEF InFlight
(* A request of the peer, or a PDU that asks for nothing, has been read.   *)
<1>18. ASSUME Reading({"REQ", "OTHER"}), UNCHANGED <<pending, air, peer_waits>>,
              busy.h = "idle", busy'.h \in {"idle", "notify"},
              in_req' = (in_req \/ Head(inbox).kind = "REQ")
       PROVE  InFlight'
  <2>1. inbox # <<>> /\ inbox' = Tail(inbox)
    BY <1>18 DEF Reading
  <2>2. AwaitsRsp' = AwaitsRsp /\ AwaitsConf' = AwaitsConf
    BY <1>18 DEF AwaitsRsp, AwaitsConf
  <2>3. Head(inbox).kind = "REQ" =>
          peer_waits /\ \A k \in DOMAIN inbox' : inbox'[k].kind # "REQ"
    BY <1>2, <1>11, <2>1 DEF Understood, Alike
  <2>4. ASSUME NEW k \in DOMAIN inbox' PROVE Understood(k)'
    <3>1. inbox'[k] = inbox[k + 1] /\ Understood(k + 1)
      BY <1>2, <1>11, <2>1
    <3>2. inbox'[k].kind = "REQ" => ~ in_req'
      BY <1>18, <2>3, <3>1 DEF Understood
    <3> QED BY <1>18, <2>2, <3>1, <3>2 DEF Understood
  <2> QED BY <1>2, <1>11, <1>18, <2>1, <2>2, <2>3, <2>4 DEF InFlight
<1>19. CASE ReadNotify
  BY <1>18, <1>19 DEF ReadNotify, Reading, Idle
<1>20. ASSUME NEW o \in Ops, ReadNotSupported(o) PROVE InFlight'
  BY <1>18, <1>20 DEF ReadNotSupported, Reading, Idle
(* A PDU has arrived.                                                      *)
<1>21. ASSUME NEW p \in PDU, inbox' = Append(inbox, p),
              UNCHANGED <<pending, busy, in_req>>, peer_waits => peer_waits',
              air' \subseteq air, in_req => peer_waits',
              \A k \in DOMAIN inbox : ~ Alike(inbox[k], p) /\ ~ Alike(p, inbox[k]),
              p.kind # "BADCONF", p.to \notin air',
              p.kind \in {"RSP", "ERR"} => AwaitsRsp /\ p.to = pending_req,
              p.kind = "CONF" => AwaitsConf /\ p.to = pending_ind,
              p.kind \in {"REQ", "OTHER"} => p.to = None,
              p.kind = "REQ" => peer_waits' /\ ~ in_req
       PROVE  InFlight'
  <2>1. /\ DOMAIN inbox' = DOMAIN inbox \union {Len(inbox) + 1}
        /\ inbox'[Len(inbox) + 1] = p
        /\ \A k \in DOMAIN inbox : inbox'[k] = inbox[k]
    BY <1>0, <1>21, AddLast
  <2>2. AwaitsRsp' = AwaitsRsp /\ AwaitsConf' = AwaitsConf
    BY <1>21 DEF AwaitsRsp, AwaitsConf
  <2>3. \A k \in DOMAIN inbox' : Understood(k)'
    BY <1>2, <1>21, <2>1, <2>2 DEF Understood
  <2>4. \A j, k \in DOMAIN inbox' : Alike(inbox'[j], inbox'[k]) => j = k
    BY <1>2, <1>21, <2>1
  <2> QED BY <1>2, <1>21, <2>2, <2>3, <2>4 DEF InFlight
<1>22. ASSUME NEW o \in Ops, PeerAnswers(o) PROVE InFlight'
  <2>1. /\ o \in air /\ air' = air \ {o}
        /\ UNCHANGED <<pending, busy, in_req, peer_waits>>
    BY <1>22 DEF PeerAnswers
  <2>2. PICK p \in Answers(o) : inbox' = Append(inbox, p)
    BY <1>22 DEF PeerAnswers
  <2>3. p \in PDU /\ p.to = o /\ o # None
        /\ p.kind \in IF Type[o] = "IND" THEN {"CONF"} ELSE {"RSP", "ERR"}
    BY <2>2, ConstantsOK DEF Answers, Answer, PDU, OpOrNone
  <2>4. IF Type[o] = "IND" THEN AwaitsConf /\ o = pending_ind
                           ELSE AwaitsRsp /\ o = pending_req
    BY <1>0, <1>2, <2>1, <2>3 DEF Conservation
  <2>5. \A k \in DOMAIN inbox : inbox[k].to # o
    BY <1>2, <2>1 DEF Understood
  <2>6. \A k \in DOMAIN inbox : ~ Alike(inbox[k], p) /\ ~ Alike(p, inbox[k])
    BY <2>3, <2>5 DEF Alike
  <2> QED BY <1>2, <1>21, <2>1, <2>2, <2>3, <2>4, <2>6
<1>23. CASE PeerSpeaks
  <2>1. UNCHANGED <<pending, busy, in_req, air>>
    BY <1>23 DEF PeerSpeaks
  <2>2. None \notin air
    BY <1>0, ConstantsOK DEF TypeOK
  <2>3. CASE ~ peer_waits /\ peer_waits' = TRUE
             /\ inbox' = Append(inbox, Unsolicited("REQ"))
    <3> DEFINE p == Unsolicited("REQ")
    <3>1. p \in PDU /\ p.kind = "REQ" /\ p.to = None
      BY DEF Unsolicited, Answer, PDU, OpOrNone
    <3>2. \A k \in DOMAIN inbox : inbox[k].kind # "REQ"
      BY <1>2, <2>3 DEF Understood
    <3>3. \A k \in DOMAIN inbox : ~ Alike(inbox[k], p) /\ ~ Alike(p, inbox[k])
      BY <3>1, <3>2 DEF Alike
    <3> HIDE DEF p
    <3>4. inbox' = Append(inbox, p)
      BY <2>3 DEF p
    <3> QED BY <1>2, <1>21, <2>1, <2>2, <2>3, <3>1, <3>3, <3>4
  <2>4. CASE inbox' = Append(inbox, Unsolicited("OTHER")) /\ UNCHANGED peer_waits
    <3> DEFINE p == Unsolicited("OTHER")
    <3>1. p \in PDU /\ p.kind = "OTHER" /\ p.to = None
      BY DEF Unsolicited, Answer, PDU, OpOrNone
    <3>2. \A k \in DOMAIN inbox : ~ Alike(inbox[k], p) /\ ~ Alike(p, inbox[k])
      BY <3>1 DEF Alike
    <3> HIDE DEF p
    <3>3. inbox' = Append(inbox, p)
      BY <2>4 DEF p
    <3> QED BY <1>2, <1>21, <2>1, <2>2, <2>4, <3>1, <3>2, <3>3
  <2> QED BY <1>23, <2>3, <2>4 DEF PeerSpeaks
<1>24. CASE PeerMisbehaves
  BY <1>24 DEF PeerMisbehaves
<1>25. CASE UNCHANGED vars
  BY <1>4, <1>25 DEF vars
<1> QED
  BY <1>5, <1>6, <1>7, <1>8, <1>9, <1>10, <1>13, <1>14, <1>15, <1>16, <1>17,
     <1>19, <1>20, <1>22, <1>23, <1>24, <1>25
     DEF Next, Api, Write, Read, Return, Peer

(* With a peer that keeps to the protocol, every answer on its way belongs *)
(* to the op the bearer waits for and no request of the peer finds in_req  *)
(* set: handle_rsp, handle_conf and handle_notify never shut the bearer    *)
(* down for an unexpected PDU, whatever was cancelled, retried or sent     *)
(* meanwhile.                                                              *)
THEOREM PeerUnderstood == Spec => []ConformingPeerUnderstood
<1>1. Init => OneResponse /\ InFlight
  <2> SUFFICES ASSUME Init PROVE OneResponse /\ InFlight
    OBVIOUS
  <2>1. Queued = {} /\ DOMAIN inbox = {}
    BY EmptySet, LenProperties, EmptySeq DEF Init, Queued
  <2> QED BY <2>1 DEF Init, OneResponse, InFlight
<1>2. Inv /\ InFlight => ConformingPeerUnderstood
  <2> SUFFICES ASSUME Inv, InFlight, PeerConforms, io = "up"
               PROVE  /\ \A o \in air : Awaited(o)
                      /\ \A k \in DOMAIN inbox :
                           /\ inbox[k].to # None =>
                                Awaited(inbox[k].to) /\ inbox[k].to \notin air
                           /\ inbox[k].kind = "REQ" => ~ in_req
    BY DEF ConformingPeerUnderstood
  <2>1. \A k \in DOMAIN inbox : inbox[k] \in PDU
    BY ElementOfSeq, LenProperties DEF Inv, TypeOK
  <2> QED BY <2>1 DEF InFlight, Understood, Awaited, PDU
<1> QED BY <1>1, <1>2, InvAlways, NextOneResponse, NextInFlight, PTL DEF Spec

-----------------------------------------------------------------------------
(* The bearer of AttTransport implements the service of AttService: each   *)
(* of its steps is, through the refinement mapping, a step of the service  *)
(* or changes nothing the service shows.                                   *)

-----------------------------------------------------------------------------
(* Lines as sequences.                                                     *)

(* r is q without one occurrence of o.                                     *)
Without(r, q, o) == \E k \in DOMAIN q : q[k] = o /\ r = RemoveAt(q, k)

(* Two queues with the same entries are the same.                          *)
LEMMA SameQueue ==
  ASSUME NEW q \in Seq(Ops), NEW r \in Seq(Ops), DOMAIN q = DOMAIN r,
         \A k \in DOMAIN q : q[k] = r[k]
  PROVE  q = r
OBVIOUS

(* The entries of a queue with an op put before it.                        *)
LEMMA PrependedEntries ==
  ASSUME NEW q \in Seq(Ops), NEW a \in Ops
  PROVE  /\ <<a>> \o q \in Seq(Ops) /\ Len(<<a>> \o q) = Len(q) + 1
         /\ DOMAIN (<<a>> \o q) = 1 .. Len(q) + 1
         /\ (<<a>> \o q)[1] = a
         /\ \A k \in 1 .. Len(q) : (<<a>> \o q)[k + 1] = q[k]
<1> DEFINE s == <<a>> \o q
<1>0. <<a>> \in Seq(Ops) /\ Len(<<a>>) = 1 /\ <<a>>[1] = a
  OBVIOUS
<1>1. /\ s \in Seq(Ops) /\ Len(s) = Len(q) + 1 /\ DOMAIN s = 1 .. Len(q) + 1
      /\ Len(q) \in Nat /\ s[1] = a
      /\ \A k \in 2 .. Len(q) + 1 : s[k] = q[k - 1]
  BY <1>0, ConcatProperties, LenProperties
<1> HIDE DEF s
<1>2. \A k \in 1 .. Len(q) : s[k + 1] = q[k]
  BY <1>1
<1> QED BY <1>1, <1>2 DEF s

(* The entries of a tail.                                                  *)
LEMMA TailEntries ==
  ASSUME NEW q \in Seq(Ops), q # <<>>
  PROVE  /\ Tail(q) \in Seq(Ops) /\ Len(Tail(q)) = Len(q) - 1
         /\ DOMAIN Tail(q) = 1 .. Len(q) - 1
         /\ \A k \in 1 .. Len(q) - 1 : Tail(q)[k] = q[k + 1]
         /\ Head(q) = q[1] /\ 1 \in 1 .. Len(q) /\ Len(q) \in Nat
BY HeadTailProperties, LenProperties, EmptySeq

(* Unlinking the first entry.                                              *)
LEMMA UnlinkFirst ==
  ASSUME NEW q \in Seq(Ops), q # <<>>
  PROVE  RemoveAt(q, 1) = Tail(q)
<1> DEFINE r == RemoveAt(q, 1)
           t == Tail(q)
<1>1. /\ r \in Seq(Ops) /\ DOMAIN r = 1 .. Len(q) - 1
      /\ \A k \in 1 .. Len(q) - 1 : r[k] = q[k + 1]
  <2>1. 1 \in 1 .. Len(q)
    BY TailEntries
  <2> QED BY <2>1, RemoveAtProperties
<1>2. /\ t \in Seq(Ops) /\ DOMAIN t = 1 .. Len(q) - 1
      /\ \A k \in 1 .. Len(q) - 1 : t[k] = q[k + 1]
  BY TailEntries
<1> HIDE DEF r, t
<1>3. r = t
  BY <1>1, <1>2, SameQueue
<1> QED BY <1>3 DEF r, t

(* Unlinking a later entry and taking the tail commute.                    *)
LEMMA UnlinkLater ==
  ASSUME NEW q \in Seq(Ops), q # <<>>, NEW i \in 2 .. Len(q)
  PROVE  /\ RemoveAt(q, i) # <<>> /\ Head(RemoveAt(q, i)) = Head(q)
         /\ i - 1 \in DOMAIN Tail(q) /\ Tail(q)[i - 1] = q[i]
         /\ Tail(RemoveAt(q, i)) = RemoveAt(Tail(q), i - 1)
<1> DEFINE r == RemoveAt(q, i)
           t == Tail(q)
           n == Len(q)
           u == Tail(r)
           v == RemoveAt(t, i - 1)
<1>1. n \in Nat /\ i \in Nat /\ i \in 1 .. n /\ 1 \in 1 .. i - 1 /\ n >= 2
  BY LenProperties
<1>2. /\ r \in Seq(Ops) /\ DOMAIN r = 1 .. n - 1
      /\ \A k \in 1 .. i - 1 : r[k] = q[k]
      /\ \A k \in i .. n - 1 : r[k] = q[k + 1]
  BY <1>1, RemoveAtProperties
<1>3. /\ t \in Seq(Ops) /\ Len(t) = n - 1 /\ DOMAIN t = 1 .. n - 1
      /\ \A k \in 1 .. n - 1 : t[k] = q[k + 1]
      /\ Head(q) = q[1]
  BY TailEntries
<1> HIDE DEF r, t, n
<1>4. Len(r) = n - 1 /\ r # <<>>
  BY <1>1, <1>2, LenProperties, EmptySeq
<1>5. /\ u \in Seq(Ops) /\ DOMAIN u = 1 .. n - 2
      /\ \A k \in 1 .. n - 2 : u[k] = r[k + 1]
      /\ Head(r) = r[1]
  BY <1>1, <1>2, <1>4, TailEntries
<1>6. /\ v \in Seq(Ops) /\ DOMAIN v = 1 .. n - 2
      /\ \A k \in 1 .. i - 2 : v[k] = t[k]
      /\ \A k \in i - 1 .. n - 2 : v[k] = t[k + 1]
  <2>1. i - 1 \in 1 .. Len(t) /\ (i - 1) - 1 = i - 2 /\ Len(t) - 1 = n - 2
    BY <1>1, <1>3
  <2> QED BY <1>3, <2>1, RemoveAtProperties
<1> HIDE DEF u, v
<1>7. ASSUME NEW k \in 1 .. n - 2 PROVE u[k] = v[k]
  <2>1. CASE k <= i - 2
    <3>1. k + 1 \in 1 .. i - 1 /\ k \in 1 .. i - 2 /\ k \in 1 .. n - 1
      BY <1>1, <2>1
    <3> QED BY <1>2, <1>3, <1>5, <1>6, <3>1
  <2>2. CASE k > i - 2
    <3>1. k + 1 \in i .. n - 1 /\ k \in i - 1 .. n - 2 /\ k + 1 \in 1 .. n - 1
      BY <1>1, <2>2
    <3>2. u[k] = q[(k + 1) + 1]
      BY <1>2, <1>5, <3>1
    <3>3. v[k] = q[(k + 1) + 1]
      BY <1>3, <1>6, <3>1
    <3> QED BY <3>2, <3>3
  <2> QED BY <1>1, <2>1, <2>2
<1>8. u = v
  <2>1. DOMAIN u = DOMAIN v /\ \A k \in DOMAIN u : u[k] = v[k]
    BY <1>5, <1>6, <1>7
  <2> QED BY <1>5, <1>6, <2>1, SameQueue
<1>9. Head(r) = Head(q)
  BY <1>1, <1>2, <1>3, <1>5
<1>10. i - 1 \in DOMAIN t /\ t[i - 1] = q[i]
  BY <1>1, <1>3
<1> QED BY <1>4, <1>8, <1>9, <1>10 DEF r, t, u, v

(* Unlinking an entry behind an op put before the queue.                   *)
LEMMA UnlinkBehind ==
  ASSUME NEW q \in Seq(Ops), NEW a \in Ops, NEW i \in DOMAIN q
  PROVE  /\ i + 1 \in DOMAIN (<<a>> \o q) /\ (<<a>> \o q)[i + 1] = q[i]
         /\ RemoveAt(<<a>> \o q, i + 1) = <<a>> \o RemoveAt(q, i)
<1> DEFINE s == <<a>> \o q
           n == Len(q)
           r == RemoveAt(q, i)
           u == RemoveAt(s, i + 1)
           v == <<a>> \o r
<1>1. n \in Nat /\ i \in Nat /\ i \in 1 .. n /\ DOMAIN q = 1 .. n
  BY LenProperties
<1>2. /\ s \in Seq(Ops) /\ Len(s) = n + 1 /\ DOMAIN s = 1 .. n + 1
      /\ s[1] = a /\ \A k \in 1 .. n : s[k + 1] = q[k]
  BY PrependedEntries
<1>3. /\ r \in Seq(Ops) /\ DOMAIN r = 1 .. n - 1
      /\ \A k \in 1 .. i - 1 : r[k] = q[k]
      /\ \A k \in i .. n - 1 : r[k] = q[k + 1]
  BY <1>1, RemoveAtProperties
<1> HIDE DEF s, n, r
<1>4. Len(r) = n - 1
  BY <1>1, <1>3, LenProperties
<1>5. /\ v \in Seq(Ops) /\ DOMAIN v = 1 .. n
      /\ v[1] = a /\ \A k \in 1 .. n - 1 : v[k + 1] = r[k]
  <2>1. Len(r) + 1 = n
    BY <1>1, <1>4
  <2>2. /\ v \in Seq(Ops) /\ DOMAIN v = 1 .. Len(r) + 1
        /\ v[1] = a /\ \A k \in 1 .. Len(r) : v[k + 1] = r[k]
    BY <1>3, PrependedEntries
  <2> HIDE DEF v
  <2> QED BY <1>4, <2>1, <2>2
<1>6. /\ u \in Seq(Ops) /\ DOMAIN u = 1 .. n
      /\ \A k \in 1 .. i : u[k] = s[k]
      /\ \A k \in i + 1 .. n : u[k] = s[k + 1]
  <2>1. i + 1 \in 1 .. Len(s) /\ (i + 1) - 1 = i /\ Len(s) - 1 = n
    BY <1>1, <1>2
  <2> QED BY <1>2, <2>1, RemoveAtProperties
<1> HIDE DEF u, v
<1>7. ASSUME NEW k \in 1 .. n PROVE u[k] = v[k]
  <2>1. CASE k = 1
    BY <1>1, <1>2, <1>5, <1>6, <2>1
  <2>2. CASE 1 < k /\ k <= i
    <3>1. /\ k \in 1 .. i /\ k - 1 \in 1 .. n /\ k - 1 \in 1 .. n - 1
          /\ k - 1 \in 1 .. i - 1 /\ (k - 1) + 1 = k
      BY <1>1, <2>2
    <3>2. u[k] = q[k - 1]
      BY <1>2, <1>6, <3>1
    <3>3. v[k] = q[k - 1]
      BY <1>3, <1>5, <3>1
    <3> QED BY <3>2, <3>3
  <2>3. CASE i < k
    <3>1. /\ k \in i + 1 .. n /\ k \in 1 .. n /\ k - 1 \in 1 .. n - 1
          /\ k - 1 \in i .. n - 1 /\ (k - 1) + 1 = k
      BY <1>1, <2>3
    <3>2. u[k] = q[k]
      BY <1>2, <1>6, <3>1
    <3>3. v[k] = q[k]
      BY <1>3, <1>5, <3>1
    <3> QED BY <3>2, <3>3
  <2> QED BY <1>1, <2>1, <2>2, <2>3
<1>8. u = v
  BY <1>5, <1>6, <1>7, SameQueue
<1>9. i + 1 \in DOMAIN s /\ s[i + 1] = q[i]
  BY <1>1, <1>2
<1> QED BY <1>8, <1>9 DEF s, r, u, v

(* queue_remove_if on the line of the service an op stands in.             *)
LEMMA UnlinkFromLine ==
  ASSUME NEW q \in Seq(Ops), NEW o \in ToSet(q)
  PROVE  /\ Without(RemoveFrom(q, o), q, o)
         /\ \A a \in Ops : Without(<<a>> \o RemoveFrom(q, o), <<a>> \o q, o)
         /\ IsInjective(q) /\ o = Head(q) => RemoveFrom(q, o) = Tail(q)
         /\ o # Head(q) => /\ RemoveFrom(q, o) # <<>>
                           /\ Head(RemoveFrom(q, o)) = Head(q)
                           /\ Without(Tail(RemoveFrom(q, o)), Tail(q), o)
<1> DEFINE i == CHOOSE k \in DOMAIN q : q[k] = o
<1>1. i \in DOMAIN q /\ q[i] = o
  BY DEF ToSet
<1>2. RemoveFrom(q, o) = RemoveAt(q, i)
  BY DEF RemoveFrom
<1> HIDE DEF i
<1>3. Without(RemoveFrom(q, o), q, o)
  BY <1>1, <1>2 DEF Without
<1>4. ASSUME NEW a \in Ops PROVE Without(<<a>> \o RemoveFrom(q, o), <<a>> \o q, o)
  <2>1. /\ i + 1 \in DOMAIN (<<a>> \o q) /\ (<<a>> \o q)[i + 1] = o
        /\ RemoveAt(<<a>> \o q, i + 1) = <<a>> \o RemoveFrom(q, o)
    BY <1>1, <1>2, UnlinkBehind
  <2> QED BY <2>1 DEF Without
<1>5. q # <<>> /\ DOMAIN q = 1 .. Len(q) /\ Len(q) \in Nat /\ Head(q) = q[1]
  BY <1>1, LenProperties, EmptySeq, TailEntries
<1>6. ASSUME IsInjective(q), o = Head(q) PROVE RemoveFrom(q, o) = Tail(q)
  <2>1. i = 1
    BY <1>1, <1>5, <1>6 DEF IsInjective
  <2> QED BY <1>2, <1>5, <2>1, UnlinkFirst
<1>7. ASSUME o # Head(q)
      PROVE  /\ RemoveFrom(q, o) # <<>>
             /\ Head(RemoveFrom(q, o)) = Head(q)
             /\ Without(Tail(RemoveFrom(q, o)), Tail(q), o)
  <2>1. i \in 2 .. Len(q)
    BY <1>1, <1>5, <1>7
  <2> QED BY <1>1, <1>2, <1>5, <2>1, UnlinkLater DEF Without
<1> QED BY <1>3, <1>4, <1>6, <1>7

(* The head and tail of a queue an op is pushed to.                        *)
LEMMA HeadAppend ==
  ASSUME NEW q \in Seq(Ops), NEW o \in Ops
  PROVE  /\ q = <<>> => Head(Append(q, o)) = o /\ Tail(Append(q, o)) = <<>>
         /\ q # <<>> => /\ Head(Append(q, o)) = Head(q)
                        /\ Tail(Append(q, o)) = Append(Tail(q), o)
<1>1. CASE q = <<>>
  BY <1>1
<1>2. CASE q # <<>>
  <2>1. Head(Append(q, o)) = Head(q)
    BY <1>2
  <2>2. Tail(Append(q, o)) = Append(Tail(q), o)
    BY <1>2
  <2> QED BY <1>2, <2>1, <2>2
<1> QED BY <1>1, <1>2

(* An op put before a queue.                                               *)
LEMMA Prepended ==
  ASSUME NEW q \in Seq(Ops), NEW a \in Ops
  PROVE  /\ <<a>> \o q \in Seq(Ops) /\ <<a>> \o q # <<>>
         /\ Head(<<a>> \o q) = a /\ Tail(<<a>> \o q) = q
         /\ \A o \in Ops : <<a>> \o Append(q, o) = Append(<<a>> \o q, o)
         /\ q # <<>> => <<Head(q)>> \o Tail(q) = q
         /\ <<>> \o q = q
<1>1. <<a>> \o q \in Seq(Ops) /\ <<a>> \o q # <<>>
  OBVIOUS
<1>2. Head(<<a>> \o q) = a /\ Tail(<<a>> \o q) = q
  OBVIOUS
<1>3. ASSUME NEW o \in Ops PROVE <<a>> \o Append(q, o) = Append(<<a>> \o q, o)
  OBVIOUS
<1>4. q # <<>> => <<Head(q)>> \o Tail(q) = q
  OBVIOUS
<1>5. <<>> \o q = q
  OBVIOUS
<1> QED BY <1>1, <1>2, <1>3, <1>4, <1>5

-----------------------------------------------------------------------------
(* The state the service is in, seen through the refinement mapping, and   *)
(* what each of its actions asks of the bearer.                            *)

(* user_data has been given back for the ops whose handlers have come off. *)
LEMMA ReleasedSet ==
  ASSUME Inv, Inv'
  PROVE  /\ {o \in Ops : released[o] > 0} = used \ armed
         /\ {o \in Ops : released'[o] > 0} = used' \ armed'
BY DEF Inv, TypeOK, HandlersOnce

(* What a step does to one of the three lines.                             *)
LEMMA LineChange ==
  ASSUME NEW a, NEW b, NEW c, NEW x, NEW l \in {"REQ", "IND", "WRITE"}
  PROVE  LET line == [REQ |-> a, IND |-> b, WRITE |-> c]
         IN  /\ l = "REQ" =>
                  line[l] = a /\ [line EXCEPT ![l] = x] = [REQ |-> x, IND |-> b, WRITE |-> c]
             /\ l = "IND" =>
                  line[l] = b /\ [line EXCEPT ![l] = x] = [REQ |-> a, IND |-> x, WRITE |-> c]
             /\ l = "WRITE" =>
                  line[l] = c /\ [line EXCEPT ![l] = x] = [REQ |-> a, IND |-> b, WRITE |-> x]
<1> DEFINE line == [REQ |-> a, IND |-> b, WRITE |-> c]
<1>1. ASSUME l = "REQ"
      PROVE  line[l] = a /\ [line EXCEPT ![l] = x] = [REQ |-> x, IND |-> b, WRITE |-> c]
  BY <1>1
<1>2. ASSUME l = "IND"
      PROVE  line[l] = b /\ [line EXCEPT ![l] = x] = [REQ |-> a, IND |-> x, WRITE |-> c]
  BY <1>2
<1>3. ASSUME l = "WRITE"
      PROVE  line[l] = c /\ [line EXCEPT ![l] = x] = [REQ |-> a, IND |-> b, WRITE |-> x]
  BY <1>3
<1> QED BY <1>1, <1>2, <1>3

(* The ops in the hands of a handler are known to the history.             *)
LEMMA BusyKnown == ASSUME Inv PROVE busy.op # None => busy.op \in live /\ busy.op \in used
BY DEF Inv, TypeOK, BusyOK, Conservation, HandlersOnce, Held, Pending

(* A step that lets an op join its line is Submit.                         *)
LEMMA StepSubmit ==
  ASSUME Inv, Inv', NEW o \in Ops, Open, Open', o \notin used,
         used' = used \union {o}, armed' = armed \union {o}, busy' = busy,
         ReqLine' = IF Type[o] = "REQ" THEN Append(ReqLine, o) ELSE ReqLine,
         IndLine' = IF Type[o] = "IND" THEN Append(IndLine, o) ELSE IndLine,
         write_queue' = IF Type[o] \in {"REQ", "IND"} THEN write_queue
                        ELSE Append(write_queue, o)
  PROVE  Service!Submit(o)
<1> DEFINE l == IF Type[o] \in {"REQ", "IND"} THEN Type[o] ELSE "WRITE"
           line == [REQ |-> ReqLine, IND |-> IndLine, WRITE |-> write_queue]
<1>1. l \in {"REQ", "IND", "WRITE"}
  OBVIOUS
<1>2. [line EXCEPT ![l] = Append(line[l], o)]
        = [REQ |-> ReqLine', IND |-> IndLine', WRITE |-> write_queue']
  <2>1. CASE Type[o] = "REQ"
    <3>1. l = "REQ"
      BY <2>1
    <3> DEFINE x == Append(ReqLine, o)
    <3> HIDE DEF l, x
    <3>2. line[l] = ReqLine /\ [line EXCEPT ![l] = x]
            = [REQ |-> x, IND |-> IndLine, WRITE |-> write_queue]
      BY <3>1, LineChange
    <3> QED BY <2>1, <3>2 DEF x
  <2>2. CASE Type[o] = "IND"
    <3>1. l = "IND"
      BY <2>2
    <3> DEFINE x == Append(IndLine, o)
    <3> HIDE DEF l, x
    <3>2. line[l] = IndLine /\ [line EXCEPT ![l] = x]
            = [REQ |-> ReqLine, IND |-> x, WRITE |-> write_queue]
      BY <3>1, LineChange
    <3> QED BY <2>2, <3>2 DEF x
  <2>3. CASE Type[o] \notin {"REQ", "IND"}
    <3>1. l = "WRITE"
      BY <2>3
    <3> DEFINE x == Append(write_queue, o)
    <3> HIDE DEF l, x
    <3>2. line[l] = write_queue /\ [line EXCEPT ![l] = x]
            = [REQ |-> ReqLine, IND |-> IndLine, WRITE |-> x]
      BY <3>1, LineChange
    <3> QED BY <2>3, <3>2 DEF x
  <2> QED BY <2>1, <2>2, <2>3
<1>3. {busy'.op} \intersect armed' = {busy.op} \intersect armed
  BY BusyKnown, ConstantsOK
<1>4. {p \in Ops : released'[p] > 0} = {p \in Ops : released[p] > 0}
  BY ReleasedSet DEF Inv, HandlersOnce
<1>5. [p \in Ops |-> IF Type[p] \in {"REQ", "IND"} THEN Type[p] ELSE "WRITE"][o] = l
  OBVIOUS
<1> QED BY <1>1, <1>2, <1>3, <1>4, <1>5 DEF Service!Submit

(* A step that starts the callback of the first op of a line is Answer.    *)
LEMMA StepAnswer ==
  ASSUME Inv, Inv', NEW o \in armed, Open' = Open, busy.op = None, busy'.op = o,
         UNCHANGED <<used, armed, write_queue>>,
         \/ /\ Type[o] = "REQ" /\ ReqLine # <<>> /\ o = Head(ReqLine)
            /\ ReqLine' = Tail(ReqLine) /\ IndLine' = IndLine
         \/ /\ Type[o] = "IND" /\ IndLine # <<>> /\ o = Head(IndLine)
            /\ IndLine' = Tail(IndLine) /\ ReqLine' = ReqLine
  PROVE  Service!Answer(o)
<1> DEFINE l == Type[o]
           line == [REQ |-> ReqLine, IND |-> IndLine, WRITE |-> write_queue]
<1>1. o \in Ops /\ None \notin armed
  BY ConstantsOK DEF Inv, TypeOK
<1>2. [line EXCEPT ![l] = Tail(line[l])]
        = [REQ |-> ReqLine', IND |-> IndLine', WRITE |-> write_queue']
  <2>1. CASE Type[o] = "REQ"
    <3>1. l = "REQ"
      BY <2>1
    <3> DEFINE x == Tail(ReqLine)
    <3> HIDE DEF l, x
    <3>2. line[l] = ReqLine /\ [line EXCEPT ![l] = x]
            = [REQ |-> x, IND |-> IndLine, WRITE |-> write_queue]
      BY <3>1, LineChange
    <3> QED BY <2>1, <3>2 DEF x
  <2>2. CASE Type[o] = "IND"
    <3>1. l = "IND"
      BY <2>2
    <3> DEFINE x == Tail(IndLine)
    <3> HIDE DEF l, x
    <3>2. line[l] = IndLine /\ [line EXCEPT ![l] = x]
            = [REQ |-> ReqLine, IND |-> x, WRITE |-> write_queue]
      BY <3>1, LineChange
    <3> QED BY <2>2, <3>2 DEF x
  <2> QED BY <2>1, <2>2
<1>3. line[l] # <<>> /\ o = Head(line[l])
  OBVIOUS
<1>4. {busy.op} \intersect armed = {} /\ {busy'.op} \intersect armed' = {o}
  BY <1>1
<1>5. {p \in Ops : released'[p] > 0} = {p \in Ops : released[p] > 0}
  BY ReleasedSet
<1>6. [p \in Ops |-> IF Type[p] \in {"REQ", "IND"} THEN Type[p] ELSE "WRITE"][o]
        = l
  BY <1>1
<1>7. l \in {"REQ", "IND"}
  OBVIOUS
<1> HIDE DEF l
<1> QED BY <1>2, <1>3, <1>4, <1>5, <1>6, <1>7 DEF Service!Answer

(* A step that takes off the handlers of the op being called is Finish.    *)
LEMMA StepFinish ==
  ASSUME Inv, Inv', NEW o \in armed, Open' = Open, busy.op = o,
         armed' = armed \ {o}, busy'.op \in {None, o},
         UNCHANGED <<used, ReqLine, IndLine, write_queue>>
  PROVE  Service!Finish(o)
<1>1. {busy.op} \intersect armed = {o} /\ {busy'.op} \intersect armed' = {}
  BY ConstantsOK DEF Inv, TypeOK
<1>2. {p \in Ops : released'[p] > 0} = {p \in Ops : released[p] > 0} \union {o}
  BY ReleasedSet DEF Inv, HandlersOnce
<1> QED BY <1>1, <1>2 DEF Service!Finish

(* A step that sends the first command is Emit.                            *)
LEMMA StepEmit ==
  ASSUME Inv, Inv', NEW o \in armed, Open' = Open, busy' = busy, busy.op # o,
         write_queue # <<>>, o = Head(write_queue),
         write_queue' = Tail(write_queue),
         armed' = armed \ {o}, UNCHANGED <<used, ReqLine, IndLine>>
  PROVE  Service!Emit(o)
<1> DEFINE line == [REQ |-> ReqLine, IND |-> IndLine, WRITE |-> write_queue]
<1>1. {busy'.op} \intersect armed' = {busy.op} \intersect armed
  OBVIOUS
<1>2. {p \in Ops : released'[p] > 0} = {p \in Ops : released[p] > 0} \union {o}
  BY ReleasedSet DEF Inv, HandlersOnce
<1>3. [line EXCEPT !["WRITE"] = Tail(write_queue)]
        = [REQ |-> ReqLine, IND |-> IndLine, WRITE |-> Tail(write_queue)]
  <2> DEFINE x == Tail(write_queue)
  <2> HIDE DEF x
  <2> SUFFICES [line EXCEPT !["WRITE"] = x]
                 = [REQ |-> ReqLine, IND |-> IndLine, WRITE |-> x]
    BY DEF x
  <2> QED OBVIOUS
<1>4. line["WRITE"] = write_queue
  OBVIOUS
<1> QED BY <1>1, <1>2, <1>3, <1>4 DEF Service!Emit

(* A step that takes an op out of its line, handlers and all, is Drop.     *)
LEMMA StepDrop ==
  ASSUME Inv, Inv', NEW o \in armed, Open' = Open, busy' = busy, busy.op # o,
         armed' = armed \ {o}, used' = used,
         \/ /\ Type[o] = "REQ" /\ Without(ReqLine', ReqLine, o)
            /\ UNCHANGED <<IndLine, write_queue>>
         \/ /\ Type[o] = "IND" /\ Without(IndLine', IndLine, o)
            /\ UNCHANGED <<ReqLine, write_queue>>
         \/ /\ Type[o] \notin {"REQ", "IND"}
            /\ Without(write_queue', write_queue, o)
            /\ UNCHANGED <<ReqLine, IndLine>>
  PROVE  Service!Drop(o)
<1> DEFINE line == [REQ |-> ReqLine, IND |-> IndLine, WRITE |-> write_queue]
           l == IF Type[o] \in {"REQ", "IND"} THEN Type[o] ELSE "WRITE"
<1>1. l \in {"REQ", "IND", "WRITE"} /\ o \in Ops
  BY DEF Inv, TypeOK
<1>2. {busy'.op} \intersect armed' = {busy.op} \intersect armed
  OBVIOUS
<1>3. {p \in Ops : released'[p] > 0} = {p \in Ops : released[p] > 0} \union {o}
  BY ReleasedSet DEF Inv, HandlersOnce
<1>4. [p \in Ops |-> IF Type[p] \in {"REQ", "IND"} THEN Type[p] ELSE "WRITE"][o] = l
  BY <1>1
<1>5. CASE Type[o] = "REQ"
  <2>1. l = "REQ"
    BY <1>5
  <2>2. PICK k \in DOMAIN ReqLine : ReqLine[k] = o /\ ReqLine' = RemoveAt(ReqLine, k)
    BY <1>5 DEF Without
  <2> HIDE DEF l
  <2>3. line[l] = ReqLine /\ [line EXCEPT ![l] = RemoveAt(ReqLine, k)]
          = [REQ |-> RemoveAt(ReqLine, k), IND |-> IndLine, WRITE |-> write_queue]
    BY <2>1, LineChange
  <2>4. /\ k \in DOMAIN line[l] /\ line[l][k] = o
        /\ [line EXCEPT ![l] = RemoveAt(line[l], k)]
             = [REQ |-> ReqLine', IND |-> IndLine', WRITE |-> write_queue']
    BY <1>5, <2>2, <2>3
  <2> HIDE DEF line
  <2> QED BY <1>2, <1>3, <1>4, <2>4 DEF Service!Drop, Service!RemoveAt, RemoveAt, line
<1>6. CASE Type[o] = "IND"
  <2>1. l = "IND"
    BY <1>6
  <2>2. PICK k \in DOMAIN IndLine : IndLine[k] = o /\ IndLine' = RemoveAt(IndLine, k)
    BY <1>6 DEF Without
  <2> HIDE DEF l
  <2>3. line[l] = IndLine /\ [line EXCEPT ![l] = RemoveAt(IndLine, k)]
          = [REQ |-> ReqLine, IND |-> RemoveAt(IndLine, k), WRITE |-> write_queue]
    BY <2>1, LineChange
  <2>4. /\ k \in DOMAIN line[l] /\ line[l][k] = o
        /\ [line EXCEPT ![l] = RemoveAt(line[l], k)]
             = [REQ |-> ReqLine', IND |-> IndLine', WRITE |-> write_queue']
    BY <1>6, <2>2, <2>3
  <2> HIDE DEF line
  <2> QED BY <1>2, <1>3, <1>4, <2>4 DEF Service!Drop, Service!RemoveAt, RemoveAt, line
<1>7. CASE Type[o] \notin {"REQ", "IND"}
  <2>1. l = "WRITE"
    BY <1>7
  <2>2. PICK k \in DOMAIN write_queue : write_queue[k] = o /\ write_queue' = RemoveAt(write_queue, k)
    BY <1>7 DEF Without
  <2> HIDE DEF l
  <2>3. line[l] = write_queue /\ [line EXCEPT ![l] = RemoveAt(write_queue, k)]
          = [REQ |-> ReqLine, IND |-> IndLine, WRITE |-> RemoveAt(write_queue, k)]
    BY <2>1, LineChange
  <2>4. /\ k \in DOMAIN line[l] /\ line[l][k] = o
        /\ [line EXCEPT ![l] = RemoveAt(line[l], k)]
             = [REQ |-> ReqLine', IND |-> IndLine', WRITE |-> write_queue']
    BY <1>7, <2>2, <2>3
  <2> HIDE DEF line
  <2> QED BY <1>2, <1>3, <1>4, <2>4 DEF Service!Drop, Service!RemoveAt, RemoveAt, line
<1> QED BY <1>5, <1>6, <1>7

(* A step that empties the lines is Flush.                                 *)
LEMMA StepFlush ==
  ASSUME Inv, Inv', Open' \in {Open, FALSE}, used' = used,
         ReqLine' = <<>>, IndLine' = <<>>, write_queue' = <<>>,
         busy' = busy, armed' \subseteq armed,
         armed \ armed' = ToSet(ReqLine) \union ToSet(IndLine)
                             \union ToSet(write_queue)
                             \union ({busy.op} \intersect (armed \ armed'))
  PROVE  Service!Flush
<1> DEFINE line == [REQ |-> ReqLine, IND |-> IndLine, WRITE |-> write_queue]
           called1 == {busy.op} \intersect armed
           called2 == {busy.op} \intersect armed'
<1>1. called2 \in {called1, {}}
  OBVIOUS
<1>2. Service!InLine = ToSet(ReqLine) \union ToSet(IndLine) \union ToSet(write_queue)
  <2>1. /\ line["REQ"] = ReqLine /\ line["IND"] = IndLine
        /\ line["WRITE"] = write_queue
    OBVIOUS
  <2>2. Service!InLine = UNION {ToSet(line[l]) : l \in {"REQ", "IND", "WRITE"}}
    BY DEF Service!InLine, Service!Lines, Service!ToSet, ToSet
  <2> HIDE DEF line
  <2> QED BY <2>1, <2>2
<1>3. called1 \ called2 = {busy.op} \intersect (armed \ armed')
  OBVIOUS
<1>4. used' \ armed' = (used \ armed) \union (armed \ armed')
  BY DEF Inv, HandlersOnce
<1>5. {p \in Ops : released'[p] > 0}
        = {p \in Ops : released[p] > 0} \union Service!InLine \union (called1 \ called2)
  <2>1. {p \in Ops : released'[p] > 0} = used' \ armed'
    BY ReleasedSet
  <2>2. {p \in Ops : released[p] > 0} = used \ armed
    BY ReleasedSet
  <2> QED BY <1>2, <1>3, <1>4, <2>1, <2>2
<1>6. [REQ |-> ReqLine', IND |-> IndLine', WRITE |-> write_queue']
        = [k \in Service!Lines |-> <<>>]
  BY DEF Service!Lines
<1> QED BY <1>1, <1>5, <1>6 DEF Service!Flush

(* A step that leaves lines, handlers and callbacks is a stutter.          *)
LEMMA StepNothing ==
  ASSUME Inv, Inv', Open' = Open, used' = used, armed' = armed,
         {busy'.op} \intersect armed = {busy.op} \intersect armed,
         UNCHANGED <<ReqLine, IndLine, write_queue>>
  PROVE  UNCHANGED Service!service
<1>1. {p \in Ops : released'[p] > 0} = {p \in Ops : released[p] > 0}
  BY ReleasedSet
<1> QED BY <1>1 DEF Service!service

-----------------------------------------------------------------------------
(* Where cancelled ops can still be.                                       *)

(* A queue holds no cancelled op, except a request that a retry put back   *)
(* at the head, and that one only while no request is on the wire.         *)
RetriedHead ==
  /\ ToSet(write_queue) \union ToSet(ind_queue) \subseteq armed
  /\ \A o \in ToSet(req_queue) :
       o \in armed \/ (pending_req = None /\ o = Head(req_queue))

(* Which queue the writer's next op comes from.                            *)
LEMMA PickNextQueue ==
  ASSUME TypeOK, Conservation, NEW o \in Ops, PickNext(o)
  PROVE  /\ Type[o] = "REQ" =>
              /\ pending_req = None /\ req_queue # <<>> /\ o = Head(req_queue)
              /\ req_queue' = Tail(req_queue)
              /\ UNCHANGED <<write_queue, ind_queue>>
         /\ Type[o] = "IND" =>
              /\ pending_ind = None /\ ind_queue # <<>> /\ o = Head(ind_queue)
              /\ ind_queue' = Tail(ind_queue)
              /\ UNCHANGED <<write_queue, req_queue>>
         /\ Type[o] \notin {"REQ", "IND"} =>
              /\ write_queue # <<>> /\ o = Head(write_queue)
              /\ write_queue' = Tail(write_queue)
              /\ UNCHANGED <<req_queue, ind_queue>>
<1>1. /\ write_queue # <<>> => Head(write_queue) \in ToSet(write_queue)
      /\ req_queue # <<>> => Head(req_queue) \in ToSet(req_queue)
      /\ ind_queue # <<>> => Head(ind_queue) \in ToSet(ind_queue)
  BY TailSet DEF TypeOK
<1> QED BY <1>1 DEF PickNext, Conservation

(* Every step keeps RetriedHead: only a retry queues an op that may have   *)
(* been cancelled, at the head and with nothing pending, and it is the     *)
(* next request to leave; bt_att_cancel takes a queued op out of its queue.*)
LEMMA NextRetriedHead == Inv /\ RetriedHead /\ [Next]_vars => RetriedHead'
<1> SUFFICES ASSUME Inv, RetriedHead, [Next]_vars PROVE RetriedHead'
  OBVIOUS
<1> USE DEF queues, pending, history, memory, peer, local
<1>0. TypeOK /\ Conservation /\ BusyOK /\ HandlersOnce
  BY DEF Inv
<1>1. ASSUME UNCHANGED queues, pending_req' \in {pending_req, None},
             Queued \intersect armed \subseteq armed'
      PROVE  RetriedHead'
  BY <1>1 DEF RetriedHead, Queued
<1>2. ASSUME NEW o \in Ops, NewOp(o), Enqueue(o), UNCHANGED pending
      PROVE  RetriedHead'
  <2>1. CASE Type[o] = "REQ"
    <3>1. /\ req_queue' = Append(req_queue, o) /\ armed' = armed \union {o}
          /\ UNCHANGED <<write_queue, ind_queue>>
      BY <1>2, <2>1 DEF NewOp, Enqueue
    <3>2. /\ ToSet(req_queue') = ToSet(req_queue) \union {o}
          /\ req_queue # <<>> => Head(req_queue') = Head(req_queue)
          /\ req_queue = <<>> => ToSet(req_queue) = {}
      BY <1>0, <3>1, AppendSet, HeadAppend, EmptySet DEF TypeOK
    <3> QED BY <1>2, <3>1, <3>2 DEF RetriedHead
  <2>2. CASE Type[o] # "REQ"
    <3>1. /\ ToSet(write_queue') \subseteq ToSet(write_queue) \union {o}
          /\ ToSet(ind_queue') \subseteq ToSet(ind_queue) \union {o}
          /\ req_queue' = req_queue /\ armed' = armed \union {o}
      BY <1>0, <1>2, <2>2, AppendSet DEF TypeOK, NewOp, Enqueue
    <3> QED BY <1>2, <3>1 DEF RetriedHead
  <2> QED BY <2>1, <2>2
<1>3. ASSUME NEW o \in Ops, Send(o) PROVE RetriedHead'
  BY <1>2, <1>3 DEF Send
<1>4. ASSUME NEW o \in Ops, ReadNotSupported(o) PROVE RetriedHead'
  BY <1>2, <1>4 DEF ReadNotSupported
<1>5. ASSUME NEW o \in Ops, CancelQueued(o) PROVE RetriedHead'
  <2>1. /\ ToSet(write_queue') = ToSet(write_queue) \ {o}
        /\ ToSet(req_queue') = ToSet(req_queue) \ {o}
        /\ ToSet(ind_queue') = ToSet(ind_queue) \ {o}
    BY <1>0, <1>5, RemoveSet DEF CancelQueued, TypeOK, Conservation
  <2>2. armed' = armed \ {o} /\ pending_req' = pending_req
        /\ req_queue' = RemoveFrom(req_queue, o)
    BY <1>5 DEF CancelQueued, Destroy
  <2>3. o # Head(req_queue) /\ o \in ToSet(req_queue) => Head(req_queue') = Head(req_queue)
    BY <1>0, <2>2, UnlinkFromLine DEF TypeOK
  <2>4. o \notin ToSet(req_queue) => req_queue' = req_queue
    BY <2>2 DEF RemoveFrom
  <2> QED BY <2>1, <2>2, <2>3, <2>4 DEF RetriedHead
<1>6. CASE CancelAll \/ Unref \/ Disconnect
  BY <1>6, EmptySet DEF CancelAll, Unref, Disconnect, DropAll, RetriedHead
<1>7. ASSUME NEW o \in Ops, PickNext(o), armed \ {o} \subseteq armed',
             Type[o] # "REQ" => pending_req' = pending_req
      PROVE  RetriedHead'
  <2>1. /\ ToSet(write_queue') \subseteq ToSet(write_queue)
        /\ ToSet(ind_queue') \subseteq ToSet(ind_queue)
        /\ Queued' = Queued \ {o}
    BY <1>0, <1>7, PickNextSet
  <2>2. o \notin ToSet(write_queue') /\ o \notin ToSet(ind_queue')
        /\ o \notin ToSet(req_queue')
    BY <2>1 DEF Queued
  <2>3. ToSet(write_queue') \union ToSet(ind_queue') \subseteq armed'
    BY <1>7, <2>1, <2>2 DEF RetriedHead
  <2>4. CASE Type[o] = "REQ"
    <3>1. ToSet(req_queue') = ToSet(req_queue) \ {Head(req_queue)}
      BY <1>0, <1>7, <2>4, PickNextQueue, TailSet DEF TypeOK, Conservation
    <3> QED BY <1>7, <2>2, <2>3, <3>1 DEF RetriedHead
  <2>5. CASE Type[o] # "REQ"
    <3>1. req_queue' = req_queue
      BY <1>0, <1>7, <2>5, PickNextQueue
    <3> QED BY <1>7, <2>2, <2>3, <2>5, <3>1 DEF RetriedHead
  <2> QED BY <2>4, <2>5
<1>8. ASSUME NEW o \in Ops, WriteSent(o) \/ WriteFailed(o) PROVE RetriedHead'
  BY <1>7, <1>8 DEF WriteSent, WriteFailed, Writing, Destroy, Invoke
<1>9. CASE WriteFailedDone \/ ResponseDone \/ ConfDone \/ NotifyDone
  <2>1. busy.h \in {"wfail", "rsp", "conf"} => busy.op \notin Queued
    BY <1>0 DEF BusyOK, Conservation, Held, Pending
  <2> QED BY <1>1, <1>9, <2>1
          DEF WriteFailedDone, ResponseDone, ConfDone, NotifyDone, Destroy
<1>10. CASE ReadRetry
  <2>1. /\ pending_req \in Ops /\ pending_req' = None
        /\ req_queue' = <<pending_req>> \o req_queue
        /\ UNCHANGED <<write_queue, ind_queue, armed>>
    BY <1>0, <1>10 DEF ReadRetry, TypeOK, OpOrNone
  <2>2. /\ ToSet(req_queue') = ToSet(req_queue) \union {pending_req}
        /\ Head(req_queue') = pending_req
    BY <1>0, <2>1, PrependSet, Prepended DEF TypeOK
  <2>3. pending_req # None
    BY <1>10 DEF ReadRetry
  <2> QED BY <2>1, <2>2, <2>3 DEF RetriedHead
<1>11. CASE ReadResponse \/ ReadConf
  <2>1. pending_req \notin Queued /\ pending_ind \notin Queued
    BY <1>0, SetOfQueue, ConstantsOK DEF Conservation, Pending, Queued, TypeOK
  <2> QED BY <1>1, <1>11, <2>1 DEF ReadResponse, ReadConf, Invoke, Destroy
<1>12. ASSUME NEW o \in Ops, CancelPending(o) \/ Timeout(o) PROVE RetriedHead'
  <2>1. o \notin Queued
    BY <1>0, <1>12 DEF CancelPending, Timeout, Conservation
  <2> QED BY <1>1, <1>12, <2>1 DEF CancelPending, Timeout, Destroy
<1>13. CASE ReadUnexpected \/ ReadNotify \/ Peer \/ WriteNothing
            \/ \E level \in ApiLevels : SetSecurity(level)
  BY <1>1, <1>13
     DEF ReadUnexpected, ReadNotify, Peer, PeerAnswers, PeerSpeaks,
         PeerMisbehaves, PeerHangsUp, WriteNothing, SetSecurity
<1>14. CASE UNCHANGED vars
  BY <1>1, <1>14 DEF vars
<1> QED
  BY <1>3, <1>4, <1>5, <1>6, <1>8, <1>9, <1>10, <1>11, <1>12, <1>13, <1>14
     DEF Next, Api, Write, Read, Return

-----------------------------------------------------------------------------
(* The lines of the service while the bearer works.                        *)

(* The lines are sequences of ops, and a queue whose ops are all armed     *)
(* stands in its line as it is.                                            *)
LEMMA LinesTyped ==
  ASSUME Inv, RetriedHead
  PROVE  /\ Unanswered(req_queue) \in Seq(Ops)
         /\ pending_req # None => Unanswered(req_queue) = req_queue
         /\ req_queue # <<>> => ToSet(Tail(req_queue)) \subseteq armed
         /\ \A q \in Seq(Ops) : <<>> \o q = q
         /\ OnWire(None) = <<>>
         /\ None \notin armed
<1>1. \A q \in Seq(Ops) : <<>> \o q = q
  BY Prepended
<1>2. req_queue # <<>> =>
        /\ Head(req_queue) \in ToSet(req_queue)
        /\ Tail(req_queue) \in Seq(Ops)
        /\ ToSet(Tail(req_queue)) = ToSet(req_queue) \ {Head(req_queue)}
  BY TailSet DEF Inv, TypeOK, Conservation
<1>3. Unanswered(req_queue) \in Seq(Ops)
  BY <1>2 DEF Unanswered, Inv, TypeOK
<1>4. pending_req # None => Unanswered(req_queue) = req_queue
  BY <1>2 DEF Unanswered, RetriedHead
<1>5. req_queue # <<>> => ToSet(Tail(req_queue)) \subseteq armed
  BY <1>2 DEF RetriedHead
<1>6. None \notin armed
  BY ConstantsOK DEF Inv, TypeOK
<1> QED BY <1>1, <1>3, <1>4, <1>5, <1>6 DEF OnWire

(* What is in the request and indication lines.                            *)
LEMMA LineSets ==
  ASSUME Inv, RetriedHead
  PROVE  /\ ToSet(ReqLine) = ((({pending_req} \ {busy.op}) \union ToSet(req_queue))
                                \intersect armed)
         /\ ToSet(IndLine) = ((({pending_ind} \ {busy.op}) \union ToSet(ind_queue))
                                \intersect armed)
<1> USE DEF Inv
<1>1. ToSet(Unanswered(req_queue)) = ToSet(req_queue) \intersect armed
  <2>1. CASE req_queue # <<>> /\ Head(req_queue) \notin armed
    <3>1. Unanswered(req_queue) = Tail(req_queue)
      BY <2>1 DEF Unanswered
    <3>2. ToSet(Tail(req_queue)) = ToSet(req_queue) \ {Head(req_queue)}
      BY <2>1, TailSet DEF TypeOK, Conservation
    <3> QED BY <2>1, <3>1, <3>2 DEF RetriedHead
  <2>2. CASE ~ (req_queue # <<>> /\ Head(req_queue) \notin armed)
    <3>1. Unanswered(req_queue) = req_queue
      BY <2>2 DEF Unanswered
    <3>2. req_queue = <<>> => ToSet(req_queue) = {}
      BY EmptySet
    <3> QED BY <2>2, <3>1, <3>2 DEF RetriedHead
  <2> QED BY <2>1, <2>2
<1>2. ASSUME NEW q \in Seq(Ops), NEW o \in OpOrNone
      PROVE  ToSet(OnWire(o) \o q) = (({o} \ {busy.op}) \intersect armed) \union ToSet(q)
  <2>1. CASE o \in armed \ {busy.op}
    <3>1. OnWire(o) = <<o>> /\ o \in Ops
      BY <2>1 DEF OnWire, TypeOK
    <3>2. ToSet(<<o>> \o q) = ToSet(q) \union {o}
      BY <3>1, PrependSet
    <3> QED BY <2>1, <3>1, <3>2
  <2>2. CASE o \notin armed \ {busy.op}
    <3>1. OnWire(o) \o q = q
      BY <2>2, LinesTyped DEF OnWire
    <3> QED BY <2>2, <3>1
  <2> QED BY <2>1, <2>2
<1>3. ToSet(ReqLine) = (({pending_req} \ {busy.op}) \intersect armed)
                          \union ToSet(Unanswered(req_queue))
  BY <1>2, LinesTyped DEF ReqLine, TypeOK
<1>4. ToSet(IndLine) = (({pending_ind} \ {busy.op}) \intersect armed)
                          \union ToSet(ind_queue)
  BY <1>2 DEF IndLine, TypeOK
<1> QED BY <1>1, <1>3, <1>4 DEF RetriedHead

(* The request line depends on the request queue and on which of its ops   *)
(* are armed, and on the pending request being armed and not called.       *)
LEMMA SameReqLine ==
  ASSUME Inv, UNCHANGED <<req_queue, pending_req>>,
         ToSet(req_queue) \intersect armed' = ToSet(req_queue) \intersect armed,
         pending_req \in armed' \ {busy'.op} <=> pending_req \in armed \ {busy.op}
  PROVE  ReqLine' = ReqLine
<1>1. req_queue # <<>> => Head(req_queue) \in ToSet(req_queue)
  BY TailSet DEF Inv, TypeOK
<1>2. Unanswered(req_queue)' = Unanswered(req_queue)
  BY <1>1 DEF Unanswered
<1>3. OnWire(pending_req)' = OnWire(pending_req)
  BY DEF OnWire
<1> QED BY <1>2, <1>3 DEF ReqLine

(* The indication line likewise.                                           *)
LEMMA SameIndLine ==
  ASSUME UNCHANGED <<ind_queue, pending_ind>>,
         pending_ind \in armed' \ {busy'.op} <=> pending_ind \in armed \ {busy.op}
  PROVE  IndLine' = IndLine
BY DEF IndLine, OnWire

(* The op on the wire leaves its line.                                     *)
LEMMA LeaveWire ==
  ASSUME NEW q \in Seq(Ops), NEW o \in Ops
  PROVE  /\ Without(<<>> \o q, <<o>> \o q, o)
         /\ <<o>> \o q # <<>> /\ Head(<<o>> \o q) = o
         /\ Tail(<<o>> \o q) = <<>> \o q
<1>1. /\ <<o>> \o q \in Seq(Ops) /\ <<o>> \o q # <<>>
      /\ Head(<<o>> \o q) = o /\ Tail(<<o>> \o q) = q /\ <<>> \o q = q
  BY Prepended
<1>2. RemoveAt(<<o>> \o q, 1) = q
  BY <1>1, UnlinkFirst
<1>3. 1 \in DOMAIN (<<o>> \o q) /\ (<<o>> \o q)[1] = o
  BY PrependedEntries, LenProperties
<1> QED BY <1>1, <1>2, <1>3 DEF Without

-----------------------------------------------------------------------------
(* The steps of the bearer as steps of the service.                        *)

(* What the proofs below assume: a step between two states that satisfy    *)
(* the invariants.                                                         *)
Between == Inv /\ RetriedHead /\ Inv' /\ RetriedHead'

(* A step that shows in the lines at most through a wire or a queue that   *)
(* keeps its armed ops.                                                    *)
LEMMA QuietSim ==
  ASSUME Between, Open' = Open, UNCHANGED <<queues, pending, used, armed>>,
         {busy'.op} \intersect armed = {busy.op} \intersect armed
  PROVE  UNCHANGED Service!service
<1> USE DEF Between, queues, pending
<1>1. ReqLine' = ReqLine
  BY SameReqLine
<1>2. IndLine' = IndLine
  BY SameIndLine
<1> QED BY <1>1, <1>2, StepNothing

(* bt_att_send and respond_not_supported submit an op.                     *)
LEMMA SubmitSim ==
  ASSUME Between, NEW o \in Ops, Open, Open' = Open, NewOp(o), Enqueue(o),
         UNCHANGED <<pending, busy>>
  PROVE  Service!Submit(o)
<1> USE DEF Between, pending
<1>0. TypeOK /\ Conservation /\ HandlersOnce
  BY DEF Inv
<1>1. /\ o \notin used /\ used' = used \union {o} /\ armed' = armed \union {o}
      /\ o \notin live /\ o # pending_req /\ o # pending_ind /\ o # busy.op
      /\ o \notin Queued
  BY <1>0, BusyKnown, ConstantsOK DEF NewOp, HandlersOnce, Conservation, Pending
<1>2. OnWire(pending_req)' = OnWire(pending_req) /\ OnWire(pending_ind)' = OnWire(pending_ind)
  BY <1>1 DEF OnWire
<1>3. \A w \in Seq(Ops), p \in OpOrNone :
        OnWire(p) \o Append(w, o) = Append(OnWire(p) \o w, o)
  <2> TAKE w \in Seq(Ops), p \in OpOrNone
  <2>1. Append(w, o) \in Seq(Ops)
    BY AppendSet
  <2>2. CASE p \in armed \ {busy.op}
    <3>1. p \in Ops /\ OnWire(p) = <<p>>
      BY <1>0, <2>2 DEF OnWire, TypeOK
    <3> QED BY <3>1, Prepended
  <2>3. CASE p \notin armed \ {busy.op}
    BY <2>1, <2>3, LinesTyped DEF OnWire
  <2> QED BY <2>2, <2>3
<1>4. Type[o] # "REQ" => ReqLine' = ReqLine
  <2> SUFFICES ASSUME Type[o] # "REQ" PROVE ReqLine' = ReqLine
    OBVIOUS
  <2>1. req_queue' = req_queue /\ o \notin ToSet(req_queue)
    BY <1>1 DEF Enqueue, Queued
  <2> QED BY <1>1, <2>1, SameReqLine
<1>5. Type[o] # "IND" => IndLine' = IndLine
  <2> SUFFICES ASSUME Type[o] # "IND" PROVE IndLine' = IndLine
    OBVIOUS
  <2>1. ind_queue' = ind_queue
    BY DEF Enqueue
  <2> QED BY <1>1, <2>1, SameIndLine
<1>6. Type[o] = "REQ" => ReqLine' = Append(ReqLine, o)
  <2> SUFFICES ASSUME Type[o] = "REQ" PROVE ReqLine' = Append(ReqLine, o)
    OBVIOUS
  <2>1. req_queue' = Append(req_queue, o)
    BY DEF Enqueue
  <2>2. Unanswered(req_queue)' = Append(Unanswered(req_queue), o)
    <3>1. CASE req_queue = <<>>
      <4>1. Head(req_queue') = o /\ Unanswered(req_queue) = req_queue
        BY <1>0, <2>1, <3>1, HeadAppend DEF TypeOK, Unanswered
      <4> QED BY <1>1, <2>1, <4>1 DEF Unanswered
    <3>2. CASE req_queue # <<>>
      <4>1. /\ req_queue' # <<>> /\ Head(req_queue') = Head(req_queue)
            /\ Tail(req_queue') = Append(Tail(req_queue), o)
            /\ Head(req_queue) # o
        BY <1>0, <1>1, <2>1, <3>2, HeadAppend, AppendSet, TailSet DEF TypeOK, Queued
      <4> QED BY <1>1, <2>1, <3>2, <4>1 DEF Unanswered
    <3> QED BY <3>1, <3>2
  <2> QED BY <1>0, <1>2, <1>3, <2>2, LinesTyped DEF ReqLine, TypeOK
<1>7. Type[o] = "IND" => IndLine' = Append(IndLine, o)
  <2> SUFFICES ASSUME Type[o] = "IND" PROVE IndLine' = Append(IndLine, o)
    OBVIOUS
  <2>1. ind_queue' = Append(ind_queue, o)
    BY DEF Enqueue
  <2> QED BY <1>0, <1>2, <1>3, <2>1 DEF IndLine, TypeOK
<1>8. write_queue' = IF Type[o] \in {"REQ", "IND"} THEN write_queue
                     ELSE Append(write_queue, o)
  BY DEF Enqueue
<1> QED BY <1>1, <1>4, <1>5, <1>6, <1>7, <1>8, StepSubmit

(* An op on the wire whose handlers come off without its callback, while   *)
(* it stays pending (bt_att_cancel) or leaves its slot (timeout_cb).       *)
LEMMA PendingDropSim ==
  ASSUME Between, NEW o \in Pending, Open' = Open, busy' = busy,
         armed' = armed \ {o}, UNCHANGED <<queues, used>>,
         pending_req' \in {pending_req, IF pending_req = o THEN None ELSE pending_req},
         pending_ind' \in {pending_ind, IF pending_ind = o THEN None ELSE pending_ind}
  PROVE  Service!Finish(o) \/ Service!Drop(o) \/ UNCHANGED Service!service
<1> USE DEF Between, queues
<1>0. TypeOK /\ Conservation /\ HandlersOnce
  BY DEF Inv
<1>1. /\ o \in Ops /\ o # None /\ o \notin Queued
      /\ None \notin armed /\ None \notin armed'
  BY <1>0, ConstantsOK, LinesTyped DEF Pending, Conservation, TypeOK, OpOrNone
<1>2. Unanswered(req_queue)' = Unanswered(req_queue)
  BY <1>0, <1>1, TailSet DEF Unanswered, Queued, TypeOK
<1>3. OnWire(pending_req)' = IF pending_req = o THEN <<>> ELSE OnWire(pending_req)
  BY <1>1 DEF OnWire
<1>4. OnWire(pending_ind)' = IF pending_ind = o THEN <<>> ELSE OnWire(pending_ind)
  BY <1>1 DEF OnWire
<1>5. CASE o \notin armed \/ o = busy.op
  <2>1. OnWire(o) = <<>>
    BY <1>5 DEF OnWire
  <2>2. ReqLine' = ReqLine /\ IndLine' = IndLine
    BY <1>2, <1>3, <1>4, <2>1 DEF ReqLine, IndLine
  <2>3. CASE o \in armed
    BY <1>5, <2>2, <2>3, StepFinish
  <2>4. CASE o \notin armed
    BY <2>2, <2>4, StepNothing
  <2> QED BY <2>3, <2>4
<1>6. CASE o \in armed /\ o # busy.op
  <2>1. OnWire(o) = <<o>>
    BY <1>6 DEF OnWire
  <2>2. CASE pending_req = o
    <3>1. Type[o] = "REQ" /\ pending_ind # o
      BY <1>0, <1>1, <2>2 DEF Conservation
    <3>2. IndLine' = IndLine
      BY <1>4, <3>1 DEF IndLine
    <3>3. ReqLine = <<o>> \o Unanswered(req_queue) /\ ReqLine' = <<>> \o Unanswered(req_queue)
      BY <1>2, <1>3, <2>1, <2>2 DEF ReqLine
    <3>4. Without(ReqLine', ReqLine, o)
      BY <1>1, <3>3, LeaveWire, LinesTyped
    <3> QED BY <1>6, <3>1, <3>2, <3>4, StepDrop
  <2>3. CASE pending_req # o
    <3>1. pending_ind = o /\ Type[o] = "IND"
      BY <1>0, <1>1, <2>3 DEF Conservation, Pending
    <3>2. ReqLine' = ReqLine
      BY <1>2, <1>3, <2>3 DEF ReqLine
    <3>3. IndLine = <<o>> \o ind_queue /\ IndLine' = <<>> \o ind_queue
      BY <1>4, <2>1, <3>1 DEF IndLine
    <3>4. Without(IndLine', IndLine, o)
      BY <1>0, <1>1, <3>3, LeaveWire DEF TypeOK
    <3> QED BY <1>6, <3>1, <3>2, <3>4, StepDrop
  <2> QED BY <2>2, <2>3
<1> QED BY <1>5, <1>6

(* bt_att_cancel_all, the disconnection and bt_att_free.                   *)
LEMMA FlushSim ==
  ASSUME Between, DropAll, Open' \in {Open, FALSE}, UNCHANGED <<busy, used>>,
         pending_req' \in {pending_req, None}, pending_ind' \in {pending_ind, None}
  PROVE  Service!Flush
<1> USE DEF Between
<1>0. TypeOK /\ Conservation /\ BusyOK
  BY DEF Inv
<1>1. /\ armed' = armed \ (Queued \union Pending)
      /\ write_queue' = <<>> /\ req_queue' = <<>> /\ ind_queue' = <<>>
  BY DEF DropAll
<1>2. pending_req' \notin armed' /\ pending_ind' \notin armed'
  BY <1>1, LinesTyped DEF Pending
<1>3. ReqLine' = <<>> /\ IndLine' = <<>>
  <2>1. <<>> \o <<>> = <<>>
    OBVIOUS
  <2>2. OnWire(pending_req)' = <<>> /\ OnWire(pending_ind)' = <<>>
    BY <1>2 DEF OnWire
  <2>3. Unanswered(req_queue)' = <<>>
    BY <1>1 DEF Unanswered
  <2> QED BY <1>1, <2>1, <2>2, <2>3 DEF ReqLine, IndLine
<1>4. armed \ armed' = ToSet(ReqLine) \union ToSet(IndLine) \union ToSet(write_queue)
                         \union ({busy.op} \intersect (armed \ armed'))
  <2>1. armed \ armed' = armed \intersect (Queued \union Pending)
    BY <1>1
  <2>2. ToSet(write_queue) \subseteq armed
    BY DEF RetriedHead
  <2> QED BY <2>1, <2>2, LineSets, LinesTyped DEF Queued, Pending
<1> QED BY <1>1, <1>3, <1>4, StepFlush

(* bt_att_cancel of a queued op takes it out of its line, except for a     *)
(* retried request that was cancelled before: that one is in no line.      *)
LEMMA CancelQueuedSim ==
  ASSUME Between, NEW o \in Ops, CancelQueued(o)
  PROVE  Service!Drop(o) \/ UNCHANGED Service!service
<1> USE DEF Between
<1>0. TypeOK /\ Conservation /\ BusyOK
  BY DEF Inv
<1>1. /\ o \in Queued /\ o \notin Pending /\ armed' = armed \ {o}
      /\ Open' = Open /\ UNCHANGED <<pending, busy, used>>
      /\ write_queue' = RemoveFrom(write_queue, o)
      /\ req_queue' = RemoveFrom(req_queue, o)
      /\ ind_queue' = RemoveFrom(ind_queue, o)
  BY DEF CancelQueued, Destroy, Open, history
<1>2. o # busy.op
  <2>1. busy.h \in {"idle", "rsp", "conf", "wfail", "notify"} /\ o # None
    BY <1>0, ConstantsOK DEF TypeOK
  <2>2. busy.op # None => busy.op \in Pending \union Held
    BY <1>0, <2>1 DEF BusyOK, Held, Pending
  <2> QED BY <1>0, <1>1, <2>1, <2>2 DEF Conservation
<1>3. OnWire(pending_req)' = OnWire(pending_req) /\ OnWire(pending_ind)' = OnWire(pending_ind)
  BY <1>1, ConstantsOK DEF OnWire, Pending, pending
<1>4. \A w, v \in Seq(Ops), p \in OpOrNone :
        (/\ Without(w, v, o)
         /\ \A a \in Ops : Without(<<a>> \o w, <<a>> \o v, o))
          => Without(OnWire(p) \o w, OnWire(p) \o v, o)
  <2> TAKE w, v \in Seq(Ops), p \in OpOrNone
  <2>1. CASE p \in armed \ {busy.op}
    BY <1>0, <2>1 DEF OnWire, TypeOK
  <2>2. CASE p \notin armed \ {busy.op}
    BY <2>2, LinesTyped DEF OnWire
  <2> QED BY <2>1, <2>2
<1>5. CASE o \in ToSet(write_queue)
  <2>1. /\ Type[o] \notin {"REQ", "IND"} /\ o \in armed
        /\ o \notin ToSet(req_queue) /\ o \notin ToSet(ind_queue)
    BY <1>0, <1>5 DEF Conservation, RetriedHead
  <2>2. UNCHANGED <<req_queue, ind_queue>>
    BY <1>1, <2>1 DEF RemoveFrom
  <2>3. Without(write_queue', write_queue, o)
    BY <1>0, <1>1, <1>5, UnlinkFromLine DEF TypeOK
  <2>4. ReqLine' = ReqLine /\ IndLine' = IndLine
    <3>1. o # pending_req /\ o # pending_ind
      BY <1>1, ConstantsOK DEF Pending
    <3> QED BY <1>1, <2>1, <2>2, <3>1, SameReqLine, SameIndLine DEF pending
  <2> QED BY <1>1, <1>2, <2>1, <2>3, <2>4, StepDrop
<1>6. CASE o \in ToSet(ind_queue)
  <2>1. /\ Type[o] = "IND" /\ o \in armed
        /\ o \notin ToSet(req_queue) /\ o \notin ToSet(write_queue)
    BY <1>0, <1>6 DEF Conservation, RetriedHead
  <2>2. UNCHANGED <<req_queue, write_queue>>
    BY <1>1, <2>1 DEF RemoveFrom
  <2>3. /\ Without(ind_queue', ind_queue, o)
        /\ \A a \in Ops : Without(<<a>> \o ind_queue', <<a>> \o ind_queue, o)
    BY <1>0, <1>1, <1>6, UnlinkFromLine DEF TypeOK
  <2>4. ind_queue' \in Seq(Ops)
    BY DEF Inv, TypeOK
  <2>5. Without(IndLine', IndLine, o)
    BY <1>0, <1>3, <1>4, <2>3, <2>4 DEF IndLine, TypeOK
  <2>6. ReqLine' = ReqLine
    <3>1. o # pending_req
      BY <1>1, ConstantsOK DEF Pending
    <3> QED BY <1>1, <2>1, <2>2, <3>1, SameReqLine DEF pending
  <2> QED BY <1>1, <1>2, <2>1, <2>2, <2>5, <2>6, StepDrop
<1>7. CASE o \in ToSet(req_queue)
  <2>1. /\ Type[o] = "REQ" /\ o \notin ToSet(ind_queue) /\ o \notin ToSet(write_queue)
        /\ req_queue # <<>>
    BY <1>0, <1>7, EmptySet DEF Conservation
  <2>2. UNCHANGED <<ind_queue, write_queue>>
    BY <1>1, <2>1 DEF RemoveFrom
  <2>3. IndLine' = IndLine
    BY <1>3, <2>2 DEF IndLine
  <2>4. req_queue' \in Seq(Ops) /\ ToSet(req_queue') = ToSet(req_queue) \ {o}
    BY <1>0, <1>1, RemoveSet DEF TypeOK, Conservation
  <2>5. CASE o \notin armed
    <3>1. pending_req = None /\ o = Head(req_queue)
      BY <1>7, <2>5 DEF RetriedHead
    <3>2. req_queue' = Tail(req_queue)
      BY <1>0, <1>1, <1>7, <3>1, UnlinkFromLine DEF TypeOK, Conservation
    <3>3. ToSet(req_queue') \subseteq armed'
      BY <1>1, <2>1, <2>5, <3>2, LinesTyped
    <3>4. Unanswered(req_queue)' = req_queue'
      <4>1. req_queue' # <<>> => Head(req_queue') \in ToSet(req_queue')
        BY <2>4, TailSet
      <4> QED BY <3>3, <4>1 DEF Unanswered
    <3>5. Unanswered(req_queue) = Tail(req_queue)
      BY <2>1, <2>5, <3>1 DEF Unanswered
    <3>6. ReqLine' = ReqLine
      BY <1>3, <3>2, <3>4, <3>5 DEF ReqLine
    <3> QED BY <1>1, <2>2, <2>3, <2>5, <3>6, StepNothing
  <2>6. CASE o \in armed
    <3>1. CASE Head(req_queue) \in armed
      <4>1. Unanswered(req_queue) = req_queue
        BY <3>1 DEF Unanswered
      <4>2. ToSet(req_queue) \subseteq armed
        BY <3>1 DEF RetriedHead
      <4>3. Unanswered(req_queue)' = req_queue'
        <5>1. req_queue' # <<>> => Head(req_queue') \in ToSet(req_queue')
          BY <2>4, TailSet
        <5> QED BY <1>1, <2>4, <4>2, <5>1 DEF Unanswered
      <4>4. /\ Without(req_queue', req_queue, o)
            /\ \A a \in Ops : Without(<<a>> \o req_queue', <<a>> \o req_queue, o)
        BY <1>0, <1>1, <1>7, UnlinkFromLine DEF TypeOK
      <4>5. Without(ReqLine', ReqLine, o)
        BY <1>0, <1>3, <1>4, <2>4, <4>1, <4>3, <4>4 DEF ReqLine, TypeOK
      <4> QED BY <1>1, <1>2, <2>1, <2>2, <2>3, <2>6, <4>5, StepDrop
    <3>2. CASE Head(req_queue) \notin armed
      <4>1. pending_req = None /\ Head(req_queue) \in ToSet(req_queue)
        BY <1>0, <2>1, <3>2, TailSet DEF RetriedHead, TypeOK
      <4>2. /\ req_queue' # <<>> /\ Head(req_queue') = Head(req_queue)
            /\ Without(Tail(req_queue'), Tail(req_queue), o)
        BY <1>0, <1>1, <1>7, <2>6, <3>2, UnlinkFromLine DEF TypeOK
      <4>3. Unanswered(req_queue) = Tail(req_queue)
        BY <2>1, <3>2 DEF Unanswered
      <4>4. Unanswered(req_queue)' = Tail(req_queue')
        BY <1>1, <3>2, <4>2 DEF Unanswered
      <4>5. Tail(req_queue) \in Seq(Ops) /\ Tail(req_queue') \in Seq(Ops)
        BY <1>0, <2>1, <2>4, <4>2, TailSet DEF TypeOK
      <4>6. ReqLine = Tail(req_queue) /\ ReqLine' = Tail(req_queue')
        BY <1>3, <4>1, <4>3, <4>4, <4>5, LinesTyped DEF ReqLine
      <4>7. Without(ReqLine', ReqLine, o)
        BY <4>2, <4>6
      <4> QED BY <1>1, <1>2, <2>1, <2>2, <2>3, <2>6, <4>7, StepDrop
    <3> QED BY <3>1, <3>2
  <2> QED BY <2>5, <2>6
<1> QED BY <1>1, <1>5, <1>6, <1>7 DEF Queued

(* The writer takes a request or an indication off its queue: the line     *)
(* without its head if that op is armed, and as it was if it is not.       *)
LEMMA PopLine ==
  ASSUME Between, NEW o \in Ops, PickNext(o), armed' = armed, busy = Idle
  PROVE  /\ Type[o] = "REQ" =>
              /\ Unanswered(req_queue)' = Tail(req_queue)
              /\ Tail(req_queue) \in Seq(Ops)
              /\ ReqLine = IF o \in armed THEN <<o>> \o Tail(req_queue)
                           ELSE Tail(req_queue)
         /\ Type[o] = "IND" =>
              /\ o \in armed /\ ind_queue' = Tail(ind_queue)
              /\ Tail(ind_queue) \in Seq(Ops)
              /\ IndLine = <<o>> \o Tail(ind_queue)
<1> USE DEF Between
<1>0. TypeOK /\ Conservation
  BY DEF Inv
<1>1. ASSUME Type[o] = "REQ"
      PROVE  /\ Unanswered(req_queue)' = Tail(req_queue)
             /\ Tail(req_queue) \in Seq(Ops)
             /\ ReqLine = IF o \in armed THEN <<o>> \o Tail(req_queue)
                          ELSE Tail(req_queue)
  <2>1. /\ pending_req = None /\ req_queue # <<>> /\ o = Head(req_queue)
        /\ req_queue' = Tail(req_queue)
    BY <1>0, <1>1, PickNextQueue
  <2>2. Tail(req_queue) \in Seq(Ops) /\ ToSet(Tail(req_queue)) \subseteq armed
    BY <1>0, <2>1, TailSet, LinesTyped DEF TypeOK
  <2>3. Unanswered(req_queue)' = Tail(req_queue)
    <3>1. req_queue' # <<>> => Head(req_queue') \in ToSet(req_queue')
      BY <2>1, <2>2, TailSet
    <3> QED BY <2>1, <2>2, <3>1 DEF Unanswered
  <2>4. ReqLine = Unanswered(req_queue)
    BY <2>1, LinesTyped DEF ReqLine
  <2>5. <<o>> \o Tail(req_queue) = req_queue
    BY <1>0, <2>1, Prepended DEF TypeOK
  <2> QED BY <2>1, <2>2, <2>3, <2>4, <2>5 DEF Unanswered
<1>2. ASSUME Type[o] = "IND"
      PROVE  /\ o \in armed /\ ind_queue' = Tail(ind_queue)
             /\ Tail(ind_queue) \in Seq(Ops)
             /\ IndLine = <<o>> \o Tail(ind_queue)
  <2>1. /\ pending_ind = None /\ ind_queue # <<>> /\ o = Head(ind_queue)
        /\ ind_queue' = Tail(ind_queue)
    BY <1>0, <1>2, PickNextQueue
  <2>2. Tail(ind_queue) \in Seq(Ops) /\ o \in armed
    BY <1>0, <2>1, TailSet DEF TypeOK, RetriedHead
  <2>3. IndLine = ind_queue
    BY <1>0, <2>1, LinesTyped DEF IndLine, TypeOK
  <2>4. <<o>> \o Tail(ind_queue) = ind_queue
    BY <1>0, <2>1, Prepended DEF TypeOK
  <2> QED BY <2>1, <2>2, <2>3, <2>4
<1> QED BY <1>1, <1>2

(* io_send succeeded: a command goes out, a request or an indication stays *)
(* at the head of its line, now as the one on the wire.                    *)
LEMMA WriteSentSim ==
  ASSUME Between, NEW o \in Ops, WriteSent(o)
  PROVE  Service!Emit(o) \/ UNCHANGED Service!service
<1> USE DEF Between
<1>0. TypeOK /\ Conservation
  BY DEF Inv
<1>1. /\ PickNext(o) /\ Open' = Open /\ busy = Idle /\ busy' = busy /\ used' = used
      /\ pending_req' = IF Type[o] = "REQ" THEN o ELSE pending_req
      /\ pending_ind' = IF Type[o] = "IND" THEN o ELSE pending_ind
      /\ busy.op = None /\ o # None
  BY ConstantsOK DEF WriteSent, Writing, Open, history, Idle
<1>2. Queued' = Queued \ {o} /\ o \in Queued
  BY <1>0, <1>1, PickNextSet
<1>3. o # pending_req /\ o # pending_ind
  BY <1>0, <1>1, <1>2 DEF Conservation, Pending
<1>4. CASE Type[o] = "REQ"
  <2>1. /\ armed' = armed /\ pending_req = None /\ pending_req' = o
        /\ UNCHANGED <<write_queue, ind_queue, pending_ind>>
    BY <1>0, <1>1, <1>4, PickNextQueue DEF WriteSent, memory
  <2>2. /\ Unanswered(req_queue)' = Tail(req_queue) /\ Tail(req_queue) \in Seq(Ops)
        /\ ReqLine = IF o \in armed THEN <<o>> \o Tail(req_queue) ELSE Tail(req_queue)
    BY <1>1, <1>4, <2>1, PopLine
  <2>3. OnWire(pending_req)' = IF o \in armed THEN <<o>> ELSE <<>>
    BY <1>1, <2>1 DEF OnWire
  <2>4. ReqLine' = ReqLine
    BY <2>2, <2>3, LinesTyped DEF ReqLine
  <2>5. IndLine' = IndLine
    BY <1>1, <2>1, SameIndLine
  <2> QED BY <1>1, <2>1, <2>4, <2>5, StepNothing
<1>5. CASE Type[o] = "IND"
  <2>1. /\ armed' = armed /\ pending_ind' = o
        /\ UNCHANGED <<write_queue, req_queue, pending_req>>
    BY <1>0, <1>1, <1>5, PickNextQueue DEF WriteSent, memory
  <2>2. /\ o \in armed /\ ind_queue' = Tail(ind_queue)
        /\ IndLine = <<o>> \o Tail(ind_queue)
    BY <1>1, <1>5, <2>1, PopLine
  <2>3. OnWire(pending_ind)' = <<o>>
    BY <1>1, <2>1, <2>2 DEF OnWire
  <2>4. IndLine' = IndLine
    BY <2>2, <2>3 DEF IndLine
  <2>5. ReqLine' = ReqLine
    BY <1>1, <2>1, SameReqLine
  <2> QED BY <1>1, <2>1, <2>4, <2>5, StepNothing
<1>6. CASE Type[o] \notin {"REQ", "IND"}
  <2>1. /\ write_queue # <<>> /\ o = Head(write_queue) /\ write_queue' = Tail(write_queue)
        /\ UNCHANGED <<req_queue, ind_queue, pending_req, pending_ind>>
        /\ armed' = armed \ {o}
    BY <1>0, <1>1, <1>6, PickNextQueue DEF WriteSent, Destroy
  <2>2. o \in armed
    BY <1>0, <2>1, TailSet DEF RetriedHead, TypeOK
  <2>3. o \notin ToSet(req_queue)
    BY <1>0, <1>6 DEF Conservation
  <2>4. ReqLine' = ReqLine /\ IndLine' = IndLine
    BY <1>1, <1>3, <2>1, <2>3, SameReqLine, SameIndLine
  <2> QED BY <1>1, <2>1, <2>2, <2>4, StepEmit
<1> QED BY <1>4, <1>5, <1>6

(* io_send failed: a request or an indication with a callback hears of it, *)
(* a command goes with its user_data given back.                           *)
LEMMA WriteFailedSim ==
  ASSUME Between, NEW o \in Ops, WriteFailed(o)
  PROVE  Service!Answer(o) \/ Service!Emit(o) \/ UNCHANGED Service!service
<1> USE DEF Between
<1>0. TypeOK /\ Conservation
  BY DEF Inv
<1>1. /\ PickNext(o) /\ Open' = Open /\ busy = Idle /\ used' = used
      /\ UNCHANGED <<pending_req, pending_ind>>
      /\ busy.op = None /\ o # None
  BY ConstantsOK DEF WriteFailed, Writing, Open, Idle, pending
<1>2. Queued' = Queued \ {o} /\ o \in Queued
  BY <1>0, <1>1, PickNextSet
<1>3. o # pending_req /\ o # pending_ind
  BY <1>0, <1>1, <1>2 DEF Conservation, Pending
<1>4. CASE HasCallback(o)
  <2>1. /\ armed' = armed /\ o \in armed /\ busy'.op = o /\ Type[o] \in {"REQ", "IND"}
    BY <1>4 DEF WriteFailed, Invoke, memory, HasCallback
  <2>2. CASE Type[o] = "REQ"
    <3>1. pending_req = None /\ UNCHANGED <<write_queue, ind_queue>>
      BY <1>0, <1>1, <2>2, PickNextQueue
    <3>2. /\ Unanswered(req_queue)' = Tail(req_queue) /\ Tail(req_queue) \in Seq(Ops)
          /\ ReqLine = <<o>> \o Tail(req_queue)
      BY <1>1, <2>1, <2>2, PopLine
    <3>3. OnWire(pending_req)' = <<>>
      BY <1>1, <2>1, <3>1, LinesTyped DEF OnWire
    <3>4. ReqLine # <<>> /\ Head(ReqLine) = o /\ ReqLine' = Tail(ReqLine)
      BY <3>2, <3>3, LeaveWire DEF ReqLine
    <3>5. IndLine' = IndLine
      BY <1>1, <1>3, <2>1, <3>1, SameIndLine, LinesTyped
    <3> QED BY <1>1, <2>1, <2>2, <3>1, <3>4, <3>5, StepAnswer
  <2>3. CASE Type[o] = "IND"
    <3>1. /\ pending_ind = None /\ UNCHANGED <<write_queue, req_queue>>
      BY <1>0, <1>1, <2>3, PickNextQueue
    <3>2. /\ ind_queue' = Tail(ind_queue) /\ Tail(ind_queue) \in Seq(Ops)
          /\ IndLine = <<o>> \o Tail(ind_queue)
      BY <1>1, <2>1, <2>3, PopLine
    <3>3. OnWire(pending_ind)' = <<>>
      BY <1>1, <2>1, <3>1, LinesTyped DEF OnWire
    <3>4. IndLine # <<>> /\ Head(IndLine) = o /\ IndLine' = Tail(IndLine)
      BY <3>2, <3>3, LeaveWire DEF IndLine
    <3>5. ReqLine' = ReqLine
      BY <1>1, <1>3, <2>1, <3>1, SameReqLine, LinesTyped
    <3> QED BY <1>1, <2>1, <2>3, <3>1, <3>4, <3>5, StepAnswer
  <2> QED BY <2>1, <2>2, <2>3
<1>5. CASE ~ HasCallback(o)
  <2>1. armed' = armed \ {o} /\ busy' = busy
    BY <1>5 DEF WriteFailed, Destroy
  <2>2. CASE Type[o] \notin {"REQ", "IND"}
    <3>1. /\ write_queue # <<>> /\ o = Head(write_queue) /\ write_queue' = Tail(write_queue)
          /\ UNCHANGED <<req_queue, ind_queue>>
      BY <1>0, <1>1, <2>2, PickNextQueue
    <3>2. o \in armed
      BY <1>0, <3>1, TailSet DEF RetriedHead, TypeOK
    <3>3. o \notin ToSet(req_queue)
      BY <1>0, <2>2 DEF Conservation
    <3>4. ReqLine' = ReqLine /\ IndLine' = IndLine
      BY <1>1, <1>3, <2>1, <3>1, <3>3, SameReqLine, SameIndLine
    <3> QED BY <1>1, <2>1, <3>1, <3>2, <3>4, StepEmit
  <2>3. CASE Type[o] = "REQ"
    <3>1. o \notin armed /\ armed' = armed
      BY <1>5, <2>1, <2>3 DEF HasCallback
    <3>2. pending_req = None /\ UNCHANGED <<write_queue, ind_queue>>
      BY <1>0, <1>1, <2>3, PickNextQueue
    <3>3. /\ Unanswered(req_queue)' = Tail(req_queue) /\ Tail(req_queue) \in Seq(Ops)
          /\ ReqLine = Tail(req_queue)
      BY <1>1, <2>3, <3>1, PopLine
    <3>4. OnWire(pending_req)' = <<>>
      BY <1>1, <3>1, <3>2, LinesTyped DEF OnWire
    <3>5. ReqLine' = ReqLine
      BY <3>3, <3>4, LinesTyped DEF ReqLine
    <3>6. IndLine' = IndLine
      BY <1>1, <2>1, <3>1, <3>2, SameIndLine
    <3> QED BY <1>1, <2>1, <3>1, <3>2, <3>5, <3>6, StepNothing
  <2>4. CASE Type[o] = "IND"
    <3>1. ind_queue # <<>> /\ o = Head(ind_queue)
      BY <1>0, <1>1, <2>4, PickNextQueue
    <3>2. o \in armed
      BY <1>0, <3>1, TailSet DEF RetriedHead, TypeOK
    <3> QED BY <1>5, <2>4, <3>2 DEF HasCallback
  <2> QED BY <2>2, <2>3, <2>4
<1> QED BY <1>4, <1>5

(* A response ends the pending request: its callback starts, or, cancelled *)
(* before, it only leaves its slot.  A confirmation likewise.              *)
LEMMA ReadSim ==
  ASSUME Between, ReadResponse \/ ReadConf
  PROVE  \/ \E o \in Ops : Service!Answer(o)
         \/ UNCHANGED Service!service
<1> USE DEF Between
<1>0. TypeOK /\ Conservation /\ None \notin armed
  BY LinesTyped DEF Inv
<1>1. /\ Open' = Open /\ busy.op = None /\ used' = used
      /\ UNCHANGED <<write_queue, req_queue, ind_queue>>
  BY DEF ReadResponse, ReadConf, Reading, Open, Idle, queues
<1>2. CASE ReadResponse
  <2>1. pending_req \in Ops /\ Type[pending_req] = "REQ" /\ pending_ind' = pending_ind
        /\ pending_req # pending_ind
    BY <1>0, <1>2 DEF ReadResponse, TypeOK, OpOrNone, Conservation
  <2>2. CASE HasCallback(pending_req)
    <3>1. /\ armed' = armed /\ pending_req \in armed /\ busy'.op = pending_req
          /\ pending_req' = pending_req
      BY <1>2, <2>2 DEF ReadResponse, Invoke, memory, HasCallback
    <3>2. /\ ReqLine = <<pending_req>> \o Unanswered(req_queue)
          /\ ReqLine' = <<>> \o Unanswered(req_queue)
      BY <1>0, <1>1, <3>1 DEF ReqLine, OnWire, Unanswered
    <3>3. ReqLine # <<>> /\ Head(ReqLine) = pending_req /\ ReqLine' = Tail(ReqLine)
      BY <2>1, <3>2, LeaveWire, LinesTyped
    <3>4. IndLine' = IndLine
      BY <1>0, <1>1, <2>1, <3>1, SameIndLine
    <3> QED BY <1>1, <2>1, <3>1, <3>3, <3>4, StepAnswer
  <2>3. CASE ~ HasCallback(pending_req)
    <3>1. /\ pending_req \notin armed /\ armed' = armed /\ pending_req' = None
          /\ busy' = busy
      BY <1>2, <2>1, <2>3 DEF ReadResponse, Destroy, HasCallback
    <3>2. ReqLine' = ReqLine
      BY <1>0, <1>1, <3>1 DEF ReqLine, OnWire, Unanswered
    <3>3. IndLine' = IndLine
      BY <1>1, <2>1, <3>1, SameIndLine
    <3> QED BY <1>1, <3>1, <3>2, <3>3, StepNothing
  <2> QED BY <2>2, <2>3
<1>3. CASE ReadConf
  <2>1. pending_ind \in Ops /\ Type[pending_ind] = "IND" /\ pending_req' = pending_req
        /\ pending_req # pending_ind
    BY <1>0, <1>3 DEF ReadConf, TypeOK, OpOrNone, Conservation
  <2>2. CASE HasCallback(pending_ind)
    <3>1. /\ armed' = armed /\ pending_ind \in armed /\ busy'.op = pending_ind
          /\ pending_ind' = pending_ind
      BY <1>3, <2>2 DEF ReadConf, Invoke, memory, HasCallback
    <3>2. IndLine = <<pending_ind>> \o ind_queue /\ IndLine' = <<>> \o ind_queue
      BY <1>0, <1>1, <3>1 DEF IndLine, OnWire
    <3>3. IndLine # <<>> /\ Head(IndLine) = pending_ind /\ IndLine' = Tail(IndLine)
      BY <1>0, <2>1, <3>2, LeaveWire DEF TypeOK
    <3>4. ReqLine' = ReqLine
      BY <1>0, <1>1, <2>1, <3>1, SameReqLine
    <3> QED BY <1>1, <2>1, <3>1, <3>3, <3>4, StepAnswer
  <2>3. CASE ~ HasCallback(pending_ind)
    <3>1. /\ pending_ind \notin armed /\ armed' = armed /\ pending_ind' = None
          /\ busy' = busy
      BY <1>3, <2>1, <2>3 DEF ReadConf, Destroy, HasCallback
    <3>2. IndLine' = IndLine
      BY <1>0, <1>1, <3>1 DEF IndLine, OnWire
    <3>3. ReqLine' = ReqLine
      BY <1>1, <2>1, <3>1, SameReqLine
    <3> QED BY <1>1, <3>1, <3>2, <3>3, StepNothing
  <2> QED BY <2>2, <2>3
<1> QED BY <1>2, <1>3

(* A retried request moves from the wire to the head of its queue: in line *)
(* it stays where it was, and one that was cancelled stays out of line.    *)
LEMMA RetrySim == ASSUME Between, ReadRetry PROVE UNCHANGED Service!service
<1> USE DEF Between
<1>0. TypeOK /\ None \notin armed
  BY LinesTyped DEF Inv
<1>1. /\ Open' = Open /\ used' = used /\ armed' = armed /\ busy.op = None /\ busy' = busy
      /\ pending_req \in Ops /\ pending_req' = None
      /\ req_queue' = <<pending_req>> \o req_queue
      /\ UNCHANGED <<write_queue, ind_queue, pending_ind>>
  BY <1>0 DEF ReadRetry, Reading, Open, Idle, history, memory, TypeOK, OpOrNone
<1>2. /\ req_queue' # <<>> /\ Head(req_queue') = pending_req
      /\ Tail(req_queue') = req_queue /\ req_queue' \in Seq(Ops)
  BY <1>0, <1>1, Prepended DEF TypeOK
<1>3. Unanswered(req_queue) = req_queue
  BY <1>0, <1>1, LinesTyped, ConstantsOK
<1>4. OnWire(pending_req)' = <<>> /\ <<>> \o req_queue = req_queue
      /\ <<>> \o req_queue' = req_queue'
  BY <1>0, <1>1, <1>2, Prepended DEF OnWire, TypeOK
<1>5. CASE pending_req \in armed
  <2>1. ReqLine = req_queue'
    BY <1>0, <1>1, <1>3, <1>5 DEF ReqLine, OnWire
  <2>2. Unanswered(req_queue)' = req_queue'
    BY <1>1, <1>2, <1>5 DEF Unanswered
  <2>3. ReqLine' = ReqLine
    BY <1>4, <2>1, <2>2 DEF ReqLine
  <2> QED BY <1>1, <2>3, SameIndLine, StepNothing
<1>6. CASE pending_req \notin armed
  <2>1. ReqLine = req_queue
    BY <1>3, <1>4, <1>6 DEF ReqLine, OnWire
  <2>2. Unanswered(req_queue)' = req_queue
    BY <1>1, <1>2, <1>6 DEF Unanswered
  <2>3. ReqLine' = ReqLine
    BY <1>4, <2>1, <2>2 DEF ReqLine
  <2> QED BY <1>1, <2>3, SameIndLine, StepNothing
<1> QED BY <1>5, <1>6

(* A callback returns and the handler destroys its op; if the callback has *)
(* cancelled it, the service has seen the end of it already.               *)
LEMMA ReturnSim ==
  ASSUME Between, WriteFailedDone \/ ResponseDone \/ ConfDone
  PROVE  \/ \E o \in Ops : Service!Finish(o)
         \/ UNCHANGED Service!service
<1> USE DEF Between
<1>0. TypeOK /\ Conservation /\ BusyOK /\ None \notin armed
  BY LinesTyped DEF Inv
<1>1. /\ Open' = Open /\ used' = used /\ armed' = armed \ {busy.op}
      /\ busy'.op = None /\ busy.op # None
      /\ UNCHANGED <<write_queue, req_queue, ind_queue>>
      /\ pending_req' \in {pending_req, IF pending_req = busy.op THEN None ELSE pending_req}
      /\ pending_ind' \in {pending_ind, IF pending_ind = busy.op THEN None ELSE pending_ind}
  BY <1>0 DEF WriteFailedDone, ResponseDone, ConfDone, Destroy, Open, Idle, BusyOK,
              queues, pending, history
<1>2. busy.op \notin Queued
  BY <1>0, <1>1 DEF WriteFailedDone, ResponseDone, ConfDone, BusyOK, Conservation,
                    Held, Pending
<1>3. Unanswered(req_queue)' = Unanswered(req_queue)
  BY <1>0, <1>1, <1>2, TailSet DEF Unanswered, Queued, TypeOK
<1>4. OnWire(pending_req)' = OnWire(pending_req) /\ OnWire(pending_ind)' = OnWire(pending_ind)
  BY <1>0, <1>1 DEF OnWire
<1>5. ReqLine' = ReqLine /\ IndLine' = IndLine
  BY <1>1, <1>3, <1>4 DEF ReqLine, IndLine
<1>6. CASE busy.op \in armed
  <2>1. PICK o \in armed : o = busy.op
    BY <1>6
  <2>2. o \in Ops
    BY <1>0 DEF TypeOK
  <2>3. armed' = armed \ {o} /\ busy.op = o /\ busy'.op \in {None, o}
    BY <1>1, <2>1
  <2>4. Service!Finish(o)
    BY <1>1, <1>5, <2>3, StepFinish
  <2> QED BY <2>2, <2>4
<1>7. CASE busy.op \notin armed
  <2>1. armed' = armed
    BY <1>1, <1>7
  <2>2. {busy'.op} \intersect armed = {busy.op} \intersect armed
    BY <1>0, <1>1, <1>7
  <2> QED BY <1>1, <1>5, <2>1, <2>2, StepNothing
<1> QED BY <1>6, <1>7

-----------------------------------------------------------------------------
(* Every step of the bearer is a step of the service or a stutter.         *)
LEMMA NextSim ==
  ASSUME Between, [Next]_vars
  PROVE  [Service!ServiceNext]_(Service!service)
<1> USE DEF Between
<1>0. ASSUME NEW o \in Ops,
             Service!Submit(o) \/ Service!Answer(o) \/ Service!Finish(o)
               \/ Service!Emit(o) \/ Service!Drop(o)
      PROVE  Service!ServiceNext
  BY <1>0 DEF Service!ServiceNext
<1>1. ASSUME NEW o \in Ops, Send(o) \/ ReadNotSupported(o) PROVE Service!ServiceNext
  <2>1. Open /\ Open' = Open /\ NewOp(o) /\ Enqueue(o) /\ UNCHANGED <<pending, busy>>
    BY <1>1 DEF Send, ReadNotSupported, Reading, Open
  <2> QED BY <1>0, <2>1, SubmitSim
<1>2. ASSUME NEW o \in Ops, CancelPending(o) \/ Timeout(o)
      PROVE  [Service!ServiceNext]_(Service!service)
  <2>1. /\ o \in Pending /\ Open' = Open /\ busy' = busy /\ armed' = armed \ {o}
        /\ UNCHANGED <<queues, used>>
        /\ pending_req' \in {pending_req, IF pending_req = o THEN None ELSE pending_req}
        /\ pending_ind' \in {pending_ind, IF pending_ind = o THEN None ELSE pending_ind}
    <3>1. CASE CancelPending(o)
      BY <3>1 DEF CancelPending, Open, pending, history
    <3>2. CASE Timeout(o)
      BY <3>2 DEF Timeout, Destroy, Shutdown, Open, history, Pending
    <3> QED BY <1>2, <3>1, <3>2
  <2> QED BY <1>0, <2>1, PendingDropSim
<1>3. ASSUME NEW o \in Ops, CancelQueued(o)
      PROVE  [Service!ServiceNext]_(Service!service)
  BY <1>0, <1>3, CancelQueuedSim
<1>4. ASSUME CancelAll \/ Unref \/ Disconnect PROVE Service!ServiceNext
  <2>1. DropAll /\ UNCHANGED <<busy, used>>
    BY <1>4 DEF CancelAll, Unref, Disconnect, history
  <2>2. pending_req' \in {pending_req, None} /\ pending_ind' \in {pending_ind, None}
    BY <1>4 DEF CancelAll, Unref, Disconnect, pending
  <2>3. Open' = Open \/ Open' = FALSE
    BY <1>4 DEF CancelAll, Unref, Disconnect, Open
  <2> QED BY <2>1, <2>2, <2>3, FlushSim DEF Service!ServiceNext
<1>5. ASSUME NEW o \in Ops, WriteSent(o)
      PROVE  [Service!ServiceNext]_(Service!service)
  BY <1>0, <1>5, WriteSentSim
<1>6. ASSUME NEW o \in Ops, WriteFailed(o)
      PROVE  [Service!ServiceNext]_(Service!service)
  BY <1>0, <1>6, WriteFailedSim
<1>7. ASSUME ReadResponse \/ ReadConf PROVE [Service!ServiceNext]_(Service!service)
  BY <1>0, <1>7, ReadSim
<1>8. ASSUME ReadRetry PROVE UNCHANGED Service!service
  BY <1>8, RetrySim
<1>9. ASSUME WriteFailedDone \/ ResponseDone \/ ConfDone
      PROVE  [Service!ServiceNext]_(Service!service)
  BY <1>0, <1>9, ReturnSim
<1>10. ASSUME \/ ReadUnexpected \/ ReadNotify \/ NotifyDone \/ Peer \/ WriteNothing
              \/ \E level \in ApiLevels : SetSecurity(level)
              \/ UNCHANGED vars
       PROVE  UNCHANGED Service!service
  <2>1. /\ Open' = Open /\ UNCHANGED <<queues, pending, used, armed>>
        /\ {busy'.op} \intersect armed = {busy.op} \intersect armed
    <3>1. CASE ReadNotify \/ NotifyDone
      <4>1. busy.op = None /\ busy'.op = None
        BY <3>1 DEF ReadNotify, NotifyDone, Reading, Idle, Inv, BusyOK
      <4> QED BY <3>1, <4>1 DEF ReadNotify, NotifyDone, Reading, Open, history, memory
    <3>2. CASE ReadUnexpected \/ WriteNothing \/ \E level \in ApiLevels : SetSecurity(level)
      BY <3>2 DEF ReadUnexpected, Reading, Shutdown, WriteNothing, SetSecurity, Open,
                  history, memory
    <3>3. CASE Peer
      BY <3>3 DEF Peer, PeerAnswers, PeerSpeaks, PeerMisbehaves, PeerHangsUp, Open,
                  local, history, memory
    <3>4. CASE UNCHANGED vars
      BY <3>4 DEF vars, Open, history, memory
    <3> QED BY <1>10, <3>1, <3>2, <3>3, <3>4
  <2> QED BY <2>1, QuietSim
<1> QED
  BY <1>1, <1>2, <1>3, <1>4, <1>5, <1>6, <1>7, <1>8, <1>9, <1>10
     DEF Next, Api, Write, Read, Return

(* The bearer starts as the service does, with nothing in line.            *)
LEMMA InitSim == Init => RetriedHead /\ Service!ServiceInit
<1> SUFFICES ASSUME Init PROVE RetriedHead /\ Service!ServiceInit
  OBVIOUS
<1>1. RetriedHead
  BY EmptySet DEF Init, RetriedHead
<1>2. ReqLine = <<>> /\ IndLine = <<>>
  <2>1. <<>> \o <<>> = <<>>
    OBVIOUS
  <2> QED BY <2>1 DEF Init, ReqLine, IndLine, OnWire, Unanswered
<1>3. {busy.op} \intersect armed = {} /\ {o \in Ops : released[o] > 0} = {}
  BY DEF Init
<1>4. [REQ |-> <<>>, IND |-> <<>>, WRITE |-> <<>>] = [l \in {"REQ", "IND", "WRITE"} |-> <<>>]
  OBVIOUS
<1>5. Service!ServiceInit
  BY <1>2, <1>3, <1>4 DEF Service!ServiceInit, Service!Lines, Init, Open
<1> QED BY <1>1, <1>5

(* What the layer above may rely on, however the queues, the writer, the   *)
(* peer, timeouts, cancellations and reentrant callbacks interleave:       *)
(* requests and indications are answered in the order they were submitted, *)
(* at most once each, and no user_data is given back before its callback.  *)
THEOREM BearerImplementsService == Spec => ImplementsService
<1>1. Init => RetriedHead /\ Service!ServiceInit
  BY InitSim
<1>2. Inv /\ RetriedHead /\ Inv' /\ RetriedHead' /\ [Next]_vars
        => [Service!ServiceNext]_(Service!service)
  BY NextSim DEF Between
<1>3. Inv /\ RetriedHead /\ [Next]_vars => RetriedHead'
  BY NextRetriedHead
<1>4. Spec => []Inv
  BY InvAlways
<1> QED BY <1>1, <1>2, <1>3, <1>4, PTL DEF Spec, ImplementsService, Service!ServiceSpec

=============================================================================
