-------------------------- MODULE AttThreadsProofs --------------------------
(***************************************************************************)
(* Inv and SentInOrder of AttThreads, for every script and both kinds of   *)
(* caller.                                                                 *)
(*                                                                         *)
(* Each statement of queue_push_tail moves one piece of the list from the  *)
(* operations before Script[k] to those up to and with it, each statement  *)
(* of queue_pop_head takes popped out of one.  Called from callbacks, the  *)
(* statements of the two never mix (Alone), and every piece of a list says *)
(* the same of the operations that wait, up to the one being pushed and    *)
(* the one being popped (ListsOK).  Called from a thread they do mix and   *)
(* nothing of that holds; what does is that no pointer leads backwards     *)
(* (Ordered), which is enough for the order on the socket.                 *)
(***************************************************************************)
EXTENDS AttThreads, QueueLemmas

Le(o, p) == Position(o) <= Position(p)

(* The last operation that a piece of the list accounts for: Script[k]     *)
(* once the caller is past the labels given.                               *)
Upto(labels) == IF pc["main"] \in labels THEN k - 1 ELSE k

BeforeTail == {"ready", "push_check", "push_link", "push_tail"}
BeforeEntries == BeforeTail \union {"push_head", "push_count", "push_counted"}

UptoNext == Upto({"ready", "push_check", "push_link"})
UptoTail == Upto(BeforeTail)
UptoHead == Upto(BeforeTail \union {"push_head"})
UptoEntries == Upto(BeforeEntries)

(* The loop holds an entry that it has not written, which head, tail and   *)
(* entries no longer account for.                                          *)
OutOfTail == pc["loop"] \in {"pop_count", "pop_counted", "write"}
OutOfHead == pc["loop"] = "pop_tail" \/ OutOfTail
OutOfEntries == pc["loop"] = "write"
InFlight == pc["loop"] = "pop_last" \/ OutOfHead

Pushing == {"push_check", "push_link", "push_tail", "push_head", "push_count",
            "push_counted", "returned"} \union WakeLabels
Labels == MainLabels \union LoopLabels \union WakeLabels \union {"crashed"}

(* Type correctness, but for the range of entries.                         *)
Typed ==
  /\ caller \in Callers
  /\ pc \in [Threads -> Labels]
  /\ pc["main"] \in MainLabels \union WakeLabels \union {"crashed"}
  /\ pc["loop"] \in LoopLabels \union WakeLabels \union {"crashed"}
  /\ pc["main"] = "crashed" <=> pc["loop"] = "crashed"
  /\ k \in 1 .. Len(Script) + 1
  /\ pc["main"] \in Pushing => k <= Len(Script)
  /\ count \in [Threads -> Int]
  /\ ready \subseteq {"IN", "OUT"}
  /\ popq \in QueueNames /\ popped \in OpOrNone
  /\ InFlight => popped # None
  /\ head \in [QueueNames -> OpOrNone] /\ tail \in [QueueNames -> OpOrNone]
  /\ next \in [Ops -> OpOrNone]
  /\ entries \in [QueueNames -> Int]
  /\ pending_req \in OpOrNone
  /\ air \in {"none", "asked", "answered"}
  /\ air # "none" => pending_req # None
  /\ pc["loop"] = "rsp_clear" => air = "none"
  /\ pc["loop"] = "in" /\ "IN" \in ready => air = "answered"
  /\ sent \in Seq(Ops) /\ answered \subseteq Ops

Flagged == {writer_active, write_callback, watch, events, epoll} \subseteq BOOLEAN

(* No pointer leads backwards, and nothing written or about to be comes    *)
(* after what its queue still holds.                                       *)
HeadOrdered == \A l \in QueueNames :
  head[l] # None => QueueOf(head[l]) = l /\ Position(head[l]) <= k
TailOrdered == \A l \in QueueNames :
  tail[l] # None => QueueOf(tail[l]) = l /\ Position(tail[l]) <= UptoTail
NextOrdered == \A o \in Ops : next[o] # None =>
  /\ QueueOf(next[o]) = QueueOf(o)
  /\ Position(o) < Position(next[o]) /\ Position(next[o]) <= k
SentBefore == \A i \in DOMAIN sent :
  /\ Position(sent[i]) <= k
  /\ head[QueueOf(sent[i])] # None => Le(sent[i], head[QueueOf(sent[i])])
  /\ InFlight /\ QueueOf(sent[i]) = popq => Le(sent[i], popped)
PoppedBefore == InFlight =>
  /\ QueueOf(popped) = popq /\ Position(popped) <= k
  /\ head[popq] # None => Le(popped, head[popq])
SentOrdered == \A i, j \in DOMAIN sent :
  i < j /\ QueueOf(sent[i]) = QueueOf(sent[j]) => Le(sent[i], sent[j])
Ordered == /\ HeadOrdered /\ TailOrdered /\ NextOrdered
           /\ SentBefore /\ PoppedBefore /\ SentOrdered

-----------------------------------------------------------------------------
(* A caller that is a callback.                                            *)

Alone == pc["main"] \in {"ready", "returned"} \/ pc["loop"] = "wait"

(* What queue l should hold of the operations up to Script[hi].            *)
Waiting(l, hi, out) ==
  {o \in Ops : /\ QueueOf(o) = l /\ Position(o) <= hi /\ o \notin ToSet(sent)
               /\ out => o # popped}

IsFirst(o, P) == IF P = {} THEN o = None ELSE o \in P /\ \A p \in P : Le(o, p)
IsLast(o, P) == IF P = {} THEN o = None ELSE o \in P /\ \A p \in P : Le(p, o)
After(o, P) == {p \in P : Position(o) < Position(p)}

HeadsOK == \A l \in QueueNames : IsFirst(head[l], Waiting(l, UptoHead, OutOfHead))
TailsOK == \A l \in QueueNames : IsLast(tail[l], Waiting(l, UptoTail, OutOfTail))
EntriesOK == \A l \in QueueNames :
               entries[l] = Cardinality(Waiting(l, UptoEntries, OutOfEntries))
LinksOK == \A l \in QueueNames :
             LET P == Waiting(l, UptoNext, OutOfHead) IN
             \A o \in P : IsFirst(next[o], After(o, P))
NotYet == \A o \in Ops : Position(o) > UptoNext => next[o] = None
ListsOK == HeadsOK /\ TailsOK /\ EntriesOK /\ LinksOK /\ NotYet

SentOnce ==
  /\ \A i \in DOMAIN sent : Position(sent[i]) <= UptoEntries
  /\ IsInjective(sent)
  /\ InFlight => /\ popped \notin ToSet(sent) /\ QueueOf(popped) = popq
                 /\ Position(popped) <= UptoEntries
  /\ pc["loop"] \in {"pop_last", "pop_tail"} => Waiting(popq, UptoHead, TRUE) = {}

(* What a thread has read is still so when it acts on it.                  *)
StillSo ==
  /\ pc["main"] = "push_counted" => count["main"] = entries[q]
  /\ pc["loop"] = "pop_counted" => count["loop"] = entries[popq]
  /\ pc["main"] = "push_link" => tail[q] # None

Active == IF pc["loop"] = "wait" THEN pc["main"] ELSE pc["loop"]

(* writer_active and the parts of the handler, statement by statement.     *)
HandlerOK ==
  /\ Active \in {"w_empty", "h_destroy", "h_callback"} =>
       ~ writer_active /\ ~ write_callback /\ ~ watch /\ ~ events /\ ~ epoll
  /\ Active = "h_watch" =>
       ~ writer_active /\ write_callback /\ ~ watch /\ ~ events /\ ~ epoll
  /\ Active = "h_epoll" =>
       ~ writer_active /\ write_callback /\ watch /\ ~ events /\ ~ epoll
  /\ Active = "h_events" =>
       ~ writer_active /\ write_callback /\ watch /\ ~ events /\ epoll
  /\ Active \in {"w_set", "rm_callback"} =>
       ~ writer_active /\ write_callback /\ watch /\ events /\ epoll
  /\ Active \in {"pop", "pop_last", "pop_tail", "pop_count", "pop_counted",
                 "write", "rm_flag"} =>
       writer_active /\ write_callback /\ watch /\ events /\ epoll
  /\ Active = "rm_watch" =>
       ~ writer_active /\ ~ write_callback /\ watch /\ events /\ epoll
  /\ Active = "rm_events" =>
       ~ writer_active /\ ~ write_callback /\ ~ watch /\ events /\ epoll
  /\ Active = "rm_epoll" =>
       ~ writer_active /\ ~ write_callback /\ ~ watch /\ ~ events /\ epoll
  /\ Active \in {"ready", "returned", "push_check", "push_link", "push_tail",
                 "push_head", "push_count", "push_counted", "w_flag", "in",
                 "rsp_clear", "out"} =>
       \/ writer_active /\ write_callback /\ watch /\ events /\ epoll
       \/ ~ writer_active /\ ~ write_callback /\ ~ watch /\ ~ events /\ ~ epoll

Sequential == ~ Crashed /\ Alone /\ HandlerOK /\ ListsOK /\ SentOnce /\ StillSo

IInv ==
  /\ Typed /\ Flagged
  /\ SentOrdered
  /\ ~ Crashed => Ordered
  /\ caller = "callback" => Sequential

-----------------------------------------------------------------------------
(* Each operation has its position in Script and is there alone.           *)
LEMMA Scripted ==
  /\ Len(Script) \in Nat /\ None \notin Ops
  /\ \A o \in Ops : Position(o) \in 1 .. Len(Script) /\ Script[Position(o)] = o
  /\ \A i \in 1 .. Len(Script) : Script[i] \in Ops /\ Position(Script[i]) = i
  /\ \A o \in Ops : QueueOf(o) \in QueueNames
<1>1. /\ Len(Script) \in Nat /\ DOMAIN Script = 1 .. Len(Script)
      /\ Ops = {Script[i] : i \in DOMAIN Script}
  BY ScriptOK, QueueEntries DEF Ops
<1>2. \A i, j \in DOMAIN Script : Script[i] = Script[j] => i = j
  BY ScriptOK DEF IsInjective
<1>3. \A o \in Ops : Position(o) \in DOMAIN Script /\ Script[Position(o)] = o
  <2> TAKE o \in Ops
  <2>1. \E i \in DOMAIN Script : Script[i] = o
    BY <1>1
  <2> QED BY <2>1 DEF Position
<1>4. \A i \in DOMAIN Script : Script[i] \in Ops /\ Position(Script[i]) = i
  BY <1>1, <1>2, <1>3
<1>5. \A o \in Ops : QueueOf(o) \in QueueNames
  BY DEF QueueOf, QueueNames
<1> QED BY <1>1, <1>3, <1>4, <1>5, ScriptOK

(* A step of one thread moves that thread alone.                           *)
LEMMA Going ==
  ASSUME pc \in [Threads -> Labels], NEW t \in Threads, NEW label \in Labels,
         Goto(t, label)
  PROVE  /\ pc' \in [Threads -> Labels] /\ pc'[t] = label
         /\ \A u \in Threads : u # t => pc'[u] = pc[u]
BY DEF Goto

(* Crashed, neither thread does anything more.                             *)
LEMMA Crashing ==
  ASSUME Crash
  PROVE  pc' \in [Threads -> Labels] /\ pc'["main"] = "crashed" /\ pc'["loop"] = "crashed"
BY DEF Crash, Threads, Labels

(* The statements of wakeup_writer keep the types, on either thread.       *)
LEMMA WakeupTyped ==
  ASSUME Typed, NEW t \in Threads, Wakeup(t)
  PROVE  Typed'
<1> USE DEF Typed, Goto, At, InFlight, OutOfHead, OutOfTail, Labels, Pushing,
            Threads, MainLabels, LoopLabels, WakeLabels, BackFrom,
            locals, lists, handler, wire
<1>1. CASE WakeFlag(t)
  BY <1>1 DEF WakeFlag
<1>2. CASE WakeEmpty(t)
  BY <1>2 DEF WakeEmpty
<1>3. CASE HandlerDestroy(t)
  BY <1>3 DEF HandlerDestroy
<1>4. CASE HandlerCallback(t)
  BY <1>4 DEF HandlerCallback
<1>5. CASE HandlerWatch(t)
  BY <1>5 DEF HandlerWatch
<1>6. CASE HandlerEpoll(t)
  BY <1>6 DEF HandlerEpoll
<1>7. CASE HandlerEvents(t)
  BY <1>7 DEF HandlerEvents
<1>8. CASE WakeSet(t)
  BY <1>8 DEF WakeSet
<1> QED BY <1>1, <1>2, <1>3, <1>4, <1>5, <1>6, <1>7, <1>8, Zenon DEF Wakeup

(* So do those of bt_att_send.                                             *)
LEMMA CallerTyped ==
  ASSUME Typed, Caller
  PROVE  Typed'
<1> USE Scripted DEF Typed, Goto, At, InFlight, OutOfHead, OutOfTail, Labels,
            Pushing, Threads, MainLabels, LoopLabels, WakeLabels,
            locals, lists, handler, wire, OpOrNone
<1>0. pc["main"] \in Pushing => op \in Ops /\ q \in QueueNames
  BY DEF op, q
<1>1. CASE Call
  BY <1>1 DEF Call
<1>2. CASE PushCheck
  BY <1>2 DEF PushCheck
<1>3. CASE PushLink
  <2>1. CASE Crash
    BY <1>3, <2>1 DEF PushLink, Crash
  <2>2. CASE ~ Crash
    <3>1. Goto("main", "push_tail") /\ At("main", "push_link")
      BY <1>3, <2>2 DEF PushLink
    <3>2. next' \in [Ops -> OpOrNone]
      <4>1. next' = next \/ next' = [next EXCEPT ![tail[q]] = op]
        BY <1>3 DEF PushLink
      <4> QED BY <1>0, <3>1, <4>1
    <3>3. UNCHANGED <<caller, k, locals, head, tail, entries, pending_req, writer_active,
                      handler, wire>>
      BY <1>3 DEF PushLink
    <3> QED BY <3>1, <3>2, <3>3
  <2> QED BY <2>1, <2>2
<1>4. CASE PushTail
  <2>1. tail' \in [QueueNames -> OpOrNone]
    BY <1>0, <1>4 DEF PushTail
  <2> QED BY <1>4, <2>1 DEF PushTail
<1>5. CASE PushHead
  <2>1. head' \in [QueueNames -> OpOrNone]
    BY <1>0, <1>5 DEF PushHead
  <2> QED BY <1>5, <2>1 DEF PushHead
<1>6. CASE PushCount
  BY <1>0, <1>6 DEF PushCount, ReadCount
<1>7. CASE PushCounted
  BY <1>0, <1>7 DEF PushCounted, WriteCount
<1>8. CASE Returned
  BY <1>8 DEF Returned
<1>9. CASE Wakeup("main")
  BY <1>9, WakeupTyped
<1> QED BY <1>1, <1>2, <1>3, <1>4, <1>5, <1>6, <1>7, <1>8, <1>9, Zenon DEF Caller

(* ... and those of the main loop.                                         *)
LEMMA LoopTyped ==
  ASSUME Typed, Loop
  PROVE  Typed'
<1> USE Scripted DEF Typed, Goto, At, InFlight, OutOfHead, OutOfTail, Labels,
            Pushing, Threads, MainLabels, LoopLabels, WakeLabels,
            locals, lists, handler, wire, OpOrNone
<1>1. CASE Wait
  BY <1>1 DEF Wait
<1>2. CASE In
  BY <1>2 DEF In
<1>3. CASE RspClear
  BY <1>3 DEF RspClear
<1>4. CASE Out
  <2>1. CASE Crash
    BY <1>4, <2>1 DEF Out, Crash, QueueNames
  <2>2. CASE ~ Crash
    BY <1>4, <2>2 DEF Out, QueueNames
  <2> QED BY <2>1, <2>2
<1>5. CASE PopNothing
  BY <1>5 DEF PopNothing, QueueNames
<1>6. CASE PopEntry
  <2>1. head[popq] \in Ops
    BY <1>6 DEF PopEntry
  <2>2. head' \in [QueueNames -> OpOrNone]
    <3>1. head' = head \/ head' = [head EXCEPT ![popq] = next[head[popq]]]
      BY <1>6 DEF PopEntry
    <3>2. next[head[popq]] \in OpOrNone /\ popq \in QueueNames
      BY <2>1
    <3>3. head \in [QueueNames -> OpOrNone]
      OBVIOUS
    <3> HIDE DEF OpOrNone, Typed
    <3> QED BY ONLY <3>1, <3>2, <3>3
  <2> QED BY <1>6, <2>1, <2>2 DEF PopEntry
<1>7. CASE PopLast
  BY <1>7 DEF PopLast
<1>8. CASE PopTail
  BY <1>8 DEF PopTail
<1>9. CASE PopCount
  BY <1>9 DEF PopCount, ReadCount
<1>10. CASE PopCounted
  BY <1>10 DEF PopCounted, WriteCount
<1>11. CASE Write
  BY <1>11 DEF Write
<1>12. CASE RemoveFlag
  BY <1>12 DEF RemoveFlag
<1>13. CASE RemoveCallback
  BY <1>13 DEF RemoveCallback
<1>14. CASE RemoveWatch
  BY <1>14 DEF RemoveWatch
<1>15. CASE RemoveEvents
  BY <1>15 DEF RemoveEvents
<1>16. CASE RemoveEpoll
  BY <1>16 DEF RemoveEpoll
<1>17. CASE Wakeup("loop")
  BY <1>17, WakeupTyped
<1> QED BY <1>1, <1>2, <1>3, <1>4, <1>5, <1>6, <1>7, <1>8, <1>9, <1>10, <1>11,
           <1>12, <1>13, <1>14, <1>15, <1>16, <1>17, Zenon DEF Loop

-----------------------------------------------------------------------------
(* The order on the socket.                                                *)

(* Steps that touch neither the links nor what has been written, and pop   *)
(* nothing, keep the order.                                                *)
LEMMA OrderKept ==
  ASSUME Typed, Typed', Ordered, UNCHANGED <<head, next, sent>>,
         k' = k \/ k' = k + 1,
         UptoTail' = UptoTail \/ UptoTail' = UptoTail + 1,
         InFlight' => InFlight /\ UNCHANGED <<popq, popped>>,
         \A l \in QueueNames : tail'[l] # None => tail'[l] = tail[l]
  PROVE  Ordered'
<1>1. /\ HeadOrdered /\ TailOrdered /\ NextOrdered
      /\ SentBefore /\ PoppedBefore /\ SentOrdered
  BY DEF Ordered
<1>2. k \in Nat /\ UptoTail \in Int /\ popq \in QueueNames
  BY DEF Typed, UptoTail, Upto
<1>3. /\ \A o \in Ops : Position(o) \in Nat
      /\ \A l \in QueueNames : head[l] \in OpOrNone /\ tail[l] \in OpOrNone
      /\ \A o \in Ops : next[o] \in OpOrNone
      /\ \A i \in DOMAIN sent : sent[i] \in Ops
      /\ InFlight => popped \in Ops
  BY Scripted, QueueEntries DEF Typed, OpOrNone
<1>4. HeadOrdered'
  BY <1>1, <1>2, <1>3 DEF HeadOrdered, OpOrNone
<1>5. TailOrdered'
  <2> SUFFICES ASSUME NEW l \in QueueNames, tail'[l] # None
               PROVE  QueueOf(tail'[l]) = l /\ Position(tail'[l]) <= UptoTail'
    BY DEF TailOrdered
  <2>1. tail'[l] = tail[l] /\ tail[l] \in Ops
    BY <1>3 DEF OpOrNone
  <2>2. QueueOf(tail[l]) = l /\ Position(tail[l]) <= UptoTail /\ Position(tail[l]) \in Nat
    BY <1>1, <1>3, <2>1 DEF TailOrdered
  <2>3. Position(tail[l]) <= UptoTail'
    BY <1>2, <2>2
  <2> QED BY <2>1, <2>2, <2>3
<1>6. NextOrdered'
  BY <1>1, <1>2, <1>3 DEF NextOrdered, OpOrNone
<1>7. SentBefore'
  BY <1>1, <1>2, <1>3 DEF SentBefore, Le
<1>8. PoppedBefore'
  BY <1>1, <1>2, <1>3 DEF PoppedBefore, Le
<1>9. SentOrdered'
  BY <1>1 DEF SentOrdered, Le
<1> QED BY <1>4, <1>5, <1>6, <1>7, <1>8, <1>9 DEF Ordered

(* The statements of bt_att_send link Script[k], which is the last.        *)
LEMMA CallerOrdered ==
  ASSUME Typed, Typed', Ordered, Caller, ~ Crashed'
  PROVE  Ordered'
<1>1. k \in Nat /\ pc \in [Threads -> Labels] /\ k' \in Nat
  BY DEF Typed
<1>2. pc["main"] \in Pushing =>
        /\ op \in Ops /\ q \in QueueNames /\ Position(op) = k /\ QueueOf(op) = q
  BY <1>1, Scripted DEF op, q, Typed
<1>3. /\ \A o \in Ops : Position(o) \in Nat
      /\ \A l \in QueueNames : head[l] \in OpOrNone /\ tail[l] \in OpOrNone
      /\ \A i \in DOMAIN sent : sent[i] \in Ops
      /\ InFlight => popped \in Ops
  <2>1. sent \in Seq(Ops) /\ \A o \in Ops : Position(o) \in Nat
    BY Scripted DEF Typed
  <2>2. \A i \in DOMAIN sent : sent[i] \in Ops
    BY <2>1, QueueEntries
  <2> QED BY <2>1, <2>2 DEF Typed, OpOrNone
<1> USE DEF Goto, At, locals, lists, handler, wire, InFlight, OutOfHead, OutOfTail,
            Threads, UptoTail, Upto, BeforeTail
<1>4. CASE Call
  BY <1>1, <1>4, OrderKept DEF Call
<1>5. CASE PushCheck
  BY <1>1, <1>5, OrderKept DEF PushCheck
<1>6. CASE PushCount
  BY <1>1, <1>6, OrderKept DEF PushCount, ReadCount
<1>7. CASE PushCounted
  BY <1>1, <1>7, OrderKept DEF PushCounted, WriteCount
<1>8. CASE Returned
  BY <1>1, <1>8, OrderKept DEF Returned
<1>9. CASE Wakeup("main")
  BY <1>1, <1>9, OrderKept
     DEF Wakeup, WakeFlag, WakeEmpty, HandlerDestroy, HandlerCallback, HandlerWatch,
         HandlerEpoll, HandlerEvents, WakeSet, BackFrom
<1>10. CASE PushLink
  <2>1. At("main", "push_link") /\ UNCHANGED <<k, head, tail, sent, popq, popped>>
    BY <1>10 DEF PushLink
  <2>2. CASE tail[q] = None
    <3>1. Goto("main", "push_tail") /\ UNCHANGED next
      BY <1>10, <2>2 DEF PushLink, Crash, Crashed
    <3> QED BY <1>1, <2>1, <3>1, OrderKept
  <2>3. CASE tail[q] # None
    <3>1. next' = [next EXCEPT ![tail[q]] = op] /\ Goto("main", "push_tail")
      BY <1>10, <2>3 DEF PushLink
    <3>2. pc'["main"] = "push_tail" /\ pc'["loop"] = pc["loop"]
      BY <1>1, <3>1
    <3>3. op \in Ops /\ q \in QueueNames /\ Position(op) = k /\ QueueOf(op) = q
      BY <1>2, <2>1 DEF Pushing
    <3>4. tail[q] \in Ops /\ QueueOf(tail[q]) = q /\ Position(tail[q]) < Position(op)
      BY <1>1, <1>3, <2>1, <2>3, <3>3 DEF Ordered, TailOrdered, OpOrNone
    <3>5. HeadOrdered' /\ TailOrdered' /\ PoppedBefore'
      BY <2>1, <3>2 DEF Ordered, HeadOrdered, TailOrdered, PoppedBefore, Le
    <3>6. SentBefore' /\ SentOrdered'
      BY <2>1, <3>2 DEF Ordered, SentBefore, SentOrdered, Le
    <3>7. NextOrdered'
      <4> SUFFICES ASSUME NEW o \in Ops, next'[o] # None
                   PROVE  /\ QueueOf(next'[o]) = QueueOf(o)
                          /\ Position(o) < Position(next'[o]) /\ Position(next'[o]) <= k
        BY <2>1 DEF NextOrdered
      <4>1. next \in [Ops -> OpOrNone]
        BY DEF Typed
      <4>2. CASE o = tail[q]
        BY <1>1, <3>1, <3>3, <3>4, <4>1, <4>2
      <4>3. CASE o # tail[q]
        BY <3>1, <4>1, <4>3 DEF Ordered, NextOrdered
      <4> QED BY <4>2, <4>3
    <3> QED BY <3>5, <3>6, <3>7 DEF Ordered
  <2> QED BY <2>2, <2>3
<1>11. CASE PushTail
  <2>1. At("main", "push_tail") /\ UNCHANGED <<k, head, next, sent, popq, popped>>
    BY <1>11 DEF PushTail
  <2>2. pc'["main"] = "push_head" /\ pc'["loop"] = pc["loop"]
    BY <1>1, <1>11 DEF PushTail
  <2>3. op \in Ops /\ q \in QueueNames /\ Position(op) = k /\ QueueOf(op) = q
    BY <1>2, <2>1 DEF Pushing
  <2>4. HeadOrdered' /\ NextOrdered' /\ PoppedBefore'
    BY <2>1, <2>2 DEF Ordered, HeadOrdered, NextOrdered, PoppedBefore, Le
  <2>5. SentBefore' /\ SentOrdered'
    BY <2>1, <2>2 DEF Ordered, SentBefore, SentOrdered, Le
  <2>6. TailOrdered'
    <3> SUFFICES ASSUME NEW l \in QueueNames, tail'[l] # None
                 PROVE  QueueOf(tail'[l]) = l /\ Position(tail'[l]) <= k
      BY <2>1, <2>2 DEF TailOrdered
    <3>1. tail' = [tail EXCEPT ![q] = op] /\ tail \in [QueueNames -> OpOrNone]
      BY <1>11 DEF PushTail, Typed
    <3>2. CASE l = q
      BY <1>1, <2>3, <3>1, <3>2
    <3>3. CASE l # q
      <4>1. tail'[l] = tail[l] /\ tail[l] \in Ops
        BY <3>1, <3>3 DEF OpOrNone
      <4>2. QueueOf(tail[l]) = l /\ Position(tail[l]) <= k - 1 /\ Position(tail[l]) \in Nat
        BY <1>3, <2>1, <4>1 DEF Ordered, TailOrdered
      <4> QED BY <1>1, <4>1, <4>2
    <3> QED BY <3>2, <3>3
  <2> QED BY <2>4, <2>5, <2>6 DEF Ordered
<1>12. CASE PushHead
  <2>1. At("main", "push_head") /\ UNCHANGED <<k, tail, next, sent, popq, popped>>
    BY <1>12 DEF PushHead
  <2>2. pc'["main"] = "push_count" /\ pc'["loop"] = pc["loop"]
    BY <1>1, <1>12 DEF PushHead
  <2>3. op \in Ops /\ q \in QueueNames /\ Position(op) = k /\ QueueOf(op) = q
    BY <1>2, <2>1 DEF Pushing
  <2>4. \A l \in QueueNames :
          \/ head'[l] = head[l]
          \/ head[l] = None /\ l = q /\ head'[l] = op
    <3>1. /\ head' = [head EXCEPT ![q] = IF head[q] = None THEN op ELSE head[q]]
          /\ head \in [QueueNames -> OpOrNone]
      BY <1>12 DEF PushHead, Typed
    <3>2. head'[q] = head[q] \/ (head[q] = None /\ head'[q] = op)
      BY <2>3, <3>1
    <3>3. \A l \in QueueNames : l # q => head'[l] = head[l]
      BY <3>1
    <3> HIDE DEF InFlight, Goto, At
    <3> QED BY ONLY <3>2, <3>3, SMT
  <2>5. TailOrdered' /\ NextOrdered' /\ SentOrdered'
    BY <2>1, <2>2 DEF Ordered, TailOrdered, NextOrdered, SentOrdered, Le
  <2>6. HeadOrdered'
    BY <1>1, <2>1, <2>3, <2>4 DEF Ordered, HeadOrdered
  <2>7. PoppedBefore'
    <3>1. popq \in QueueNames
      BY DEF Typed
    <3> QED BY <2>1, <2>2, <2>3, <2>4, <3>1 DEF Ordered, PoppedBefore, Le
  <2>8. SentBefore'
    <3> SUFFICES ASSUME NEW i \in DOMAIN sent
                 PROVE  /\ Position(sent[i]) <= k
                        /\ head'[QueueOf(sent[i])] # None =>
                              Le(sent[i], head'[QueueOf(sent[i])])
                        /\ InFlight' /\ QueueOf(sent[i]) = popq => Le(sent[i], popped)
      BY <2>1 DEF SentBefore, Le
    <3>1. QueueOf(sent[i]) \in QueueNames
      BY <1>3, Scripted
    <3> QED BY <2>2, <2>3, <2>4, <3>1 DEF Ordered, SentBefore, Le
  <2> QED BY <2>5, <2>6, <2>7, <2>8 DEF Ordered
<1> QED BY <1>4, <1>5, <1>6, <1>7, <1>8, <1>9, <1>10, <1>11, <1>12, Zenon DEF Caller

(* Those of the main loop take the first of a queue and write it.          *)
LEMMA LoopOrdered ==
  ASSUME Typed, Typed', Ordered, Loop, ~ Crashed'
  PROVE  Ordered'
<1>1. k \in Nat /\ pc \in [Threads -> Labels] /\ popq \in QueueNames
  BY DEF Typed
<1>2. /\ \A o \in Ops : Position(o) \in Nat
      /\ \A l \in QueueNames : head[l] \in OpOrNone /\ tail[l] \in OpOrNone
      /\ \A o \in Ops : next[o] \in OpOrNone
      /\ \A i \in DOMAIN sent : sent[i] \in Ops
      /\ InFlight => popped \in Ops
  <2>1. sent \in Seq(Ops) /\ \A o \in Ops : Position(o) \in Nat
    BY Scripted DEF Typed
  <2>2. \A i \in DOMAIN sent : sent[i] \in Ops
    BY <2>1, QueueEntries
  <2> QED BY <2>1, <2>2 DEF Typed, OpOrNone
<1> USE DEF Goto, At, locals, lists, handler, wire, InFlight, OutOfHead, OutOfTail,
            Threads, UptoTail, Upto, BeforeTail
<1>3. CASE Wait
  BY <1>1, <1>3, OrderKept DEF Wait
<1>4. CASE In
  BY <1>1, <1>4, OrderKept DEF In
<1>5. CASE RspClear
  BY <1>1, <1>5, OrderKept DEF RspClear
<1>6. CASE Out
  BY <1>1, <1>6, OrderKept DEF Out, Crash, Crashed
<1>7. CASE PopNothing
  BY <1>1, <1>7, OrderKept DEF PopNothing
<1>8. CASE PopCount
  BY <1>1, <1>8, OrderKept DEF PopCount, ReadCount
<1>9. CASE PopCounted
  BY <1>1, <1>9, OrderKept DEF PopCounted, WriteCount
<1>10. CASE RemoveFlag \/ RemoveCallback \/ RemoveWatch \/ RemoveEvents \/ RemoveEpoll
  BY <1>1, <1>10, OrderKept
     DEF RemoveFlag, RemoveCallback, RemoveWatch, RemoveEvents, RemoveEpoll
<1>11. CASE Wakeup("loop")
  BY <1>1, <1>11, OrderKept
     DEF Wakeup, WakeFlag, WakeEmpty, HandlerDestroy, HandlerCallback, HandlerWatch,
         HandlerEpoll, HandlerEvents, WakeSet, BackFrom
<1>12. CASE PopTail
  <2>1. \A l \in QueueNames : tail'[l] # None => tail'[l] = tail[l]
    BY <1>12 DEF PopTail, Typed
  <2> QED BY <1>1, <1>12, <2>1, OrderKept DEF PopTail
<1>13. CASE PopEntry
  <2>1. /\ At("loop", "pop") /\ popped' = head[popq] /\ head[popq] # None
        /\ UNCHANGED <<k, popq, tail, next, sent>>
    BY <1>13 DEF PopEntry
  <2>2. pc'["main"] = pc["main"] /\ InFlight'
    BY <1>1, <1>13 DEF PopEntry
  <2>3. popped' \in Ops /\ QueueOf(popped') = popq /\ Position(popped') <= k
    BY <1>1, <1>2, <2>1 DEF Ordered, HeadOrdered, OpOrNone
  <2>4. \A l \in QueueNames :
          \/ head'[l] = head[l]
          \/ l = popq /\ head'[l] = next[popped']
    <3>1. head' = head \/ head' = [head EXCEPT ![popq] = next[head[popq]]]
      BY <1>13 DEF PopEntry
    <3>2. head \in [QueueNames -> OpOrNone]
      BY DEF Typed
    <3> QED BY <2>1, <3>1, <3>2
  <2>5. next[popped'] # None =>
          /\ QueueOf(next[popped']) = popq /\ Position(popped') < Position(next[popped'])
          /\ Position(next[popped']) <= k /\ next[popped'] \in Ops
    BY <1>2, <2>3 DEF Ordered, NextOrdered, OpOrNone
  <2>6. TailOrdered' /\ NextOrdered' /\ SentOrdered'
    BY <2>1, <2>2 DEF Ordered, TailOrdered, NextOrdered, SentOrdered, Le
  <2>7. HeadOrdered'
    BY <2>1, <2>4, <2>5 DEF Ordered, HeadOrdered
  <2>8. PoppedBefore'
    <3>1. head'[popq] # None => Le(popped', head'[popq])
      BY <1>1, <1>2, <2>1, <2>3, <2>4, <2>5 DEF Le
    <3> QED BY <2>1, <2>3, <3>1 DEF PoppedBefore, Le
  <2>9. SentBefore'
    <3> SUFFICES ASSUME NEW i \in DOMAIN sent
                 PROVE  /\ Position(sent[i]) <= k
                        /\ head'[QueueOf(sent[i])] # None =>
                              Le(sent[i], head'[QueueOf(sent[i])])
                        /\ QueueOf(sent[i]) = popq => Le(sent[i], popped')
      BY <2>1 DEF SentBefore, Le
    <3>1. QueueOf(sent[i]) \in QueueNames /\ sent[i] \in Ops /\ Position(sent[i]) \in Nat
      BY <1>2, Scripted
    <3>2. /\ Position(sent[i]) <= k
          /\ head[QueueOf(sent[i])] # None => Le(sent[i], head[QueueOf(sent[i])])
      BY DEF Ordered, SentBefore
    <3>3. QueueOf(sent[i]) = popq => Position(sent[i]) <= Position(popped')
      BY <2>1, <3>2 DEF Le
    <3>4. head'[QueueOf(sent[i])] # None => Le(sent[i], head'[QueueOf(sent[i])])
      <4>1. CASE head'[QueueOf(sent[i])] = head[QueueOf(sent[i])]
        BY <3>2, <4>1
      <4>2. CASE QueueOf(sent[i]) = popq /\ head'[QueueOf(sent[i])] = next[popped']
        <5>1. Position(popped') \in Nat
          BY <1>2, <2>3
        <5>2. next[popped'] # None => Position(next[popped']) \in Nat
          BY <1>2, <2>5
        <5> QED BY <2>5, <3>1, <3>3, <4>2, <5>1, <5>2 DEF Le
      <4> QED BY <2>4, <3>1, <4>1, <4>2
    <3> QED BY <3>2, <3>3, <3>4 DEF Le
  <2> QED BY <2>6, <2>7, <2>8, <2>9 DEF Ordered
<1>14. CASE PopLast
  <2>1. At("loop", "pop_last") /\ UNCHANGED <<k, popq, popped, tail, next, sent>>
    BY <1>14 DEF PopLast
  <2>2. pc'["main"] = pc["main"] /\ InFlight /\ InFlight'
    BY <1>1, <1>14 DEF PopLast
  <2>3. \A l \in QueueNames : head'[l] = head[l] \/ head'[l] = None
    BY <1>14 DEF PopLast, Typed
  <2>4. TailOrdered' /\ NextOrdered' /\ SentOrdered'
    BY <2>1, <2>2 DEF Ordered, TailOrdered, NextOrdered, SentOrdered, Le
  <2>5. HeadOrdered'
    BY <2>1, <2>3 DEF Ordered, HeadOrdered
  <2>6. PoppedBefore'
    BY <1>1, <2>1, <2>2, <2>3 DEF Ordered, PoppedBefore, Le
  <2>7. SentBefore'
    <3>1. \A i \in DOMAIN sent : QueueOf(sent[i]) \in QueueNames
      BY <1>2, Scripted
    <3> QED BY <2>1, <2>2, <2>3, <3>1 DEF Ordered, SentBefore, Le
  <2> QED BY <2>4, <2>5, <2>6, <2>7 DEF Ordered
<1>15. CASE Write
  <2>1. /\ At("loop", "write") /\ sent' = Append(sent, popped)
        /\ UNCHANGED <<k, popq, popped, head, tail, next>>
    BY <1>15 DEF Write
  <2>2. pc'["main"] = pc["main"] /\ InFlight /\ ~ InFlight'
    BY <1>1, <1>15 DEF Write
  <2>3. /\ popped \in Ops /\ QueueOf(popped) = popq /\ Position(popped) <= k
        /\ head[popq] # None => Le(popped, head[popq])
    BY <1>2, <2>2 DEF Ordered, PoppedBefore
  <2>4. /\ DOMAIN sent = 1 .. Len(sent) /\ Len(sent) \in Nat
        /\ \A i \in DOMAIN sent' :
             \/ i \in DOMAIN sent /\ sent'[i] = sent[i]
             \/ i = Len(sent) + 1 /\ sent'[i] = popped
    <3>1. sent \in Seq(Ops)
      BY DEF Typed
    <3>2. DOMAIN sent = 1 .. Len(sent) /\ Len(sent) \in Nat
      BY <3>1, QueueEntries
    <3>3. \A i \in DOMAIN Append(sent, popped) :
            \/ i \in DOMAIN sent /\ Append(sent, popped)[i] = sent[i]
            \/ i = Len(sent) + 1 /\ Append(sent, popped)[i] = popped
      BY <2>3, <3>1, Pushed
    <3> QED BY <2>1, <3>2, <3>3
  <2>5. HeadOrdered' /\ TailOrdered' /\ NextOrdered' /\ PoppedBefore'
    BY <2>1, <2>2 DEF Ordered, HeadOrdered, TailOrdered, NextOrdered, PoppedBefore, Le
  <2>6. SentBefore'
    BY <2>1, <2>2, <2>3, <2>4 DEF Ordered, SentBefore, Le
  <2>7. SentOrdered'
    <3> SUFFICES ASSUME NEW i \in DOMAIN sent', NEW j \in DOMAIN sent', i < j,
                        QueueOf(sent'[i]) = QueueOf(sent'[j])
                 PROVE  Le(sent'[i], sent'[j])
      BY DEF SentOrdered, Le
    <3>1. i \in DOMAIN sent /\ sent'[i] = sent[i]
      <4>1. i # Len(sent) + 1
        BY <2>4
      <4> QED BY <2>4, <4>1
    <3>2. CASE j \in DOMAIN sent /\ sent'[j] = sent[j]
      BY <3>1, <3>2 DEF Ordered, SentOrdered
    <3>3. CASE sent'[j] = popped
      BY <2>2, <2>3, <3>1, <3>3 DEF Ordered, SentBefore
    <3> QED BY <2>4, <3>2, <3>3
  <2> QED BY <2>5, <2>6, <2>7 DEF Ordered
<1> QED BY <1>3, <1>4, <1>5, <1>6, <1>7, <1>8, <1>9, <1>10, <1>11, <1>12, <1>13,
           <1>14, <1>15, Zenon DEF Loop

-----------------------------------------------------------------------------
(* The handler of the io, when every call is made from a callback.         *)

(* A caller that is a callback runs while the loop is in none of its own   *)
(* statements.                                                             *)
LEMMA CallerHandler ==
  ASSUME Typed, caller = "callback", Sequential, Caller
  PROVE  ~ Crashed' /\ Alone' /\ HandlerOK'
<1>1. pc \in [Threads -> Labels]
  BY DEF Typed
<1>2. ~ Crashed /\ Alone /\ HandlerOK /\ StillSo
  BY DEF Sequential
<1> USE DEF Goto, At, locals, lists, handler, wire, Threads, Alone, Active, HandlerOK, Crashed
<1>3. CASE Call
  BY <1>1, <1>2, <1>3 DEF Call
<1>4. CASE PushCheck
  BY <1>1, <1>2, <1>4 DEF PushCheck
<1>5. CASE PushLink
  BY <1>1, <1>2, <1>5 DEF PushLink, StillSo
<1>6. CASE PushTail
  BY <1>1, <1>2, <1>6 DEF PushTail
<1>7. CASE PushHead
  BY <1>1, <1>2, <1>7 DEF PushHead
<1>8. CASE PushCount
  BY <1>1, <1>2, <1>8 DEF PushCount, ReadCount
<1>9. CASE PushCounted
  BY <1>1, <1>2, <1>9 DEF PushCounted, WriteCount
<1>10. CASE Returned
  BY <1>1, <1>2, <1>10 DEF Returned
<1>11. CASE WakeFlag("main")
  BY <1>1, <1>2, <1>11 DEF WakeFlag, BackFrom
<1>12. CASE WakeEmpty("main")
  BY <1>1, <1>2, <1>12 DEF WakeEmpty, BackFrom
<1>13. CASE HandlerDestroy("main")
  BY <1>1, <1>2, <1>13 DEF HandlerDestroy, WatchDestroy
<1>14. CASE HandlerCallback("main")
  BY <1>1, <1>2, <1>14 DEF HandlerCallback
<1>15. CASE HandlerWatch("main")
  BY <1>1, <1>2, <1>15 DEF HandlerWatch
<1>16. CASE HandlerEpoll("main")
  BY <1>1, <1>2, <1>16 DEF HandlerEpoll
<1>17. CASE HandlerEvents("main")
  BY <1>1, <1>2, <1>17 DEF HandlerEvents
<1>18. CASE WakeSet("main")
  BY <1>1, <1>2, <1>18 DEF WakeSet, BackFrom
<1> QED BY <1>3, <1>4, <1>5, <1>6, <1>7, <1>8, <1>9, <1>10, <1>11, <1>12, <1>13,
           <1>14, <1>15, <1>16, <1>17, <1>18, Zenon DEF Caller, Wakeup

(* The loop runs while no call is under way.                               *)
LEMMA LoopHandler ==
  ASSUME Typed, caller = "callback", Sequential, Loop
  PROVE  ~ Crashed' /\ Alone' /\ HandlerOK'
<1>1. pc \in [Threads -> Labels]
  BY DEF Typed
<1>2. ~ Crashed /\ Alone /\ HandlerOK
  BY DEF Sequential
<1> USE DEF Goto, At, locals, lists, handler, wire, Threads, Alone, Active, HandlerOK, Crashed
<1>3. CASE Wait
  BY <1>1, <1>2, <1>3 DEF Wait
<1>4. CASE In
  BY <1>1, <1>2, <1>4 DEF In
<1>5. CASE RspClear
  BY <1>1, <1>2, <1>5 DEF RspClear
<1>6. CASE Out
  BY <1>1, <1>2, <1>6 DEF Out, Crash
<1>7. CASE PopNothing
  BY <1>1, <1>2, <1>7 DEF PopNothing
<1>8. CASE PopEntry
  BY <1>1, <1>2, <1>8 DEF PopEntry
<1>9. CASE PopLast
  BY <1>1, <1>2, <1>9 DEF PopLast
<1>10. CASE PopTail
  BY <1>1, <1>2, <1>10 DEF PopTail
<1>11. CASE PopCount
  BY <1>1, <1>2, <1>11 DEF PopCount, ReadCount
<1>12. CASE PopCounted
  BY <1>1, <1>2, <1>12 DEF PopCounted, WriteCount
<1>13. CASE Write
  BY <1>1, <1>2, <1>13 DEF Write
<1>14. CASE RemoveFlag
  BY <1>1, <1>2, <1>14 DEF RemoveFlag, WatchDestroy
<1>15. CASE RemoveCallback
  BY <1>1, <1>2, <1>15 DEF RemoveCallback
<1>16. CASE RemoveWatch
  BY <1>1, <1>2, <1>16 DEF RemoveWatch
<1>17. CASE RemoveEvents
  BY <1>1, <1>2, <1>17 DEF RemoveEvents
<1>18. CASE RemoveEpoll
  BY <1>1, <1>2, <1>18 DEF RemoveEpoll
<1>19. CASE WakeFlag("loop")
  BY <1>1, <1>2, <1>19 DEF WakeFlag, BackFrom
<1>20. CASE WakeEmpty("loop")
  BY <1>1, <1>2, <1>20 DEF WakeEmpty, BackFrom
<1>21. CASE HandlerDestroy("loop")
  BY <1>1, <1>2, <1>21 DEF HandlerDestroy, WatchDestroy
<1>22. CASE HandlerCallback("loop")
  BY <1>1, <1>2, <1>22 DEF HandlerCallback
<1>23. CASE HandlerWatch("loop")
  BY <1>1, <1>2, <1>23 DEF HandlerWatch
<1>24. CASE HandlerEpoll("loop")
  BY <1>1, <1>2, <1>24 DEF HandlerEpoll
<1>25. CASE HandlerEvents("loop")
  BY <1>1, <1>2, <1>25 DEF HandlerEvents
<1>26. CASE WakeSet("loop")
  BY <1>1, <1>2, <1>26 DEF WakeSet, BackFrom
<1> QED BY <1>3, <1>4, <1>5, <1>6, <1>7, <1>8, <1>9, <1>10, <1>11, <1>12, <1>13,
           <1>14, <1>15, <1>16, <1>17, <1>18, <1>19, <1>20, <1>21, <1>22, <1>23,
           <1>24, <1>25, <1>26, Zenon DEF Loop, Wakeup

-----------------------------------------------------------------------------
(* The lists, when every call is made from a callback.                     *)

(* What a step leaves of each piece of the lists, if it moves neither the  *)
(* piece nor what the piece accounts for.                                  *)
LEMMA HeadsKept ==
  ASSUME HeadsOK, UNCHANGED <<head, sent>>, UptoHead' = UptoHead,
         OutOfHead' <=> OutOfHead, OutOfHead' => popped' = popped
  PROVE  HeadsOK'
<1>1. \A l \in QueueNames :
        Waiting(l, UptoHead, OutOfHead)' = Waiting(l, UptoHead, OutOfHead)
  BY DEF Waiting
<1> QED BY <1>1 DEF HeadsOK, IsFirst, Le

(* The same of the tails ...                                               *)
LEMMA TailsKept ==
  ASSUME TailsOK, UNCHANGED <<tail, sent>>, UptoTail' = UptoTail,
         OutOfTail' <=> OutOfTail, OutOfTail' => popped' = popped
  PROVE  TailsOK'
<1>1. \A l \in QueueNames :
        Waiting(l, UptoTail, OutOfTail)' = Waiting(l, UptoTail, OutOfTail)
  BY DEF Waiting
<1> QED BY <1>1 DEF TailsOK, IsLast, Le

(* ... of the counts ...                                                   *)
LEMMA EntriesKept ==
  ASSUME EntriesOK, UNCHANGED <<entries, sent>>, UptoEntries' = UptoEntries,
         OutOfEntries' <=> OutOfEntries, OutOfEntries' => popped' = popped
  PROVE  EntriesOK'
<1>1. \A l \in QueueNames :
        Waiting(l, UptoEntries, OutOfEntries)' = Waiting(l, UptoEntries, OutOfEntries)
  BY DEF Waiting
<1> QED BY <1>1 DEF EntriesOK

(* ... and of the links.                                                   *)
LEMMA LinksKept ==
  ASSUME LinksOK, NotYet, UNCHANGED <<next, sent>>, UptoNext' = UptoNext,
         OutOfHead' <=> OutOfHead, OutOfHead' => popped' = popped
  PROVE  LinksOK' /\ NotYet'
<1>1. \A l \in QueueNames :
        Waiting(l, UptoNext, OutOfHead)' = Waiting(l, UptoNext, OutOfHead)
  BY DEF Waiting
<1>2. LinksOK'
  BY <1>1 DEF LinksOK, IsFirst, After, Le
<1>3. NotYet'
  BY DEF NotYet
<1> QED BY <1>2, <1>3

(* The operation being pushed is not yet written, and joins its queue      *)
(* after all that wait there.                                              *)
LEMMA Newcomer ==
  ASSUME Typed, SentOnce, pc["main"] \in BeforeEntries, pc["main"] # "ready"
  PROVE  /\ op \in Ops /\ q \in QueueNames /\ QueueOf(op) = q /\ Position(op) = k
         /\ k \in Nat
         /\ \A l \in QueueNames :
              /\ Waiting(l, k, FALSE) = IF l = q THEN Waiting(l, k - 1, FALSE) \union {op}
                                                 ELSE Waiting(l, k - 1, FALSE)
              /\ \A o \in Waiting(l, k - 1, FALSE) : o \in Ops /\ Position(o) < Position(op)
         /\ op \notin Waiting(q, k - 1, FALSE)
<1>1. k \in 1 .. Len(Script)
  <2>1. pc["main"] \in Pushing
    BY DEF Pushing, BeforeEntries, BeforeTail
  <2> QED BY <2>1, Scripted DEF Typed
<1>2. op \in Ops /\ q \in QueueNames /\ QueueOf(op) = q /\ Position(op) = k
  BY <1>1, Scripted DEF op, q
<1>3. op \notin ToSet(sent)
  <2>1. sent \in Seq(Ops)
    BY DEF Typed
  <2>2. ToSet(sent) = {sent[i] : i \in DOMAIN sent} /\ \A i \in DOMAIN sent : sent[i] \in Ops
    BY <2>1, QueueEntries
  <2>3. \A i \in DOMAIN sent : Position(sent[i]) <= k - 1
    BY DEF SentOnce, UptoEntries, Upto
  <2>4. \A i \in DOMAIN sent : sent[i] # op
    BY <1>1, <1>2, <2>3
  <2> QED BY <2>2, <2>4
<1>4. \A o \in Ops : Position(o) \in Nat /\ (Position(o) = k => o = op)
  BY <1>2, Scripted
<1>5. \A o \in Ops : Position(o) <= k <=> Position(o) <= k - 1 \/ o = op
  BY <1>1, <1>2, <1>4
<1>6. \A l \in QueueNames :
        Waiting(l, k, FALSE) = IF l = q THEN Waiting(l, k - 1, FALSE) \union {op}
                                        ELSE Waiting(l, k - 1, FALSE)
  <2> TAKE l \in QueueNames
  <2>1. CASE l = q
    BY <1>2, <1>3, <1>5, <2>1 DEF Waiting
  <2>2. CASE l # q
    BY <1>2, <1>5, <2>2 DEF Waiting
  <2> QED BY <2>1, <2>2
<1>7. \A l \in QueueNames : \A o \in Waiting(l, k - 1, FALSE) :
        o \in Ops /\ Position(o) < Position(op)
  BY <1>1, <1>2, <1>4 DEF Waiting
<1>8. op \notin Waiting(q, k - 1, FALSE)
  BY <1>1, <1>2 DEF Waiting
<1>9. k \in Nat
  BY <1>1
<1> QED BY <1>2, <1>6, <1>7, <1>8, <1>9, Zenon

(* What has been written stays so.                                         *)
LEMMA SentOnceKept ==
  ASSUME Typed, SentOnce, UNCHANGED sent,
         UptoEntries' = UptoEntries \/ UptoEntries' = UptoEntries + 1,
         InFlight' => InFlight /\ UNCHANGED <<popq, popped>> /\ UptoHead' = UptoHead,
         pc'["loop"] \in {"pop_last", "pop_tail"} => pc["loop"] \in {"pop_last", "pop_tail"}
  PROVE  SentOnce'
<1>1. sent \in Seq(Ops) /\ UptoEntries \in Int
  BY DEF Typed, UptoEntries, Upto
<1>2. \A i \in DOMAIN sent : Position(sent[i]) \in Nat
  BY <1>1, QueueEntries, Scripted
<1>3. InFlight => Position(popped) \in Nat
  BY Scripted DEF Typed, OpOrNone
<1>4. \A i \in DOMAIN sent' : Position(sent'[i]) <= UptoEntries'
  BY <1>1, <1>2 DEF SentOnce
<1>5. IsInjective(sent')
  BY DEF SentOnce
<1>6. InFlight' => /\ popped' \notin ToSet(sent') /\ QueueOf(popped') = popq'
                   /\ Position(popped') <= UptoEntries'
  BY <1>1, <1>3 DEF SentOnce
<1>7. pc'["loop"] \in {"pop_last", "pop_tail"} => Waiting(popq, UptoHead, TRUE)' = {}
  <2>1. pc'["loop"] \in {"pop_last", "pop_tail"} => InFlight'
    BY DEF InFlight, OutOfHead
  <2> QED BY <2>1 DEF SentOnce, Waiting
<1> QED BY <1>4, <1>5, <1>6, <1>7 DEF SentOnce

(* Steps that touch no list.                                               *)
LEMMA AllKept ==
  ASSUME Typed, ListsOK, SentOnce, UNCHANGED <<head, tail, next, entries, sent>>,
         UptoNext' = UptoNext, UptoTail' = UptoTail, UptoHead' = UptoHead,
         UptoEntries' = UptoEntries,
         OutOfHead' <=> OutOfHead, OutOfTail' <=> OutOfTail,
         OutOfEntries' <=> OutOfEntries,
         InFlight' => InFlight /\ UNCHANGED <<popq, popped>>,
         pc'["loop"] \in {"pop_last", "pop_tail"} => pc["loop"] \in {"pop_last", "pop_tail"}
  PROVE  ListsOK' /\ SentOnce'
<1>1. OutOfHead' \/ OutOfTail' \/ OutOfEntries' => popped' = popped
  BY DEF InFlight, OutOfHead, OutOfTail, OutOfEntries
<1>2. HeadsOK'
  BY <1>1, HeadsKept DEF ListsOK
<1>3. TailsOK'
  BY <1>1, TailsKept DEF ListsOK
<1>4. EntriesOK'
  BY <1>1, EntriesKept DEF ListsOK
<1>5. LinksOK' /\ NotYet'
  BY <1>1, LinksKept DEF ListsOK
<1>6. SentOnce'
  BY SentOnceKept
<1> QED BY <1>2, <1>3, <1>4, <1>5, <1>6 DEF ListsOK

(* queue_push_tail, statement by statement.  The list is empty: Script[k]  *)
(* is the only operation to link, and no other follows it.                 *)
LEMMA PushCheckLists ==
  ASSUME Typed, Sequential, PushCheck
  PROVE  ListsOK' /\ SentOnce' /\ StillSo'
<1>1. pc \in [Threads -> Labels] /\ ListsOK /\ SentOnce /\ StillSo /\ Alone
  BY DEF Typed, Sequential
<1>2. /\ pc["main"] = "push_check" /\ pc["loop"] = "wait" /\ pc'["loop"] = "wait"
      /\ pc'["main"] = (IF tail[q] = None THEN "push_tail" ELSE "push_link")
      /\ UNCHANGED <<k, count, popq, popped, head, tail, next, entries, sent>>
  BY <1>1 DEF PushCheck, At, Goto, Threads, Alone, locals, lists, wire
<1> USE DEF Upto, BeforeTail, BeforeEntries, InFlight, OutOfHead, OutOfTail, OutOfEntries
<1>3. SentOnce'
  BY <1>1, <1>2, SentOnceKept DEF UptoEntries, UptoHead
<1>4. HeadsOK' /\ TailsOK' /\ EntriesOK'
  BY <1>1, <1>2, HeadsKept, TailsKept, EntriesKept DEF ListsOK, UptoHead, UptoTail, UptoEntries
<1>5. StillSo'
  BY <1>1, <1>2 DEF StillSo, q, op
<1>6. LinksOK' /\ NotYet'
  <2>1. CASE tail[q] # None
    BY <1>1, <1>2, <2>1, LinksKept DEF ListsOK, UptoNext
  <2>2. CASE tail[q] = None
    <3>1. /\ op \in Ops /\ q \in QueueNames /\ QueueOf(op) = q /\ Position(op) = k
          /\ k \in Nat
          /\ \A l \in QueueNames :
               /\ Waiting(l, k, FALSE) = IF l = q THEN Waiting(l, k - 1, FALSE) \union {op}
                                                  ELSE Waiting(l, k - 1, FALSE)
               /\ \A o \in Waiting(l, k - 1, FALSE) : o \in Ops /\ Position(o) < Position(op)
      BY <1>1, <1>2, Newcomer
    <3>2. \A l \in QueueNames :
            /\ Waiting(l, UptoNext, OutOfHead) = Waiting(l, k - 1, FALSE)
            /\ Waiting(l, UptoTail, OutOfTail) = Waiting(l, k - 1, FALSE)
            /\ Waiting(l, UptoNext, OutOfHead)' = Waiting(l, k, FALSE)
      BY <1>2, <2>2 DEF Waiting, UptoNext, UptoTail
    <3>3. Waiting(q, k - 1, FALSE) = {}
      <4>1. None \notin Ops
        BY Scripted
      <4> QED BY <1>1, <2>2, <3>1, <3>2, <4>1 DEF ListsOK, TailsOK, IsLast
    <3>4. \A o \in Ops : Position(o) > k - 1 => next[o] = None
      BY <1>1, <1>2 DEF ListsOK, NotYet, UptoNext
    <3>5. \A o \in Ops : Position(o) \in Nat
      BY Scripted
    <3>6. NotYet'
      BY <1>2, <2>2, <3>1, <3>4, <3>5 DEF NotYet, UptoNext
    <3>7. LinksOK'
      <4> SUFFICES ASSUME NEW l \in QueueNames, NEW o \in Waiting(l, k, FALSE)
                   PROVE  IsFirst(next[o], After(o, Waiting(l, k, FALSE)))
        BY <1>2, <3>2 DEF LinksOK, IsFirst, After, Le
      <4>1. CASE l = q
        <5>1. Waiting(l, k, FALSE) = {op} /\ o = op
          BY <3>1, <3>3, <4>1
        <5>2. After(o, Waiting(l, k, FALSE)) = {}
          <6>1. o \in Ops /\ Position(o) \in Nat
            BY <3>1, <3>5, <5>1
          <6>2. \A p \in Waiting(l, k, FALSE) : p = o
            BY <5>1
          <6>3. ~ (Position(o) < Position(o))
            BY <6>1
          <6> QED BY <6>2, <6>3, Zenon DEF After
        <5>3. next[o] = None
          BY <3>1, <3>4, <5>1
        <5> QED BY <5>2, <5>3 DEF IsFirst
      <4>2. CASE l # q
        <5>1. Waiting(l, k, FALSE) = Waiting(l, k - 1, FALSE)
          BY <3>1, <4>2
        <5> QED BY <1>1, <3>2, <5>1 DEF ListsOK, LinksOK
      <4> QED BY <4>1, <4>2
    <3> QED BY <3>6, <3>7
  <2> QED BY <2>1, <2>2
<1> QED BY <1>3, <1>4, <1>5, <1>6 DEF ListsOK

(* The entry before it is the last, and now leads to it.                   *)
LEMMA PushLinkLists ==
  ASSUME Typed, Sequential, PushLink
  PROVE  ListsOK' /\ SentOnce' /\ StillSo'
<1>1. pc \in [Threads -> Labels] /\ ListsOK /\ SentOnce /\ StillSo /\ Alone
  BY DEF Typed, Sequential
<1>2. At("main", "push_link") /\ tail[q] # None
  BY <1>1 DEF PushLink, StillSo, At
<1>3. next' = [next EXCEPT ![tail[q]] = op] /\ Goto("main", "push_tail")
  BY <1>2 DEF PushLink
<1>4. /\ pc["main"] = "push_link" /\ pc["loop"] = "wait" /\ pc'["loop"] = "wait"
      /\ pc'["main"] = "push_tail"
      /\ UNCHANGED <<k, count, popq, popped, head, tail, entries, sent>>
  BY <1>1, <1>2, <1>3 DEF PushLink, At, Goto, Threads, Alone, locals, wire
<1> USE DEF Upto, BeforeTail, BeforeEntries, InFlight, OutOfHead, OutOfTail, OutOfEntries
<1>5. SentOnce'
  BY <1>1, <1>4, SentOnceKept DEF UptoEntries, UptoHead
<1>6. HeadsOK' /\ TailsOK' /\ EntriesOK'
  BY <1>1, <1>4, HeadsKept, TailsKept, EntriesKept DEF ListsOK, UptoHead, UptoTail, UptoEntries
<1>7. StillSo'
  BY <1>4 DEF StillSo
<1> DEFINE P(l) == Waiting(l, k - 1, FALSE)
           R(l) == Waiting(l, k, FALSE)
<1>8. /\ op \in Ops /\ q \in QueueNames /\ QueueOf(op) = q /\ Position(op) = k
      /\ k \in Nat
      /\ \A l \in QueueNames :
           /\ R(l) = IF l = q THEN P(l) \union {op} ELSE P(l)
           /\ \A o \in P(l) : o \in Ops /\ Position(o) < Position(op)
      /\ op \notin P(q)
  BY <1>1, <1>4, Newcomer
<1>9. \A l \in QueueNames :
        /\ Waiting(l, UptoNext, OutOfHead) = P(l)
        /\ Waiting(l, UptoTail, OutOfTail) = P(l)
        /\ Waiting(l, UptoNext, OutOfHead)' = R(l)
  BY <1>4 DEF Waiting, UptoNext, UptoTail
<1>10. \A o \in Ops : Position(o) \in Nat
  BY Scripted
<1> HIDE DEF P, R
<1>11. /\ tail[q] \in P(q) /\ \A p \in P(q) : Le(p, tail[q])
  BY <1>1, <1>2, <1>8, <1>9 DEF ListsOK, TailsOK, IsLast
<1>12. /\ tail[q] \in Ops /\ next'[tail[q]] = op
       /\ \A o \in Ops : o # tail[q] => next'[o] = next[o]
  BY <1>3, <1>8, <1>11 DEF Typed
<1>13. NotYet'
  <2>1. \A o \in Ops : Position(o) > k - 1 => next[o] = None
    BY <1>1, <1>4 DEF ListsOK, NotYet, UptoNext
  <2>2. Position(tail[q]) < k
    BY <1>8, <1>11
  <2> SUFFICES ASSUME NEW o \in Ops, Position(o) > k PROVE next'[o] = None
    BY <1>4 DEF NotYet, UptoNext
  <2> QED BY <1>8, <1>10, <1>12, <2>1, <2>2
<1>14. LinksOK'
  <2> SUFFICES ASSUME NEW l \in QueueNames, NEW o \in R(l)
               PROVE  IsFirst(next'[o], After(o, R(l)))
    BY <1>4, <1>9 DEF LinksOK, IsFirst, After, Le
  <2>1. \A x \in P(l) : IsFirst(next[x], After(x, P(l)))
    BY <1>1, <1>9 DEF ListsOK, LinksOK
  <2>2. \A x \in P(l) : x \in Ops /\ Position(x) \in Nat /\ Position(x) < Position(op)
    BY <1>8, <1>10
  <2>3. CASE l # q
    <3>1. R(l) = P(l)
      BY <1>8, <2>3
    <3>2. o \in Ops /\ QueueOf(o) = l
      BY <1>9 DEF R, Waiting
    <3>3. o # tail[q]
      BY <1>11, <2>3, <3>2 DEF P, Waiting
    <3> QED BY <1>12, <2>1, <3>1, <3>2, <3>3
  <2>4. CASE l = q /\ o = op
    <3>1. R(l) = P(l) \union {op}
      BY <1>8, <2>4
    <3>2. After(o, R(l)) = {}
      BY <1>8, <2>2, <2>4, <3>1 DEF After
    <3>3. next'[o] = None
      <4>1. op # tail[q]
        BY <1>8, <1>11
      <4>2. next[op] = None
        BY <1>1, <1>4, <1>8 DEF ListsOK, NotYet, UptoNext
      <4> QED BY <1>8, <1>12, <2>4, <4>1, <4>2
    <3> QED BY <3>2, <3>3 DEF IsFirst
  <2>5. CASE l = q /\ o # op
    <3>1. R(l) = P(l) \union {op} /\ o \in P(l)
      BY <1>8, <2>5
    <3>2. After(o, R(l)) = After(o, P(l)) \union {op} /\ After(o, P(l)) \subseteq P(l)
      BY <2>2, <3>1 DEF After
    <3>3. CASE o = tail[q]
      <4>1. After(o, P(l)) = {}
        BY <1>8, <1>10, <1>11, <1>12, <2>2, <2>5, <3>3 DEF After, Le
      <4>2. After(o, R(l)) = {op}
        BY <3>2, <4>1
      <4>3. next'[o] = op /\ Le(op, op)
        BY <1>8, <1>12, <3>3 DEF Le
      <4> QED BY <4>2, <4>3 DEF IsFirst
    <3>4. CASE o # tail[q]
      <4>1. tail[q] \in After(o, P(l))
        <5>1. Position(tail[q]) # Position(o)
          BY <1>12, <2>2, <3>1, <3>4, Scripted
        <5> QED BY <1>10, <1>11, <1>12, <2>2, <2>5, <3>1, <5>1 DEF After, Le
      <4>2. /\ next[o] \in After(o, P(l))
            /\ \A p \in After(o, P(l)) : Le(next[o], p)
        BY <2>1, <3>1, <4>1 DEF IsFirst
      <4>3. Le(next[o], op)
        BY <2>2, <3>2, <4>2, <1>8 DEF Le
      <4>4. next'[o] = next[o]
        BY <1>12, <2>2, <3>1, <3>4
      <4>5. next'[o] \in After(o, R(l)) /\ \A p \in After(o, R(l)) : Le(next'[o], p)
        BY <3>2, <4>2, <4>3, <4>4
      <4> QED BY <4>5 DEF IsFirst
    <3> QED BY <3>3, <3>4
  <2> QED BY <2>3, <2>4, <2>5
<1> QED BY <1>5, <1>6, <1>7, <1>13, <1>14 DEF ListsOK

(* Script[k] is the last of its queue ...                                  *)
LEMMA PushTailLists ==
  ASSUME Typed, Sequential, PushTail
  PROVE  ListsOK' /\ SentOnce' /\ StillSo'
<1>1. pc \in [Threads -> Labels] /\ ListsOK /\ SentOnce /\ StillSo /\ Alone
  BY DEF Typed, Sequential
<1>2. /\ pc["main"] = "push_tail" /\ pc["loop"] = "wait" /\ pc'["loop"] = "wait"
      /\ pc'["main"] = "push_head" /\ tail' = [tail EXCEPT ![q] = op]
      /\ UNCHANGED <<k, count, popq, popped, head, next, entries, sent>>
  BY <1>1 DEF PushTail, At, Goto, Threads, Alone, locals, wire
<1> USE DEF Upto, BeforeTail, BeforeEntries, InFlight, OutOfHead, OutOfTail, OutOfEntries
<1>3. SentOnce'
  BY <1>1, <1>2, SentOnceKept DEF UptoEntries, UptoHead
<1>4. HeadsOK' /\ EntriesOK'
  BY <1>1, <1>2, HeadsKept, EntriesKept DEF ListsOK, UptoHead, UptoEntries
<1>5. LinksOK' /\ NotYet'
  BY <1>1, <1>2, LinksKept DEF ListsOK, UptoNext
<1>6. StillSo'
  BY <1>2 DEF StillSo
<1>7. TailsOK'
  <2> DEFINE P(l) == Waiting(l, k - 1, FALSE)
             R(l) == Waiting(l, k, FALSE)
  <2>1. /\ op \in Ops /\ q \in QueueNames /\ Position(op) = k /\ k \in Nat
        /\ \A l \in QueueNames :
             /\ R(l) = IF l = q THEN P(l) \union {op} ELSE P(l)
             /\ \A o \in P(l) : o \in Ops /\ Position(o) < Position(op)
    BY <1>1, <1>2, Newcomer
  <2>2. \A l \in QueueNames : /\ Waiting(l, UptoTail, OutOfTail) = P(l)
                             /\ Waiting(l, UptoTail, OutOfTail)' = R(l)
    BY <1>2 DEF Waiting, UptoTail
  <2>3. \A o \in Ops : Position(o) \in Nat
    BY Scripted
  <2> HIDE DEF P, R
  <2> SUFFICES ASSUME NEW l \in QueueNames PROVE IsLast(tail'[l], R(l))
    BY <2>2 DEF TailsOK, IsLast, Le
  <2>4. CASE l # q
    <3>1. tail'[l] = tail[l] /\ R(l) = P(l)
      BY <1>2, <2>1, <2>4 DEF Typed
    <3> QED BY <1>1, <2>2, <3>1 DEF ListsOK, TailsOK
  <2>5. CASE l = q
    <3>1. tail'[l] = op /\ R(l) = P(l) \union {op}
      BY <1>2, <2>1, <2>5 DEF Typed
    <3>2. \A p \in P(l) : Le(p, op)
      BY <2>1, <2>3 DEF Le
    <3>3. Le(op, op)
      BY <2>1, <2>3 DEF Le
    <3>4. \A p \in R(l) : Le(p, op)
      BY <3>1, <3>2, <3>3
    <3> QED BY <3>1, <3>4 DEF IsLast
  <2> QED BY <2>4, <2>5
<1> QED BY <1>3, <1>4, <1>5, <1>6, <1>7 DEF ListsOK

(* ... and the first, if no other is there.                                *)
LEMMA PushHeadLists ==
  ASSUME Typed, Sequential, PushHead
  PROVE  ListsOK' /\ SentOnce' /\ StillSo'
<1>1. pc \in [Threads -> Labels] /\ ListsOK /\ SentOnce /\ StillSo /\ Alone
  BY DEF Typed, Sequential
<1>2. /\ pc["main"] = "push_head" /\ pc["loop"] = "wait" /\ pc'["loop"] = "wait"
      /\ pc'["main"] = "push_count"
      /\ head' = [head EXCEPT ![q] = IF head[q] = None THEN op ELSE head[q]]
      /\ UNCHANGED <<k, count, popq, popped, tail, next, entries, sent>>
  BY <1>1 DEF PushHead, At, Goto, Threads, Alone, locals, wire
<1> USE DEF Upto, BeforeTail, BeforeEntries, InFlight, OutOfHead, OutOfTail, OutOfEntries
<1>3. SentOnce'
  BY <1>1, <1>2, SentOnceKept DEF UptoEntries, UptoHead
<1>4. TailsOK' /\ EntriesOK'
  BY <1>1, <1>2, TailsKept, EntriesKept DEF ListsOK, UptoTail, UptoEntries
<1>5. LinksOK' /\ NotYet'
  BY <1>1, <1>2, LinksKept DEF ListsOK, UptoNext
<1>6. StillSo'
  BY <1>2 DEF StillSo
<1>7. HeadsOK'
  <2> DEFINE P(l) == Waiting(l, k - 1, FALSE)
             R(l) == Waiting(l, k, FALSE)
  <2>1. /\ op \in Ops /\ q \in QueueNames /\ Position(op) = k /\ k \in Nat
        /\ \A l \in QueueNames :
             /\ R(l) = IF l = q THEN P(l) \union {op} ELSE P(l)
             /\ \A o \in P(l) : o \in Ops /\ Position(o) < Position(op)
    BY <1>1, <1>2, Newcomer
  <2>2. \A l \in QueueNames : /\ Waiting(l, UptoHead, OutOfHead) = P(l)
                             /\ Waiting(l, UptoHead, OutOfHead)' = R(l)
    BY <1>2 DEF Waiting, UptoHead
  <2>3. /\ \A o \in Ops : Position(o) \in Nat
        /\ None \notin Ops
    BY Scripted
  <2> HIDE DEF P, R
  <2> SUFFICES ASSUME NEW l \in QueueNames PROVE IsFirst(head'[l], R(l))
    BY <2>2 DEF HeadsOK, IsFirst, Le
  <2>4. IsFirst(head[l], P(l))
    BY <1>1, <2>2 DEF ListsOK, HeadsOK
  <2>5. CASE l # q
    <3>1. head'[l] = head[l] /\ R(l) = P(l)
      BY <1>2, <2>1, <2>5 DEF Typed
    <3> QED BY <2>4, <3>1
  <2>6. CASE l = q /\ P(l) = {}
    <3>1. R(l) = {op} /\ head[l] = None
      BY <2>1, <2>4, <2>6 DEF IsFirst
    <3>2. head'[l] = op /\ Le(op, op)
      BY <1>2, <2>1, <2>3, <2>6, <3>1 DEF Typed, Le
    <3> QED BY <3>1, <3>2 DEF IsFirst
  <2>7. CASE l = q /\ P(l) # {}
    <3>1. head[l] \in P(l) /\ \A p \in P(l) : Le(head[l], p)
      BY <2>4, <2>7 DEF IsFirst
    <3>2. head'[l] = head[l]
      BY <1>2, <2>1, <2>3, <2>7, <3>1 DEF Typed
    <3>3. Le(head[l], op)
      BY <2>1, <2>3, <3>1 DEF Le
    <3>4. R(l) = P(l) \union {op}
      BY <2>1, <2>7
    <3> QED BY <3>1, <3>2, <3>3, <3>4 DEF IsFirst
  <2> QED BY <2>5, <2>6, <2>7
<1> QED BY <1>3, <1>4, <1>5, <1>6, <1>7 DEF ListsOK

(* There are finitely many operations, no more than Script is long.        *)
LEMMA Finitely ==
  ASSUME NEW P \in SUBSET Ops
  PROVE  IsFiniteSet(P) /\ Cardinality(P) \in 0 .. Len(Script)
<1> DEFINE f == [o \in P |-> Position(o)]
<1>1. IsFiniteSet(1 .. Len(Script)) /\ Cardinality(1 .. Len(Script)) = Len(Script)
  <2>1. Len(Script) \in Int /\ Len(Script) \in Nat /\ 1 \in Int
    BY Scripted
  <2>2. /\ IsFiniteSet(1 .. Len(Script))
        /\ Cardinality(1 .. Len(Script)) = IF 1 > Len(Script) THEN 0 ELSE Len(Script) - 1 + 1
    BY <2>1, FS_Interval, Zenon
  <2>3. (IF 1 > Len(Script) THEN 0 ELSE Len(Script) - 1 + 1) = Len(Script)
    BY <2>1
  <2> QED BY <2>2, <2>3
<1>2. f \in Injection(P, 1 .. Len(Script))
  <2>1. f \in [P -> 1 .. Len(Script)]
    BY Scripted
  <2>2. \A o, p \in P : f[o] = f[p] => o = p
    BY Scripted
  <2> QED BY <2>1, <2>2 DEF Injection, IsInjective
<1>3. IsFiniteSet(P) /\ Cardinality(P) <= Cardinality(1 .. Len(Script))
  BY <1>1, <1>2, FS_Injection
<1> QED BY <1>1, <1>3, FS_CardinalityType, Scripted

(* entries counts it.                                                      *)
LEMMA PushCountedLists ==
  ASSUME Typed, Sequential, PushCounted
  PROVE  ListsOK' /\ SentOnce' /\ StillSo'
<1>1. pc \in [Threads -> Labels] /\ ListsOK /\ SentOnce /\ StillSo /\ Alone
  BY DEF Typed, Sequential
<1>2. /\ pc["main"] = "push_counted" /\ pc["loop"] = "wait" /\ pc'["loop"] = "wait"
      /\ pc'["main"] = "w_flag"
      /\ entries' = [entries EXCEPT ![q] = entries[q] + 1]
      /\ UNCHANGED <<k, count, popq, popped, head, tail, next, sent>>
  BY <1>1 DEF PushCounted, WriteCount, StillSo, At, Goto, Threads, Alone, locals, wire
<1> USE DEF Upto, BeforeTail, BeforeEntries, InFlight, OutOfHead, OutOfTail, OutOfEntries
<1>3. SentOnce'
  <2>1. UptoEntries' = UptoEntries + 1
    BY <1>2 DEF UptoEntries, Typed
  <2> QED BY <1>1, <1>2, <2>1, SentOnceKept
<1>4. HeadsOK' /\ TailsOK'
  BY <1>1, <1>2, HeadsKept, TailsKept DEF ListsOK, UptoHead, UptoTail
<1>5. LinksOK' /\ NotYet'
  BY <1>1, <1>2, LinksKept DEF ListsOK, UptoNext
<1>6. StillSo'
  BY <1>2 DEF StillSo
<1>7. EntriesOK'
  <2> DEFINE P(l) == Waiting(l, k - 1, FALSE)
             R(l) == Waiting(l, k, FALSE)
  <2>1. /\ q \in QueueNames /\ op \notin P(q)
        /\ \A l \in QueueNames : R(l) = IF l = q THEN P(l) \union {op} ELSE P(l)
    BY <1>1, <1>2, Newcomer
  <2>2. \A l \in QueueNames : /\ Waiting(l, UptoEntries, OutOfEntries) = P(l)
                             /\ Waiting(l, UptoEntries, OutOfEntries)' = R(l)
    BY <1>2 DEF Waiting, UptoEntries
  <2>3. \A l \in QueueNames : IsFiniteSet(P(l))
    BY Finitely DEF Waiting
  <2> HIDE DEF P, R
  <2> SUFFICES ASSUME NEW l \in QueueNames PROVE entries'[l] = Cardinality(R(l))
    BY <2>2 DEF EntriesOK
  <2>4. entries[l] = Cardinality(P(l))
    BY <1>1, <2>2 DEF ListsOK, EntriesOK
  <2>5. CASE l # q
    <3>1. entries'[l] = entries[l]
      BY <1>2, <2>1, <2>5 DEF Typed
    <3> QED BY <2>1, <2>4, <2>5, <3>1
  <2>6. CASE l = q
    <3>1. Cardinality(P(l) \union {op}) = Cardinality(P(l)) + 1
      BY <2>1, <2>3, <2>6, FS_AddElement
    <3>2. entries'[l] = entries[l] + 1
      BY <1>2, <2>1, <2>6 DEF Typed
    <3> QED BY <2>1, <2>4, <2>6, <3>1, <3>2
  <2> QED BY <2>5, <2>6
<1> QED BY <1>3, <1>4, <1>5, <1>6, <1>7 DEF ListsOK

(* bt_att_send and the wakeup that follows leave the lists well formed.    *)
LEMMA CallerLists ==
  ASSUME Typed, Sequential, caller = "callback", Caller
  PROVE  ListsOK' /\ SentOnce' /\ StillSo'
<1>1. /\ pc \in [Threads -> Labels] /\ ListsOK /\ SentOnce /\ Alone /\ StillSo
      /\ k \in Nat
  BY DEF Typed, Sequential
<1> USE DEF Goto, At, Threads, Alone, locals, lists, handler, wire
<1>2. CASE PushCheck \/ PushLink \/ PushTail \/ PushHead \/ PushCounted
  BY <1>2, PushCheckLists, PushLinkLists, PushTailLists, PushHeadLists, PushCountedLists
<1> USE DEF Upto, UptoNext, UptoTail, UptoHead, UptoEntries, BeforeTail, BeforeEntries,
            InFlight, OutOfHead, OutOfTail, OutOfEntries
<1>3. CASE Call
  <2>1. ListsOK' /\ SentOnce'
    BY <1>1, <1>3, AllKept DEF Call
  <2> QED BY <1>1, <1>3, <2>1 DEF Call, StillSo
<1>4. CASE PushCount
  <2>1. ListsOK' /\ SentOnce'
    BY <1>1, <1>4, AllKept DEF PushCount, ReadCount
  <2>2. count'["main"] = entries[q]
    BY <1>4 DEF PushCount, ReadCount, Typed
  <2>3. StillSo'
    BY <1>1, <1>4, <2>2 DEF PushCount, ReadCount, StillSo, q, op
  <2> QED BY <2>1, <2>3
<1>5. CASE Returned
  <2>1. ListsOK' /\ SentOnce'
    BY <1>1, <1>5, AllKept DEF Returned
  <2> QED BY <1>1, <1>5, <2>1 DEF Returned, StillSo
<1>6. CASE Wakeup("main")
  <2>1. /\ UNCHANGED <<k, count, popq, popped, head, tail, next, entries, sent>>
        /\ pc["main"] \in WakeLabels /\ pc'["main"] \in WakeLabels \union {"returned"}
        /\ pc'["loop"] = pc["loop"] /\ pc["loop"] = "wait"
    BY <1>1, <1>6
       DEF Wakeup, WakeFlag, WakeEmpty, HandlerDestroy, HandlerCallback, HandlerWatch,
           HandlerEpoll, HandlerEvents, WakeSet, BackFrom, WakeLabels
  <2>2. ListsOK' /\ SentOnce'
    BY <1>1, <2>1, AllKept DEF WakeLabels
  <2>3. StillSo'
    BY <2>1 DEF StillSo, WakeLabels
  <2> QED BY <2>2, <2>3
<1> QED BY <1>2, <1>3, <1>4, <1>5, <1>6, Zenon DEF Caller

-----------------------------------------------------------------------------
(* The entry taken is the first that waits.  Was it the last too, nothing  *)
(* else waits; if not, what follows it is the first of the others.         *)
LEMMA PopEntryLists ==
  ASSUME Typed, Sequential, PopEntry
  PROVE  ListsOK' /\ SentOnce' /\ StillSo'
<1>1. pc \in [Threads -> Labels] /\ ListsOK /\ SentOnce /\ Alone
  BY DEF Typed, Sequential
<1>2. /\ pc["loop"] = "pop" /\ pc["main"] \in {"ready", "returned"}
      /\ pc'["main"] = pc["main"]
      /\ head[popq] # None /\ popped' = head[popq]
      /\ pc'["loop"] = (IF next[head[popq]] = None THEN "pop_last" ELSE "pop_count")
      /\ UNCHANGED <<k, count, popq, tail, next, entries, sent>>
  BY <1>1 DEF PopEntry, At, Goto, Threads, Alone, wire
<1>3. head' = IF next[head[popq]] = None THEN head
              ELSE [head EXCEPT ![popq] = next[head[popq]]]
  BY DEF PopEntry
<1> DEFINE hi == UptoEntries
           P(l) == Waiting(l, hi, FALSE)
           Q(l) == {o \in P(l) : o # head[popq]}
<1>4. /\ UptoNext = hi /\ UptoTail = hi /\ UptoHead = hi
      /\ UptoNext' = hi /\ UptoTail' = hi /\ UptoHead' = hi /\ UptoEntries' = hi
  BY <1>2 DEF UptoNext, UptoTail, UptoHead, UptoEntries, Upto, BeforeTail, BeforeEntries
<1>5. /\ popq \in QueueNames /\ head[popq] \in P(popq)
      /\ \A p \in P(popq) : Le(head[popq], p)
  <2>1. popq \in QueueNames /\ ~ OutOfHead
    BY <1>2 DEF Typed, OutOfHead, OutOfTail
  <2>2. Waiting(popq, UptoHead, OutOfHead) = P(popq)
    BY <1>4, <2>1 DEF Waiting
  <2> QED BY <1>1, <1>2, <2>1, <2>2 DEF ListsOK, HeadsOK, IsFirst
<1>6. \A l \in QueueNames : \A o \in P(l) : IsFirst(next[o], After(o, P(l)))
  <2>1. \A l \in QueueNames : Waiting(l, UptoNext, OutOfHead) = P(l)
    BY <1>2, <1>4 DEF Waiting, OutOfHead, OutOfTail
  <2> QED BY <1>1, <2>1 DEF ListsOK, LinksOK
<1>7. /\ head[popq] \in Ops /\ head[popq] \notin ToSet(sent)
      /\ QueueOf(head[popq]) = popq /\ Position(head[popq]) <= hi
  BY <1>5 DEF Waiting
<1>8. \A l \in QueueNames : Waiting(l, hi, TRUE)' = Q(l)
  BY <1>2, <1>4 DEF Waiting
<1>9. \A l \in QueueNames : Waiting(l, hi, FALSE)' = P(l)
  BY <1>2, <1>4 DEF Waiting
<1>10. \A o \in Ops : Position(o) \in Nat
  BY Scripted
<1>11. \A l \in QueueNames : \A o \in P(l) : o \in Ops /\ QueueOf(o) = l
  BY DEF Waiting
<1> HIDE DEF P
<1>12. /\ Q(popq) = After(head[popq], P(popq))
       /\ \A l \in QueueNames : l # popq => Q(l) = P(l)
  <2>1. \A p \in P(popq) : p # head[popq] => Position(head[popq]) < Position(p)
    <3> SUFFICES ASSUME NEW p \in P(popq), p # head[popq]
                 PROVE  Position(head[popq]) < Position(p)
      OBVIOUS
    <3>1. p \in Ops /\ Position(p) # Position(head[popq])
      BY <1>5, <1>7, <1>11, Scripted
    <3> QED BY <1>5, <1>7, <1>10, <3>1 DEF Le
  <2>2. ~ (Position(head[popq]) < Position(head[popq]))
    BY <1>7, <1>10
  <2>3. Q(popq) = After(head[popq], P(popq))
    BY <2>1, <2>2, Zenon DEF After
  <2>4. \A l \in QueueNames : l # popq => Q(l) = P(l)
    BY <1>7, <1>11
  <2> QED BY <2>3, <2>4
<1>13. IsFirst(next[head[popq]], Q(popq))
  BY <1>5, <1>6, <1>12
<1>14. StillSo'
  BY <1>2 DEF StillSo
<1>15. EntriesOK' /\ NotYet'
  <2>1. EntriesOK'
    BY <1>1, <1>2, <1>4, EntriesKept DEF ListsOK, OutOfEntries
  <2>2. NotYet'
    BY <1>1, <1>2, <1>4 DEF ListsOK, NotYet
  <2> QED BY <2>1, <2>2
<1>16. CASE next[head[popq]] = None
  <2>1. pc'["loop"] = "pop_last" /\ head' = head
    BY <1>2, <1>3, <1>16
  <2>2. HeadsOK'
    BY <1>1, <1>2, <1>4, <2>1, HeadsKept DEF ListsOK, OutOfHead, OutOfTail
  <2>3. TailsOK'
    BY <1>1, <1>2, <1>4, <2>1, TailsKept DEF ListsOK, OutOfTail
  <2>4. LinksOK'
    BY <1>1, <1>2, <1>4, <2>1, LinksKept DEF ListsOK, OutOfHead, OutOfTail
  <2>5. Q(popq) = {}
    <3>1. None \notin Q(popq)
      BY <1>5, <1>11, Scripted
    <3> QED BY <1>13, <1>16, <3>1 DEF IsFirst
  <2>6. Waiting(popq, UptoHead, TRUE)' = {}
    BY <1>2, <1>4, <1>5, <1>8, <2>5
  <2>7. SentOnce'
    BY <1>1, <1>2, <1>4, <1>7, <2>6 DEF SentOnce
  <2> QED BY <1>14, <1>15, <2>2, <2>3, <2>4, <2>7 DEF ListsOK
<1>17. CASE next[head[popq]] # None
  <2>1. /\ pc'["loop"] = "pop_count"
        /\ head' = [head EXCEPT ![popq] = next[head[popq]]]
    BY <1>2, <1>3, <1>17
  <2>2. OutOfHead' /\ OutOfTail'
    BY <2>1 DEF OutOfHead, OutOfTail
  <2>3. \A l \in QueueNames : /\ Waiting(l, UptoHead, OutOfHead)' = Q(l)
                             /\ Waiting(l, UptoTail, OutOfTail)' = Q(l)
                             /\ Waiting(l, UptoNext, OutOfHead)' = Q(l)
    BY <1>2, <1>4, <1>8, <2>2 DEF Waiting
  <2>4. HeadsOK'
    <3> SUFFICES ASSUME NEW l \in QueueNames PROVE IsFirst(head'[l], Q(l))
      BY <2>3 DEF HeadsOK, IsFirst, Le
    <3>1. CASE l = popq
      <4>1. head'[l] = next[head[popq]]
        BY <1>5, <2>1, <3>1 DEF Typed
      <4> QED BY <1>13, <3>1, <4>1
    <3>2. CASE l # popq
      <4>1. head'[l] = head[l] /\ Q(l) = P(l)
        BY <1>12, <2>1, <3>2 DEF Typed
      <4>2. Waiting(l, UptoHead, OutOfHead) = P(l)
        BY <1>2, <1>4 DEF P, Waiting, OutOfHead, OutOfTail
      <4> QED BY <1>1, <4>1, <4>2 DEF ListsOK, HeadsOK
    <3> QED BY <3>1, <3>2
  <2>5. Q(popq) # {}
    BY <1>13, <1>17 DEF IsFirst
  <2>6. TailsOK'
    <3> SUFFICES ASSUME NEW l \in QueueNames PROVE IsLast(tail[l], Q(l))
      BY <1>2, <2>3 DEF TailsOK, IsLast, Le
    <3>1. IsLast(tail[l], P(l))
      <4>1. Waiting(l, UptoTail, OutOfTail) = P(l)
        BY <1>2, <1>4 DEF P, Waiting, OutOfTail
      <4> QED BY <1>1, <4>1 DEF ListsOK, TailsOK
    <3>2. CASE l # popq
      BY <1>12, <3>1, <3>2
    <3>3. CASE l = popq
      <4>1. tail[l] \in P(l) /\ \A p \in P(l) : Le(p, tail[l])
        BY <1>5, <3>1, <3>3 DEF IsLast
      <4>2. PICK p \in P(l) : Position(head[popq]) < Position(p)
        BY <1>12, <2>5, <3>3 DEF After
      <4>3. tail[l] # head[popq]
        BY <1>7, <1>10, <1>11, <4>1, <4>2 DEF Le
      <4> QED BY <2>5, <3>3, <4>1, <4>3 DEF IsLast
    <3> QED BY <3>2, <3>3
  <2>7. LinksOK'
    <3> SUFFICES ASSUME NEW l \in QueueNames, NEW o \in Q(l)
                 PROVE  IsFirst(next[o], After(o, Q(l)))
      BY <1>2, <2>3 DEF LinksOK, IsFirst, After, Le
    <3>1. After(o, Q(l)) = After(o, P(l))
      <4>1. CASE l # popq
        BY <1>12, <4>1
      <4>2. CASE l = popq
        <5>1. ~ (Position(o) < Position(head[popq]))
          BY <1>5, <1>7, <1>10, <1>11, <4>2 DEF Le
        <5> QED BY <5>1 DEF After
      <4> QED BY <4>1, <4>2
    <3> QED BY <1>6, <3>1
  <2>8. SentOnce'
    BY <1>1, <1>2, <1>4, <1>7, <2>1 DEF SentOnce
  <2> QED BY <1>14, <1>15, <2>4, <2>6, <2>7, <2>8 DEF ListsOK
<1> QED BY <1>16, <1>17

(* The entry popped belongs to popq and no other queue.                    *)
LEMMA Taken ==
  ASSUME Typed, SentOnce, InFlight
  PROVE  /\ popq \in QueueNames /\ popped \in Ops
         /\ popped \notin ToSet(sent) /\ Position(popped) <= UptoEntries
         /\ \A hi : \A l \in QueueNames :
              l # popq => Waiting(l, hi, TRUE) = Waiting(l, hi, FALSE)
         /\ \A hi : \A l \in QueueNames :
              Waiting(l, hi, TRUE) = Waiting(l, hi, FALSE) \ {popped}
<1>1. /\ popq \in QueueNames /\ popped \in Ops
      /\ popped \notin ToSet(sent) /\ Position(popped) <= UptoEntries
      /\ QueueOf(popped) = popq
  BY DEF Typed, SentOnce, OpOrNone
<1>2. \A hi : \A l \in QueueNames :
        l # popq => Waiting(l, hi, TRUE) = Waiting(l, hi, FALSE)
  BY <1>1 DEF Waiting
<1>3. \A hi : \A l \in QueueNames :
        Waiting(l, hi, TRUE) = Waiting(l, hi, FALSE) \ {popped}
  BY DEF Waiting
<1> QED BY <1>1, <1>2, <1>3

(* Once the last has been taken, head is cleared ...                       *)
LEMMA PopLastLists ==
  ASSUME Typed, Sequential, PopLast
  PROVE  ListsOK' /\ SentOnce' /\ StillSo'
<1>1. pc \in [Threads -> Labels] /\ ListsOK /\ SentOnce /\ Alone
  BY DEF Typed, Sequential
<1>2. /\ pc["loop"] = "pop_last" /\ pc["main"] \in {"ready", "returned"}
      /\ pc'["main"] = pc["main"] /\ pc'["loop"] = "pop_tail"
      /\ head' = [head EXCEPT ![popq] = None]
      /\ UNCHANGED <<k, count, popq, popped, tail, next, entries, sent>>
  BY <1>1 DEF PopLast, At, Goto, Threads, Alone, locals, wire
<1> DEFINE hi == UptoEntries
           P(l) == Waiting(l, hi, FALSE)
           Q(l) == Waiting(l, hi, TRUE)
<1>3. /\ UptoNext = hi /\ UptoTail = hi /\ UptoHead = hi
      /\ UptoNext' = hi /\ UptoTail' = hi /\ UptoHead' = hi /\ UptoEntries' = hi
  BY <1>2 DEF UptoNext, UptoTail, UptoHead, UptoEntries, Upto, BeforeTail, BeforeEntries
<1>4. /\ popq \in QueueNames /\ Q(popq) = {}
      /\ \A l \in QueueNames : l # popq => Q(l) = P(l)
  <2>1. InFlight
    BY <1>2 DEF InFlight
  <2>2. Waiting(popq, UptoHead, TRUE) = {}
    BY <1>1, <1>2 DEF SentOnce
  <2> QED BY <1>1, <1>3, <2>1, <2>2, Taken
<1>5. \A l \in QueueNames :
        /\ Waiting(l, UptoHead, OutOfHead) = P(l)
        /\ Waiting(l, UptoNext, OutOfHead) = P(l)
        /\ Waiting(l, UptoHead, OutOfHead)' = Q(l)
        /\ Waiting(l, UptoNext, OutOfHead)' = Q(l)
  BY <1>2, <1>3 DEF Waiting, OutOfHead, OutOfTail
<1>6. StillSo'
  BY <1>2 DEF StillSo
<1>7. SentOnce'
  BY <1>1, <1>2, <1>3, SentOnceKept DEF InFlight, OutOfHead
<1>8. TailsOK' /\ EntriesOK'
  BY <1>1, <1>2, <1>3, TailsKept, EntriesKept DEF ListsOK, OutOfTail, OutOfEntries
<1>9. NotYet'
  BY <1>1, <1>2, <1>3 DEF ListsOK, NotYet
<1> HIDE DEF P, Q
<1>10. HeadsOK'
  <2> SUFFICES ASSUME NEW l \in QueueNames PROVE IsFirst(head'[l], Q(l))
    BY <1>5 DEF HeadsOK, IsFirst, Le
  <2>1. CASE l = popq
    BY <1>2, <1>4, <2>1 DEF Typed, IsFirst
  <2>2. CASE l # popq
    <3>1. head'[l] = head[l] /\ Q(l) = P(l)
      BY <1>2, <1>4, <2>2 DEF Typed
    <3> QED BY <1>1, <1>5, <3>1 DEF ListsOK, HeadsOK
  <2> QED BY <2>1, <2>2
<1>11. LinksOK'
  <2> SUFFICES ASSUME NEW l \in QueueNames, NEW o \in Q(l)
               PROVE  IsFirst(next[o], After(o, Q(l)))
    BY <1>2, <1>5 DEF LinksOK, IsFirst, After, Le
  <2>1. Q(l) = P(l)
    BY <1>4
  <2> QED BY <1>1, <1>5, <2>1 DEF ListsOK, LinksOK
<1> QED BY <1>6, <1>7, <1>8, <1>9, <1>10, <1>11 DEF ListsOK

(* ... and then tail.                                                      *)
LEMMA PopTailLists ==
  ASSUME Typed, Sequential, PopTail
  PROVE  ListsOK' /\ SentOnce' /\ StillSo'
<1>1. pc \in [Threads -> Labels] /\ ListsOK /\ SentOnce /\ Alone
  BY DEF Typed, Sequential
<1>2. /\ pc["loop"] = "pop_tail" /\ pc["main"] \in {"ready", "returned"}
      /\ pc'["main"] = pc["main"] /\ pc'["loop"] = "pop_count"
      /\ tail' = [tail EXCEPT ![popq] = None]
      /\ UNCHANGED <<k, count, popq, popped, head, next, entries, sent>>
  BY <1>1 DEF PopTail, At, Goto, Threads, Alone, locals, wire
<1> DEFINE hi == UptoEntries
           P(l) == Waiting(l, hi, FALSE)
           Q(l) == Waiting(l, hi, TRUE)
<1>3. /\ UptoNext = hi /\ UptoTail = hi /\ UptoHead = hi
      /\ UptoNext' = hi /\ UptoTail' = hi /\ UptoHead' = hi /\ UptoEntries' = hi
  BY <1>2 DEF UptoNext, UptoTail, UptoHead, UptoEntries, Upto, BeforeTail, BeforeEntries
<1>4. /\ popq \in QueueNames /\ Q(popq) = {}
      /\ \A l \in QueueNames : l # popq => Q(l) = P(l)
  <2>1. InFlight
    BY <1>2 DEF InFlight, OutOfHead
  <2>2. Waiting(popq, UptoHead, TRUE) = {}
    BY <1>1, <1>2 DEF SentOnce
  <2> QED BY <1>1, <1>3, <2>1, <2>2, Taken
<1>5. \A l \in QueueNames :
        /\ Waiting(l, UptoTail, OutOfTail) = P(l)
        /\ Waiting(l, UptoTail, OutOfTail)' = Q(l)
  BY <1>2, <1>3 DEF Waiting, OutOfTail
<1>6. StillSo'
  BY <1>2 DEF StillSo
<1>7. SentOnce'
  BY <1>1, <1>2, <1>3, SentOnceKept DEF InFlight, OutOfHead, OutOfTail
<1>8. HeadsOK' /\ EntriesOK' /\ LinksOK' /\ NotYet'
  BY <1>1, <1>2, <1>3, HeadsKept, EntriesKept, LinksKept
     DEF ListsOK, OutOfHead, OutOfTail, OutOfEntries
<1> HIDE DEF P, Q
<1>9. TailsOK'
  <2> SUFFICES ASSUME NEW l \in QueueNames PROVE IsLast(tail'[l], Q(l))
    BY <1>5 DEF TailsOK, IsLast, Le
  <2>1. CASE l = popq
    BY <1>2, <1>4, <2>1 DEF Typed, IsLast
  <2>2. CASE l # popq
    <3>1. tail'[l] = tail[l] /\ Q(l) = P(l)
      BY <1>2, <1>4, <2>2 DEF Typed
    <3> QED BY <1>1, <1>5, <3>1 DEF ListsOK, TailsOK
  <2> QED BY <2>1, <2>2
<1> QED BY <1>6, <1>7, <1>8, <1>9 DEF ListsOK

(* entries no longer counts it.                                            *)
LEMMA PopCountedLists ==
  ASSUME Typed, Sequential, PopCounted
  PROVE  ListsOK' /\ SentOnce' /\ StillSo'
<1>1. pc \in [Threads -> Labels] /\ ListsOK /\ SentOnce /\ StillSo /\ Alone
  BY DEF Typed, Sequential
<1>2. /\ pc["loop"] = "pop_counted" /\ pc["main"] \in {"ready", "returned"}
      /\ pc'["main"] = pc["main"] /\ pc'["loop"] = "write"
      /\ entries' = [entries EXCEPT ![popq] = entries[popq] - 1]
      /\ UNCHANGED <<k, count, popq, popped, head, tail, next, sent>>
  BY <1>1 DEF PopCounted, WriteCount, StillSo, At, Goto, Threads, Alone, locals, wire
<1> DEFINE hi == UptoEntries
           P(l) == Waiting(l, hi, FALSE)
           Q(l) == Waiting(l, hi, TRUE)
<1>3. /\ UptoNext' = UptoNext /\ UptoTail' = UptoTail /\ UptoHead' = UptoHead
      /\ UptoEntries' = hi
  BY <1>2 DEF UptoNext, UptoTail, UptoHead, UptoEntries, Upto, BeforeTail, BeforeEntries
<1>4. InFlight
  BY <1>2 DEF InFlight, OutOfHead, OutOfTail
<1>5. /\ popq \in QueueNames
      /\ \A l \in QueueNames : Q(l) = P(l) \ {popped}
      /\ \A l \in QueueNames : l # popq => Q(l) = P(l)
  BY <1>1, <1>4, Taken
<1>6. popped \in P(popq)
  <2>1. popped \in Ops /\ popped \notin ToSet(sent) /\ Position(popped) <= hi
    BY <1>1, <1>4, Taken
  <2>2. QueueOf(popped) = popq
    BY <1>1, <1>4 DEF SentOnce
  <2> QED BY <2>1, <2>2 DEF Waiting
<1>7. \A l \in QueueNames :
        /\ Waiting(l, UptoEntries, OutOfEntries) = P(l)
        /\ Waiting(l, UptoEntries, OutOfEntries)' = Q(l)
  BY <1>2, <1>3 DEF Waiting, OutOfEntries
<1>8. \A l \in QueueNames : IsFiniteSet(P(l))
  BY Finitely DEF Waiting
<1>9. StillSo'
  BY <1>2 DEF StillSo
<1>10. SentOnce'
  BY <1>1, <1>2, <1>3, SentOnceKept DEF InFlight, OutOfHead, OutOfTail
<1>11. HeadsOK' /\ TailsOK' /\ LinksOK' /\ NotYet'
  BY <1>1, <1>2, <1>3, HeadsKept, TailsKept, LinksKept
     DEF ListsOK, OutOfHead, OutOfTail
<1> HIDE DEF P, Q
<1>12. EntriesOK'
  <2> SUFFICES ASSUME NEW l \in QueueNames PROVE entries'[l] = Cardinality(Q(l))
    BY <1>7 DEF EntriesOK
  <2>1. entries[l] = Cardinality(P(l))
    BY <1>1, <1>7 DEF ListsOK, EntriesOK
  <2>2. CASE l # popq
    <3>1. entries'[l] = entries[l]
      BY <1>2, <2>2 DEF Typed
    <3> QED BY <1>5, <2>1, <2>2, <3>1
  <2>3. CASE l = popq
    <3>1. Cardinality(P(l) \ {popped}) = Cardinality(P(l)) - 1
      BY <1>6, <1>8, <2>3, FS_RemoveElement
    <3>2. entries'[l] = entries[l] - 1
      BY <1>2, <2>3 DEF Typed
    <3> QED BY <1>5, <2>1, <3>1, <3>2
  <2> QED BY <2>2, <2>3
<1> QED BY <1>9, <1>10, <1>11, <1>12 DEF ListsOK

(* Written, it no longer waits, as it had not since it was taken.          *)
LEMMA WriteLists ==
  ASSUME Typed, Sequential, Write
  PROVE  ListsOK' /\ SentOnce' /\ StillSo'
<1>1. /\ pc \in [Threads -> Labels] /\ ListsOK /\ SentOnce /\ Alone
      /\ sent \in Seq(Ops)
  BY DEF Typed, Sequential
<1>2. /\ pc["loop"] = "write" /\ pc["main"] \in {"ready", "returned"}
      /\ pc'["main"] = pc["main"] /\ pc'["loop"] = "wait"
      /\ sent' = Append(sent, popped)
      /\ UNCHANGED <<k, count, popq, popped, head, tail, next, entries>>
  BY <1>1 DEF Write, At, Goto, Threads, Alone, locals, lists
<1>3. /\ UptoNext' = UptoNext /\ UptoTail' = UptoTail /\ UptoHead' = UptoHead
      /\ UptoEntries' = UptoEntries
  BY <1>2 DEF UptoNext, UptoTail, UptoHead, UptoEntries, Upto, BeforeTail, BeforeEntries
<1>4. popped \in Ops /\ popped \notin ToSet(sent) /\ Position(popped) <= UptoEntries
  <2>1. InFlight
    BY <1>2 DEF InFlight, OutOfHead, OutOfTail
  <2> QED BY <1>1, <2>1, Taken
<1>5. /\ DOMAIN sent = 1 .. Len(sent) /\ Len(sent) \in Nat
      /\ ToSet(sent) = {sent[i] : i \in DOMAIN sent}
  BY <1>1, QueueEntries
<1>6. /\ \A i \in DOMAIN sent : i \in DOMAIN sent' /\ sent'[i] = sent[i]
      /\ \A i \in DOMAIN sent' :
           \/ i \in DOMAIN sent /\ sent'[i] = sent[i]
           \/ i = Len(sent) + 1 /\ i \notin DOMAIN sent /\ sent'[i] = popped
      /\ Len(sent) + 1 \in DOMAIN sent' /\ sent'[Len(sent) + 1] = popped
      /\ sent' \in Seq(Ops)
  BY <1>1, <1>2, <1>4, Pushed
<1>7. ToSet(sent') = ToSet(sent) \union {popped}
  <2>1. ToSet(sent') = {sent'[i] : i \in DOMAIN sent'}
    BY <1>6, QueueEntries
  <2> QED BY <1>5, <1>6, <2>1
<1>8. \A hi : \A l \in QueueNames :
        {o \in Ops : QueueOf(o) = l /\ Position(o) <= hi /\ o \notin ToSet(sent')}
          = {o \in Ops : /\ QueueOf(o) = l /\ Position(o) <= hi
                         /\ o \notin ToSet(sent) /\ o # popped}
  BY <1>7
<1>9. HeadsOK'
  <2>1. \A l \in QueueNames :
          Waiting(l, UptoHead, OutOfHead)' = Waiting(l, UptoHead, OutOfHead)
    BY <1>2, <1>3, <1>8 DEF Waiting, OutOfHead, OutOfTail
  <2> QED BY <1>1, <1>2, <2>1 DEF ListsOK, HeadsOK, IsFirst, Le
<1>10. TailsOK'
  <2>1. \A l \in QueueNames :
          Waiting(l, UptoTail, OutOfTail)' = Waiting(l, UptoTail, OutOfTail)
    BY <1>2, <1>3, <1>8 DEF Waiting, OutOfTail
  <2> QED BY <1>1, <1>2, <2>1 DEF ListsOK, TailsOK, IsLast, Le
<1>11. EntriesOK'
  <2>1. \A l \in QueueNames :
          Waiting(l, UptoEntries, OutOfEntries)' = Waiting(l, UptoEntries, OutOfEntries)
    BY <1>2, <1>3, <1>8 DEF Waiting, OutOfEntries
  <2> QED BY <1>1, <1>2, <2>1 DEF ListsOK, EntriesOK
<1>12. LinksOK'
  <2>1. \A l \in QueueNames :
          Waiting(l, UptoNext, OutOfHead)' = Waiting(l, UptoNext, OutOfHead)
    BY <1>2, <1>3, <1>8 DEF Waiting, OutOfHead, OutOfTail
  <2> QED BY <1>1, <1>2, <2>1 DEF ListsOK, LinksOK, IsFirst, After, Le
<1>13. NotYet'
  BY <1>1, <1>2, <1>3 DEF ListsOK, NotYet
<1>14. StillSo'
  BY <1>2 DEF StillSo
<1>15. SentOnce'
  <2>1. \A i \in DOMAIN sent' : Position(sent'[i]) <= UptoEntries'
    BY <1>1, <1>3, <1>4, <1>6 DEF SentOnce
  <2>2. \A i \in DOMAIN sent : sent[i] # popped
    BY <1>4, <1>5
  <2>3. IsInjective(sent')
    <3> SUFFICES ASSUME NEW i \in DOMAIN sent', NEW j \in DOMAIN sent', sent'[i] = sent'[j]
                 PROVE  i = j
      BY DEF IsInjective
    <3>1. CASE i \in DOMAIN sent /\ j \in DOMAIN sent
      BY <1>1, <1>6, <3>1 DEF SentOnce, IsInjective
    <3>2. CASE i \notin DOMAIN sent \/ j \notin DOMAIN sent
      BY <1>6, <2>2, <3>2
    <3> QED BY <3>1, <3>2
  <2>4. ~ InFlight' /\ pc'["loop"] \notin {"pop_last", "pop_tail"}
    BY <1>2 DEF InFlight, OutOfHead, OutOfTail
  <2> QED BY <2>1, <2>3, <2>4 DEF SentOnce
<1> QED BY <1>9, <1>10, <1>11, <1>12, <1>13, <1>14, <1>15 DEF ListsOK

(* All that the main loop does leaves the lists well formed.               *)
LEMMA LoopLists ==
  ASSUME Typed, Sequential, caller = "callback", Loop
  PROVE  ListsOK' /\ SentOnce' /\ StillSo'
<1>1. pc \in [Threads -> Labels] /\ ListsOK /\ SentOnce /\ Alone
  BY DEF Typed, Sequential
<1>2. CASE PopEntry \/ PopLast \/ PopTail \/ PopCounted \/ Write
  BY <1>2, PopEntryLists, PopLastLists, PopTailLists, PopCountedLists, WriteLists
<1>3. CASE Wait \/ In \/ RspClear \/ Out \/ PopNothing \/ RemoveFlag \/ RemoveCallback
             \/ RemoveWatch \/ RemoveEvents \/ RemoveEpoll \/ Wakeup("loop")
  <2>1. /\ UNCHANGED <<k, count, popped, head, tail, next, entries, sent>>
        /\ pc["main"] \in {"ready", "returned"} /\ pc'["main"] = pc["main"]
        /\ pc["loop"] \notin {"pop_last", "pop_tail", "pop_count", "pop_counted", "write"}
        /\ pc'["loop"] \notin {"pop_last", "pop_tail", "pop_count", "pop_counted", "write"}
    <3> USE DEF Goto, At, Threads, Alone, locals, lists, handler, wire
    <3>1. CASE Wait
      BY <1>1, <3>1 DEF Wait
    <3>2. CASE In \/ RspClear
      BY <1>1, <3>2 DEF In, RspClear
    <3>3. CASE Out
      <4>1. ~ Crash
        <5>1. ~ Crashed'
          BY LoopHandler
        <5> QED BY <5>1 DEF Crash, Crashed
      <4> QED BY <1>1, <3>3, <4>1 DEF Out
    <3>4. CASE PopNothing
      BY <1>1, <3>4 DEF PopNothing
    <3>5. CASE RemoveFlag \/ RemoveCallback \/ RemoveWatch \/ RemoveEvents \/ RemoveEpoll
      BY <1>1, <3>5 DEF RemoveFlag, RemoveCallback, RemoveWatch, RemoveEvents, RemoveEpoll
    <3>6. CASE Wakeup("loop")
      BY <1>1, <3>6
         DEF Wakeup, WakeFlag, WakeEmpty, HandlerDestroy, HandlerCallback, HandlerWatch,
             HandlerEpoll, HandlerEvents, WakeSet, BackFrom
    <3> QED BY <1>3, <3>1, <3>2, <3>3, <3>4, <3>5, <3>6
  <2>2. ListsOK' /\ SentOnce'
    BY <1>1, <2>1, AllKept
       DEF Upto, UptoNext, UptoTail, UptoHead, UptoEntries, BeforeTail, BeforeEntries,
           InFlight, OutOfHead, OutOfTail, OutOfEntries
  <2>3. StillSo'
    BY <2>1 DEF StillSo
  <2> QED BY <2>2, <2>3
<1>4. CASE PopCount
  <2>1. /\ pc["loop"] = "pop_count" /\ pc["main"] \in {"ready", "returned"}
        /\ pc'["main"] = pc["main"] /\ pc'["loop"] = "pop_counted"
        /\ count' = [count EXCEPT !["loop"] = entries[popq]]
        /\ UNCHANGED <<k, popq, popped, head, tail, next, entries, sent>>
    BY <1>1, <1>4 DEF PopCount, ReadCount, At, Goto, Threads, Alone, lists, wire
  <2>2. ListsOK' /\ SentOnce'
    BY <1>1, <2>1, AllKept
       DEF Upto, UptoNext, UptoTail, UptoHead, UptoEntries, BeforeTail, BeforeEntries,
           InFlight, OutOfHead, OutOfTail, OutOfEntries
  <2>3. count'["loop"] = entries[popq]
    BY <2>1 DEF Typed, Threads
  <2>4. StillSo'
    BY <2>1, <2>3 DEF StillSo
  <2> QED BY <2>2, <2>4
<1> QED BY <1>2, <1>3, <1>4, Zenon DEF Loop

-----------------------------------------------------------------------------
(* QueuesWellFormed.                                                       *)

(* ReachedFrom is what its definition says: a function that satisfies the  *)
(* recursion exists, built up to each number of entries.                   *)
LEMMA Reached ==
  ASSUME next \in [Ops -> OpOrNone]
  PROVE  \A n \in 0 .. Len(Script) : \A o \in OpOrNone :
           ReachedFrom[n][o] = IF n = 0 \/ o = None THEN <<>>
                               ELSE <<o>> \o ReachedFrom[n - 1][next[o]]
<1> DEFINE Row(n, below) ==
             [o \in OpOrNone |-> IF n = 0 \/ o = None THEN <<>>
                                 ELSE <<o>> \o below[next[o]]]
           Fits(f, m) == f = [n \in 0 .. m |-> Row(n, f[n - 1])]
           Bad == {m \in Nat : ~ \E f : Fits(f, m)}
<1>1. \A below, other : Row(0, below) = Row(0, other)
  OBVIOUS
<1> HIDE DEF Row
<1>2. Bad = {}
  <2> SUFFICES ASSUME Bad # {} PROVE FALSE
    OBVIOUS
  <2> DEFINE m == Min(Bad)
  <2>1. m \in Bad /\ \A b \in Bad : m <= b
    <3>1. Bad \in SUBSET Nat
      OBVIOUS
    <3> HIDE DEF Bad
    <3> QED BY <3>1, Least
  <2>2. m \in Nat /\ ~ \E f : Fits(f, m)
    BY <2>1
  <2>3. m # 0 => \E g : Fits(g, m - 1)
    <3>1. m # 0 => m - 1 \in Nat /\ ~ (m <= m - 1)
      BY <2>2
    <3>2. m # 0 => m - 1 \notin Bad
      <4> HIDE DEF Bad, m
      <4> QED BY <2>1, <3>1
    <3> HIDE DEF m, Fits
    <3> QED BY <3>1, <3>2
  <2> HIDE DEF m, Bad
  <2>4. CASE m = 0
    <3> DEFINE f == [n \in 0 .. m |-> Row(0, <<>>)]
    <3>1. \A n \in 0 .. m : n = 0
      BY <2>4
    <3>2. \A n \in 0 .. m : Row(0, <<>>) = Row(n, f[n - 1])
      BY <1>1, <3>1
    <3>3. Fits(f, m)
      BY <3>2
    <3> QED BY <2>2, <3>3
  <2>5. CASE m # 0
    <3>1. PICK g : Fits(g, m - 1)
      BY <2>3, <2>5
    <3> DEFINE f == [n \in 0 .. m |-> IF n = 0 THEN Row(0, <<>>) ELSE Row(n, g[n - 1])]
    <3>2. \A n \in 0 .. m : n # 0 => n - 1 \in 0 .. m - 1 /\ n - 1 \in 0 .. m
      BY <2>2, <2>5
    <3>3. \A n \in 0 .. m - 1 : n \in 0 .. m /\ g[n] = Row(n, g[n - 1])
      BY <2>2, <2>5, <3>1
    <3>4. \A n \in 0 .. m - 1 : f[n] = g[n]
      <4> SUFFICES ASSUME NEW n \in 0 .. m - 1 PROVE f[n] = g[n]
        OBVIOUS
      <4>1. f[n] = IF n = 0 THEN Row(0, <<>>) ELSE Row(n, g[n - 1])
        BY <3>3
      <4>2. g[n] = Row(n, g[n - 1])
        BY <3>3
      <4> HIDE DEF f
      <4> QED BY <1>1, <4>1, <4>2
    <3>5. \A n \in 0 .. m :
            (IF n = 0 THEN Row(0, <<>>) ELSE Row(n, g[n - 1])) = Row(n, f[n - 1])
      <4> SUFFICES ASSUME NEW n \in 0 .. m
                   PROVE  (IF n = 0 THEN Row(0, <<>>) ELSE Row(n, g[n - 1]))
                            = Row(n, f[n - 1])
        OBVIOUS
      <4>1. CASE n = 0
        BY <1>1, <4>1
      <4>2. CASE n # 0
        <5>1. f[n - 1] = g[n - 1]
          BY <3>2, <3>4, <4>2
        <5> HIDE DEF f
        <5> QED BY <4>2, <5>1
      <4> QED BY <4>1, <4>2
    <3>6. Fits(f, m)
      BY <3>5
    <3> QED BY <2>2, <3>6
  <2> QED BY <2>4, <2>5
<1>3. Len(Script) \in Nat
  BY Scripted
<1>4. \E f : Fits(f, Len(Script))
  BY <1>2, <1>3
<1>5. Fits(ReachedFrom, Len(Script))
  BY <1>4, Zenon DEF ReachedFrom, Row
<1>6. \A n \in 0 .. Len(Script) : ReachedFrom[n] = Row(n, ReachedFrom[n - 1])
  <2> HIDE DEF Bad
  <2> QED BY <1>5
<1> QED BY <1>6, Zenon DEF Row

From(o, P) == {p \in P : Le(o, p)}

(* A chain leads from an entry over all that come after it to the last.    *)
LEMMA Chain ==
  ASSUME next \in [Ops -> OpOrNone], NEW P \in SUBSET Ops,
         \A o \in P : IsFirst(next[o], After(o, P))
  PROVE  \A n \in 0 .. Len(Script) : \A o \in P :
           Cardinality(From(o, P)) <= n =>
             /\ ReachedFrom[n][o] \in Seq(Ops) /\ ReachedFrom[n][o] # <<>>
             /\ Len(ReachedFrom[n][o]) = Cardinality(From(o, P))
             /\ IsLast(Last(ReachedFrom[n][o]), P)
<1> DEFINE Leads(n, o) ==
             /\ ReachedFrom[n][o] \in Seq(Ops) /\ ReachedFrom[n][o] # <<>>
             /\ Len(ReachedFrom[n][o]) = Cardinality(From(o, P))
             /\ IsLast(Last(ReachedFrom[n][o]), P)
           Bad == {n \in 0 .. Len(Script) :
                     ~ \A o \in P : Cardinality(From(o, P)) <= n => Leads(n, o)}
<1> SUFFICES ASSUME Bad # {} PROVE FALSE
  OBVIOUS
<1> DEFINE m == Min(Bad)
<1>1. m \in Bad /\ \A b \in Bad : m <= b
  <2>1. Bad \in SUBSET Nat
    OBVIOUS
  <2> HIDE DEF Bad
  <2> QED BY <2>1, Least
<1>2. m \in 0 .. Len(Script)
  BY <1>1
<1>3. PICK o \in P : Cardinality(From(o, P)) <= m /\ ~ Leads(m, o)
  BY <1>1
<1>4. \A p \in P : p \in Ops /\ p \in OpOrNone /\ p # None /\ Position(p) \in Nat
  BY Scripted DEF OpOrNone
<1>5. o \in From(o, P) /\ IsFiniteSet(From(o, P)) /\ Cardinality(From(o, P)) \in Nat
  <2>1. o \in From(o, P)
    BY <1>4 DEF From, Le
  <2>2. From(o, P) \in SUBSET Ops
    BY DEF From
  <2> QED BY <2>1, <2>2, Finitely, FS_CardinalityType
<1>6. m # 0
  <2>1. Cardinality(From(o, P)) # 0
    BY <1>5, FS_EmptySet
  <2> HIDE DEF m
  <2> QED BY <1>2, <1>3, <1>5, <2>1
<1>7. m - 1 \in 0 .. Len(Script) /\ ~ (m <= m - 1)
  <2> HIDE DEF m
  <2> QED BY <1>2, <1>6, Scripted
<1>8. \A p \in P : Cardinality(From(p, P)) <= m - 1 => Leads(m - 1, p)
  <2>1. m - 1 \notin Bad
    <3> HIDE DEF m, Bad
    <3> QED BY <1>1, <1>7
  <2> HIDE DEF m, Leads
  <2> QED BY <1>7, <2>1
<1> HIDE DEF m, Bad
<1>9. ReachedFrom[m][o] = <<o>> \o ReachedFrom[m - 1][next[o]]
  BY <1>2, <1>4, <1>6, Reached
<1>10. After(o, P) = From(o, P) \ {o}
  <2>1. \A p \in P : Position(o) < Position(p) <=> Le(o, p) /\ p # o
    <3> TAKE p \in P
    <3>1. Position(o) = Position(p) => o = p
      BY <1>4, Scripted
    <3> QED BY <1>4, <3>1 DEF Le
  <2> QED BY <2>1 DEF After, From
<1>11. CASE After(o, P) = {}
  <2>1. next[o] = None /\ None \in OpOrNone
    BY <1>11 DEF IsFirst, OpOrNone
  <2>2. ReachedFrom[m - 1][next[o]] = <<>>
    BY <1>7, <2>1, Reached
  <2>3. ReachedFrom[m][o] = <<o>>
    BY <1>4, <1>9, <2>2
  <2>4. Cardinality(From(o, P)) = 1
    <3>1. From(o, P) = {o}
      BY <1>5, <1>10, <1>11
    <3> QED BY <3>1, FS_Singleton
  <2>5. \A p \in P : Le(p, o)
    BY <1>4, <1>11 DEF After, Le
  <2>6. <<o>> \in Seq(Ops) /\ <<o>> # <<>> /\ Len(<<o>>) = 1 /\ <<o>>[1] = o
    BY <1>4
  <2>7. Last(<<o>>) = o
    BY <2>6 DEF Last
  <2>8. IsLast(o, P)
    BY <2>5 DEF IsLast
  <2> QED BY <1>3, <2>3, <2>4, <2>6, <2>7, <2>8
<1>12. CASE After(o, P) # {}
  <2> DEFINE n == next[o]
             r == ReachedFrom[m - 1][n]
  <2>1. n \in After(o, P) /\ \A p \in After(o, P) : Le(n, p)
    BY <1>12 DEF IsFirst
  <2>2. n \in P
    BY <2>1 DEF After
  <2> HIDE DEF n
  <2>3. From(n, P) = From(o, P) \ {o}
    <3>1. \A p \in P : Le(n, p) => Position(o) < Position(p)
      BY <1>4, <2>1, <2>2 DEF After, Le
    <3>2. \A p \in P : Position(o) < Position(p) => Le(n, p)
      BY <2>1 DEF After
    <3> QED BY <1>10, <3>1, <3>2 DEF After, From
  <2>4. Cardinality(From(n, P)) = Cardinality(From(o, P)) - 1
    <3>1. Cardinality(From(o, P) \ {o})
            = IF o \in From(o, P) THEN Cardinality(From(o, P)) - 1
                                  ELSE Cardinality(From(o, P))
      BY <1>5, FS_RemoveElement, Zenon
    <3> QED BY <1>5, <2>3, <3>1
  <2>5. Leads(m - 1, n)
    <3>1. Cardinality(From(n, P)) <= m - 1
      BY <1>2, <1>3, <1>5, <2>4
    <3> HIDE DEF Leads
    <3> QED BY <1>8, <2>2, <3>1
  <2>6. /\ r \in Seq(Ops) /\ r # <<>> /\ Len(r) = Cardinality(From(n, P)) /\ Len(r) \in Nat
        /\ Len(r) # 0
    BY <2>5, QueueEntries
  <2>7. ReachedFrom[m][o] = <<o>> \o r
    BY <1>9 DEF n
  <2> HIDE DEF r
  <2>8. /\ <<o>> \o r \in Seq(Ops) /\ Len(<<o>> \o r) = 1 + Len(r)
        /\ \A i \in 1 .. 1 + Len(r) :
             (<<o>> \o r)[i] = IF i <= 1 THEN <<o>>[i] ELSE r[i - 1]
    <3>1. <<o>> \in Seq(Ops) /\ Len(<<o>>) = 1
      BY <1>4
    <3> QED BY <2>6, <3>1, ConcatProperties
  <2>9. <<o>> \o r # <<>> /\ Last(<<o>> \o r) = Last(r)
    <3>1. 1 + Len(r) \in 1 .. 1 + Len(r) /\ ~ (1 + Len(r) <= 1) /\ (1 + Len(r)) - 1 = Len(r)
      BY <2>6
    <3>2. (<<o>> \o r)[1 + Len(r)] = r[Len(r)]
      BY <2>8, <3>1
    <3>3. Len(<<o>> \o r) # 0
      BY <2>6, <2>8
    <3> QED BY <2>8, <3>2, <3>3, QueueEntries DEF Last
  <2>10. Len(<<o>> \o r) = Cardinality(From(o, P))
    BY <1>5, <2>4, <2>6, <2>8
  <2>11. IsLast(Last(r), P)
    BY <2>5 DEF r
  <2> QED BY <1>3, <2>7, <2>8, <2>9, <2>10, <2>11
<1> QED BY <1>11, <1>12

(* Between two calls and two rounds of the loop the lists are whole.       *)
LEMMA Between_QueuesWellFormed ==
  ASSUME Typed, caller = "callback", Sequential
  PROVE  QueuesWellFormed
<1> SUFFICES ASSUME Between, NEW l \in QueueNames
             PROVE  /\ entries[l] = Len(ReachedFrom[Len(Script)][head[l]])
                    /\ tail[l] = IF ReachedFrom[Len(Script)][head[l]] = <<>> THEN None
                                 ELSE Last(ReachedFrom[Len(Script)][head[l]])
  BY DEF QueuesWellFormed
<1> DEFINE P == Waiting(l, UptoEntries, FALSE)
           c == ReachedFrom[Len(Script)][head[l]]
<1>1. /\ UptoNext = UptoEntries /\ UptoTail = UptoEntries /\ UptoHead = UptoEntries
      /\ ~ OutOfHead /\ ~ OutOfTail /\ ~ OutOfEntries
  BY DEF Between, At, UptoNext, UptoTail, UptoHead, UptoEntries, Upto, BeforeTail,
         BeforeEntries, OutOfHead, OutOfTail, OutOfEntries
<1>2. /\ Waiting(l, UptoHead, OutOfHead) = P /\ Waiting(l, UptoTail, OutOfTail) = P
      /\ Waiting(l, UptoEntries, OutOfEntries) = P /\ Waiting(l, UptoNext, OutOfHead) = P
  BY <1>1 DEF Waiting
<1>3. P \in SUBSET Ops
  BY DEF Waiting
<1> HIDE DEF P
<1>4. /\ IsFirst(head[l], P) /\ IsLast(tail[l], P) /\ entries[l] = Cardinality(P)
      /\ \A o \in P : IsFirst(next[o], After(o, P))
  BY <1>2 DEF Sequential, ListsOK, HeadsOK, TailsOK, EntriesOK, LinksOK
<1>5. next \in [Ops -> OpOrNone] /\ Len(Script) \in Nat /\ Len(Script) \in 0 .. Len(Script)
  BY Scripted DEF Typed
<1>6. CASE P = {}
  <2>1. head[l] = None /\ tail[l] = None /\ entries[l] = 0
    BY <1>4, <1>6, FS_EmptySet DEF IsFirst, IsLast
  <2>2. c = <<>>
    <3>1. None \in OpOrNone
      BY DEF OpOrNone
    <3> QED BY <1>5, <2>1, <3>1, Reached
  <2> QED BY <2>1, <2>2
<1>7. CASE P # {}
  <2>1. head[l] \in P /\ From(head[l], P) = P
    BY <1>4, <1>7 DEF IsFirst, From
  <2>2. Cardinality(P) <= Len(Script)
    BY <1>3, <1>5, Finitely
  <2>3. c \in Seq(Ops) /\ c # <<>> /\ Len(c) = Cardinality(P) /\ IsLast(Last(c), P)
    BY <1>3, <1>4, <1>5, <2>1, <2>2, Chain
  <2>4. Last(c) = tail[l]
    <3>1. /\ Last(c) \in P /\ tail[l] \in P
          /\ Le(Last(c), tail[l]) /\ Le(tail[l], Last(c))
      BY <1>4, <1>7, <2>3 DEF IsLast
    <3> HIDE DEF c
    <3>2. Position(Last(c)) = Position(tail[l])
      BY <1>3, <3>1, Scripted DEF Le
    <3> QED BY <1>3, <3>1, <3>2, Scripted
  <2> QED BY <1>4, <2>3, <2>4
<1> QED BY <1>6, <1>7

-----------------------------------------------------------------------------
(* The theorems.                                                           *)

(* Nothing has been submitted.                                             *)
LEMMA Initially == Init => IInv
<1> SUFFICES ASSUME Init PROVE IInv
  OBVIOUS
<1> USE DEF Init
<1>1. Typed
  BY Scripted DEF Typed, Threads, Labels, MainLabels, LoopLabels, WakeLabels, Pushing,
     QueueNames, OpOrNone, InFlight, OutOfHead, OutOfTail
<1>2. Flagged
  BY Zenon DEF Flagged
<1>3. DOMAIN sent = {} /\ ToSet(sent) = {}
  BY DEF ToSet
<1>4. Ordered /\ SentOrdered
  BY <1>3 DEF Ordered, HeadOrdered, TailOrdered, NextOrdered, SentBefore, PoppedBefore,
     SentOrdered, InFlight, OutOfHead, OutOfTail
<1>5. \A o \in Ops : Position(o) \in 1 .. Len(Script)
  BY Scripted
<1>6. /\ UptoNext = 0 /\ UptoTail = 0 /\ UptoHead = 0 /\ UptoEntries = 0
      /\ ~ OutOfHead /\ ~ OutOfTail /\ ~ OutOfEntries /\ ~ InFlight
  BY DEF UptoNext, UptoTail, UptoHead, UptoEntries, Upto, BeforeTail, BeforeEntries,
         InFlight, OutOfHead, OutOfTail, OutOfEntries
<1>7. \A l \in QueueNames, out \in BOOLEAN : Waiting(l, 0, out) = {}
  BY <1>5 DEF Waiting
<1>8. Sequential
  <2>1. \A l \in QueueNames :
          /\ Waiting(l, UptoHead, OutOfHead) = {} /\ Waiting(l, UptoTail, OutOfTail) = {}
          /\ Waiting(l, UptoEntries, OutOfEntries) = {}
          /\ Waiting(l, UptoNext, OutOfHead) = {}
    BY <1>5, <1>6 DEF Waiting
  <2>2. ListsOK
    BY <2>1, FS_EmptySet
       DEF ListsOK, HeadsOK, TailsOK, EntriesOK, LinksOK, NotYet, IsFirst, IsLast
  <2>3. SentOnce
    BY <1>3, <1>6 DEF SentOnce, IsInjective
  <2>4. ~ Crashed /\ Alone /\ HandlerOK /\ StillSo
    BY DEF Crashed, Alone, HandlerOK, Active, StillSo
  <2> QED BY <2>2, <2>3, <2>4 DEF Sequential
<1> QED BY <1>1, <1>2, <1>4, <1>8 DEF IInv

(* The parts of the handler stay truth values.                             *)
LEMMA FlagsKept ==
  ASSUME Flagged, Next
  PROVE  Flagged'
<1>1. /\ writer_active \in BOOLEAN /\ write_callback \in BOOLEAN /\ watch \in BOOLEAN
      /\ events \in BOOLEAN /\ epoll \in BOOLEAN
  BY Zenon DEF Flagged
<1>2. /\ writer_active' = writer_active \/ writer_active' \in BOOLEAN
      /\ write_callback' = write_callback \/ write_callback' \in BOOLEAN
      /\ watch' = watch \/ watch' \in BOOLEAN
      /\ events' = events \/ events' \in BOOLEAN
      /\ epoll' = epoll \/ epoll' \in BOOLEAN \/ epoll' = events
  <2> USE DEF handler, WatchDestroy
  <2>1. CASE Caller
    <3>1. CASE Wakeup("main")
      BY <3>1, Zenon DEF Wakeup, WakeFlag, WakeEmpty, HandlerDestroy, HandlerCallback,
         HandlerWatch, HandlerEpoll, HandlerEvents, WakeSet
    <3>2. CASE ~ Wakeup("main")
      BY <2>1, <3>2, Zenon DEF Caller, Call, PushCheck, PushLink, PushTail, PushHead,
         PushCount, ReadCount, PushCounted, WriteCount, Returned
    <3> QED BY <3>1, <3>2
  <2>2. CASE Loop
    <3>1. CASE Wakeup("loop")
      BY <3>1, Zenon DEF Wakeup, WakeFlag, WakeEmpty, HandlerDestroy, HandlerCallback,
         HandlerWatch, HandlerEpoll, HandlerEvents, WakeSet
    <3>2. CASE Wait \/ In \/ RspClear \/ Out \/ PopNothing \/ PopEntry \/ PopLast
                 \/ PopTail \/ PopCount \/ PopCounted \/ Write
      BY <3>2, Zenon DEF Wait, In, RspClear, Out, PopNothing, PopEntry, PopLast, PopTail,
         PopCount, ReadCount, PopCounted, WriteCount, Write
    <3>3. CASE RemoveFlag \/ RemoveCallback \/ RemoveWatch \/ RemoveEvents \/ RemoveEpoll
      BY <3>3, Zenon DEF RemoveFlag, RemoveCallback, RemoveWatch, RemoveEvents, RemoveEpoll
    <3> QED BY <2>2, <3>1, <3>2, <3>3, Zenon DEF Loop
  <2>3. CASE PeerAnswers
    BY <2>3, Zenon DEF PeerAnswers
  <2> QED BY <2>1, <2>2, <2>3, Zenon DEF Next
<1> QED BY <1>1, <1>2, Zenon DEF Flagged

(* A step that crashes writes nothing.                                     *)
LEMMA CrashSends ==
  ASSUME Typed, ~ Crashed, Caller \/ Loop, Crashed'
  PROVE  UNCHANGED sent
<1>1. pc \in [Threads -> Labels]
  BY DEF Typed
<1> USE DEF wire
<1>6. CASE Wakeup("main") \/ Wakeup("loop")
  BY <1>6 DEF Wakeup, WakeFlag, WakeEmpty, HandlerDestroy, HandlerCallback,
     HandlerWatch, HandlerEpoll, HandlerEvents, WakeSet
<1>2. CASE Caller /\ ~ Wakeup("main")
  BY <1>2 DEF Caller, Call, PushCheck, PushLink, PushTail, PushHead,
         PushCount, ReadCount, PushCounted, WriteCount, Returned
<1>3. CASE Wait \/ In \/ RspClear \/ Out \/ PopNothing \/ PopEntry \/ PopLast
             \/ PopTail \/ PopCount \/ PopCounted
  BY <1>3 DEF Wait, In, RspClear, Out, PopNothing, PopEntry, PopLast, PopTail,
     PopCount, ReadCount, PopCounted, WriteCount
<1>4. CASE RemoveFlag \/ RemoveCallback \/ RemoveWatch \/ RemoveEvents \/ RemoveEpoll
  BY <1>4 DEF RemoveFlag, RemoveCallback, RemoveWatch, RemoveEvents, RemoveEpoll
<1>5. CASE Write
  BY <1>1, <1>5 DEF Write, Goto, Threads, Crashed
<1> QED BY <1>6, <1>2, <1>3, <1>4, <1>5, Zenon DEF Loop

(* Crashed, neither thread moves.                                          *)
LEMMA CrashIsFinal ==
  ASSUME Typed, Caller \/ Loop
  PROVE  ~ Crashed
<1>1. /\ pc["main"] = "crashed" <=> pc["loop"] = "crashed"
      /\ pc \in [Threads -> Labels]
  BY DEF Typed
<1> USE DEF At, Crashed
<1>2. CASE Wakeup("main") \/ Wakeup("loop")
  BY <1>1, <1>2 DEF Wakeup, WakeFlag, WakeEmpty, HandlerDestroy, HandlerCallback,
     HandlerWatch, HandlerEpoll, HandlerEvents, WakeSet
<1>3. CASE Caller /\ ~ Wakeup("main")
  BY <1>1, <1>3 DEF Caller, Call, PushCheck, PushLink, PushTail, PushHead,
         PushCount, PushCounted, Returned
<1>4. CASE Loop /\ ~ Wakeup("loop")
  BY <1>1, <1>4 DEF Loop, Wait, In, RspClear, Out, PopNothing, PopEntry, PopLast, PopTail,
     PopCount, PopCounted, Write,
     RemoveFlag, RemoveCallback, RemoveWatch, RemoveEvents, RemoveEpoll
<1> QED BY <1>2, <1>3, <1>4

(* The answer of the peer changes nothing of the lists.                    *)
LEMMA AnswerKeeps ==
  ASSUME IInv, PeerAnswers \/ UNCHANGED vars
  PROVE  IInv'
<1>1. /\ UNCHANGED <<caller, pc, k, locals, lists, pending_req, writer_active, handler,
                     sent, answered>>
      /\ air' = air \/ (air = "asked" /\ air' = "answered")
  BY DEF PeerAnswers, vars, wire
<1> USE <1>1 DEF locals, lists, handler
<1>2. Typed'
  BY DEF IInv, Typed, InFlight, OutOfHead, OutOfTail
<1>3. Flagged'
  BY Zenon DEF IInv, Flagged
<1>4. SentOrdered' /\ (~ Crashed' => Ordered')
  BY DEF IInv, Ordered, HeadOrdered, TailOrdered, NextOrdered, SentBefore, PoppedBefore,
         SentOrdered, Crashed, InFlight, OutOfHead, OutOfTail, UptoTail, Upto, Le
<1>5. caller' = "callback" => Sequential'
  <2> SUFFICES ASSUME caller = "callback" PROVE Sequential'
    OBVIOUS
  <2>1. Typed /\ Sequential
    BY DEF IInv
  <2>2. ListsOK' /\ SentOnce'
    BY <2>1, AllKept DEF Sequential, UptoNext, UptoTail, UptoHead, UptoEntries, Upto,
       InFlight, OutOfHead, OutOfTail, OutOfEntries
  <2>3. StillSo' /\ ~ Crashed' /\ Alone'
    BY <2>1 DEF Sequential, StillSo, Crashed, Alone, q, op
  <2>4. HandlerOK'
    BY <2>1, Zenon DEF Sequential, HandlerOK, Active
  <2> QED BY <2>2, <2>3, <2>4 DEF Sequential
<1> QED BY <1>2, <1>3, <1>4, <1>5 DEF IInv

(* Every step keeps the invariant.                                         *)
LEMMA Inductive == IInv /\ [Next]_vars => IInv'
<1> SUFFICES ASSUME IInv, [Next]_vars PROVE IInv'
  OBVIOUS
<1>1. CASE PeerAnswers \/ UNCHANGED vars
  BY <1>1, AnswerKeeps
<1>2. CASE Caller \/ Loop
  <2>1. Typed /\ Flagged /\ SentOrdered /\ ~ Crashed /\ Ordered
    BY <1>2, CrashIsFinal DEF IInv
  <2>2. Typed'
    BY <1>2, <2>1, CallerTyped, LoopTyped
  <2>3. Flagged'
    BY <1>2, <2>1, FlagsKept DEF Next
  <2>4. ~ Crashed' => Ordered'
    BY <1>2, <2>1, <2>2, CallerOrdered, LoopOrdered
  <2>5. SentOrdered'
    <3>1. CASE Crashed'
      <4>1. UNCHANGED sent
        BY <1>2, <2>1, <3>1, CrashSends
      <4> QED BY <2>1, <4>1 DEF SentOrdered, Le
    <3>2. CASE ~ Crashed'
      BY <2>4, <3>2 DEF Ordered
    <3> QED BY <3>1, <3>2
  <2>6. caller' = "callback" => Sequential'
    <3>1. caller' = caller
      BY <1>2 DEF Caller, Loop, Call, PushCheck, PushLink, PushTail, PushHead, PushCount,
         ReadCount, PushCounted, WriteCount, Returned, Wakeup, WakeFlag, WakeEmpty,
         HandlerDestroy, HandlerCallback, HandlerWatch, HandlerEpoll, HandlerEvents,
         WakeSet, Wait, In, RspClear, Out, PopNothing, PopEntry, PopLast, PopTail,
         PopCount, PopCounted, Write, RemoveFlag, RemoveCallback, RemoveWatch,
         RemoveEvents, RemoveEpoll
    <3> SUFFICES ASSUME caller = "callback" PROVE Sequential'
      BY <3>1
    <3>2. Sequential
      BY DEF IInv
    <3>3. ~ Crashed' /\ Alone' /\ HandlerOK'
      BY <1>2, <2>1, <3>2, CallerHandler, LoopHandler
    <3>4. ListsOK' /\ SentOnce' /\ StillSo'
      BY <1>2, <2>1, <3>2, CallerLists, LoopLists
    <3> QED BY <3>3, <3>4 DEF Sequential
  <2> QED BY <2>2, <2>3, <2>4, <2>5, <2>6 DEF IInv
<1> QED BY <1>1, <1>2 DEF Next

(* In every reachable state the invariant holds.                           *)
LEMMA Always == Spec => []IInv
<1> QED BY Initially, Inductive, PTL DEF Spec

(* Inv: each piece of the shared data has its type, and between two calls  *)
(* made from callbacks writer_active says what the handler of the io does  *)
(* and each queue is a list, from head to tail, of as many entries as it   *)
(* counts (queue_push_tail, queue_pop_head, wakeup_writer).                *)
THEOREM Correct == Spec => []Inv
<1>1. IInv => Inv
  <2> SUFFICES ASSUME IInv PROVE Inv
    OBVIOUS
  <2>1. Typed /\ Flagged
    BY DEF IInv
  <2>2. entries \in [QueueNames -> IF caller = "callback" THEN 0 .. Len(Script) ELSE Int]
    <3>1. CASE caller = "callback"
      <4>1. \A l \in QueueNames : entries[l] \in 0 .. Len(Script)
        <5> TAKE l \in QueueNames
        <5>1. Waiting(l, UptoEntries, OutOfEntries) \in SUBSET Ops
          BY DEF Waiting
        <5>2. entries[l] = Cardinality(Waiting(l, UptoEntries, OutOfEntries))
          BY <3>1 DEF IInv, Sequential, ListsOK, EntriesOK
        <5> QED BY <5>1, <5>2, Finitely
      <4> QED BY <2>1, <3>1, <4>1 DEF Typed
    <3>2. CASE caller # "callback"
      BY <2>1, <3>2 DEF Typed
    <3> QED BY <3>1, <3>2
  <2>3. TypeOK
    BY <2>1, <2>2 DEF TypeOK, Typed, Flagged
  <2>4. WriterStateAgrees
    <3> SUFFICES ASSUME Between PROVE {write_callback, watch, events, epoll} = {writer_active}
      BY DEF WriterStateAgrees
    <3>1. /\ writer_active \in BOOLEAN /\ write_callback \in BOOLEAN /\ watch \in BOOLEAN
          /\ events \in BOOLEAN /\ epoll \in BOOLEAN
      BY <2>1, Zenon DEF Flagged
    <3>2. \/ writer_active /\ write_callback /\ watch /\ events /\ epoll
          \/ ~ writer_active /\ ~ write_callback /\ ~ watch /\ ~ events /\ ~ epoll
      <4>1. HandlerOK /\ Active \in {"ready", "returned"}
        BY DEF IInv, Sequential, Between, At, Active
      <4> QED BY <4>1 DEF HandlerOK
    <3>3. /\ write_callback = writer_active /\ watch = writer_active
          /\ events = writer_active /\ epoll = writer_active
      BY <3>1, <3>2, Zenon
    <3> QED BY <3>3, Zenon
  <2>5. QueuesWellFormed
    BY <2>1, Between_QueuesWellFormed DEF IInv, QueuesWellFormed, Between
  <2> QED BY <2>3, <2>4, <2>5 DEF Inv
<1> QED BY <1>1, Always, PTL

(* SentInOrder: whatever the two threads do to the lists, an operation     *)
(* never reaches the socket after a later one of its queue, and none twice *)
(* if every call is made from a callback (bt_att_send, can_write_data).    *)
THEOREM InOrder == Spec => []SentInOrder
<1>1. IInv => SentInOrder
  BY DEF IInv, SentInOrder, SentOrdered, Le, Sequential, SentOnce
<1> QED BY <1>1, Always, PTL

=============================================================================
