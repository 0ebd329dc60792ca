----------------------------- MODULE AttThreads -----------------------------
(***************************************************************************)
(* bt_att_send on one thread, the main loop on another, and no lock.       *)
(*                                                                         *)
(* The teleop's main thread calls LEClient::write_value, which reaches     *)
(* bt_att_send directly; the thread LEClient starts runs mainloop_run and  *)
(* with it the writer and the response handler.  They share the linked     *)
(* lists of the queues, writer_active, the write handler of the io and its *)
(* epoll registration.  A step here is one statement that touches shared   *)
(* data, taken in program order: one outcome the build can produce of what *)
(* C leaves undefined.                                                     *)
(*                                                                         *)
(* Queue entries stand for the ops they carry and freed memory is not      *)
(* reused; indications, failing writes and disconnection are in            *)
(* AttTransport.                                                           *)
(***************************************************************************)
EXTENDS Integers, Sequences, SequencesExt

CONSTANTS
  Script,     (* the operations the caller submits, in order               *)
  Requests,   (* those that are write requests; the rest are commands      *)
  Stop,       (* the command that must reach the vehicle                   *)
  Callers,    (* the kinds of caller considered, see caller                *)
  None        (* NULL                                                      *)

Ops == ToSet(Script)
OpOrNone == Ops \union {None}
QueueNames == {"write", "req"}
QueueOf(o) == IF o \in Requests THEN "req" ELSE "write"

ASSUME ScriptOK == Script \in Seq(Ops) /\ IsInjective(Script) /\ None \notin Ops
                     /\ Callers \subseteq {"callback", "thread"}

Threads == {"main", "loop"}

VARIABLES
  caller,         (* "callback": every call is made from the main loop, as *)
                  (* in btgattclient; "thread": from a thread of its own,  *)
                  (* as in the teleop                                      *)
  pc,             (* where each thread is                                  *)
  k,              (* main: the entry of Script being submitted             *)
  count,          (* per thread: queue->entries as just read               *)
  ready,          (* loop: the events epoll_wait returned                  *)
  popq, popped,   (* loop: the queue it pops from, the entry it took       *)
  head, tail,     (* per queue, its ends                                   *)
  next,           (* per entry, entry->next                                *)
  entries,        (* per queue; unsigned, a negative n is 2^32 + n         *)
  pending_req,
  writer_active,
  write_callback, (* io->write_callback is set                             *)
  watch,          (* io->write_destroy and io->write_data are set          *)
  events,         (* io->events has EPOLLOUT                               *)
  epoll,          (* the fd is registered for EPOLLOUT                     *)
  air,            (* the request on the wire: "none", "asked", "answered"  *)
  sent,           (* history: operations written to the socket             *)
  answered        (* requests whose callback has run (write_cb's promise)  *)

lists   == <<head, tail, next, entries>>
handler == <<write_callback, watch, events, epoll>>
locals  == <<count, ready, popq, popped>>
wire    == <<air, sent, answered>>
vars == <<caller, pc, k, locals, lists, pending_req, writer_active, handler, wire>>

MainLabels == {"ready", "push_check", "push_link", "push_tail", "push_head",
               "push_count", "push_counted", "returned"}
LoopLabels == {"wait", "in", "rsp_clear", "out", "pop", "pop_last", "pop_tail",
               "pop_count", "pop_counted", "write", "rm_flag", "rm_callback",
               "rm_watch", "rm_events", "rm_epoll"}
WakeLabels == {"w_flag", "w_empty", "h_destroy", "h_callback", "h_watch",
               "h_epoll", "h_events", "w_set"}

TypeOK ==
  /\ caller \in Callers
  /\ pc["main"] \in MainLabels \union WakeLabels \union {"crashed"}
  /\ pc["loop"] \in LoopLabels \union WakeLabels \union {"crashed"}
  /\ k \in 1 .. Len(Script) + 1
  /\ count \in [Threads -> Int]
  /\ ready \subseteq {"IN", "OUT"}
  /\ popq \in QueueNames /\ popped \in OpOrNone
  /\ head \in [QueueNames -> OpOrNone] /\ tail \in [QueueNames -> OpOrNone]
  /\ next \in [Ops -> OpOrNone]
  /\ entries \in [QueueNames -> IF caller = "callback" THEN 0 .. Len(Script)
                                                       ELSE Int]
  /\ pending_req \in OpOrNone
  /\ {writer_active, write_callback, watch, events, epoll} \subseteq BOOLEAN
  /\ air \in {"none", "asked", "answered"}
  /\ sent \in Seq(Ops) /\ answered \subseteq Ops

Init ==
  /\ caller \in Callers
  /\ pc = [main |-> "ready", loop |-> "wait"]
  /\ k = 1
  /\ count = [t \in Threads |-> 0]
  /\ ready = {}
  /\ popq = "write" /\ popped = None
  /\ head = [q \in QueueNames |-> None] /\ tail = [q \in QueueNames |-> None]
  /\ next = [o \in Ops |-> None]
  /\ entries = [q \in QueueNames |-> 0]
  /\ pending_req = None
  /\ writer_active = FALSE
  /\ write_callback = FALSE /\ watch = FALSE /\ events = FALSE /\ epoll = FALSE
  /\ air = "none" /\ sent = <<>> /\ answered = {}

At(t, label) == pc[t] = label
Goto(t, label) == pc' = [pc EXCEPT ![t] = label]
Crash == pc' = [t \in Threads |-> "crashed"]
Crashed == pc["main"] = "crashed"

-----------------------------------------------------------------------------
(* bt_att_send.  With one thread a call is made by a callback, so the loop *)
(* is between two others; a caller that blocks needs a thread of its own.  *)

op == Script[k]
q == QueueOf(op)

Call ==
  /\ At("main", "ready") /\ k <= Len(Script)
  /\ caller = "callback" => At("loop", "wait")
  /\ Goto("main", "push_check")
  /\ UNCHANGED <<caller, k, locals, lists, pending_req, writer_active,
                 handler, wire>>

(* queue_push_tail: if (queue->tail) ...                                   *)
PushCheck ==
  /\ At("main", "push_check")
  /\ Goto("main", IF tail[q] = None THEN "push_tail" ELSE "push_link")
  /\ UNCHANGED <<caller, k, locals, lists, pending_req, writer_active,
                 handler, wire>>

(* Mutant of PushLink: the entry goes before the head, as push_head does.   *)
PushLink_AtFront ==
  /\ At("main", "push_link")
  /\ next' = [next EXCEPT ![op] = head[q]]
  /\ head' = [head EXCEPT ![q] = op]
  /\ Goto("main", "push_count")
  /\ UNCHANGED <<caller, k, locals, tail, entries, pending_req, writer_active,
                 handler, wire>>

(* ... queue->tail->next = entry.  If the loop has emptied the list since, *)
(* tail is read again as NULL, or the build kept the freed entry.          *)
PushLink ==
  /\ At("main", "push_link")
  /\ \/ /\ tail[q] # None
        /\ next' = [next EXCEPT ![tail[q]] = op]
        /\ Goto("main", "push_tail")
     \/ /\ tail[q] = None
        /\ Crash \/ Goto("main", "push_tail")
        /\ UNCHANGED next
  /\ UNCHANGED <<caller, k, locals, head, tail, entries, pending_req,
                 writer_active, handler, wire>>

PushTail ==
  /\ At("main", "push_tail")
  /\ tail' = [tail EXCEPT ![q] = op]
  /\ Goto("main", "push_head")
  /\ UNCHANGED <<caller, k, locals, head, next, entries, pending_req,
                 writer_active, handler, wire>>

PushHead ==
  /\ At("main", "push_head")
  /\ head' = [head EXCEPT ![q] = IF @ = None THEN op ELSE @]
  /\ Goto("main", "push_count")
  /\ UNCHANGED <<caller, k, locals, tail, next, entries, pending_req,
                 writer_active, handler, wire>>

(* entries++ and entries-- are a read and a write.                         *)
ReadCount(t, list) ==
  /\ count' = [count EXCEPT ![t] = entries[list]]
  /\ UNCHANGED <<caller, k, ready, popq, popped, lists, pending_req,
                 writer_active, handler, wire>>
WriteCount(list, n) ==
  /\ entries' = [entries EXCEPT ![list] = n]
  /\ UNCHANGED <<caller, k, locals, head, tail, next, pending_req,
                 writer_active, handler, wire>>

PushCount == At("main", "push_count") /\ Goto("main", "push_counted")
               /\ ReadCount("main", q)
PushCounted == At("main", "push_counted") /\ Goto("main", "w_flag")
                 /\ WriteCount(q, count["main"] + 1)

(* write_value returns; for a request, once its future has a value.        *)
Returned ==
  /\ At("main", "returned")
  /\ op \in Requests /\ caller = "thread" => op \in answered
  /\ k' = k + 1
  /\ Goto("main", "ready")
  /\ UNCHANGED <<caller, locals, lists, pending_req, writer_active, handler,
                 wire>>

-----------------------------------------------------------------------------
(* wakeup_writer and the io_set_write_handler it calls, on thread t.       *)

BackFrom(t) == IF t = "main" THEN "returned" ELSE "out"

Empty(list) == entries[list] = 0

WakeFlag(t) ==
  /\ At(t, "w_flag")
  /\ Goto(t, IF writer_active THEN BackFrom(t) ELSE "w_empty")
  /\ UNCHANGED <<caller, k, locals, lists, pending_req, writer_active,
                 handler, wire>>

WakeEmpty(t) ==
  /\ At(t, "w_empty")
  /\ Goto(t, IF Empty("write") /\ (pending_req # None \/ Empty("req"))
             THEN BackFrom(t) ELSE "h_destroy")
  /\ UNCHANGED <<caller, k, locals, lists, pending_req, writer_active,
                 handler, wire>>

(* Mutant of WatchDestroy: write_watch_destroy leaves the flag as it is.    *)
WatchDestroy_FlagKept == UNCHANGED writer_active

(* A write_destroy still set is write_watch_destroy: it clears the flag.   *)
WatchDestroy == writer_active' = (writer_active /\ ~ watch)

HandlerDestroy(t) ==
  /\ At(t, "h_destroy")
  /\ WatchDestroy
  /\ Goto(t, "h_callback")
  /\ UNCHANGED <<caller, k, locals, lists, pending_req, handler, wire>>

HandlerCallback(t) ==
  /\ At(t, "h_callback")
  /\ write_callback' = TRUE
  /\ Goto(t, "h_watch")
  /\ UNCHANGED <<caller, k, locals, lists, pending_req, writer_active, watch,
                 events, epoll, wire>>

(* write_destroy and write_data, then: if (events == io->events) return.   *)
HandlerWatch(t) ==
  /\ At(t, "h_watch")
  /\ watch' = TRUE
  /\ Goto(t, IF events THEN "w_set" ELSE "h_epoll")
  /\ UNCHANGED <<caller, k, locals, lists, pending_req, writer_active,
                 write_callback, events, epoll, wire>>

HandlerEpoll(t) ==
  /\ At(t, "h_epoll")
  /\ epoll' = TRUE
  /\ Goto(t, "h_events")
  /\ UNCHANGED <<caller, k, locals, lists, pending_req, writer_active,
                 write_callback, watch, events, wire>>

HandlerEvents(t) ==
  /\ At(t, "h_events")
  /\ events' = TRUE
  /\ Goto(t, "w_set")
  /\ UNCHANGED <<caller, k, locals, lists, pending_req, writer_active,
                 write_callback, watch, epoll, wire>>

WakeSet(t) ==
  /\ At(t, "w_set")
  /\ writer_active' = TRUE
  /\ Goto(t, BackFrom(t))
  /\ UNCHANGED <<caller, k, locals, lists, pending_req, handler, wire>>

Wakeup(t) ==
  \/ WakeFlag(t) \/ WakeEmpty(t) \/ HandlerDestroy(t) \/ HandlerCallback(t)
  \/ HandlerWatch(t) \/ HandlerEpoll(t) \/ HandlerEvents(t) \/ WakeSet(t)

-----------------------------------------------------------------------------
(* The main loop.                                                          *)

(* epoll_wait: an answer to read, or room to write if asked for.           *)
Wait ==
  /\ At("loop", "wait")
  /\ caller = "callback" => pc["main"] \in {"ready", "returned"}
  /\ ready' = {e \in {"IN", "OUT"} : (e = "IN" /\ air = "answered")
                                       \/ (e = "OUT" /\ epoll)}
  /\ ready' # {}
  /\ Goto("loop", "in")
  /\ UNCHANGED <<caller, k, count, popq, popped, lists, pending_req,
                 writer_active, handler, wire>>

(* io_callback, EPOLLIN: handle_rsp runs the callback of the pending       *)
(* request, which gives the promise its value.                             *)
In ==
  /\ At("loop", "in")
  /\ IF "IN" \in ready
     THEN /\ answered' = answered \union {pending_req}
          /\ air' = "none"
          /\ Goto("loop", "rsp_clear")
     ELSE Goto("loop", "out") /\ UNCHANGED <<answered, air>>
  /\ UNCHANGED <<caller, k, locals, lists, pending_req, writer_active,
                 handler, sent>>

(* Mutant of RspClear: handle_rsp forgets wakeup_writer.                    *)
RspClear_NoWakeup ==
  /\ At("loop", "rsp_clear")
  /\ pending_req' = None
  /\ Goto("loop", "out")
  /\ UNCHANGED <<caller, k, locals, lists, writer_active, handler, wire>>

RspClear ==
  /\ At("loop", "rsp_clear")
  /\ pending_req' = None
  /\ Goto("loop", "w_flag")
  /\ UNCHANGED <<caller, k, locals, lists, writer_active, handler, wire>>

(* io_callback, EPOLLOUT: can_write_data runs on write_data.               *)
Out ==
  /\ At("loop", "out")
  /\ IF "OUT" \in ready /\ write_callback
     THEN IF watch THEN Goto("loop", "pop") /\ popq' = "write"
                   ELSE Crash /\ UNCHANGED popq
     ELSE Goto("loop", "wait") /\ UNCHANGED popq
  /\ UNCHANGED <<caller, k, count, ready, popped, lists, pending_req,
                 writer_active, handler, wire>>

(* pick_next_send_op, pop_head of an empty queue: on to the request queue, *)
(* or nothing to send and the handler is removed.                          *)
PopNothing ==
  /\ At("loop", "pop")
  /\ head[popq] = None
  /\ IF popq = "write" /\ pending_req = None
     THEN popq' = "req" /\ UNCHANGED pc
     ELSE Goto("loop", "rm_flag") /\ UNCHANGED popq
  /\ UNCHANGED <<caller, k, count, ready, popped, lists, pending_req,
                 writer_active, handler, wire>>

(* pop_head: whether the entry is the last one is decided here ...         *)
PopEntry ==
  /\ At("loop", "pop")
  /\ head[popq] # None
  /\ popped' = head[popq]
  /\ IF next[head[popq]] = None
     THEN Goto("loop", "pop_last") /\ UNCHANGED head
     ELSE /\ head' = [head EXCEPT ![popq] = next[@]]
          /\ Goto("loop", "pop_count")
  /\ UNCHANGED <<caller, k, count, ready, popq, tail, next, entries,
                 pending_req, writer_active, handler, wire>>

(* ... and head and tail are cleared here.                                 *)
PopLast ==
  /\ At("loop", "pop_last")
  /\ head' = [head EXCEPT ![popq] = None]
  /\ Goto("loop", "pop_tail")
  /\ UNCHANGED <<caller, k, locals, tail, next, entries, pending_req,
                 writer_active, handler, wire>>

PopTail ==
  /\ At("loop", "pop_tail")
  /\ tail' = [tail EXCEPT ![popq] = None]
  /\ Goto("loop", "pop_count")
  /\ UNCHANGED <<caller, k, locals, head, next, entries, pending_req,
                 writer_active, handler, wire>>

PopCount == At("loop", "pop_count") /\ Goto("loop", "pop_counted")
              /\ ReadCount("loop", popq)
PopCounted == At("loop", "pop_counted") /\ Goto("loop", "write")
                /\ WriteCount(popq, count["loop"] - 1)

(* io_send; a request is then pending.  can_write_data asks to be kept.    *)
Write ==
  /\ At("loop", "write")
  /\ sent' = Append(sent, popped)
  /\ IF popped \in Requests THEN pending_req' = popped /\ air' = "asked"
                            ELSE UNCHANGED <<pending_req, air>>
  /\ Goto("loop", "wait")
  /\ UNCHANGED <<caller, k, locals, lists, writer_active, handler, answered>>

(* can_write_data returned false: io_callback takes the handler off.       *)
RemoveFlag ==
  /\ At("loop", "rm_flag")
  /\ WatchDestroy
  /\ Goto("loop", "rm_callback")
  /\ UNCHANGED <<caller, k, locals, lists, pending_req, handler, wire>>

RemoveCallback ==
  /\ At("loop", "rm_callback")
  /\ write_callback' = FALSE
  /\ Goto("loop", "rm_watch")
  /\ UNCHANGED <<caller, k, locals, lists, pending_req, writer_active, watch,
                 events, epoll, wire>>

RemoveWatch ==
  /\ At("loop", "rm_watch")
  /\ watch' = FALSE
  /\ Goto("loop", "rm_events")
  /\ UNCHANGED <<caller, k, locals, lists, pending_req, writer_active,
                 write_callback, events, epoll, wire>>

RemoveEvents ==
  /\ At("loop", "rm_events")
  /\ events' = FALSE
  /\ Goto("loop", "rm_epoll")
  /\ UNCHANGED <<caller, k, locals, lists, pending_req, writer_active,
                 write_callback, watch, epoll, wire>>

(* mainloop_modify_fd(io->fd, io->events)                                  *)
RemoveEpoll ==
  /\ At("loop", "rm_epoll")
  /\ epoll' = events
  /\ Goto("loop", "wait")
  /\ UNCHANGED <<caller, k, locals, lists, pending_req, writer_active,
                 write_callback, watch, events, wire>>

PeerAnswers ==
  /\ air = "asked"
  /\ air' = "answered"
  /\ UNCHANGED <<caller, pc, k, locals, lists, pending_req, writer_active,
                 handler, sent, answered>>

-----------------------------------------------------------------------------
Caller ==
  \/ Call \/ PushCheck \/ PushLink \/ PushTail \/ PushHead \/ PushCount
  \/ PushCounted \/ Wakeup("main") \/ Returned

Loop ==
  \/ Wait \/ In \/ RspClear \/ Wakeup("loop") \/ Out
  \/ PopNothing \/ PopEntry \/ PopLast \/ PopTail \/ PopCount \/ PopCounted
  \/ Write
  \/ RemoveFlag \/ RemoveCallback \/ RemoveWatch \/ RemoveEvents \/ RemoveEpoll

Next == Caller \/ Loop \/ PeerAnswers

Spec == Init /\ [][Next]_vars

(* The scheduler runs both threads, and the peer answers.                  *)
FairSpec == Spec /\ WF_vars(Caller) /\ WF_vars(Loop) /\ WF_vars(PeerAnswers)

-----------------------------------------------------------------------------
(* Properties.                                                             *)

Position(o) == CHOOSE i \in DOMAIN Script : Script[i] = o

(* Between two calls and two rounds of the loop, writer_active then says   *)
(* what the io does: the handler is set, its destroy is set, EPOLLOUT is   *)
(* asked for and registered, all or none.                                  *)
Between == /\ caller = "callback"
           /\ At("loop", "wait") /\ pc["main"] \in {"ready", "returned"}
WriterStateAgrees ==
  Between =>
    {write_callback, watch, events, epoll} = {writer_active}

(* ... and each queue is a list of as many entries as it counts, ending in *)
(* its tail.                                                               *)
ReachedFrom[n \in 0 .. Len(Script)] ==
  [o \in OpOrNone |-> IF n = 0 \/ o = None THEN <<>>
                      ELSE <<o>> \o ReachedFrom[n - 1][next[o]]]
QueuesWellFormed ==
  Between =>
    \A list \in QueueNames :
      LET chain == ReachedFrom[Len(Script)][head[list]] IN
        /\ entries[list] = Len(chain)
        /\ tail[list] = IF chain = <<>> THEN None ELSE Last(chain)

Inv == TypeOK /\ WriterStateAgrees /\ QueuesWellFormed

(* What reaches the socket of one queue is in the order bt_att_send got    *)
(* it, whatever the two threads do to the lists: they lose operations, or  *)
(* send a freed one again, and still never let a later one overtake.  If   *)
(* all calls come from callbacks none is written twice.                    *)
SentInOrder ==
  /\ \A i, j \in DOMAIN sent :
       i < j /\ QueueOf(sent[i]) = QueueOf(sent[j])
         => Position(sent[i]) <= Position(sent[j])
  /\ caller = "callback" => IsInjective(sent)

(* Every operation handed to bt_att_send from a callback is written.       *)
EverythingSent ==
  \A i \in DOMAIN Script :
    caller = "callback" /\ k >= i /\ At("main", "returned")
      ~> Script[i] \in ToSet(sent)

(* "When exiting, make sure to stop the miniPRO": once drive(0, 0) has     *)
(* called bt_att_send, the command is written, or the process has crashed. *)
StopIsSent == k = Position(Stop) /\ ~ At("main", "ready")
                ~> Stop \in ToSet(sent) \/ Crashed

=============================================================================
