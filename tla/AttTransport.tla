---------------------------- MODULE AttTransport ----------------------------
(***************************************************************************)
(* The ATT bearer of lib/bluez/att.c: the three send queues, the pending   *)
(* request and indication, the writer that drains the queues, the          *)
(* dispatch of received PDUs, cancellation, timeouts and disconnection.    *)
(*                                                                         *)
(* Every entry point of att.c runs to completion here, as it does when all *)
(* callers are callbacks of one main loop; AttThreads drops that           *)
(* assumption.  A handler that calls back into the upper layer is two      *)
(* steps, and between them every API call is possible: callbacks are       *)
(* reentrant.                                                              *)
(***************************************************************************)
EXTENDS Naturals, FiniteSets, Sequences, SequencesExt

CONSTANTS
  Ops,          (* the operations ever submitted; an op stands for its id  *)
  Type,         (* the att_op_type of each operation's opcode              *)
  None,         (* no operation: a NULL att_send_op pointer                *)
  InitSecurity, (* level the socket is opened with (LEClient's sec)        *)
  ApiLevels,    (* levels the upper layer passes to bt_att_set_security    *)
  TimersRun,    (* does anything iterate the glib context of timeout-glib? *)
  PeerConforms, (* does the peer keep to the ATT protocol?                 *)
  MaxInbox      (* bound: PDUs in flight towards us that nobody asked for  *)

(* enum att_op_type; UNKNOWN cannot be sent.                               *)
OpTypes == {"REQ", "RSP", "CMD", "IND", "NOT", "CONF"}

(* Security levels: 0 AUTO, 1 LOW, 2 MEDIUM, 3 HIGH.                       *)
AUTO == 0
Levels == 0 .. 3

ASSUME ConstantsOK ==
  /\ Type \in [Ops -> OpTypes]
  /\ None \notin Ops
  /\ InitSecurity \in Levels
  /\ ApiLevels \subseteq Levels
  /\ TimersRun \in BOOLEAN
  /\ PeerConforms \in BOOLEAN
  /\ MaxInbox \in Nat

OpOrNone == Ops \union {None}

(* What the bearer reads; "to" is the operation the peer meant to answer.  *)
(* A response whose opcode does not match the pending request ends it all  *)
(* the same (with ERROR_RSP for its callback), so opcodes are left out:    *)
(* whether an answer reaches the operation it was meant for is a property. *)
PDU == [ kind  : {"RSP", "ERR", "CONF", "BADCONF", "REQ", "OTHER"},
         ecode : {"encryption", "authentication", "other"},
         to    : OpOrNone ]

VARIABLES
  io,            (* "up", "shut" (shut down, HUP not seen yet), "gone"     *)
                 (* (att->io is NULL), "freed" (bt_att_free has run)       *)
  write_queue, req_queue, ind_queue,
  pending_req, pending_ind,
  writer_active,
  in_req,
  security,
  busy,          (* the handler inside an upper-layer callback, its op     *)
  used,          (* history: operations bt_att_send accepted               *)
  live,          (* operations allocated and not yet freed                 *)
  armed,         (* operations whose callback and destroy are not NULLed   *)
  called,        (* history: how often the callback of an op has run       *)
  released,      (* history: how often the destroy of an op has run        *)
  air,           (* requests and indications the peer has yet to answer    *)
  peer_waits,    (* the peer has a request of its own outstanding          *)
  inbox          (* PDUs on their way to us, in order                      *)

queues   == <<write_queue, req_queue, ind_queue>>
pending  == <<pending_req, pending_ind>>
history  == <<used, called>>
memory   == <<live, armed, released>>
peer     == <<air, peer_waits, inbox>>
vars == <<io, queues, pending, writer_active, in_req, security, busy,
          history, memory, peer>>

Idle == [h |-> "idle", op |-> None]

TypeOK ==
  /\ io \in {"up", "shut", "gone", "freed"}
  /\ write_queue \in Seq(Ops)
  /\ req_queue \in Seq(Ops)
  /\ ind_queue \in Seq(Ops)
  /\ pending_req \in OpOrNone
  /\ pending_ind \in OpOrNone
  /\ writer_active \in BOOLEAN
  /\ in_req \in BOOLEAN
  /\ security \in Levels
  /\ busy \in [h : {"idle", "rsp", "conf", "wfail", "notify"}, op : OpOrNone]
  /\ used \subseteq Ops
  /\ live \subseteq Ops
  /\ armed \subseteq Ops
  /\ called \in [Ops -> Nat]
  /\ released \in [Ops -> Nat]
  /\ air \subseteq Ops
  /\ peer_waits \in BOOLEAN
  /\ inbox \in Seq(PDU)

Init ==
  /\ io = "up"
  /\ write_queue = <<>>
  /\ req_queue = <<>>
  /\ ind_queue = <<>>
  /\ pending_req = None
  /\ pending_ind = None
  /\ writer_active = FALSE
  /\ in_req = FALSE
  /\ security = InitSecurity
  /\ busy = Idle
  /\ used = {}
  /\ live = {}
  /\ armed = {}
  /\ called = [o \in Ops |-> 0]
  /\ released = [o \in Ops |-> 0]
  /\ air = {}
  /\ peer_waits = FALSE
  /\ inbox = <<>>

-----------------------------------------------------------------------------
(* Helpers.                                                                *)

Open == io \in {"up", "shut"}

(* What wakeup_writer and pick_next_send_op both look for.                 *)
Sendable ==
  \/ write_queue # <<>>
  \/ pending_req = None /\ req_queue # <<>>
  \/ pending_ind = None /\ ind_queue # <<>>

(* Mutant of WakeupWriter: forgets the indication queue.                    *)
WakeupWriter_NoIndications ==
  writer_active' = \/ writer_active
                   \/ /\ Open
                      /\ \/ write_queue' # <<>>
                         \/ pending_req' = None /\ req_queue' # <<>>

WakeupWriter == writer_active' = (writer_active \/ (Open /\ Sendable'))

(* destroy_att_send_op on every op of S: run destroy where it is still     *)
(* set, free the op.                                                       *)
Destroy(S) ==
  /\ released' = [o \in Ops |-> IF o \in S \intersect armed
                                THEN released[o] + 1 ELSE released[o]]
  /\ armed' = armed \ S
  /\ live' = live \ S

Pending == {pending_req, pending_ind} \ {None}
Queued == ToSet(write_queue) \union ToSet(req_queue) \union ToSet(ind_queue)

(* Run the callback of op, if it still has one, inside handler h.          *)
Invoke(op, h) ==
  /\ busy' = [h |-> h, op |-> op]
  /\ called' = [called EXCEPT ![op] = @ + 1]
  /\ UNCHANGED memory

(* Mutant of HasCallback: a cancelled op's callback is called all the same. *)
HasCallback_Unchecked(o) == Type[o] \in {"REQ", "IND"}

HasCallback(o) == o \in armed /\ Type[o] \in {"REQ", "IND"}

-----------------------------------------------------------------------------
(* API calls.  They may come from a callback (busy) or from elsewhere.     *)

Enqueue(o) ==
  /\ write_queue' = IF Type[o] \in {"REQ", "IND"} THEN write_queue
                    ELSE Append(write_queue, o)
  /\ req_queue' = IF Type[o] = "REQ" THEN Append(req_queue, o) ELSE req_queue
  /\ ind_queue' = IF Type[o] = "IND" THEN Append(ind_queue, o) ELSE ind_queue

NewOp(o) ==
  /\ o \notin used
  /\ used' = used \union {o}
  /\ live' = live \union {o}
  /\ armed' = armed \union {o}

NoResponseQueued == \A o \in Queued : Type[o] # "RSP"

(* bt_att_send of a well-formed PDU; a caller answers a request once.      *)
Send(o) ==
  /\ Open
  /\ Type[o] = "RSP" => in_req /\ NoResponseQueued
  /\ NewOp(o)
  /\ Enqueue(o)
  /\ UNCHANGED <<io, pending, in_req, security, busy, called, released, peer>>
  /\ WakeupWriter

(* Mutant of CancelPending: destroy runs but the pointers are not NULLed.   *)
CancelPending_PointersKept(o) ==
  /\ io # "freed"
  /\ o \in Pending
  /\ released' = [released EXCEPT ![o] = @ + 1]
  /\ UNCHANGED <<io, queues, pending, writer_active, in_req, security, busy,
                 history, live, armed, peer>>

(* Mutant of CancelPending: the slot is freed before the answer has come.   *)
CancelPending_SlotFreed(o) ==
  /\ io # "freed"
  /\ busy = Idle
  /\ o \in Pending
  /\ Destroy({o})
  /\ pending_req' = IF pending_req = o THEN None ELSE pending_req
  /\ pending_ind' = IF pending_ind = o THEN None ELSE pending_ind
  /\ UNCHANGED <<io, queues, in_req, security, busy, history, peer>>
  /\ WakeupWriter

(* bt_att_cancel of an op on the wire: only its handlers go.               *)
CancelPending(o) ==
  /\ io # "freed"
  /\ o \in Pending
  /\ released' = [released EXCEPT ![o] = @ + (IF o \in armed THEN 1 ELSE 0)]
  /\ armed' = armed \ {o}
  /\ UNCHANGED <<io, queues, pending, writer_active, in_req, security, busy,
                 history, live, peer>>

RemoveFrom(q, o) ==
  IF o \in ToSet(q) THEN RemoveAt(q, CHOOSE k \in DOMAIN q : q[k] = o) ELSE q

(* bt_att_cancel of an op still queued: unlinked and destroyed.            *)
CancelQueued(o) ==
  /\ io # "freed"
  /\ o \in Queued \ Pending
  /\ write_queue' = RemoveFrom(write_queue, o)
  /\ req_queue' = RemoveFrom(req_queue, o)
  /\ ind_queue' = RemoveFrom(ind_queue, o)
  /\ Destroy({o})
  /\ UNCHANGED <<io, pending, in_req, security, busy, history, peer>>
  /\ WakeupWriter

(* Mutant of DropAll: the pending operations keep their handlers.           *)
DropAll_PendingKept ==
  /\ write_queue' = <<>>
  /\ req_queue' = <<>>
  /\ ind_queue' = <<>>
  /\ released' = [o \in Ops |-> IF o \in Queued \intersect armed
                                THEN released[o] + 1 ELSE released[o]]
  /\ armed' = armed \ Queued

DropAll ==
  /\ write_queue' = <<>>
  /\ req_queue' = <<>>
  /\ ind_queue' = <<>>
  /\ released' = [o \in Ops |->
                    IF o \in (Queued \union Pending) \intersect armed
                    THEN released[o] + 1 ELSE released[o]]
  /\ armed' = armed \ (Queued \union Pending)

(* bt_att_cancel_all: queued ops are destroyed, pending ones disarmed.     *)
CancelAll ==
  /\ io # "freed"
  /\ DropAll
  /\ live' = live \ Queued
  /\ UNCHANGED <<io, pending, writer_active, in_req, security, busy,
                 history, peer>>

SetSecurity(level) ==
  /\ io # "freed"
  /\ security' = level
  /\ UNCHANGED <<io, queues, pending, writer_active, in_req, busy, history,
                 memory, peer>>

(* The last bt_att_unref, made outside any handler: cancel_all, then       *)
(* bt_att_free destroys what was pending and closes the socket.            *)
Unref ==
  /\ io # "freed"
  /\ busy = Idle
  /\ io' = "freed"
  /\ DropAll
  /\ live' = live \ (Queued \union Pending)
  /\ pending_req' = None
  /\ pending_ind' = None
  /\ writer_active' = FALSE
  /\ air' = {}
  /\ inbox' = <<>>
  /\ UNCHANGED <<in_req, security, busy, history, peer_waits>>

-----------------------------------------------------------------------------
(* The writer: can_write_data, run by the main loop while writable.        *)

(* pick_next_send_op found nothing: the write handler is removed and       *)
(* write_watch_destroy clears the flag.                                    *)
WriteNothing ==
  /\ Open
  /\ busy = Idle
  /\ writer_active
  /\ ~ Sendable
  /\ writer_active' = FALSE
  /\ UNCHANGED <<io, queues, pending, in_req, security, busy, history,
                 memory, peer>>

(* pick_next_send_op: write queue first, then a request if none is         *)
(* pending, then an indication if none is pending.                         *)
PickNext(o) ==
  \/ /\ write_queue # <<>>
     /\ o = Head(write_queue)
     /\ write_queue' = Tail(write_queue)
     /\ UNCHANGED <<req_queue, ind_queue>>
  \/ /\ write_queue = <<>>
     /\ pending_req = None /\ req_queue # <<>>
     /\ o = Head(req_queue)
     /\ req_queue' = Tail(req_queue)
     /\ UNCHANGED <<write_queue, ind_queue>>
  \/ /\ write_queue = <<>>
     /\ ~ (pending_req = None /\ req_queue # <<>>)
     /\ pending_ind = None /\ ind_queue # <<>>
     /\ o = Head(ind_queue)
     /\ ind_queue' = Tail(ind_queue)
     /\ UNCHANGED <<write_queue, req_queue>>

Writing(o) == Open /\ busy = Idle /\ writer_active /\ PickNext(o)

(* io_send succeeded.                                                      *)
WriteSent(o) ==
  /\ io = "up"
  /\ Writing(o)
  /\ pending_req' = IF Type[o] = "REQ" THEN o ELSE pending_req
  /\ pending_ind' = IF Type[o] = "IND" THEN o ELSE pending_ind
  /\ in_req' = (in_req /\ Type[o] # "RSP")
  /\ IF Type[o] \in {"REQ", "IND"}
     THEN air' = air \union {o} /\ UNCHANGED memory
     ELSE Destroy({o}) /\ UNCHANGED air
  /\ peer_waits' = (peer_waits /\ Type[o] # "RSP")
  /\ UNCHANGED <<io, writer_active, security, busy, history, inbox>>

(* io_send failed: the callback, if any, hears ERROR_RSP, then the op goes.*)
WriteFailed(o) ==
  /\ Writing(o)
  /\ IF HasCallback(o)
     THEN Invoke(o, "wfail")
     ELSE Destroy({o}) /\ UNCHANGED <<busy, called>>
  /\ UNCHANGED <<io, pending, writer_active, in_req, security, used, peer>>

(* The error callback returned into can_write_data.                        *)
WriteFailedDone ==
  /\ busy.h = "wfail"
  /\ Destroy({busy.op})
  /\ busy' = Idle
  /\ UNCHANGED <<io, queues, pending, writer_active, in_req, security,
                 history, peer>>

-----------------------------------------------------------------------------
(* The reader: can_read_data and the handlers it dispatches to.            *)

Reading(kinds) ==
  /\ io = "up"
  /\ busy = Idle
  /\ inbox # <<>>
  /\ Head(inbox).kind \in kinds
  /\ inbox' = Tail(inbox)

Shutdown == io' = IF io = "up" THEN "shut" ELSE io

(* handle_rsp and handle_conf when nothing awaits the PDU, and a request   *)
(* received while one is being served: the bearer is shut down.            *)
ReadUnexpected ==
  /\ \/ Reading({"RSP", "ERR"}) /\ pending_req = None
     \/ Reading({"CONF", "BADCONF"})
          /\ (pending_ind = None \/ Head(inbox).kind = "BADCONF")
     \/ Reading({"REQ"}) /\ in_req
  /\ Shutdown
  /\ UNCHANGED <<queues, pending, writer_active, in_req, security, busy,
                 history, memory, air, peer_waits>>

(* Mutant of WantedLevel: asks for a level beyond HIGH.                     *)
WantedLevel_Beyond(ecode) == IF ecode = "encryption" THEN 2 ELSE 4

(* change_security: only from AUTO, to the level the error asks for.       *)
WantedLevel(ecode) == IF ecode = "encryption" THEN 2 ELSE 3
MayRetry(p) ==
  /\ p.kind = "ERR"
  /\ security = AUTO
  /\ p.ecode \in {"encryption", "authentication"}

(* Mutant of ReadRetry: the request is queued again and still pending.      *)
ReadRetry_StillPending ==
  /\ Reading({"ERR"})
  /\ pending_req # None
  /\ MayRetry(Head(inbox))
  /\ security' = WantedLevel(Head(inbox).ecode)
  /\ req_queue' = <<pending_req>> \o req_queue
  /\ UNCHANGED <<io, write_queue, ind_queue, pending, in_req, busy,
                 history, memory, air, peer_waits>>
  /\ WakeupWriter

(* Mutant of ReadRetry: the request is retried after those queued since.    *)
ReadRetry_AtTail ==
  /\ Reading({"ERR"})
  /\ pending_req # None
  /\ MayRetry(Head(inbox))
  /\ security' = WantedLevel(Head(inbox).ecode)
  /\ req_queue' = Append(req_queue, pending_req)
  /\ pending_req' = None
  /\ UNCHANGED <<io, write_queue, ind_queue, pending_ind, in_req, busy,
                 history, memory, air, peer_waits>>
  /\ WakeupWriter

(* handle_error_rsp raised the security level: the pending request goes    *)
(* back to the head of its queue, whatever request the error names.        *)
ReadRetry ==
  /\ Reading({"ERR"})
  /\ pending_req # None
  /\ MayRetry(Head(inbox))
  /\ security' = WantedLevel(Head(inbox).ecode)
  /\ req_queue' = <<pending_req>> \o req_queue
  /\ pending_req' = None
  /\ UNCHANGED <<io, write_queue, ind_queue, pending_ind, in_req, busy,
                 history, memory, air, peer_waits>>
  /\ WakeupWriter

(* handle_rsp otherwise: a response, or a mismatch reported as an error,   *)
(* ends the pending request.  Raising the level may fail (setsockopt).     *)
ReadResponse ==
  /\ Reading({"RSP", "ERR"})
  /\ pending_req # None
  /\ UNCHANGED <<io, queues, pending_ind, in_req, security, used, air,
                 peer_waits>>
  /\ IF HasCallback(pending_req)
     THEN Invoke(pending_req, "rsp") /\ UNCHANGED <<pending_req, writer_active>>
     ELSE /\ Destroy({pending_req})
          /\ pending_req' = None
          /\ UNCHANGED <<busy, called>>
          /\ WakeupWriter

ResponseDone ==
  /\ busy.h = "rsp"
  /\ Destroy({busy.op})
  /\ pending_req' = None
  /\ busy' = Idle
  /\ UNCHANGED <<io, queues, pending_ind, in_req, security, history, peer>>
  /\ WakeupWriter

ReadConf ==
  /\ Reading({"CONF"})
  /\ pending_ind # None
  /\ UNCHANGED <<io, queues, pending_req, in_req, security, used, air,
                 peer_waits>>
  /\ IF HasCallback(pending_ind)
     THEN Invoke(pending_ind, "conf") /\ UNCHANGED <<pending_ind, writer_active>>
     ELSE /\ Destroy({pending_ind})
          /\ pending_ind' = None
          /\ UNCHANGED <<busy, called>>
          /\ WakeupWriter

ConfDone ==
  /\ busy.h = "conf"
  /\ Destroy({busy.op})
  /\ pending_ind' = None
  /\ busy' = Idle
  /\ UNCHANGED <<io, queues, pending_req, in_req, security, history, peer>>
  /\ WakeupWriter

(* handle_notify with a registered handler: the upper layer is called.     *)
ReadNotify ==
  /\ Reading({"REQ", "OTHER"})
  /\ Head(inbox).kind = "REQ" => ~ in_req
  /\ in_req' = (in_req \/ Head(inbox).kind = "REQ")
  /\ busy' = [h |-> "notify", op |-> None]
  /\ UNCHANGED <<io, queues, pending, writer_active, security, history,
                 memory, air, peer_waits>>

NotifyDone ==
  /\ busy.h = "notify"
  /\ busy' = Idle
  /\ UNCHANGED <<io, queues, pending, writer_active, in_req, security,
                 history, memory, peer>>

(* handle_notify without a handler for a request: respond_not_supported    *)
(* sends ERROR_RSP through bt_att_send.                                    *)
ReadNotSupported(o) ==
  /\ Reading({"REQ"})
  /\ ~ in_req
  /\ in_req' = TRUE
  /\ Type[o] = "RSP"
  /\ NewOp(o)
  /\ Enqueue(o)
  /\ UNCHANGED <<io, pending, security, busy, called, released, air,
                 peer_waits>>
  /\ WakeupWriter

-----------------------------------------------------------------------------
(* Timers and the end of the connection.                                   *)

(* timeout_cb for an op on the wire, run by the glib context.              *)
Timeout(o) ==
  /\ TimersRun
  /\ io # "freed"
  /\ busy = Idle
  /\ o \in Pending
  /\ pending_req' = IF pending_req = o THEN None ELSE pending_req
  /\ pending_ind' = IF pending_req # o THEN None ELSE pending_ind
  /\ Destroy({o})
  /\ Shutdown
  /\ UNCHANGED <<queues, writer_active, in_req, security, busy, history, peer>>

(* Mutant of Disconnect: what is queued is left in the queues.              *)
Disconnect_QueuesLeft ==
  /\ io = "shut"
  /\ busy = Idle
  /\ io' = "gone"
  /\ released' = [o \in Ops |-> IF o \in Pending \intersect armed
                                THEN released[o] + 1 ELSE released[o]]
  /\ armed' = armed \ Pending
  /\ writer_active' = FALSE
  /\ air' = {}
  /\ inbox' = <<>>
  /\ UNCHANGED <<queues, pending, in_req, security, busy, history, live,
                 peer_waits>>

(* disconnect_cb on HUP: the io is destroyed (its cleanup clears           *)
(* writer_active), everything is cancelled.                                *)
Disconnect ==
  /\ io = "shut"
  /\ busy = Idle
  /\ io' = "gone"
  /\ DropAll
  /\ live' = live \ Queued
  /\ writer_active' = FALSE
  /\ air' = {}
  /\ inbox' = <<>>
  /\ UNCHANGED <<pending, in_req, security, busy, history, peer_waits>>

-----------------------------------------------------------------------------
(* The peer.                                                               *)

local == <<queues, pending, writer_active, in_req, security, busy,
           history, memory>>

Answer(kind, ecode, o) == [kind |-> kind, ecode |-> ecode, to |-> o]

Answers(o) ==
  IF Type[o] = "IND" THEN {Answer("CONF", "other", o)}
  ELSE {Answer("RSP", "other", o)}
         \union {Answer("ERR", e, o) :
                   e \in {"encryption", "authentication", "other"}}

PeerAnswers(o) ==
  /\ io = "up"
  /\ o \in air
  /\ air' = air \ {o}
  /\ \E p \in Answers(o) : inbox' = Append(inbox, p)
  /\ UNCHANGED <<io, local, peer_waits>>

Unsolicited(kind) == Answer(kind, "other", None)

(* A request, one at a time, or a notification or indication.              *)
PeerSpeaks ==
  /\ io = "up"
  /\ Len(inbox) < MaxInbox
  /\ \/ ~ peer_waits /\ peer_waits' = TRUE
          /\ inbox' = Append(inbox, Unsolicited("REQ"))
     \/ inbox' = Append(inbox, Unsolicited("OTHER")) /\ UNCHANGED peer_waits
  /\ UNCHANGED <<io, local, air>>

(* A peer that breaks the protocol: any PDU at any time.                   *)
PeerMisbehaves ==
  /\ ~ PeerConforms
  /\ io = "up"
  /\ Len(inbox) < MaxInbox
  /\ \/ \E kind \in {"RSP", "CONF", "BADCONF", "REQ"} :
          inbox' = Append(inbox, Unsolicited(kind))
     \/ inbox' = Append(inbox, Answer("ERR", "encryption", None))
  /\ UNCHANGED <<io, local, air, peer_waits>>

PeerHangsUp ==
  /\ io = "up"
  /\ io' = "shut"
  /\ UNCHANGED <<local, peer>>

-----------------------------------------------------------------------------
Api ==
  \/ \E o \in Ops : Send(o) \/ CancelPending(o) \/ CancelQueued(o)
  \/ CancelAll
  \/ \E level \in ApiLevels : SetSecurity(level)
  \/ Unref

Write == WriteNothing \/ \E o \in Ops : WriteSent(o) \/ WriteFailed(o)

Read ==
  \/ ReadUnexpected \/ ReadRetry \/ ReadResponse \/ ReadConf \/ ReadNotify
  \/ \E o \in Ops : ReadNotSupported(o)

Return == WriteFailedDone \/ ResponseDone \/ ConfDone \/ NotifyDone

Peer ==
  \/ \E o \in Ops : PeerAnswers(o)
  \/ PeerSpeaks \/ PeerMisbehaves \/ PeerHangsUp

Next ==
  \/ Api \/ Write \/ Read \/ Return \/ Peer
  \/ \E o \in Ops : Timeout(o)
  \/ Disconnect

Spec == Init /\ [][Next]_vars

(* io_callback serves EPOLLIN and then EPOLLOUT in every round, so neither  *)
(* starves the other; callbacks return; epoll reports HUP until it is      *)
(* handled; a timer fires once it is due.  Nothing is asked of the peer or *)
(* of the callers.                                                         *)
FairSpec ==
  /\ Spec
  /\ SF_vars(Read)
  /\ SF_vars(Write)
  /\ WF_vars(Return)
  /\ WF_vars(Disconnect)
  /\ \A o \in Ops : SF_vars(Timeout(o))

-----------------------------------------------------------------------------
(* Refinement of AttService.  An operation stands in its line from         *)
(* bt_att_send until its callback starts or its handlers are taken off: on *)
(* the wire, or queued again after a security retry, it is still at the    *)
(* head.  A cancelled request that is still on the wire is in no line, and *)
(* neither is one that a retry then puts back at the head of its queue, the*)
(* only place where a queue holds a cancelled operation.                   *)
OnWire(o) == IF o \in armed \ {busy.op} THEN <<o>> ELSE <<>>
Unanswered(q) == IF q # <<>> /\ Head(q) \notin armed THEN Tail(q) ELSE q

ReqLine == OnWire(pending_req) \o Unanswered(req_queue)
IndLine == OnWire(pending_ind) \o ind_queue

Service == INSTANCE AttService WITH
  LineOf    <- [o \in Ops |-> IF Type[o] \in {"REQ", "IND"} THEN Type[o]
                              ELSE "WRITE"],
  open      <- Open,
  line      <- [REQ |-> ReqLine, IND |-> IndLine, WRITE |-> write_queue],
  calling   <- {busy.op} \intersect armed,
  submitted <- used,
  released  <- {o \in Ops : released[o] > 0}

(* The bearer implements the service: answers in submission order, every   *)
(* user_data given back once and not before its callback.                  *)
ImplementsService == Service!ServiceSpec

-----------------------------------------------------------------------------
(* Properties.                                                             *)

(* wakeup_writer leaves no gap: while the bearer is up, anything that      *)
(* pick_next_send_op would send keeps the write handler installed, inside  *)
(* callbacks too.  (timeout_cb clears the pending op without calling       *)
(* wakeup_writer, but it also shuts the bearer down.)                      *)
NoLostWakeup == io = "up" /\ Sendable => writer_active

(* The upper layer's user_data: the callback runs at most once and destroy *)
(* at most once; destroy has run exactly when the handlers are off, and an *)
(* op is freed only after that.                                            *)
HandlersOnce ==
  /\ armed \subseteq live
  /\ live \subseteq used
  /\ \A o \in Ops : /\ called[o] <= 1
                    /\ released[o] = IF o \in used \ armed THEN 1 ELSE 0

(* No callback runs on user_data that destroy has already been given.      *)
NoCallbackAfterDestroy ==
  [][\A o \in Ops : called'[o] # called[o] => released[o] = 0]_vars

(* Every live op is in exactly one place, its own queue, a pending slot or *)
(* the hands of the handler that popped it: nothing is leaked, queued      *)
(* twice, or freed while it is queued.                                     *)
Held == IF busy.h = "wfail" THEN {busy.op} ELSE {}
Conservation ==
  /\ live = Queued \union Pending \union Held
  /\ IsInjective(write_queue) /\ IsInjective(req_queue) /\ IsInjective(ind_queue)
  /\ \A o \in ToSet(req_queue) \union ({pending_req} \ {None}) : Type[o] = "REQ"
  /\ \A o \in ToSet(ind_queue) \union ({pending_ind} \ {None}) : Type[o] = "IND"
  /\ \A o \in ToSet(write_queue) : Type[o] \notin {"REQ", "IND"}
  /\ Queued \intersect Pending = {}
  /\ Held \intersect (Queued \union Pending) = {}

(* A callback in progress belongs to the op its handler works on, and no   *)
(* other live op has had its callback called: the strengthening under      *)
(* which HandlersOnce and Conservation are preserved by every step.        *)
BusyOK ==
  /\ busy.h \in {"idle", "notify"} => busy.op = None
  /\ busy.h = "rsp" => busy.op = pending_req /\ busy.op # None
  /\ busy.h = "conf" => busy.op = pending_ind /\ busy.op # None
  /\ busy.h = "wfail" => busy.op # None /\ Type[busy.op] \in {"REQ", "IND"}
  /\ \A o \in Ops : called[o] > 0 => o \in used /\ (o \in armed => busy.op = o)

Inv == TypeOK /\ HandlersOnce /\ Conservation /\ BusyOK

(* With a conforming peer, whatever answer is on its way belongs to the op *)
(* the bearer is waiting on (so a response is never given to another       *)
(* request with the same opcode), the sequential protocol is kept, and a   *)
(* request of the peer never finds in_req set: a conforming peer is never  *)
(* disconnected for an unexpected PDU.                                     *)
Awaited(o) == o = pending_req \/ o = pending_ind
ConformingPeerUnderstood ==
  PeerConforms /\ io = "up" =>
    /\ \A o \in air : Awaited(o)
    /\ \A k \in DOMAIN inbox :
         /\ inbox[k].to # None => Awaited(inbox[k].to) /\ inbox[k].to \notin air
         /\ inbox[k].kind = "REQ" => ~ in_req

(* Every op that bt_att_send accepted is eventually given back.            *)
EveryOpEnds == \A o \in Ops : o \in used ~> released[o] > 0

=============================================================================
