---------------------------- MODULE AttRegistry ----------------------------
(***************************************************************************)
(* Who is told, who is released and when the bearer is freed, in           *)
(* lib/bluez/att.c: handlers for unsolicited PDUs and for disconnection,   *)
(* the debug and timeout closures, the reference count of struct bt_att.   *)
(* What becomes of operations is AttTransport's subject; here a request is *)
(* only something whose destroy function may drop a reference that its     *)
(* caller took for it.                                                     *)
(*                                                                         *)
(* A dispatch calls one handler at a time, and each may call the API       *)
(* before it returns.  One thread; dispatches do not nest.                 *)
(***************************************************************************)
EXTENDS Integers, Sequences, SequencesExt, FiniteSets, FiniteSetsExt

CONSTANTS
  Handlers,    (* struct att_notify, struct att_disconn, and closures      *)
  Kind,        (* of each: "notify", "disconn", "debug", "timeout"         *)
  Opcode,      (* of those for PDUs: what they are registered for          *)
  Requests,
  PDUs,        (* opcodes the peer sends                                   *)
  ExtSigned,   (* ext_signed: the link layer checks signatures             *)
  None,
  MaxOwners,   (* bound: references held by the layers above               *)
  MaxMtu,      (* bound: changes of the MTU                                *)
  Usages       (* what callers may do, see usage                           *)

RegistryConstantsOK ==
  /\ IsFiniteSet(Handlers) /\ IsFiniteSet(Requests) /\ None \notin Handlers
  /\ Kind \in [Handlers -> {"notify", "disconn", "debug", "timeout"}]
  /\ MaxOwners \in Nat /\ MaxMtu \in Nat /\ ExtSigned \in BOOLEAN
  /\ Usages \subseteq SUBSET {"others", "orphans", "mtu"}

VARIABLES
  usage,         (* "others": a handler unregisters handlers other than    *)
                 (* itself, or registers again after unregister_all;       *)
                 (* "orphans": the last owner leaves while requests hold   *)
                 (* references; "mtu": a handler for a PDU changes the MTU *)
  notify_list, disconn_list,
  slot,          (* debug_data and timeout_data                            *)
  status,        (* of a handler: "new", "registered" or "gone"            *)
  destroyed,     (* history: calls of a handler's destroy function         *)
  owners,        (* references the layers above hold                       *)
  requests,      (* sent and not ended                                     *)
  holding,       (* those whose destroy function drops a reference         *)
  ref_count,
  io,            (* "up", "shut" by io_shutdown, or "none" when destroyed  *)
  in_req,        (* a request of the peer has not been answered            *)
  replies,       (* responses in write_queue                               *)
  accepted,      (* history: a handler was told of the peer's request      *)
  mtu,           (* changes so far: which buffer att->buf is               *)
  remote_sign,   (* bt_att_set_remote_key was called                       *)
  frame,         (* the dispatch in progress                               *)
  fault          (* "none", or what was used after it was freed            *)

lists == <<notify_list, disconn_list, slot, status, destroyed>>
counted == <<owners, requests, holding, ref_count>>
peer == <<in_req, replies, accepted>>
vars == <<usage, lists, counted, io, peer, mtu, remote_sign, frame, fault>>

-----------------------------------------------------------------------------
(* att_opcode_type_table and opcode_match.                                 *)

ReqOpcodes ==
  {"MTU_REQ", "FIND_INFO_REQ", "FIND_BY_TYPE_VAL_REQ", "READ_BY_TYPE_REQ",
   "READ_REQ", "READ_BLOB_REQ", "READ_MULT_REQ", "READ_BY_GRP_TYPE_REQ",
   "WRITE_REQ", "PREP_WRITE_REQ", "EXEC_WRITE_REQ"}
CmdOpcodes == {"WRITE_CMD", "SIGNED_WRITE_CMD"}
RspOpcodes ==
  {"ERROR_RSP", "MTU_RSP", "FIND_INFO_RSP", "FIND_BY_TYPE_VAL_RSP",
   "READ_BY_TYPE_RSP", "READ_RSP", "READ_BLOB_RSP", "READ_MULT_RSP",
   "READ_BY_GRP_TYPE_RSP", "WRITE_RSP", "PREP_WRITE_RSP", "EXEC_WRITE_RSP"}
OpType(o) ==
  CASE o \in ReqOpcodes -> "REQ"
    [] o \in RspOpcodes -> "RSP"
    [] o \in CmdOpcodes -> "CMD"
    [] o = "HANDLE_VAL_NOT" -> "NOT"
    [] o = "HANDLE_VAL_IND" -> "IND"
    [] o = "HANDLE_VAL_CONF" -> "CONF"
    [] OTHER -> "UNKNOWN"
Signed(o) == o = "SIGNED_WRITE_CMD"

OpcodeMatch(wanted, o) ==
  \/ wanted = "ALL_REQUESTS" /\ OpType(o) \in {"REQ", "CMD"}
  \/ wanted = o

-----------------------------------------------------------------------------
Slots == {"debug", "timeout"}
NotifyFrame ==
  [kind : {"notify"}, opcode : PDUs, next : Handlers \union {None},
   buf : 0 .. MaxMtu, start : Seq(Handlers), told : Seq(Handlers)]
DisconnFrame ==
  [kind : {"disconn"}, cur : Handlers \union {None},
   frozen : Handlers \union {None}, start : Seq(Handlers),
   told : Seq(Handlers)]

TypeOK ==
  /\ usage \in Usages
  /\ notify_list \in Seq(Handlers) /\ disconn_list \in Seq(Handlers)
  /\ slot \in [Slots -> Handlers \union {None}]
  /\ status \in [Handlers -> {"new", "registered", "gone"}]
  /\ destroyed \in [Handlers -> Nat]
  /\ owners \in 0 .. MaxOwners
  /\ requests \subseteq Requests /\ holding \subseteq requests
  /\ ref_count \in Nat
  /\ io \in {"up", "shut", "none"}
  /\ {in_req, remote_sign} \subseteq BOOLEAN
  /\ accepted \in BOOLEAN
  /\ replies \in 0 .. 1 /\ mtu \in 0 .. MaxMtu
  /\ frame \in {None} \union NotifyFrame \union DisconnFrame
  /\ fault \in {"none", "handler", "att", "buffer"}

(* bt_att_new *)
Init ==
  /\ usage \in Usages
  /\ notify_list = <<>> /\ disconn_list = <<>>
  /\ slot = [s \in Slots |-> None]
  /\ status = [h \in Handlers |-> "new"]
  /\ destroyed = [h \in Handlers |-> 0]
  /\ owners = 1 /\ ref_count = 1
  /\ requests = {} /\ holding = {}
  /\ io = "up"
  /\ in_req = FALSE /\ replies = 0 /\ accepted = FALSE
  /\ mtu = 0 /\ remote_sign = FALSE
  /\ frame = None
  /\ fault = "none"

Freed == ref_count = 0
InHandler == frame # None /\ frame.told # <<>>
MayCall ==
  /\ fault = "none" /\ ~ Freed
  /\ IF frame = None THEN owners > 0 ELSE InHandler
Restrained == frame # None /\ "others" \notin usage
Idle == fault = "none" /\ ~ Freed /\ frame = None

(* The entry after h in a list, None at its end.                           *)
After(list, h) ==
  LET k == SelectInSeq(list, LAMBDA x : x = h)
  IN IF k \in 1 .. Len(list) - 1 THEN list[k + 1] ELSE None

-----------------------------------------------------------------------------
(* Releasing.                                                              *)

AllRegistered ==
  ToSet(notify_list) \union ToSet(disconn_list)
    \union ({slot[s] : s \in Slots} \ {None})

(* The handlers in out are destroyed, the requests in rs end, and left     *)
(* references remain: without any, bt_att_unref unregisters and cancels    *)
(* everything, and frees the bearer with its closures and its io.          *)
Settle(left, out, rs) ==
  LET gone == IF left = 0 THEN AllRegistered ELSE out
      Stays(h) == h \notin gone
  IN
  /\ ref_count' = left
  /\ notify_list' = SelectSeq(notify_list, Stays)
  /\ disconn_list' = SelectSeq(disconn_list, Stays)
  /\ slot' = [s \in Slots |-> IF slot[s] \in gone THEN None ELSE slot[s]]
  /\ status' = [h \in Handlers |-> IF h \in gone THEN "gone" ELSE status[h]]
  /\ destroyed' =
       [h \in Handlers |-> destroyed[h] + IF h \in gone THEN 1 ELSE 0]
  /\ requests' = IF left = 0 THEN {} ELSE requests \ rs
  /\ holding' = holding \intersect requests'

(* The links of an entry that leaves while queue_foreach calls it stay.    *)
Frozen(out) ==
  IF frame # None /\ frame.kind = "disconn" /\ frame.cur \in out
    /\ frame.cur \in ToSet(disconn_list)
  THEN [frame EXCEPT !.frozen = After(disconn_list, frame.cur)]
  ELSE frame

-----------------------------------------------------------------------------
(* The API.                                                                *)

(* bt_att_register, bt_att_register_disconnect.  A restrained handler does *)
(* not register again behind unregister_all.                               *)
MayRegister(h) ==
  /\ MayCall /\ io # "none"
  /\ status[h] = "new"
  /\ Restrained => ToSet(frame.start) \intersect AllRegistered # {}
Register(h) ==
  /\ MayRegister(h) /\ Kind[h] = "notify"
  /\ status' = [status EXCEPT ![h] = "registered"]
  /\ notify_list' = Append(notify_list, h)
  /\ UNCHANGED <<usage, disconn_list, slot, destroyed, counted, io, peer, mtu,
                 remote_sign, frame, fault>>
RegisterDisconnect(h) ==
  /\ MayRegister(h) /\ Kind[h] = "disconn"
  /\ status' = [status EXCEPT ![h] = "registered"]
  /\ disconn_list' = Append(disconn_list, h)
  /\ UNCHANGED <<usage, notify_list, slot, destroyed, counted, io, peer, mtu,
                 remote_sign, frame, fault>>

(* bt_att_unregister, bt_att_unregister_disconnect                         *)
Leaves(h) ==
  /\ MayCall
  /\ Restrained => h = Last(frame.told)
  /\ Settle(ref_count, {h}, {})
  /\ frame' = Frozen({h})
  /\ UNCHANGED <<usage, owners, io, peer, mtu, remote_sign, fault>>
Unregister(h) == h \in ToSet(notify_list) /\ Leaves(h)
UnregisterDisconnect(h) == h \in ToSet(disconn_list) /\ Leaves(h)

(* bt_att_unregister_all                                                   *)
UnregisterAll ==
  LET hs == ToSet(notify_list) \union ToSet(disconn_list) IN
  /\ MayCall
  /\ hs # {}
  /\ Settle(ref_count, hs, {})
  /\ frame' = Frozen(hs)
  /\ UNCHANGED <<usage, owners, io, peer, mtu, remote_sign, fault>>

(* bt_att_set_debug and bt_att_set_timeout_cb: the closure before is        *)
(* destroyed.                                                              *)
SetSlot(h) ==
  LET s == Kind[h] IN
  /\ MayCall
  /\ s \in Slots /\ status[h] = "new"
  /\ slot' = [slot EXCEPT ![s] = h]
  /\ status' = [x \in Handlers |-> IF x = h THEN "registered"
                  ELSE IF x = slot[s] THEN "gone" ELSE status[x]]
  /\ destroyed' =
       [x \in Handlers |-> destroyed[x] + IF x = slot[s] THEN 1 ELSE 0]
  /\ UNCHANGED <<usage, notify_list, disconn_list, counted, io, peer,
                 mtu, remote_sign, frame, fault>>

(* bt_att_set_mtu: a new buffer instead of the one that was read into.     *)
SetMtu ==
  /\ MayCall /\ mtu < MaxMtu
  /\ frame # None /\ "mtu" \notin usage => frame.kind = "disconn"
  /\ mtu' = mtu + 1
  /\ UNCHANGED <<usage, lists, counted, io, peer, remote_sign, frame, fault>>

SetRemoteKey ==
  /\ MayCall /\ ~ remote_sign
  /\ remote_sign' = TRUE
  /\ UNCHANGED <<usage, lists, counted, io, peer, mtu, frame, fault>>

(* bt_att_ref and bt_att_unref by the layers above                         *)
Ref ==
  /\ MayCall /\ owners \in 1 .. MaxOwners - 1
  /\ owners' = owners + 1 /\ ref_count' = ref_count + 1
  /\ UNCHANGED <<usage, lists, requests, holding, io, peer, mtu, remote_sign,
                 frame, fault>>

Unref ==
  /\ MayCall /\ owners > 0
  /\ owners > 1 \/ holding = {} \/ "orphans" \in usage
  /\ owners' = owners - 1
  /\ Settle(ref_count - 1, {}, {})
  /\ io' = IF ref_count' = 0 THEN "none" ELSE io
  /\ UNCHANGED <<usage, peer, mtu, remote_sign, frame, fault>>

(* bt_att_send of a request, which may take a reference with it.           *)
SendRequest(r, holds) ==
  /\ MayCall /\ io # "none"
  /\ owners > 0
  /\ r \notin requests
  /\ requests' = requests \union {r}
  /\ holding' = IF holds THEN holding \union {r} ELSE holding
  /\ ref_count' = ref_count + IF holds THEN 1 ELSE 0
  /\ UNCHANGED <<usage, lists, owners, io, peer, mtu, remote_sign, frame,
                 fault>>

(* It is cancelled, or answered: destroy_att_send_op.                      *)
EndRequest(r) ==
  /\ r \in requests
  /\ MayCall \/ (Idle /\ io = "up")
  /\ Settle(ref_count - IF r \in holding THEN 1 ELSE 0, {}, {r})
  /\ io' = IF ref_count' = 0 THEN "none" ELSE io
  /\ UNCHANGED <<usage, owners, peer, mtu, remote_sign, frame, fault>>

(* Whoever was told of the peer's request answers it.                      *)
Reply ==
  /\ MayCall /\ io # "none"
  /\ in_req /\ accepted /\ replies = 0
  /\ replies' = 1
  /\ UNCHANGED <<usage, lists, counted, io, in_req, accepted, mtu,
                 remote_sign, frame, fault>>

-----------------------------------------------------------------------------
(* The handlers of the io.                                                 *)

(* can_write_data takes the response from the queue: the bearer is ready   *)
(* for the next request.                                                   *)
WriteReply ==
  /\ Idle /\ io = "up"
  /\ replies = 1
  /\ replies' = 0 /\ in_req' = FALSE
  /\ UNCHANGED <<usage, lists, counted, io, accepted, mtu, remote_sign, frame,
                 fault>>

(* handle_signed *)
Verified(o) == \/ ~ Signed(o)
               \/ ExtSigned
               \/ remote_sign

(* can_read_data: a second request before the first is answered ends the   *)
(* bearer; a bad signature is dropped.  A reference is taken here and one  *)
(* in handle_notify; they are given back together and counted as one.      *)
ReadPdu(o) ==
  /\ Idle /\ io = "up"
  /\ OpType(o) \notin {"RSP", "CONF"}
  /\ \/ /\ OpType(o) = "REQ" /\ in_req
        /\ io' = "shut"
        /\ UNCHANGED <<peer, ref_count, frame>>
     \/ /\ OpType(o) = "REQ" => ~ in_req
        /\ Verified(o)
        /\ in_req' = (in_req \/ OpType(o) = "REQ")
        /\ accepted' = IF OpType(o) = "REQ" THEN FALSE ELSE accepted
        /\ ref_count' = ref_count + 1
        /\ frame' = [kind |-> "notify", opcode |-> o, buf |-> mtu,
                     next |-> IF notify_list = <<>> THEN None
                              ELSE Head(notify_list),
                     start |-> notify_list, told |-> <<>>]
        /\ UNCHANGED <<io, replies>>
  /\ UNCHANGED <<usage, lists, owners, requests, holding, mtu, remote_sign,
                 fault>>

(* Where the loop of handle_notify goes from entry n: past what does not   *)
(* match.                                                                  *)
NextMatch(n, o) ==
  LET k == SelectInSeq(notify_list, LAMBDA x : x = n)
      rest == SubSeq(notify_list, k, Len(notify_list))
      j == SelectInSeq(rest, LAMBDA x : OpcodeMatch(Opcode[x], o))
  IN IF j = 0 THEN None ELSE rest[j]

NotifyEnds ==
  frame.next # None /\ notify_list # <<>> =>
    /\ status[frame.next] # "gone"
    /\ NextMatch(frame.next, frame.opcode) = None

(* The next handler is called; its successor is remembered beforehand.     *)
CallNotify ==
  LET h == NextMatch(frame.next, frame.opcode) IN
  /\ fault = "none"
  /\ frame # None /\ frame.kind = "notify"
  /\ ~ NotifyEnds
  /\ IF status[frame.next] = "gone" THEN
       fault' = "handler" /\ UNCHANGED <<frame, accepted>>
     ELSE IF frame.buf # mtu THEN
       fault' = "buffer" /\ UNCHANGED <<frame, accepted>>
     ELSE
       /\ frame' = [frame EXCEPT !.told = Append(@, h),
                                 !.next = After(notify_list, h)]
       /\ accepted' = (accepted \/ OpType(frame.opcode) = "REQ")
       /\ UNCHANGED fault
  /\ UNCHANGED <<usage, lists, counted, io, in_req, replies, mtu,
                 remote_sign>>

(* Mutant of NotifyDone: an unwanted command is refused, a request is not. *)
NotifyDone_Unanswered ==
  /\ fault = "none"
  /\ frame # None /\ frame.kind = "notify"
  /\ NotifyEnds
  /\ frame' = None
  /\ Settle(ref_count - 1, {}, {})
  /\ io' = IF ref_count' = 0 THEN "none" ELSE io
  /\ UNCHANGED <<usage, owners, peer, mtu, remote_sign, fault>>

(* Nobody wanted the request: respond_not_supported.                       *)
NotifyDone ==
  /\ fault = "none"
  /\ frame # None /\ frame.kind = "notify"
  /\ NotifyEnds
  /\ replies' = IF frame.told = <<>> /\ OpType(frame.opcode) = "REQ"
                  THEN 1 ELSE replies
  /\ frame' = None
  /\ Settle(ref_count - 1, {}, {})
  /\ io' = IF ref_count' = 0 THEN "none" ELSE io
  /\ UNCHANGED <<usage, owners, in_req, accepted, mtu, remote_sign, fault>>

(* disconnect_cb, to the loop over disconn_list.  Cancelling the requests  *)
(* may drop the last reference before the function takes one of its own.   *)
Disconnect ==
  LET left == ref_count - Cardinality(holding) IN
  /\ Idle /\ io # "none"
  /\ io' = "none"
  /\ replies' = 0
  /\ IF left = 0
     THEN /\ fault' = "att"
          /\ Settle(0, {}, {})
          /\ UNCHANGED frame
     ELSE /\ ref_count' = left + 1
          /\ requests' = {} /\ holding' = {}
          /\ frame' = [kind |-> "disconn", cur |-> None, frozen |-> None,
                       start |-> disconn_list, told |-> <<>>]
          /\ UNCHANGED <<lists, fault>>
  /\ UNCHANGED <<usage, owners, in_req, accepted, mtu, remote_sign>>

NextDisconn ==
  IF frame.told = <<>>
  THEN IF disconn_list = <<>> THEN None ELSE Head(disconn_list)
  ELSE IF frame.cur \in ToSet(disconn_list) THEN After(disconn_list, frame.cur)
  ELSE frame.frozen

(* queue_foreach and disconn_handler                                       *)
CallDisconn ==
  LET h == NextDisconn IN
  /\ fault = "none"
  /\ frame # None /\ frame.kind = "disconn"
  /\ h # None /\ disconn_list # <<>>
  /\ IF status[h] = "gone"
     THEN fault' = "handler" /\ UNCHANGED frame
     ELSE /\ frame' = [frame EXCEPT !.cur = h, !.told = Append(@, h)]
          /\ UNCHANGED fault
  /\ UNCHANGED <<usage, lists, counted, io, peer, mtu, remote_sign>>

(* ... and what disconnect_cb does after it.                               *)
DisconnDone ==
  /\ fault = "none"
  /\ frame # None /\ frame.kind = "disconn"
  /\ NextDisconn = None \/ disconn_list = <<>>
  /\ frame' = None
  /\ Settle(ref_count - 1, ToSet(notify_list) \union ToSet(disconn_list), {})
  /\ UNCHANGED <<usage, owners, io, peer, mtu, remote_sign, fault>>

-----------------------------------------------------------------------------
Api ==
  \/ \E h \in Handlers :
       \/ Register(h) \/ RegisterDisconnect(h)
       \/ Unregister(h) \/ UnregisterDisconnect(h)
       \/ SetSlot(h)
  \/ UnregisterAll
  \/ SetMtu \/ SetRemoteKey
  \/ Ref \/ Unref
  \/ \E r \in Requests, holds \in BOOLEAN : SendRequest(r, holds)
  \/ \E r \in Requests : EndRequest(r)
  \/ Reply

Next ==
  \/ Api
  \/ \E o \in PDUs : ReadPdu(o)
  \/ WriteReply
  \/ CallNotify \/ NotifyDone
  \/ Disconnect \/ CallDisconn \/ DisconnDone

Spec == Init /\ [][Next]_vars

-----------------------------------------------------------------------------
(* Properties.                                                             *)

(* Every reference is somebody's: an owner, a request or the dispatch in   *)
(* progress.  bt_att_unref frees the bearer when the last one goes, not    *)
(* before and not never.                                                   *)
RefsExact ==
  fault = "none" =>
    ref_count = owners + Cardinality(holding) + IF frame = None THEN 0 ELSE 1

(* A handler is destroyed once, when it leaves its list or with the        *)
(* bearer; what is listed is alive, and after a disconnection nothing is   *)
(* left that the bearer would have to tell.                                *)
ReleasedOnce ==
  \A h \in Handlers :
    /\ destroyed[h] = IF status[h] = "gone" THEN 1 ELSE 0
    /\ h \in AllRegistered <=> status[h] = "registered"
    /\ Freed => status[h] # "registered"

(* The peer may not send a second request before the first is answered, so *)
(* the first must not be lost: it is being dispatched, or answered, or a   *)
(* handler was told of it.                                                 *)
RequestsAccounted ==
  in_req /\ io = "up" /\ fault = "none" =>
    \/ frame # None
    \/ replies = 1
    \/ accepted

(* Handlers that unregister nobody but themselves or everybody, and do not *)
(* change the MTU under the PDU, and owners that outlive their requests,   *)
(* never make the bearer touch freed memory.                               *)
NoUseAfterFree == usage = {} => fault = "none"

Inv ==
  /\ TypeOK
  /\ RefsExact /\ ReleasedOnce
  /\ RequestsAccounted
  /\ NoUseAfterFree

(* A handler that is registered before and after a dispatch, and matches,  *)
(* is told exactly once, whatever the handlers before it did; one that was *)
(* released is not told.                                                   *)
Wants(h, f) == f.kind = "disconn" \/ OpcodeMatch(Opcode[h], f.opcode)
Times(h, f) == Cardinality({k \in DOMAIN f.told : f.told[k] = h})
TellsOnce ==
  frame # None /\ frame' = None =>
    \A h \in ToSet(frame.start) :
      /\ Times(h, frame) <= 1
      /\ status[h] = "registered" /\ Wants(h, frame) => Times(h, frame) = 1
ToldOnce == [][TellsOnce]_vars

=============================================================================
