---------------------------- MODULE GattRequests ----------------------------
(***************************************************************************)
(* lib/bluez/gatt-client.c: the requests of one PDU, long reads and writes *)
(* without response, their cancellation, notifications on their way to the *)
(* handlers, and the end of the client.  Long writes are in GattLongWrite, *)
(* registrations in GattNotify.                                            *)
(*                                                                         *)
(* The bearer is the one AttService promises: requests are answered one at *)
(* a time in the order of submission.  A request that is cancelled while   *)
(* its answer is due stays in line without its handlers.                   *)
(***************************************************************************)
EXTENDS Integers, Sequences, SequencesExt, FiniteSets

CONSTANTS
  Reqs, Handlers, None,
  Chunk,        (* mtu - 1, the bytes of a READ BLOB response              *)
  MaxValueLen,  (* BT_ATT_MAX_VALUE_LEN                                    *)
  Lengths,      (* of the value that is read                               *)
  Offsets,      (* where a long read starts                                *)
  MaxId,        (* UINT_MAX                                                *)
  Usages        (* what callers and the server do, see usage               *)

RequestsConstantsOK ==
  /\ IsFiniteSet(Reqs) /\ IsFiniteSet(Handlers)
  /\ None \notin Reqs \union Handlers
  /\ Chunk \in Nat \ {0} /\ MaxValueLen \in Nat /\ MaxId \in Nat \ {0}
  /\ Lengths \subseteq Nat /\ Offsets \subseteq Nat
  /\ Usages \subseteq SUBSET
       {"requests", "long", "cancel", "inside", "unref", "drops", "memory",
        "changes", "far", "notify"}

VARIABLES
  usage,        (* "requests", "long": those are made; "cancel", "unref":  *)
                (* requests are cancelled, the client is given up;         *)
                (* "inside": also in callbacks; "drops": the link is lost; *)
                (* "memory": the bearer refuses; "changes": the server's   *)
                (* value changes; "far": offsets and lengths beyond        *)
                (* MaxValueLen; "notify": notifications                    *)
  alive,        (* the client has not been freed                           *)
  held,         (* the user's reference to it                              *)
  att,          (* client->att is set                                      *)
  pending,      (* pending_requests                                        *)
  next_id,      (* next_request_id                                         *)
  request,      (* None, or kind, id, removed, sent: att_id is not 0, and  *)
                (* the offset and bytes of a long read                     *)
  told,         (* history: what the user of a request has been told       *)
  line,         (* requests handed to the bearer; live until cancelled     *)
  commands,     (* writes without response that the bearer has             *)
  notify_list,
  frame,        (* the callback in progress                                *)
  due, heard,   (* history: handlers that a notification is for, and those *)
                (* that were called                                        *)
  value,        (* the server's: its length and version                    *)
  fault

client == <<alive, held, att, pending, next_id, request>>
bearer == <<line, commands>>
notes == <<notify_list, due, heard>>
vars == <<usage, client, told, bearer, notes, frame, value, fault>>

Kinds == {"read", "multiple", "write", "command", "long"}

(* Bytes are told apart by their place in the value and its version.       *)
Byte == [at : Nat, version : 0 .. 1]

TypeOK ==
  /\ usage \in Usages
  /\ {alive, held, att} \subseteq BOOLEAN
  /\ pending \in Seq(Reqs) /\ IsInjective(pending)
  /\ next_id \in 0 .. MaxId
  /\ \A r \in Reqs : request[r] # None =>
       /\ request[r].kind \in Kinds
       /\ request[r].id \in 1 .. MaxId
       /\ {request[r].removed, request[r].sent} \subseteq BOOLEAN
       /\ request[r].bytes \in Seq(Byte)
  /\ \A k \in DOMAIN line : line[k] \in [req : Reqs, live : BOOLEAN]
  /\ commands \subseteq Reqs
  /\ notify_list \in Seq(Handlers)
  /\ fault \in {"none", "client", "overrun"}

(* bt_gatt_client_new, with the discovery done and the handlers registered.*)
Init ==
  /\ usage \in Usages
  /\ alive = TRUE /\ held = TRUE /\ att = TRUE
  /\ pending = <<>> /\ next_id \in {1, MaxId}
  /\ request = [r \in Reqs |-> None]
  /\ told = [r \in Reqs |-> <<>>]
  /\ line = <<>> /\ commands = {}
  /\ notify_list \in IF "notify" \in usage THEN SetToSeqs(Handlers) ELSE {<<>>}
  /\ due = {} /\ heard = {}
  /\ frame = None
  /\ value \in [length : Lengths, version : {0}]
  /\ "far" \notin usage => value.length <= MaxValueLen
  /\ fault = "none"

(* The user calls from its own callbacks, or while none runs.              *)
MayCall ==
  /\ fault = "none" /\ alive /\ held
  /\ frame # None =>
       "inside" \in usage /\ (frame.req = None => frame.cur # None)

-----------------------------------------------------------------------------
(* struct request                                                          *)

(* request_unref for the requests in rs: each has the one reference of its *)
(* PDU.  The destroy function is called; st is what the user was told      *)
(* before.                                                                 *)
Unref(rs, st) ==
  /\ request' = [r \in Reqs |-> IF r \in rs THEN None ELSE request[r]]
  /\ told' = [r \in Reqs |-> IF r \in rs THEN Append(st[r], "destroyed") ELSE st[r]]
Unlinked(rs) == SelectSeq(pending, LAMBDA r : r \notin rs)

(* request_create; id 0 stands for no request.                             *)
NewId == IF next_id < 1 THEN 1 ELSE next_id
New(kind, offset) ==
  [kind |-> kind, id |-> NewId, removed |-> FALSE, sent |-> TRUE,
   start |-> offset, offset |-> offset, bytes |-> <<>>]

(* The requests send their PDU, or are undone: their user gets 0, and no   *)
(* call.                                                                   *)
Submit(r, kind, offset) ==
  /\ MayCall
  /\ request[r] = None /\ told[r] = <<>>
  /\ r = CHOOSE x \in Reqs : request[x] = None /\ told[x] = <<>>
  /\ next_id' = (NewId + 1) % (MaxId + 1)
  /\ \/ /\ ~ att \/ "memory" \in usage
        /\ told' = [told EXCEPT ![r] = <<"refused">>]
        /\ UNCHANGED <<pending, request, bearer>>
     \/ /\ att
        /\ pending' = Append(pending, r)
        /\ request' = [request EXCEPT ![r] = New(kind, offset)]
        /\ IF kind = "command"
           THEN commands' = commands \union {r} /\ UNCHANGED line
           ELSE line' = Append(line, [req |-> r, live |-> TRUE]) /\ UNCHANGED commands
        /\ UNCHANGED told
  /\ UNCHANGED <<usage, alive, held, att, notes, frame, value, fault>>

ReadValue(r) == "requests" \in usage /\ Submit(r, "read", 0)
ReadMultiple(r) == "requests" \in usage /\ Submit(r, "multiple", 0)
WriteValue(r) == "requests" \in usage /\ Submit(r, "write", 0)
WriteWithoutResponse(r) == "requests" \in usage /\ Submit(r, "command", 0)
ReadLongValue(r, offset) ==
  /\ "long" \in usage
  /\ "far" \notin usage => offset <= MaxValueLen
  /\ Submit(r, "long", offset)

-----------------------------------------------------------------------------
(* Answers.                                                                *)

Answered == Head(line).req
Live == line # <<>> /\ Head(line).live
Idle == fault = "none" /\ frame = None

(* The user's callback is called; afterwards the bearer is done with the   *)
(* request.                                                                *)
Callback(r, outcome) ==
  /\ told' = [told EXCEPT ![r] = Append(@, outcome)]
  /\ frame' = [req |-> r, cur |-> None, frozen |-> None]

(* read_cb, read_multiple_cb, write_cb                                     *)
Respond(r) ==
  /\ Idle /\ Live /\ r = Answered
  /\ request[r].kind \in {"read", "multiple", "write"}
  /\ \E outcome \in {"ok", "failed"} : Callback(r, outcome)
  /\ UNCHANGED <<usage, client, bearer, notes, value, fault>>

(* What a server has at an offset of its value.                            *)
Blob(offset) ==
  [k \in 1 .. IF offset + Chunk <= value.length THEN Chunk ELSE value.length - offset
     |-> [at |-> offset + k, version |-> value.version]]

(* append_chunk; the length is unsigned, so that beyond the maximum more   *)
(* is copied than there is.                                                *)
Appended(r, blob) ==
  LET room == MaxValueLen - request[r].offset
      len == IF Len(blob) <= room THEN Len(blob) ELSE room
  IN [request[r] EXCEPT !.bytes = @ \o SubSeq(blob, 1, len), !.offset = @ + len]

(* Mutant of More: the last full chunk is taken for the end.                *)
More_Short(r, blob) ==
  Appended(r, blob).offset < MaxValueLen /\ Len(blob) > Chunk
(* Another READ BLOB is due behind a full one.                             *)
More(r, blob) ==
  Appended(r, blob).offset < MaxValueLen /\ Len(blob) >= Chunk

(* read_long_cb.  The next PDU has a reference of its own, before that of  *)
(* this one is given back; one that is refused leaves no att_id.           *)
RespondLong(r) ==
  LET offset == request[r].offset
      blob == Blob(offset)
  IN
  /\ Idle /\ Live /\ r = Answered
  /\ request[r].kind = "long"
  /\ \/ /\ Callback(r, "failed")
        /\ UNCHANGED <<request, line, fault>>
     \/ /\ offset <= value.length
        /\ IF blob # <<>> /\ offset > MaxValueLen
           THEN fault' = "overrun" /\ UNCHANGED <<request, line, told, frame>>
           ELSE /\ UNCHANGED fault
                /\ LET refused == [Appended(r, blob) EXCEPT !.sent = FALSE] IN
                   \/ /\ More(r, blob) /\ att
                      /\ request' = [request EXCEPT ![r] = Appended(r, blob)]
                      /\ line' = Append(Tail(line), Head(line))
                      /\ UNCHANGED <<told, frame>>
                   \/ /\ More(r, blob) /\ (att => "memory" \in usage)
                      /\ request' = [request EXCEPT ![r] = refused]
                      /\ Callback(r, "failed")
                      /\ UNCHANGED line
                   \/ /\ ~ More(r, blob)
                      /\ request' = [request EXCEPT ![r] = Appended(r, blob)]
                      /\ Callback(r, "ok")
                      /\ UNCHANGED line
  /\ UNCHANGED <<usage, alive, held, att, pending, next_id, commands, notes, value>>

(* handle_rsp behind the callback, and for a request without handlers      *)
Done ==
  /\ fault = "none" /\ line # <<>>
  /\ IF frame = None THEN ~ Live ELSE frame.req # None
  /\ line' = Tail(line)
  /\ frame' = None
  /\ IF Live
     THEN /\ Unref({Answered}, told)
          /\ IF alive \/ request[Answered].removed
             THEN pending' = Unlinked({Answered}) /\ UNCHANGED fault
             ELSE fault' = "client" /\ UNCHANGED pending
     ELSE UNCHANGED <<request, told, pending, fault>>
  /\ UNCHANGED <<usage, alive, held, att, next_id, commands, notes, value>>

(* The bearer has written a command.                                       *)
Transmit(r) ==
  /\ Idle /\ r \in commands
  /\ commands' = commands \ {r}
  /\ Unref({r}, told)
  /\ pending' = Unlinked({r})
  /\ UNCHANGED <<usage, alive, held, att, next_id, line, notes, frame, value, fault>>

-----------------------------------------------------------------------------
(* Cancelling, and the end of the client.                                  *)

Owned == {line[k].req : k \in {k \in DOMAIN line : line[k].live}} \union commands

(* bt_att_cancel for the requests in rs: what waits for its answer keeps   *)
(* its place in line, what was not sent leaves it.                         *)
Dropped(rs) ==
  LET Gone(k) == k > 1 /\ line[k].live /\ line[k].req \in rs
      kept == SelectSeq([k \in DOMAIN line |-> k], LAMBDA k : ~ Gone(k))
  IN [j \in DOMAIN kept |->
        IF line[kept[j]].req \in rs THEN [line[kept[j]] EXCEPT !.live = FALSE]
        ELSE line[kept[j]]]

(* cancel_request for the requests in rs.  Without an att_id the bearer    *)
(* keeps a request, which is then removed from its client.                 *)
CancelRequests(rs, st) ==
  LET known == {r \in rs : request[r].sent} IN
  /\ request' = [r \in Reqs |->
       IF r \in known THEN None
       ELSE IF r \in rs THEN [request[r] EXCEPT !.removed = TRUE] ELSE request[r]]
  /\ told' = [r \in Reqs |->
       IF r \in known THEN Append(st[r], "destroyed") ELSE st[r]]
  /\ pending' = Unlinked(rs)
  /\ line' = Dropped(known)
  /\ commands' = commands \ known

(* bt_gatt_client_cancel with the id that the user was given for meant     *)
Found(id) == SelectInSeq(pending, LAMBDA r : request[r].id = id)
(* Mutant of Cancel: the first request that is pending.                    *)
Cancel_First(meant) ==
  /\ MayCall /\ "cancel" \in usage /\ att
  /\ request[meant] # None
  /\ pending # <<>>
  /\ CancelRequests({pending[1]}, [told EXCEPT ![meant] = Append(@, "cancel")])
  /\ UNCHANGED <<usage, alive, held, att, next_id, notes, frame, value, fault>>
Cancel(meant) ==
  /\ MayCall /\ "cancel" \in usage /\ att
  /\ request[meant] # None
  /\ LET k == Found(request[meant].id) IN
       /\ k # 0
       /\ CancelRequests({pending[k]}, [told EXCEPT ![meant] = Append(@, "cancel")])
  /\ UNCHANGED <<usage, alive, held, att, next_id, notes, frame, value, fault>>

(* bt_gatt_client_cancel_all by the user                                   *)
CancelAll ==
  /\ MayCall /\ "cancel" \in usage /\ att
  /\ pending # <<>>
  /\ CancelRequests(ToSet(pending), [r \in Reqs |->
       IF r \in ToSet(pending) THEN Append(told[r], "cancel") ELSE told[r]])
  /\ UNCHANGED <<usage, alive, held, att, next_id, notes, frame, value, fault>>

(* bt_gatt_client_free, bt_gatt_client_cancel_all                          *)
FreeClient ==
  /\ alive' = FALSE /\ att' = FALSE
  /\ CancelRequests(ToSet(pending), told)
  /\ notify_list' = <<>>

(* bt_gatt_client_unref by the user; notify_cb has a reference of its own. *)
UnrefClient ==
  /\ MayCall /\ "unref" \in usage
  /\ held' = FALSE
  /\ IF frame # None /\ frame.req = None
     THEN UNCHANGED <<alive, att, pending, request, told, bearer, notify_list>>
     ELSE FreeClient
  /\ UNCHANGED <<usage, next_id, due, heard, frame, value, fault>>

(* disconnect_cb of the bearer, att_disconnect_cb                          *)
Disconnect ==
  /\ Idle /\ "drops" \in usage
  /\ alive => att
  /\ line # <<>> \/ commands # {} \/ att
  /\ line' = <<>> /\ commands' = {}
  /\ Unref(Owned, told)
  /\ pending' = Unlinked(Owned)
  /\ att' = FALSE
  /\ UNCHANGED <<usage, alive, held, next_id, notes, frame, value, fault>>

-----------------------------------------------------------------------------
(* Notifications.                                                          *)

(* notify_cb *)
Notification ==
  /\ Idle /\ alive /\ att
  /\ notify_list # <<>>
  /\ frame' = [req |-> None, cur |-> None, frozen |-> None]
  /\ due' = ToSet(notify_list) /\ heard' = {}
  /\ UNCHANGED <<usage, client, told, bearer, notify_list, value, fault>>

Behind(h) ==
  LET k == SelectInSeq(notify_list, LAMBDA x : x = h)
  IN IF k < Len(notify_list) THEN notify_list[k + 1] ELSE None
NextHandler ==
  IF frame.cur = None
  THEN IF notify_list = <<>> THEN None ELSE Head(notify_list)
  ELSE IF frame.cur \in ToSet(notify_list) THEN Behind(frame.cur) ELSE frame.frozen

(* notify_handler *)
Handle ==
  /\ fault = "none" /\ frame # None
  /\ frame.req = None
  /\ NextHandler # None
  /\ heard' = heard \union {NextHandler}
  /\ frame' = [frame EXCEPT !.cur = NextHandler]
  /\ UNCHANGED <<usage, client, told, bearer, notify_list, due, value, fault>>

(* A handler is unregistered, in a notification by itself.                 *)
UnregisterNotify(h) ==
  /\ MayCall /\ h \in ToSet(notify_list)
  /\ frame # None => frame.req = None /\ frame.cur = h
  /\ notify_list' = SelectSeq(notify_list, LAMBDA x : x # h)
  /\ due' = due \ {h}
  /\ frame' = IF frame = None THEN None ELSE [frame EXCEPT !.frozen = Behind(h)]
  /\ UNCHANGED <<usage, client, told, bearer, heard, value, fault>>

(* notify_cb gives its reference back.                                     *)
Notified ==
  /\ fault = "none" /\ frame # None
  /\ frame.req = None
  /\ NextHandler = None
  /\ frame' = None
  /\ IF held THEN UNCHANGED <<alive, att, pending, request, told, bearer, notify_list>>
     ELSE FreeClient
  /\ UNCHANGED <<usage, held, next_id, due, heard, value, fault>>

Change ==
  /\ Idle /\ "changes" \in usage /\ value.version = 0
  /\ value' = [value EXCEPT !.version = 1]
  /\ UNCHANGED <<usage, client, told, bearer, notes, frame, fault>>

-----------------------------------------------------------------------------
Calls ==
  \/ \E r \in Reqs :
       \/ ReadValue(r) \/ ReadMultiple(r) \/ WriteValue(r)
       \/ WriteWithoutResponse(r)
       \/ \E offset \in Offsets : ReadLongValue(r, offset)
       \/ Cancel(r)
  \/ CancelAll
  \/ UnrefClient
  \/ \E h \in Handlers : UnregisterNotify(h)

Loop ==
  \/ \E r \in Reqs : Respond(r) \/ RespondLong(r) \/ Transmit(r)
  \/ Done
  \/ Handle \/ Notified

Next == Calls \/ Loop \/ Disconnect \/ Notification \/ Change

(* The server answers, and callbacks return.                               *)
Spec == Init /\ [][Next]_vars /\ WF_vars(Loop)

-----------------------------------------------------------------------------
(* Properties.                                                             *)

(* pending_requests has what has not ended and was not cancelled, and each *)
(* of them waits for the bearer: no request stays behind without its       *)
(* destroy function having been called.                                    *)
PendingExact ==
  /\ ToSet(pending) = {r \in Reqs : request[r] # None /\ ~ request[r].removed}
  /\ Owned = {r \in Reqs : request[r] # None}
  /\ \A r \in Reqs : request[r] # None /\ request[r].removed => frame # None
  /\ ~ alive => pending = <<>>

(* A callback is called at most once, before the destroy function, and not *)
(* any more when the request was cancelled.  A request that was accepted   *)
(* is destroyed once; a refused one sees neither call.  A cancelled        *)
(* request is the one that was meant.                                      *)
Courses ==
  {<<>>, <<"refused">>, <<"destroyed">>, <<"cancel", "destroyed">>}
  \union {<<o>> \o rest : o \in {"ok", "failed"},
             rest \in {<<>>, <<"destroyed">>, <<"cancel">>, <<"cancel", "destroyed">>}}
ToldOnce ==
  \A r \in Reqs :
    /\ told[r] \in Courses
    /\ request[r] = None /\ told[r] # <<>> => Last(told[r]) \in {"refused", "destroyed"}

(* A long read that succeeds has the bytes of the value from its offset to *)
(* its end, or to the greatest length of a value, if the value stays.      *)
LongReadExact ==
  usage \intersect {"changes", "far"} = {} =>
    \A r \in Reqs :
      request[r] # None /\ request[r].kind = "long" /\ told[r] = <<"ok">> =>
        request[r].bytes =
          [k \in 1 .. value.length - request[r].start |->
             [at |-> request[r].start + k, version |-> 0]]

(* Nothing is used after it was freed or read beyond its end, for long     *)
(* reads that start in the value's greatest length: callbacks may cancel   *)
(* their own request and give up the client.                               *)
NoFault == "far" \notin usage => fault = "none"

(* A notification reaches the handlers that stay registered, also when     *)
(* others leave or the client is given up in one of them.                  *)
AllNotified ==
  frame = None /\ alive => due \subseteq heard

Inv ==
  /\ TypeOK
  /\ fault = "none" => PendingExact
  /\ NoFault /\ AllNotified

(* Every request that is accepted ends.                                    *)
RequestOver(r) == request[r] = None \/ fault # "none"
Ends == \A r \in Reqs : request[r] # None ~> RequestOver(r)

=============================================================================
