------------------------------ MODULE LEClient ------------------------------
(***************************************************************************)
(* le_client.cpp and l2_cap_socket.cpp: the life of an LEClient between    *)
(* the thread that constructs, uses and destroys it and the input thread,  *)
(* which runs the main loop.  The ATT bearer and the GATT client of this   *)
(* client appear as one discovery, a queue of writes without response, at  *)
(* most one request (the user waits for its answer) and the link.          *)
(*                                                                         *)
(* The user's thread hands its operations to the bearer without a lock.    *)
(* When it does while the input thread is in the write handler, the two    *)
(* meet: from then on, met, the list, its count and the handler need not   *)
(* fit together, and an operation or a wake-up may be lost.  (AttThreads   *)
(* has the statements; that a damaged list sends a freed operation again   *)
(* is left out here.)                                                      *)
(***************************************************************************)
EXTENDS Integers, Sequences, FiniteSets

CONSTANTS
  None,
  Worlds,       (* what happens, see world                                 *)
  MaxQueue      (* bound: writes that wait for the input thread            *)

ASSUME LEClientConstantsOK ==
  /\ MaxQueue \in Nat \ {0}
  /\ None \notin [value : Seq(Nat), state : {"queued", "sent", "answered"}]
  /\ Worlds \subseteq SUBSET
       {"absent", "memory", "slow", "drops", "silent", "chatty", "preempts", "meet",
        "noJoystick", "unplug", "held", "steers"}

VARIABLES
  world,        (* "absent": no connection; "memory": an allocation in the *)
                (* constructor fails; "slow": discovery fails or takes     *)
                (* more than five seconds; "drops": the link is lost;      *)
                (* "silent": a request stays without answer; "chatty":     *)
                (* notifications arrive; "preempts": the destructor runs   *)
                (* while the input thread is in a callback; "meet": the    *)
                (* two threads may meet; the others see Teleop             *)
  stage,        (* of the object, from its constructor to its destructor   *)
  gatt, att,    (* "none", "up" or "freed"                                 *)
  link,         (* "none", "up", "lost" until that is noticed, "down"      *)
  discovery,    (* "none", "going", "ok" or "failed"                       *)
  ready,        (* ready_                                                  *)
  write_queue,
  request,      (* None, or its value and "queued", "sent" or "answered"   *)
  promise,      (* the future.get() of write_value: "none", "waiting",     *)
                (* "set"                                                   *)
  writer,       (* the bearer has its write handler in the main loop       *)
  met,          (* the two threads have met in the bearer                  *)
  quit,         (* epoll_terminate                                         *)
  input,        (* where the input thread is                               *)
  event,        (* what epoll_wait has reported to it                      *)
  fault         (* "none", what was used after it was freed, or "null"     *)

objects == <<stage, gatt, att>>
handler == <<writer, met>>
bearer == <<link, discovery, ready, write_queue, request, promise, handler>>
loop == <<quit, input, event>>
client == <<objects, bearer, loop, fault>>

Events == {"write", "response", "discovered", "notification", "hangup"}
Stages == {"none", "socket", "thread", "wait", "built", "half", "thrown",
           "terminated", "quitting", "gatt_gone", "att_gone", "destroyed"}

ClientTypeOK ==
  /\ world \in Worlds
  /\ stage \in Stages
  /\ {gatt, att} \subseteq {"none", "up", "freed"}
  /\ link \in {"none", "up", "lost", "down"}
  /\ discovery \in {"none", "going", "ok", "failed"}
  /\ ready \in BOOLEAN
  /\ Len(write_queue) <= MaxQueue
  /\ request # None => request.state \in {"queued", "sent", "answered"}
  /\ promise \in {"none", "waiting", "set"}
  /\ {writer, met} \subseteq BOOLEAN
  /\ quit \in BOOLEAN
  /\ input \in {"none", "test", "wait", "fetched", "returning", "removing", "over"}
  /\ event \in Events \union {None}
  /\ fault \in {"none", "gatt", "att", "null"}

ClientInit ==
  /\ world \in Worlds
  /\ stage = "none" /\ gatt = "none" /\ att = "none"
  /\ link = "none" /\ discovery = "none" /\ ready = FALSE
  /\ write_queue = <<>> /\ request = None /\ promise = "none"
  /\ writer = FALSE /\ met = FALSE
  /\ quit = FALSE /\ input = "none" /\ event = None
  /\ fault = "none"

Runs == fault = "none" /\ stage # "terminated"

-----------------------------------------------------------------------------
(* The constructor, on the thread of the user.                             *)

(* L2CapSocket::L2CapSocket, which closes what it has opened and throws.   *)
Connect ==
  /\ Runs /\ stage = "none"
  /\ \/ "absent" \in world /\ stage' = "thrown" /\ UNCHANGED link
     \/ stage' = "socket" /\ link' = "up"
  /\ UNCHANGED <<world, gatt, att, discovery, ready, write_queue, request,
                 promise, handler, loop, fault>>

(* bt_att_new to bt_gatt_client_set_service_changed.  The constructor      *)
(* returns when a step fails; att_ keeps the address of what was freed.    *)
(* The new client starts the discovery.                                    *)
Create ==
  /\ Runs /\ stage = "socket"
  /\ \/ /\ stage' = "thread" /\ att' = "up" /\ gatt' = "up"
        /\ discovery' = "going"
        /\ UNCHANGED link
     \/ /\ "memory" \in world
        /\ stage' = "half" /\ att' \in {"none", "freed"}
        /\ link' = IF att' = "freed" THEN "down" ELSE link
        /\ UNCHANGED <<gatt, discovery>>
  /\ UNCHANGED <<world, ready, write_queue, request, promise, handler, loop,
                 fault>>

StartThread ==
  /\ Runs /\ stage = "thread"
  /\ stage' = "wait"
  /\ input' = "test"
  /\ UNCHANGED <<world, gatt, att, bearer, quit, event, fault>>

(* cv_.wait_for has seen ready_                                            *)
Constructed ==
  /\ Runs /\ stage = "wait" /\ ready
  /\ stage' = "built"
  /\ UNCHANGED <<world, gatt, att, bearer, loop, fault>>

(* After five seconds the constructor throws, and destroys the thread that *)
(* was not joined: std::terminate.                                         *)
GiveUp ==
  /\ Runs /\ stage = "wait" /\ ~ ready
  /\ "slow" \in world \/ link # "up"
  /\ stage' = "terminated"
  /\ UNCHANGED <<world, gatt, att, bearer, loop, fault>>

Construct == Connect \/ Create \/ StartThread \/ Constructed \/ GiveUp

-----------------------------------------------------------------------------
(* Writing, on the thread of the user.                                     *)

(* bt_gatt_client_write_value and ..._without_response want a client whose *)
(* bearer has its io.                                                      *)
Accepts == gatt = "up" /\ link \in {"up", "lost"}

(* The input thread is in the write handler, or on its way there.          *)
Meets == event = "write"
Apart == "meet" \notin world => ~ Meets

(* wakeup_writer, once there is something to send.                         *)
WakeUp(damaged) == writer' \in IF damaged THEN {writer, TRUE} ELSE {TRUE}

(* bt_att_send, which looks at the list and at the handler while the input *)
(* thread may be changing them.  The list may lose its tail just when it   *)
(* is used.                                                                *)
HandOver ==
  /\ Apart
  /\ met' = (met \/ Meets)
  /\ WakeUp(met')
  /\ \/ UNCHANGED fault
     \/ Meets /\ fault' = "null"

(* write_value without response: what is refused is lost.                  *)
WriteCommand(value) ==
  /\ Len(write_queue) < MaxQueue
  /\ \/ /\ Accepts
        /\ HandOver
        /\ \/ write_queue' = Append(write_queue, value)
           \/ met' /\ UNCHANGED write_queue
     \/ ~ Accepts /\ UNCHANGED <<write_queue, handler, fault>>
  /\ UNCHANGED <<world, objects, link, discovery, ready, request, promise, loop>>

(* write_value with response: it waits for the promise also when the       *)
(* request was refused.  No other request is in the list of the requests,  *)
(* so that this one is at least not unlinked.                              *)
WriteRequest(value) ==
  /\ promise = "none"
  /\ promise' = "waiting"
  /\ \/ /\ Accepts
        /\ HandOver
        /\ request' = [value |-> value, state |-> "queued"]
     \/ ~ Accepts /\ request' = None /\ UNCHANGED <<handler, fault>>
  /\ UNCHANGED <<world, objects, link, discovery, ready, write_queue, loop>>

Written ==
  /\ promise = "set"
  /\ promise' = "none"
  /\ UNCHANGED <<world, objects, link, discovery, ready, write_queue,
                 request, handler, loop, fault>>

-----------------------------------------------------------------------------
(* The destructor, on the thread of the user.                              *)

InCallback == input \in {"fetched", "returning", "removing"}
Undisturbed == "preempts" \notin world => ~ InCallback

(* Mutant of Quit: the main loop is not told.                               *)
Quit_Not ==
  /\ stage = "built"
  /\ stage' = "quitting"
  /\ UNCHANGED <<world, gatt, att, bearer, loop, fault>>

Quit ==
  /\ stage = "built"
  /\ stage' = "quitting" /\ quit' = TRUE
  /\ UNCHANGED <<world, gatt, att, bearer, input, event, fault>>

(* bt_gatt_client_unref, bt_att_unref: the last references.  The bearer    *)
(* goes with what it has not written.                                      *)
UnrefGatt ==
  /\ stage = "quitting" /\ Undisturbed
  /\ stage' = "gatt_gone" /\ gatt' = "freed"
  /\ request' = None
  /\ UNCHANGED <<world, att, link, discovery, ready, write_queue, promise,
                 handler, loop, fault>>

UnrefAtt ==
  /\ stage = "gatt_gone" /\ Undisturbed
  /\ stage' = "att_gone" /\ att' = "freed"
  /\ link' = "down" /\ write_queue' = <<>> /\ writer' = FALSE
  /\ UNCHANGED <<world, gatt, discovery, ready, request, promise, met, loop, fault>>

Join ==
  /\ stage = "att_gone" /\ input = "over"
  /\ stage' = "destroyed"
  /\ UNCHANGED <<world, gatt, att, bearer, loop, fault>>

Destruct == Runs /\ (Quit \/ UnrefGatt \/ UnrefAtt \/ Join)

-----------------------------------------------------------------------------
(* The peer and the link.                                                  *)

Answer ==
  /\ Runs /\ link = "up" /\ "silent" \notin world
  /\ request # None
  /\ request.state = "sent"
  /\ request' = [request EXCEPT !.state = "answered"]
  /\ UNCHANGED <<world, objects, link, discovery, ready, write_queue,
                 promise, handler, loop, fault>>

(* The link is lost; that of a silent peer when a request waits for it.    *)
Drop ==
  /\ Runs /\ link = "up"
  /\ \/ "drops" \in world
     \/ "silent" \in world /\ request # None
  /\ link' = "lost"
  /\ UNCHANGED <<world, objects, discovery, ready, write_queue, request,
                 promise, handler, loop, fault>>

-----------------------------------------------------------------------------
(* The input thread: process_input, mainloop_run.                          *)

Test ==
  /\ Runs /\ input = "test"
  /\ input' = IF quit THEN "over" ELSE "wait"
  /\ UNCHANGED <<world, objects, bearer, quit, event, fault>>

(* epoll_wait returns after 100 ms.                                        *)
Wake ==
  /\ Runs /\ input = "wait"
  /\ input' = "test"
  /\ UNCHANGED <<world, objects, bearer, quit, event, fault>>

(* The bearer watches its descriptor, up to its end and to the end of the  *)
(* link.                                                                   *)
Watched == link = "up" /\ att = "up"

Happens(e) ==
  CASE e = "write" -> Watched /\ writer
    [] e = "response" -> Watched /\ request # None /\ request.state = "answered"
    [] e = "discovered" -> Watched /\ discovery = "going"
    [] e = "notification" -> Watched /\ "chatty" \in world
    [] e = "hangup" -> link = "lost" /\ att = "up"

Fetch(e) ==
  /\ Runs /\ input = "wait"
  /\ Happens(e)
  /\ input' = "fetched" /\ event' = e
  /\ UNCHANGED <<world, objects, bearer, quit, fault>>

(* Whatever is called for a watched descriptor needs the bearer, and the   *)
(* watch that went with it.                                                *)
Enter(e, then) ==
  /\ Runs /\ input = "fetched" /\ event = e /\ att # "freed"
  /\ input' = then
  /\ UNCHANGED <<world, objects, event, fault>>

EnterFreed ==
  /\ Runs /\ input = "fetched" /\ att = "freed"
  /\ fault' = "att"
  /\ UNCHANGED <<world, objects, bearer, loop>>

(* Mutant of DispatchWrite: the request goes first.                         *)
DispatchWrite_Request(pdu) ==
  /\ Enter("write", "returning")
  /\ IF request # None /\ request.state = "queued"
     THEN /\ pdu = request.value
          /\ request' = [request EXCEPT !.state = "sent"]
          /\ UNCHANGED write_queue
     ELSE /\ write_queue # <<>>
          /\ pdu = Head(write_queue) /\ write_queue' = Tail(write_queue)
          /\ UNCHANGED request
  /\ UNCHANGED <<link, discovery, ready, promise, handler, quit>>

(* can_write_data, pick_next_send_op: pdu is written; what waits for no    *)
(* answer goes first.                                                      *)
DispatchWrite(pdu) ==
  /\ Enter("write", "returning")
  /\ IF write_queue # <<>>
     THEN /\ pdu = Head(write_queue) /\ write_queue' = Tail(write_queue)
          /\ UNCHANGED request
     ELSE /\ request # None
          /\ request.state = "queued"
          /\ pdu = request.value
          /\ request' = [request EXCEPT !.state = "sent"]
          /\ UNCHANGED write_queue
  /\ UNCHANGED <<link, discovery, ready, promise, handler, quit>>

(* Nothing can be sent, and the handler goes.                              *)
DispatchNothing ==
  /\ Enter("write", "removing")
  /\ write_queue = <<>> /\ (request # None => request.state # "queued")
  /\ UNCHANGED <<bearer, quit>>

(* Mutant of DispatchResponse: the promise is kept on success only.         *)
DispatchResponse_Success ==
  /\ Enter("response", "returning")
  /\ request' = None
  /\ promise' \in IF request # None THEN {"set", promise} ELSE {promise}
  /\ IF write_queue = <<>> THEN UNCHANGED writer ELSE WakeUp(met)
  /\ UNCHANGED <<link, discovery, ready, write_queue, met, quit>>

(* write_cb of the GATT client, LEClient::write_cb.  The client may be     *)
(* gone before the response is looked at, and with it the request.         *)
DispatchResponse ==
  /\ Enter("response", "returning")
  /\ request' = None
  /\ promise' = IF request # None THEN "set" ELSE promise
  /\ IF write_queue = <<>> THEN UNCHANGED writer ELSE WakeUp(met)
  /\ UNCHANGED <<link, discovery, ready, write_queue, met, quit>>

(* ready_cb tells the constructor of success only.  The write handler of   *)
(* the last request may not have gone yet.                                 *)
DispatchDiscovered ==
  /\ Enter("discovered", "returning")
  /\ \/ discovery' = "ok" /\ ready' = TRUE
     \/ "slow" \in world /\ discovery' = "failed" /\ UNCHANGED ready
  /\ writer' \in BOOLEAN
  /\ UNCHANGED <<link, write_queue, request, promise, met, quit>>

DispatchNotification ==
  /\ Enter("notification", "returning")
  /\ UNCHANGED <<bearer, quit>>

(* disconnect_cb of the bearer: what is pending is dropped, and only its   *)
(* destroy function called; LEClient::att_disconnect_cb ends the loop.     *)
DispatchHangup ==
  /\ Enter("hangup", "returning")
  /\ link' = "down" /\ writer' = FALSE
  /\ write_queue' = <<>> /\ request' = None
  /\ discovery' = IF discovery = "going" THEN "failed" ELSE discovery
  /\ quit' = TRUE
  /\ UNCHANGED <<ready, promise, met>>

(* Behind the callback the GATT client unlinks the request, and            *)
(* can_write_data uses the bearer, of which it holds no reference.         *)
Return ==
  /\ Runs /\ input = "returning"
  /\ IF event = "response" /\ gatt = "freed" THEN fault' = "gatt"
     ELSE IF event = "write" /\ att = "freed" THEN fault' = "att"
     ELSE UNCHANGED fault
  /\ input' = "test" /\ event' = None
  /\ UNCHANGED <<world, objects, bearer, quit>>

(* The write branch of io_callback, when can_write_data has found nothing: *)
(* write_watch_destroy, and the handler goes.  What the user's thread set  *)
(* in the meantime goes with it, or comes behind it.                       *)
RemoveWriter ==
  /\ Runs /\ input = "removing"
  /\ fault' = IF att = "freed" THEN "att" ELSE fault
  /\ writer' \in IF met THEN {FALSE, writer} ELSE {FALSE}
  /\ input' = "test" /\ event' = None
  /\ UNCHANGED <<world, objects, link, discovery, ready, write_queue, request,
                 promise, met, quit>>

Input ==
  \/ Test \/ Wake \/ EnterFreed \/ Return \/ RemoveWriter
  \/ DispatchNothing \/ DispatchResponse \/ DispatchDiscovered
  \/ DispatchNotification \/ DispatchHangup

=============================================================================
