---------------------------- MODULE MCGattClient ----------------------------
(***************************************************************************)
(* Three parts of lib/bluez/gatt-client.c in one run: long writes and      *)
(* sessions (two long writes and one session of two PDUs each), the        *)
(* registrations for one characteristic, the requests of one PDU with the  *)
(* notifications.  They share no state but the bearer, so each behaviour   *)
(* is one of one part and the variables of the others are None.            *)
(***************************************************************************)
EXTENDS Integers, Sequences, TLC

CONSTANTS Long, Session, Regs, Reqs, Handlers, None

TwoChunks == [r \in Long \union Session |-> 2]
LongUsages ==
  {{"long"}, {"session"}, {"long", "session"}, {"long", "session", "cancel"},
   {"shell", "strays", "long", "session"}, {"shell", "session", "cancel"},
   {"blocking", "long", "session"}, {"blocking", "long", "session", "cancel"},
   {"blocking", "strays", "long", "session"}}
NotifyUsages ==
  {{}, {"early"}, {"reentrant"}, {"changes"}, {"overlap", "changes"},
   {"early", "reentrant", "overlap", "changes"}}
RequestUsages ==
  {{"requests", "cancel", "inside", "unref", "drops"},
   {"requests", "cancel"},
   {"requests", "long", "memory", "cancel"},
   {"long", "memory", "cancel", "inside", "unref"},
   {"long", "cancel", "inside", "unref", "drops"},
   {"long", "changes"}, {"long", "far"},
   {"notify", "inside", "unref", "drops"}}

VARIABLES
  part,
  usage, in_long_write, session, long_write_queue, created, refs, removed,
  started, data, chunk, line, in_callback, ended, prepared, commit,
  reliable_session_id, caller, unverified,
  registered, notify_list, reg_notify_queue, notify_count, ccc_write_id,
  att_id, chrc_freed, told, answering, draining, ccc, fault, alive, held,
  att, pending, next_id, request, commands, frame, due, heard, value

L == INSTANCE GattCallers WITH Chunks <- TwoChunks, Usages <- LongUsages
N == INSTANCE GattNotify WITH Usages <- NotifyUsages
R == INSTANCE GattRequests
       WITH Chunk <- 2, MaxValueLen <- 4, Lengths <- {1, 2, 4, 6},
            Offsets <- {0, 1, 5}, MaxId <- 3, Usages <- RequestUsages

ASSUME ClientConstantsOK ==
  L!GattConstantsOK /\ N!NotifyConstantsOK /\ R!RequestsConstantsOK

vars == <<part, usage, in_long_write, session, long_write_queue, created, refs,
          removed, started, data, chunk, line, in_callback, ended, prepared,
          commit, reliable_session_id, caller, unverified, registered, notify_list, reg_notify_queue, notify_count,
          ccc_write_id, att_id, chrc_freed, told, answering, draining, ccc,
          fault, alive, held, att, pending, next_id, request, commands,
          frame, due, heard, value>>

WritingInit ==
  /\ part = "long" /\ L!CallersInit
  /\ registered = None /\ notify_list = None /\ reg_notify_queue = None
  /\ notify_count = None /\ ccc_write_id = None /\ att_id = None
  /\ chrc_freed = None /\ told = None /\ answering = None
  /\ draining = None /\ ccc = None /\ fault = None /\ alive = None
  /\ held = None /\ att = None /\ pending = None /\ next_id = None
  /\ request = None /\ commands = None /\ frame = None /\ due = None
  /\ heard = None /\ value = None
Writing(Step) ==
  /\ part = "long" /\ Step
  /\ UNCHANGED <<part, registered, notify_list, reg_notify_queue, notify_count,
                 ccc_write_id, att_id, chrc_freed, told, answering,
                 draining, ccc, fault, alive, held, att, pending, next_id,
                 request, commands, frame, due, heard, value>>

RegisteringInit ==
  /\ part = "notify" /\ N!Init
  /\ in_long_write = None /\ session = None /\ long_write_queue = None
  /\ created = None /\ removed = None /\ started = None /\ data = None
  /\ chunk = None /\ in_callback = None /\ ended = None /\ prepared = None
  /\ commit = None /\ reliable_session_id = None /\ caller = None
  /\ unverified = None /\ alive = None /\ held = None /\ att = None
  /\ pending = None /\ next_id = None /\ request = None /\ commands = None
  /\ frame = None /\ due = None /\ heard = None /\ value = None
Registering(Step) ==
  /\ part = "notify" /\ Step
  /\ UNCHANGED <<part, in_long_write, session, long_write_queue, created, removed,
                 started, data, chunk, in_callback, ended, prepared, commit,
                 reliable_session_id, caller, unverified, alive, held, att, pending, next_id, request, commands,
                 frame, due, heard, value>>

RequestingInit ==
  /\ part = "requests" /\ R!Init
  /\ in_long_write = None /\ session = None /\ long_write_queue = None
  /\ created = None /\ refs = None /\ removed = None /\ started = None
  /\ data = None /\ chunk = None /\ in_callback = None /\ ended = None
  /\ prepared = None /\ commit = None /\ reliable_session_id = None
  /\ caller = None /\ unverified = None /\ registered = None
  /\ reg_notify_queue = None /\ notify_count = None /\ ccc_write_id = None
  /\ att_id = None /\ chrc_freed = None /\ answering = None
  /\ draining = None /\ ccc = None
Requesting(Step) ==
  /\ part = "requests" /\ Step
  /\ UNCHANGED <<part, in_long_write, session, long_write_queue, created, refs,
                 removed, started, data, chunk, in_callback, ended,
                 prepared, commit, reliable_session_id, caller, unverified,
                 registered, reg_notify_queue,
                 notify_count, ccc_write_id, att_id, chrc_freed, answering,
                 draining, ccc>>

Init == WritingInit \/ RegisteringInit \/ RequestingInit
Next == Writing(L!CallersNext) \/ Registering(N!Next) \/ Requesting(R!Next)

(* Each part's own fairness: the peer answers, callbacks return, whoever   *)
(* opens a session ends it.                                                *)
Spec ==
  /\ Init /\ [][Next]_vars
  /\ WF_vars(Writing(L!CallersAnswer) \/ Registering(N!Answer) \/ Requesting(R!Loop))
  /\ \A r \in Session : SF_vars(Writing(L!EndSession(r)))

-----------------------------------------------------------------------------
(* Properties: those of the parts.                                         *)

(* References are counted, what a handler is given is what it takes it     *)
(* for, assertions hold, nothing is used after it was freed and every      *)
(* handler that stays hears a notification: gatt-client.c's bookkeeping in *)
(* each of its parts, under the uses that their invariants name.           *)
Inv ==
  /\ part = "long" => L!CallersInv
  /\ part = "notify" => N!Inv
  /\ part = "requests" => R!Inv

(* "We avoid interleaving prepared writes", for callers that keep to long  *)
(* writes or to sessions.                                                  *)
NeverMixedAlone == part = "long" => L!NeverMixedAlone

(* The CCC stays on while somebody who was told of success is registered.  *)
SubscribersEnabled == part = "notify" => N!SubscribersEnabled

(* The course of a request's calls: one callback at most, one destroy, and *)
(* cancellation reaches the request that was meant.                        *)
ToldOnce == part = "requests" => R!ToldOnce

(* A long read that succeeds has the whole value.                          *)
LongReadExact == part = "requests" => R!LongReadExact

(* Long writes, registrations and requests end: the user is told.          *)
Ends ==
  /\ \A r \in Long :
       part = "long" /\ r \in created /\ "blocking" \notin usage
         ~> (part = "long" => L!WriteOver(r))
  /\ part = "long" /\ caller # None ~> (part = "long" => caller = None \/ L!Hopeless)
  /\ \A n \in Regs :
       part = "notify" /\ n \in registered /\ "overlap" \notin usage
         ~> (part = "notify" => N!RegistrationOver(n))
  /\ \A r \in Reqs :
       part = "requests" /\ request[r] # None
         ~> (part = "requests" => R!RequestOver(r))

=============================================================================
