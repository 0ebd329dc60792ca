----------------------------- MODULE GattNotify -----------------------------
(***************************************************************************)
(* Notification registrations of lib/bluez/gatt-client.c for one           *)
(* characteristic that has a Client Characteristic Configuration (CCC)     *)
(* descriptor.  The first registration writes the CCC, later ones wait for *)
(* that write and then share it, the last one to leave writes it again.    *)
(*                                                                         *)
(* The CCC writes go through the ATT bearer, which answers them one at a   *)
(* time in order (AttService) and does not fail here.  An assertion that   *)
(* fails, or a use of freed memory, stops the model: fault says which.     *)
(***************************************************************************)
EXTENDS Integers, Sequences, SequencesExt, FiniteSets

CONSTANTS
  Regs,       (* the struct notify_data of each registration               *)
  Usages      (* what may happen in a program that uses this, see usage    *)

NotifyConstantsOK == Usages \subseteq SUBSET
  {"early", "reentrant", "overlap", "changes"}

VARIABLES
  usage,             (* "early": callers unregister before they hear of    *)
                     (* success; "reentrant": registration callbacks call  *)
                     (* the API; "overlap": callers register while the CCC *)
                     (* is being switched off; "changes": the server       *)
                     (* reports that the service has changed               *)
  registered,        (* registrations made so far                          *)
  notify_list,       (* client->notify_list, in no order that matters here *)
  reg_notify_queue,  (* chrc->reg_notify_queue                             *)
  notify_count,      (* chrc->notify_count                                 *)
  ccc_write_id,      (* chrc->ccc_write_id # 0                             *)
  att_id,            (* registrations whose att_id # 0                     *)
  refs,              (* notify_data->ref_count; 0 once freed               *)
  chrc_freed,        (* notify_chrc_free has run                           *)
  told,              (* history: what the register callback was told       *)
  line,              (* CCC writes handed to the bearer and not done with  *)
  answering,         (* what is left of the handler of the line's head     *)
  draining,          (* registrations the handler has yet to complete      *)
  ccc,               (* the server's CCC: does it notify this client?      *)
  fault              (* "none", "assert" or "freed"                        *)

chrc == <<reg_notify_queue, notify_count, ccc_write_id, chrc_freed>>
data == <<notify_list, att_id, refs, told>>
handler == <<answering, draining>>
vars == <<usage, registered, chrc, data, line, handler, ccc, fault>>

(* A write that is cancelled on the wire keeps its place without a handler. *)
CccWrite == [reg : Regs, enable : BOOLEAN, cancelled : BOOLEAN]

TypeOK ==
  /\ usage \in Usages
  /\ registered \subseteq Regs
  /\ notify_list \subseteq registered /\ att_id \subseteq registered
  /\ reg_notify_queue \in Seq(Regs) /\ draining \in Seq(Regs)
  /\ notify_count \in Int
  /\ refs \in [Regs -> Nat]
  /\ told \in [Regs -> {"nothing", "success", "error"}]
  /\ line \in Seq(CccWrite)
  /\ answering \in {"no", "success", "error"}
  /\ {ccc_write_id, chrc_freed, ccc} \subseteq BOOLEAN
  /\ fault \in {"none", "assert", "freed"}

Init ==
  /\ usage \in Usages
  /\ registered = {} /\ notify_list = {} /\ att_id = {}
  /\ reg_notify_queue = <<>> /\ draining = <<>>
  /\ notify_count = 0
  /\ ccc_write_id = FALSE /\ chrc_freed = FALSE /\ ccc = FALSE
  /\ refs = [n \in Regs |-> 0]
  /\ told = [n \in Regs |-> "nothing"]
  /\ line = <<>>
  /\ answering = "no"
  /\ fault = "none"

Stop(what) ==
  /\ fault' = what
  /\ UNCHANGED <<usage, registered, chrc, data, line, handler, ccc>>

(* May the API be called now?  The client must still be running.           *)
Callable == fault = "none" /\ ("reentrant" \in usage \/ answering = "no")

(* complete_notify_request, without its reference counts                   *)
Complete(n) ==
  /\ notify_count' = notify_count + 1
  /\ att_id' = att_id \ {n}
  /\ told' = [told EXCEPT ![n] = "success"]

(* notify_data_write_ccc on top of the line rest.                          *)
WriteCcc(n, enable, rest) ==
  /\ line' = Append(rest, [reg |-> n, enable |-> enable, cancelled |-> FALSE])
  /\ ccc_write_id' = TRUE
  /\ att_id' = att_id \union {n}

-----------------------------------------------------------------------------
(* API calls.                                                              *)

SwitchingOff == \E i \in DOMAIN line : ~ line[i].enable
MayRegister == Callable /\ ("overlap" \in usage \/ ~ SwitchingOff)

(* Mutant of Register: does not wait for the CCC write in progress.         *)
Register_NotQueued(n) ==
  /\ MayRegister
  /\ ~ chrc_freed
  /\ n \notin registered
  /\ registered' = registered \union {n}
  /\ notify_list' = notify_list \union {n}
  /\ \/ /\ ccc_write_id \/ notify_count > 0
        /\ refs' = [refs EXCEPT ![n] = 1]
        /\ Complete(n)
        /\ UNCHANGED <<reg_notify_queue, ccc_write_id, line>>
     \/ /\ ~ ccc_write_id /\ notify_count <= 0
        /\ refs' = [refs EXCEPT ![n] = 2]
        /\ WriteCcc(n, TRUE, line)
        /\ UNCHANGED <<reg_notify_queue, notify_count, told>>
  /\ UNCHANGED <<usage, chrc_freed, handler, ccc, fault>>

(* bt_gatt_client_register_notify                                          *)
Register(n) ==
  /\ MayRegister
  /\ ~ chrc_freed
  /\ n \notin registered
  /\ registered' = registered \union {n}
  /\ notify_list' = notify_list \union {n}
  /\ \/ /\ ccc_write_id
        /\ refs' = [refs EXCEPT ![n] = 1]
        /\ reg_notify_queue' = Append(reg_notify_queue, n)
        /\ UNCHANGED <<notify_count, ccc_write_id, att_id, told, line>>
     \/ /\ ~ ccc_write_id /\ notify_count > 0
        /\ refs' = [refs EXCEPT ![n] = 1]
        /\ Complete(n)
        /\ UNCHANGED <<reg_notify_queue, ccc_write_id, line>>
     \/ /\ ~ ccc_write_id /\ notify_count <= 0
        /\ refs' = [refs EXCEPT ![n] = 2]
        /\ WriteCcc(n, TRUE, line)
        /\ UNCHANGED <<reg_notify_queue, notify_count, told>>
  /\ UNCHANGED <<usage, chrc_freed, handler, ccc, fault>>

MayUnregister(n) ==
  /\ Callable
  /\ n \in notify_list
  /\ "early" \in usage \/ told[n] = "success"

(* bt_gatt_client_unregister_notify: assert(notify_count > 0) and          *)
(* assert(!ccc_write_id).                                                  *)
UnregisterFails(n) ==
  /\ MayUnregister(n)
  /\ notify_count <= 0 \/ ccc_write_id
  /\ Stop("assert")

(* ... and complete_unregister_notify: the last handler to leave switches  *)
(* the CCC off.                                                            *)
MayUnregisterNow(n) == MayUnregister(n) /\ notify_count > 0 /\ ~ ccc_write_id

Unregister(n) ==
  /\ MayUnregisterNow(n)
  /\ n \notin att_id
  /\ notify_list' = notify_list \ {n}
  /\ notify_count' = notify_count - 1
  /\ IF notify_count = 1
     THEN WriteCcc(n, FALSE, line) /\ refs' = [refs EXCEPT ![n] = @ + 1]
     ELSE /\ refs' = [refs EXCEPT ![n] = @ - 1]
          /\ UNCHANGED <<line, ccc_write_id, att_id>>
  /\ UNCHANGED <<usage, registered, reg_notify_queue, chrc_freed, told,
                 handler, ccc, fault>>

(* With a CCC write of its own pending, past the assertions, it is that    *)
(* write which is cancelled: unlinked, or on the wire without its handler. *)
UnregisterPending(n) ==
  /\ MayUnregisterNow(n)
  /\ n \in att_id
  /\ notify_list' = notify_list \ {n}
  /\ \E i \in DOMAIN line :
       /\ line[i].reg = n /\ line[i].enable
       /\ \/ line' = RemoveAt(line, i)
          \/ i = 1 /\ answering = "no"
               /\ line' = [line EXCEPT ![1].cancelled = TRUE]
  /\ refs' = [refs EXCEPT ![n] = @ - 2]
  /\ UNCHANGED <<usage, registered, chrc, att_id, told, handler, ccc, fault>>

(* process_service_changed: every registration of the characteristic is    *)
(* unreferenced from notify_list, then those in its queue are again, and   *)
(* the characteristic is freed, whatever is on the line.                   *)
ListRefs(n) == IF n \in notify_list THEN 1 ELSE 0
QueueRefs(n) == IF n \in ToSet(reg_notify_queue) THEN 1 ELSE 0

ServiceChanged ==
  /\ "changes" \in usage
  /\ fault = "none" /\ answering = "no" /\ ~ chrc_freed
  /\ IF \E n \in registered : refs[n] < ListRefs(n) + QueueRefs(n)
     THEN Stop("freed")
     ELSE /\ refs' = [n \in Regs |-> refs[n] - ListRefs(n) - QueueRefs(n)]
          /\ notify_list' = {}
          /\ reg_notify_queue' = <<>>
          /\ chrc_freed' = TRUE
          /\ UNCHANGED <<usage, registered, notify_count, ccc_write_id,
                         att_id, told, line, handler, ccc, fault>>

-----------------------------------------------------------------------------
(* Answers to CCC writes.                                                  *)

AnswerTo(enable) ==
  /\ fault = "none" /\ answering = "no"
  /\ line # <<>> /\ Head(line).enable = enable /\ ~ Head(line).cancelled

(* The handlers dereference chrc, and assert(!notify_count) and            *)
(* assert(ccc_write_id).                                                   *)
HandlerOK == ~ chrc_freed /\ notify_count = 0 /\ ccc_write_id
HandlerFails ==
  /\ AnswerTo(TRUE) \/ AnswerTo(FALSE)
  /\ ~ HandlerOK
  /\ Stop(IF chrc_freed THEN "freed" ELSE "assert")

(* enable_ccc_callback, success: the request completes; those queued are   *)
(* detached, to be completed in turn.                                      *)
Enabled ==
  /\ AnswerTo(TRUE) /\ HandlerOK
  /\ ccc' = TRUE
  /\ ccc_write_id' = FALSE
  /\ Complete(Head(line).reg)
  /\ draining' = reg_notify_queue
  /\ reg_notify_queue' = <<>>
  /\ answering' = "success"
  /\ UNCHANGED <<usage, registered, notify_list, refs, chrc_freed, line,
                 fault>>

CompleteQueued ==
  /\ answering = "success" /\ fault = "none"
  /\ draining # <<>>
  /\ Complete(Head(draining))
  /\ draining' = Tail(draining)
  /\ UNCHANGED <<usage, registered, reg_notify_queue, ccc_write_id,
                 chrc_freed, notify_list, refs, line, answering, ccc, fault>>

(* enable_ccc_callback, error: the request is told.                        *)
EnableRefused ==
  /\ AnswerTo(TRUE) /\ HandlerOK
  /\ ccc_write_id' = FALSE
  /\ notify_list' = notify_list \ {Head(line).reg}
  /\ told' = [told EXCEPT ![Head(line).reg] = "error"]
  /\ answering' = "error"
  /\ UNCHANGED <<usage, registered, reg_notify_queue, notify_count,
                 chrc_freed, att_id, refs, line, draining, ccc, fault>>

(* Mutant of NextInQueue: a refusal ends the wait of those in the queue.    *)
NextInQueue_Forgotten(rest) ==
  /\ line' = rest
  /\ refs' = [refs EXCEPT ![Head(line).reg] = @ - 1]
  /\ UNCHANGED <<reg_notify_queue, ccc_write_id, att_id>>

(* The end of a handler: unless the CCC was enabled, the next request in   *)
(* the queue writes it; the bearer drops the head's reference.             *)
NextInQueue(rest) ==
  IF reg_notify_queue = <<>>
  THEN /\ line' = rest
       /\ refs' = [refs EXCEPT ![Head(line).reg] = @ - 1]
       /\ UNCHANGED <<reg_notify_queue, ccc_write_id, att_id>>
  ELSE LET n == Head(reg_notify_queue) IN
       /\ WriteCcc(n, TRUE, rest)
       /\ refs' = [refs EXCEPT ![Head(line).reg] = @ - 1, ![n] = @ + 1]
       /\ reg_notify_queue' = Tail(reg_notify_queue)

EnableDone ==
  /\ fault = "none"
  /\ \/ /\ answering = "success" /\ draining = <<>>
        /\ line' = Tail(line)
        /\ refs' = [refs EXCEPT ![Head(line).reg] = @ - 1]
        /\ UNCHANGED <<reg_notify_queue, ccc_write_id, att_id>>
     \/ answering = "error" /\ NextInQueue(Tail(line))
  /\ answering' = "no"
  /\ UNCHANGED <<usage, registered, notify_count, chrc_freed, notify_list,
                 told, draining, ccc, fault>>

(* disable_ccc_callback: a best effort, errors are ignored.  The next      *)
(* request leaves the queue, but it is the request that switched the CCC   *)
(* off which writes it again, on: the code passes notify_data where        *)
(* next_data was meant.                                                    *)
Disabled ==
  /\ AnswerTo(FALSE) /\ HandlerOK
  /\ ccc' \in {FALSE, ccc}
  /\ IF reg_notify_queue = <<>>
     THEN /\ ccc_write_id' = FALSE
          /\ line' = Tail(line)
          /\ refs' = [refs EXCEPT ![Head(line).reg] = @ - 1]
          /\ UNCHANGED <<reg_notify_queue, att_id>>
     ELSE /\ WriteCcc(Head(line).reg, TRUE, Tail(line))
          /\ reg_notify_queue' = Tail(reg_notify_queue)
          /\ UNCHANGED refs
  /\ UNCHANGED <<usage, registered, notify_count, chrc_freed, notify_list,
                 told, handler, fault>>

(* The answer to a cancelled write: the server took it, or refused it.     *)
CancelledAnswered ==
  /\ fault = "none" /\ answering = "no"
  /\ line # <<>> /\ Head(line).cancelled
  /\ ccc' \in {TRUE, ccc}
  /\ line' = Tail(line)
  /\ UNCHANGED <<usage, registered, chrc, data, handler, fault>>

-----------------------------------------------------------------------------
Answer == Enabled \/ CompleteQueued \/ EnableRefused \/ EnableDone \/ Disabled
            \/ CancelledAnswered \/ HandlerFails

Next ==
  \/ \E n \in Regs : Register(n) \/ UnregisterFails(n) \/ Unregister(n)
                       \/ UnregisterPending(n)
  \/ ServiceChanged
  \/ Answer

Spec == Init /\ [][Next]_vars

(* The peer answers.                                                       *)
FairSpec == Spec /\ WF_vars(Answer)

-----------------------------------------------------------------------------
(* Properties.                                                             *)

(* No assertion of gatt-client.c fails.                                    *)
AssertionsHold == fault # "assert"

(* ... none does while callers unregister only handlers that were told of  *)
(* success, and outside registration callbacks.                            *)
Polite == usage \subseteq {"overlap", "changes"}
AssertionsHoldPolite == Polite => AssertionsHold

(* Whatever still points to a registration keeps it allocated, and nobody  *)
(* touches the characteristic once it is freed.                            *)
PointedTo == notify_list \union ToSet(reg_notify_queue) \union ToSet(draining)
               \union {line[i].reg : i \in DOMAIN line}
NoUseAfterFree == fault # "freed" /\ \A n \in PointedTo : refs[n] > 0

(* ... until the service changes, unless a registration callback           *)
(* unregisters a handler that is still waiting to be told: the handlers    *)
(* that enable_ccc_callback has yet to complete are not looked for.        *)
Mild == ~ ({"early", "reentrant"} \subseteq usage)
NoUseAfterFreeUnchanged == "changes" \notin usage /\ Mild => NoUseAfterFree

(* notify_count counts the handlers that were told of success and have not *)
(* been unregistered, as long as nobody unregisters before being told or   *)
(* registers while the CCC is being switched off.                          *)
CountExact ==
  usage \subseteq {"changes"} /\ ~ chrc_freed =>
    notify_count = Cardinality({n \in notify_list : told[n] = "success"})

(* A handler that was told of success and is still registered is one the   *)
(* server does notify: its CCC has not been switched off underneath it     *)
(* (unless somebody registered while it was being switched off).           *)
SubscribersEnabled ==
  /\ "overlap" \notin usage
  /\ \E n \in notify_list : told[n] = "success"
  => ccc

(* A registered handler with an ATT request of its own has a CCC write in  *)
(* progress, so that the assertions forbid it to leave: what makes the     *)
(* "cancel it and return" of complete_unregister_notify dead code, unless  *)
(* registration callbacks call the API.                                    *)
PendingMeansWrite ==
  "reentrant" \notin usage /\ notify_list \intersect att_id # {} => ccc_write_id

Inv ==
  /\ TypeOK
  /\ AssertionsHoldPolite /\ NoUseAfterFreeUnchanged
  /\ CountExact /\ PendingMeansWrite

(* "Pending calls to register_notify are queued here so that they can be   *)
(* processed after a write": every registration hears what became of it,   *)
(* unless it leaves before, the service changes or an assertion fails.     *)
RegistrationOver(n) ==
  told[n] # "nothing" \/ n \notin notify_list \/ chrc_freed \/ fault # "none"
EveryRegistrationAnswered ==
  \A n \in Regs : n \in registered ~> RegistrationOver(n)

(* ... as long as nobody registers while the CCC is being switched off.    *)
AnsweredWithoutOverlap ==
  \A n \in Regs : n \in registered /\ "overlap" \notin usage ~> RegistrationOver(n)

=============================================================================
